# Reno News in TLA+

Reno News collects entries from RSS, GitHub and arXiv sources, extracts and
analyses their text, and shows them to readers, who can mark them and read
frozen digest editions. This directory specifies the parts of it whose
correctness depends on more than one step: concurrent transactions, retries,
crashes, stale copies in browsers, state files of a deployment. Every module is
translated from the code; `PROJECT.json` maps each definition to the lines it
stands for.

Run a model from this directory with `tlc -config <run>.cfg <module>` and check
proofs with `tlapm <module>.tla`.

## 1. The system

| Component | State | Operations | Module |
| --- | --- | --- | --- |
| Source ingest (`services/worker`: `scheduler`, `tasks`, `source_ingest`, `*_ingest`) | `raw_entries`, `source_ingest_attempts`, the Dramatiq queue, open transactions | schedule, receive, dispatch by type, read policy, fetch, insert each entry, record, ack, retry | `Ingest`, `IngestLedger` |
| Extraction and analysis (`extraction`, `ai_evaluation`, `translation`, `summary_blocks`) | processing stage, extraction attempts, one extraction per entry, `model_calls`, three output tables | one run of a stage: prefilter, outside call, insert of its record, insert of its output, commit | `ContentPipeline` |
| MiniMax adapter (`ai_evaluation`) | the posts of one evaluation, its answer, `model_calls`, `ai_evaluations` | post with retries, classify, parse, gate and repair, record | `MiniMaxCalls` |
| Administration API (`sourceRepository`, `rawEntryRepository`, `feedbackRepository`, `app.ts`, the admin pages' forms) | `sources` joined with `source_policies`, lifecycle of entries, reviews of feedback, `audit_events`, open transactions | create, update, hide and restore, review, audit; forms asked for through the web server | `AdminApi`, `SourceVersions` |
| Sessions and login (`auth.ts`, `authRepository`, `app.ts`, the web proxies) | `user_sessions`, `auth_login_attempts`, `audit_events`, cookies | login, logout, guarded requests, expiry, disablement, late answers | `Logins`, `AdminSessions` |
| Personal state (`personalState.ts`, `PersonalControls`, `PersonalPageClient`, `personalStateRepository`) | the tables of marks, each browser's local storage and migration marker, each control's React state, requests on the way | mount and sync, click, answer, unmount, change of session | `PersonalSync` |
| Reader queries (`readerRepository`, the reader's pages) | what is visible, feedback, summaries, a reader's open page | list and search page by page, select a digest, show an entry with its related ones, send feedback | `ReaderItems`, `ReaderPages` |
| Digest editions (`digestEditionRepository`) | editions with their items | generate, replay | `DigestEditions` |
| Deployment (`scripts/deploy-production.sh`, `docker-publish.yml`) | images of each service, tags, two state files | publish, pull, migrate, up, health check, record, roll back | `Deploy` |
| Migration runner (`packages/db/src/runner.ts`) | `schema_migrations`, what each runner has yet to apply | read, apply one by one, fail | `Migrations` |
| Failure queue (`failureQueueRepository`, `renderApiMetrics`) | none of its own | list, count | `ContentPipeline` |

How they interact. The API and the worker share nothing but PostgreSQL: the API
changes sources, the worker reads them; the worker writes entries and texts, the
API reads them. The worker's runs come from Redis (Dramatiq, at least once) or
from its own HTTP server. The browser talks to the web application, which passes
the cookie on to the API. The deployment script replaces all of them and
migrates their database.

What is hard about it:

* *Interleaving of transactions* at READ COMMITTED with unique indexes: an
  insert waits for another transaction's uncommitted row and then inserts
  nothing; waits form cycles; a read is stale by the time of the write.
* *Retries and crashes*: Dramatiq repeats a message after an exception and
  delivers it again after a crash; a transaction disappears with its process.
* *Statements without a transaction*: a login or an audited change is several
  commits, and any of them may be the last.
* *Time between a check and its use*: the source's policy before the fetch, the
  session before the handler, the digest before its insert, the migrations read
  before they are applied.
* *Answers out of order*: several tabs share one cookie, several controls one
  local storage.
* *Copies*: rights copied into an entry, marks copied into local storage and
  into every mounted control, items frozen into an edition.
* *A provider and a registry that answer anything*: error classes, malformed
  output, tags that move.

The properties that make each part correct are the ones section 3 lists; what
can go wrong, and at which line, is in `PROJECT.json` under `hazards`.

Notes on what runs. In `infra/compose/compose.yml:97-103` the service called
`scheduler` runs `python -m reno_worker`, the HTTP server; nothing in the
deployment runs `reno_worker.scheduler` or a Dramatiq worker, and evaluation,
translation and summary are called only by tests. The modules specify these
programs as written, with any number of processes running them. The default
limit of 20 retries is Dramatiq's; `Ingest` has it as `MaxRetries`.

## 2. Modules

Names of variables and actions follow the code. Where a definition carries a
`Mutant of` comment it is a wrong variant of the definition after it, used to
show that a property can fail; nothing else refers to it.

**RawEntries, IngestLedger, Ingest.** `RawEntries` has the rows and when two of
them collide: same canonical hash, or same source and external id.
`Ingest` has one action per database statement of a run (`ReadType`,
`ReadSource`, `Fetch`, `InsertEntry`, `RecordAttempt`), the broker (`SendTask`,
`Receive`, `Ack`, retry in `Raise`), a manual POST, deadlock detection, lost
connections, crashes, and an administrator who changes configurations.
`UpdateSource` is one step: that the registry really changes whole
configurations is what `AdminApi` shows by implementing `SourceVersions`.
`InsertEntry` is disabled while the row it would insert collides with a row of
another open transaction; `DeadlockAbort` fires for a run in a cycle of such
waits. `IngestLedger` is the abstract specification: an ingest is one atomic
step that adds exactly what the feed has and the table lacks, with its attempt.

**ContentPipeline.** Up to three steps per run: read, go outside, and come back with
the insert of the attempt or model call, which draws its id, then the insert of the
text or output that names that id, with the commit. Other runs' inserts may come, or
the run be cut off, between any two. A text is named by the attempt that fetched it,
so "this output is of that text" can be said without any text. `ChangePolicy` is the
registry again, and `IngestFails` what a failed run of `Ingest` leaves for the list of
failures. `FailureQueue` is that list: of all failures the newest `FailureLimit`, by the
moment their transaction began (the number of the run), and `Backlog` is the gauge of a
stage, which counts no further than the list goes.

**MiniMaxCalls.** One evaluation at a time against a provider that may time out,
fail or return any status and any shape of answer. A field of an answer is absent, of
the wrong type, of the right type but against the schema that was sent (`loose`), or
good; `validate_output` cannot tell the last two apart, nor can the gate of the model.
Outcomes of posts are kept as history with the recorded call.

**AdminSessions, Logins.** `AdminSessions` says what a session is to the rest of
the system: opened for one browser, handed over at most once, ended for ever.
`Logins` has the statements behind it, one action each (`FindUser`, `LookForInvite`,
`CreateSession`, `RecordLoginAttempt`, `RecordAuditEvent`, and those of a logout and of a
guarded request), the answers that set, clear or leave the cookie, in any order,
and faults that end a request with nothing undone; it implements
`AdminSessions`, which `AdminApi` extends.

**SourceConfigs, SourceVersions, AdminApi.** A configuration has four fields, of
both tables, for all columns. `AdminApi` is a request from the browser or from a
form of the admin pages (`PostForm` asks the API who is signed in before it sends
the request) over `requireAdmin` (`Authorize`) and its change to the audit event.
A source changes in the transaction of `createSource` or `updateSource`, statement
by statement (from `ReadCurrent` to `Commit`), with locks of rows and of urls; the
lifecycle of an entry and the review of feedback change in one statement.
`SourceVersions` is the abstract registry: each new configuration is one request's
fields over *a* configuration the source has had, so a lost update is allowed and
a mixture of two requests is not.

**PersonalSync.** Several controls in several browsers. `Open`, `Migrate` or
`MigrateRefused`, `Load` or `LoadRefused`, `Finish` are the sync at mount;
`Toggle` on a card and `Remove` on the personal page are clicks, whose PUT is
served (`ServePut`), refused (`RefusePut`) or lost, and answered
(`ApplyResponse`); `ChangeSession` is login, logout or expiry. Requests may be
lost on either way.

**ReaderItems, ReaderPages, DigestEditions.** `ReaderItems` has visibility, lists
and searches with the links from page to page, the selection of
`selectDigestRows` with its penalty groups and passes, and what may change under a
reader. `ReaderPages` adds the page of one entry: the request for the entry, the request
for its related ones with their ranking, and the feedback sent from it.
`DigestEditions` selects first (`Generate`), then inserts the edition, its items
one by one, reads it back and commits; an insert waits for an open transaction
with the same key. What a selection promises (`SelectionsKeepPromises`) is stated without the passes that
make it, what a page promises (`PagesKeepPromises`) without the order of the query; both
use the module's candidates, and the page its folding of duplicate groups.

**Migrations, Deploy.** `Migrations` is a migration runner, any number of them at
once: each reads what is applied, once, and then applies what was missing, one
transaction each; the row that another runner has inserted since ends it.
`Deploy` extends it with the script from `pull` to exit. `Runner` starts a
migration runner and `Migrated` takes up its end; a script that is killed leaves
its runner behind, and the next deployment starts another. `set -e` stops the main
script at a failed command, and not inside `rollback`, which is the condition of an
`if`. A failed `up` therefore ends the script without a rollback.
The images are per service. Each job of the publishing workflow pushes the image of one
service (`Publish`), and may fail or be run again while others are not, so the tag of a
commit may name the images of some services only, and `latest`, which moves with every
push, images of different commits. The api image of commit *i* brings migrations 1 to *i*,
and every image of commit *i* works with a schema that has them. A pull or an `up` that
fails may have done its work for some of the services (`Between`).

`MC*` modules give the constants their values for TLC.

## 3. Runs

| Run | Question | Distinct states |
| --- | --- | --- |
| `ingest_overlap` | Two workers, two sources, colliding feeds in opposite orders, one retry, one crash or lost connection; or a manual POST on a source while its type, crawl permission and rights change twice. Under fairness. | 78 thousand |
| `pipeline_runs` | Four runs by two processes on three entries, of any stage or failed ingests, one cut off, one policy changed, two places in the list of failures. | 565 thousand |
| `analysis_policy` | *violation*: does analysis follow the source's rights policy? | stops at the violation |
| `minimax_calls` | Two evaluations with one retry each, under fairness. | 595 thousand |
| `logins` | Three requests from two tabs over two browsers, statements and answers in any order, one lost, expiry and disablement. | 815 thousand |
| `admin_api` | Two requests, by form or directly, on sources whose urls they may swap, an entry and a feedback, a session that may end, one failing statement, under fairness. | 237 thousand |
| `personal_private` | Two readers with a browser each, three controls in one of them, two clicks, three changes of session or two and a lost request, one item that is 404. | 703 thousand |
| `personal_anonymous` | *violation*: do an anonymous reader's marks survive? | stops at the violation |
| `personal_shared` | *violation*: do two readers of one browser keep their marks apart? | stops at the violation |
| `digest_editions` | Two overlapping generations and one failing statement, or a reader turning pages or opening an entry; one change of what is visible. | 25 thousand |
| `deploy` | Three runs of the script, two commits' images of two services, published in any order or not, two faults, migration runners that outlive their script. | 1.9 million |
| `deploy_rollback` | *violation*: does a rollback return to what was running? | stops at the violation |

The properties:

* *Ingest.* `NoDuplicateEntries`; `LedgerBalanced`: the attempts' counts add up
  to the entries; `MessagesLeaveAttempts`: no message vanishes; `RunsConsistent`:
  an open transaction owns its rows and represents what it has passed;
  `ImplementsLedger`; `RightsFromCrawlablePolicy`; under fairness
  `EveryMessageSettles` and `RunsEnd`.
* *Pipeline.* `ExtractedIffText`, `CallsMatchOutputs`, `SummaryCitesItsEntry`,
  `NoModelSeesBlockedEntry`, `NoTextWithoutEligiblePolicy`; `EveryRunIsRecorded`:
  one attempt or call per run, and gauges that count every failed run until the list is
  full, when what is cut off began before all that is listed.
* *MiniMax.* `RetriesAreBounded`, `CallsTellTheirOutcome`, and `StoredOutputPassedGate`:
  only what the gate has passed is stored, as the provider gave it; `EvaluationsSettle`
  under fairness.
* *Sessions.* `ImplementsSessions`; `LoginsLeaveTraces`: sessions, attempts and
  audit events account for one another, wherever a login stops; `LogoutsRevoke`;
  `LiveCookiesStay`: which answers may take a live session's cookie.
* *Administration.* `ImplementsVersions`, `ChangesSeeTheirPast`,
  `OnlyAdminsChange`, `AuditAccountsForChanges`, and `RequestsEnd` under fairness.
* *Personal state.* `MarkerMeansAccepted`: a migration is marked done only when all its
  uploads were accepted; `OwnMarks`, `CacheAgreesWhenQuiet`.
* *Reading.* `EditionIsOneSelection`, `AnswersAgree`, `SelectionsKeepPromises`,
  `WalksMissNothing`; `PagesKeepPromises`: a page shows what is visible and related when
  it reads it, and nothing related once its entry has gone.
* *Deployment.* `MigrationsLeaveNoGap`, `StateFilesNameHealthyTags`;
  `SchemaCoversRunning`: under the tag of a commit no service comes to run ahead of the
  schema.

Every system has a `TypeOK` (in `LoginsProofs` it is `Types`). `ingest_overlap` checks
its own; all of them are proved (section 4).

### Bounds

Every bound is a constant named `Max...`, spent in `used` or by the length of a
table. Two processes are what a race needs, and the modules have no step that
involves three. Two feeds in opposite orders are the smallest deadlock and a third
item that collides with either by another key is the smallest chain of
collisions. One retry shows both a retry and the last attempt. One fault at every
possible place covers each crash point; `deploy` has two so that a rollback may
fail too, and a killed script's migration runner meet another that fails. Its two
commits and two services are the fewest of which a tag can be a mixture; that a check
fails is one of its faults. `deploy_rollback` has three commits, the fewest with a
previous, a current and a failing one, of one service. `ingest_overlap`
starts in two kinds of initial states, which share the bounds: the messages of two
workers, or a manual POST with two changes of configuration. Three requests in two
tabs let a login, a logout and a guarded request of one browser overlap two at a
time in every order. In `digest_editions` the limits of the code (two entries per
source, eight candidates per place but 60 to 500) are scaled down to 1, 1, 4 and 5,
with six entries, so that each one cuts; its constraint `OneActivity` lets a state
have generations or one reader's walk or page, since a generation reads nothing a
reader writes but feedback, of which initial states vary. `pipeline_runs` has a list of
two failures where the code has 100 or 1000, so that three failed runs overflow it, and
lets one run only be refused by its prefilter (`OneRefusal`), which leaves a record and
nothing that another run reads. The symmetry sets are
handlers, runners, tabs and browsers, which no definition distinguishes, and runs that use one
have no liveness property. `personal_private` has two cards and the personal page share a
browser, which is where copies disagree and where a migration has two marks to upload;
its constraints let two controls be mounted at a time (`TwoMounted`), one browser be in
use, since the two share nothing but the accounts (`OneBrowserAtATime`), and sessions and
requests be disturbed three times, with one control mounted from the second time on
(`ThreeDisturbances`): enough for a session to end between two uploads, and for a
reader who clicks while signed out to come back. The proofs of section 4 have no
bounds.

Deadlock checking is off where the bounds let the system stop; `Ingest` keeps it
on, with an explicit `Rest` when nothing is left to do.

### Fairness

`Ingest`: weak fairness of every runner's next step, of deadlock detection, and
of the scheduler's loop: threads go on, every fetch has a timeout, PostgreSQL's
`deadlock_timeout` expires. A worker that receives messages is fair because
Dramatiq's workers poll. Crashes are never fair. `MiniMaxCalls`: every post has
the client's timeout. `AdminApi`: a statement that does not wait is executed and
answered. No fairness is assumed of readers, administrators, faults or the
provider.

### What the violation runs show

* `personal_anonymous` (`PersonalControls.tsx:65`): every card stores its own
  copy of all marks, so the second card clicked on a page undoes the first
  card's mark, for readers who are not signed in; `docs/web/personal-state.md:34`
  says their local state is preserved for a later login.
* `personal_shared` (`personalState.ts:145`): after a logout and another
  reader's login, the first reader's cached marks are uploaded to the second
  account; ADR 0036 says users sync only their own records.
* `analysis_policy` (`ai_evaluation.py:569`): evaluation and summary look at the
  rights copied into the entry, or at none, so a text is analysed after its
  source's policy was blocked; ADR 0004 says analysis follows explicit rights.
* `deploy_rollback` (`deploy-production.sh:117`): a failed deployment was never
  recorded, so the "previous" tag is the one before the tag that was running;
  ADR 0033 promises a rollback to the previous image tag.

Differences between documents and code that no run shows, because there is no
mechanism in the code to model: `fetch_interval_minutes`, `max_requests_per_hour`
(`docs/db/schema.md:36`) and the concurrency of 1 for GitHub
(`docs/ops/github-source-adapter.md:28-35`) and arXiv are enforced nowhere; the
daily MiniMax budget (`docs/ops/ai-provider.md:46`) is recorded and never
compared; schema and adapter errors are recorded with provider `adapter` and
model `unknown` (`ai_evaluation.py:489-516`), without the metadata
`ai-provider.md:44` asks for; generating a digest edition leaves no audit event
(`app.ts:786`, against `docs/api/auth.md:153`); `raw_entry_extractions` has the
extraction that was stored last, which need not be of the latest fetch
(`docs/db/schema.md:93`). `docs/ops/ai-provider.md:50-52` and `:80` have output validated
against the versioned schema before it is stored; `validate_output`
(`ai_evaluation.py:580-593`) looks for four fields and their JSON types, so empty scores,
values out of range and additional fields are stored as a success, here as `loose`.
`docs/web/personal-state.md:34` has the marker preserve anonymous marks for a later login,
but the marker of an earlier migration stays when its marks leave the account: mark an
item, sign in, remove the mark, lose the session and mark the item again, and the marks
equal the marker (`personalState.ts:141-143`), no migration is tried, and the account,
loaded next, overwrites the mark (`personalState.ts:218-228`). `PersonalSync` has these
steps, and `MarkerMeansAccepted` speaks of the moment a marker is set. An edition generated while nothing is visible freezes
its date as empty, and the window of an edition is stored but does not limit its
selection: the documents leave both open.

## 4. Proofs

Every safety property and every abstract specification of the passing runs is proved,
for every value of the constants; `PROJECT.json` lists the theorems. They assume what
the modules' named `ASSUME`s say, which TLC evaluates on every run, and nothing else:

* finitely many processes where they are counted: `Workers` of `Ingest`, runners of
  `ContentPipeline`, `Handlers` of `AdminApi`, `Tabs` of `Logins`;
* ingest: finite feeds of items, a hash and an external id per item, workers distinct
  from handlers; sources: registered configurations have unique urls, as the table
  has, and a body's fields hold values a configuration may have;
* deployment: at least one image, healthy images among them, one tag per image
  distinct from `latest` and from "no tag";
* reading: finitely many entries, feedback of the table's types and statuses, a page
  and a source limit of at least one, as the API's schema (`app.ts:243`) and
  `digestSourceItemLimit` have them;
* every bound is a number, every marker of absence is none of the values it stands
  beside, and every other constant has its type.

One theorem has a hypothesis of its own: `OwnBrowsersKeepMarks` assumes that nobody
signs in on another person's browser.

*Ingest* (`IngestProofs`). The invariant is `IInv == TypeOK /\ NoDuplicateEntries /\
RunsConsistent`. Types alone are not inductive: the row that a run offers is well
typed only because the run has a job and rights, which is in `ResultsOK`.
Uniqueness alone is not: a commit keeps it because the open transaction *owns*
its rows (`RowsOwned`), which each insert keeps because it waits for rows of
other open transactions and skips committed ones. There is one lemma per action;
`InsertEntryIInv` carries the weight. From it follow

* `TypeCorrect`, `EntriesUnique`, `OpenRunsConsistent`;
* `IngestImplementsLedger`: a commit is an `Ingested` or `NotIngested` step
  (`CommitIsLedgerStep`, where `Represented` says no linked item is left out), and
  every other step leaves the two tables alone (`OtherStepsKeepLedger`);
* `RightsCrawlable`, from a second invariant that adds where the rights of a run
  and of its rows came from;
* `LedgerAccounts`, because a commit moves the entries of its source and the sum over
  the log by the same number (`LInv` adds that the table is finite), and
  `MessagesAreAccountedFor`. The count of the latter is not inductive: a run that has
  committed and waits for its acknowledgement has its row in the log already, so
  `MInv` counts only the runs that have not left theirs, and so holds across a crash
  between the two, after which the message comes again.

*The pipeline* (`PipelineProofs`). What a run stores was decided before its outside
call, so the invariant says what a run that has been outside may still rely on
(`RunsSound`): an eligible policy for an extraction; for a model stage, a text,
rights that are not blocked, and, for a summary, cited rows that are there and of
its entry. It is kept by the steps of others because nothing stored is ever taken
back (`Grows`, `StillSound`). That a summary's entry is not blocked comes only
from the evaluation it cites. Theorems: `PipelineTypes`, `Extracted`,
`TextNeedsPolicy`, `BlockedStaysUnread`, `SummaryCites`, `CallsPairOff`. `RunsRecorded`
counts: a run is open, was cut off, or has left one row, which needs that the moment
a run began is nobody else's (`OwnMoments`); each kind of step moves one unit from one
cardinality to another (`RecordsAddUp`). The newest of any finite set of moments that
differ are as many as the limit, or all (`NewestOf`), which gives the gauges.
`CallsPairOff` rests on the id that a run has drawn for its call being no committed
call's and no other run's (`CallIdsAreFresh`), whatever is inserted before its output.
`MaxIsMember` proves from the well-foundedness of the naturals that the newest row of
an entry exists.

*The provider* (`MiniMaxProofs`). The rows of `model_calls` speak of posts that are
gone, so the invariant adds what the running evaluation has posted, by where it is
(`Running`), and what its result will say (`Outcome`). Theorems: `MiniMaxTypes`,
`Retries`, `Outcomes`, `StoredOutput`.

*Sessions* (`LoginsProofs`). `SessionsInv` says what a request may rely on while others
change the sessions (`RequestsOK`): a login's session is its own until its answer hands
it over (`TokensApart`), and any other token in a request or a cookie was handed to
that browser (`CookiesOK`). From it follow `LogoutsEndSessions`, `SignedInUntilLogout`
and `LoginsAreSessions`, the refinement of `AdminSessions`. `TracesOfLogins` is a chain
of counts per user, sessions handed over, audit events, attempts, sessions opened, each
at most the next and apart only by the logins that stand between the two and by the
faults; the property is its ends.

*Administration* (`AdminProofs`). The invariant says where each request is
(`RequestsOK`), that no two transactions hold one row (`LocksApart`), and that what is
written but not committed keeps the urls apart (`UrlsApart`), since `Commit` itself
checks nothing. `PATCH` reads the source before it locks the row, so all that can be
promised of what it writes is a merge with some configuration the source has had since
the request came in: that is enough for `RegistryKeepsVersions`. `Accounted` counts the
changes without an event: of requests that have not come to it, or that failed.
Theorems: `AdminTypes`, `ChangesAreAdmins`, `ChangesAreAudited`, `PatchesSeeTheirPast`,
`RegistryKeepsVersions`.

*Personal state* (`PersonalProofs`). `PersonalTypes`. `MarkerTells`, an action property, needs that
what a sync has uploaded was accepted from that sync (`UploadsAccepted`), which survives
the clicks of others because each sync keeps the marks it read. `OwnBrowsersKeepMarks` proves
`OwnMarks`: every copy of a mark, in storage, in a control, in a request or an
answer, was clicked by someone who signs in there. Without its hypothesis it is
false, as `personal_shared` shows. `StorageFollowsAccount` proves that a browser used
for one thing at a time agrees with its account when it is quiet. Storage and account
differ in two situations on the way, so `TidyInv` names three: all in storage is the
account's (`Covered`); a first sync is uploading what is not (`Uploading`); a session has
begun and the sync that will load has not (`SignedOn`).

*Reading* (`DigestProofs`). The rows of a query are the entries found, each at the
place that the number of those before it gives (`RankedOnce`, `FoundAt`). `WalkInv`: what
was found at the start has been seen or stands at or after the offset of the next page
(`Ahead`), which entries that arrive can only raise; hence `PagesMissNothing`.
`EditionInv`: what is inserted of an edition is the beginning of one request's
selection, and nobody else has its key; hence `EditionsAreWhole` and
`EditionsAreImmutable`. `SelectionsKeep` goes from the inside out: one row of a pass
(`RowOfPass`), a pass (`AddRowsKeep`: a row is left out only because it did not fit or
there was no room), the three passes (`GroupSelected`: what the last pass adds is
beyond the limits only when the earlier ones left nothing behind), group after group
(`DigestOK`), and the candidates, of which none is passed over for one further back
(`CandidatesRanked`). `PagesKeep` needs that evidence, compared like words, orders the
related entries, and that one of each group is folded out of the others
(`ExceedsOrders`, `RelatedKeeps`).

*Deployment* (`DeployProofs`). `NoGap`: the table of migrations is
always 1 to some number. A runner's list goes stale while others apply, so the
invariant says only that whatever of its image is not on the list is applied
(`RunnersSound`); whatever another runner applies keeps that, and the primary key stops
a runner whose next migration is taken. `Deploy` lifts it to every step of the script, and adds where
the script may be (`Places`: a restart comes after its migrations, a tag is recorded
after its check), that the tag of a commit names no other commit's images
(`CommitTags`), and that the schema covers the api image of whatever has passed the
check, under every tag (`PassedBehindSchema`). From it follow
`DeployTypes`, `StateFilesHealthy`, and `SchemaFirst`, the action property that a service
comes to run ahead of the schema only under the moving tag.

Sums, folds and selections are recursive functions, and the provers have no induction.
What such a function keeps is proved from its smallest counterexample: the naturals are
well-founded, so a set of them that is not empty has a least member (`WFMin`,
`SmallestNat`, `Inducts`).

Only model-checked: liveness under fairness (`EveryMessageSettles`, `RunsEnd`,
`RequestsEnd`, `EvaluationsSettle`), which is beyond the prover, and the properties of
the four *violation* runs, which are false.

## 5. Not modelled

*Without state to be wrong about*: password hashing, an equality here; monitoring
configuration; check and backup scripts; markup. The lists of the admin pages read
and show. The prefilters' and prompts' texts, titles, timestamps and log lines are
abstracted everywhere.

*Left out of a modelled part*: read status, which a detail page writes and nothing
reads; the seeds, one transaction of upserts that no deployment runs; the worker's
metrics, which its threads increment without a lock and which only the metrics page
reads; the original text of an entry's page, shown as its rights allow; the users and
invites, which only seeds and tests create; full-text ranking, a given number per pair
of entries; cascades and checks on single columns.

*Behaviour the models contain that no property excludes*, because no document
does: an update of a source that loses another's change, also when a policy form
rendered earlier sends its old fields back; a second login in a browser leaves the
earlier session alive; a late 401 clears a cookie that a newer login has set; audit
events of one object need not be in the order of its changes; two runners that meet
let one of them fail; a tag that moves names images of different commits after a
publication in part, so that a deployment by it starts a worker ahead of the schema that
its older api has migrated, and a rollback to it fetches what it has never checked; the
failures of one stage push those of the others off the list and out of the gauges; a
text is stored under a policy that was withdrawn during its fetch. The logout form goes
on to the login page even when the API did not answer
(`apps/web/src/app/api/auth/logout/route.ts:10-17`), so the browser keeps its cookie. In production, Caddy passes `/api/*` to the API, so the web
application's own routes under it, which `Logins` and `PersonalSync` have the
browser go through, are reached only where the web server is addressed directly.

Of the components marked `partly` in `PROJECT.json` the note says what is left out.

## 6. Plan

Done, in the order of their importance: ingest with its abstract ledger and
proofs; the analysis pipeline and the provider with theirs; personal state; the
registry, moderation and their API; sessions with the statements behind them;
reading, digests and editions; migrations and deployment; and proofs of all of their
safety properties.

What is left:

1. Proofs: relations between the modules that no run states yet, such as `UpdateSource`
   of `Ingest` and `ChangePolicy` of `ContentPipeline` as steps of `SourceVersions`.
2. Extraction by actor: Dramatiq's retries around `ContentPipeline`, once something
   runs the stages from a queue.
3. The worker's HTTP metrics and the seeds, if something comes to read them.
