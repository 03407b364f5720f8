------------------------------- MODULE Ingest -------------------------------
(***************************************************************************)
(* Source ingest as the worker runs it: the scheduler reads the enabled    *)
(* policies and sends one message per source; Dramatiq worker threads take *)
(* messages, and HTTP handler threads run the same code for a manual POST. *)
(* A run reads the source's type on one connection, then opens one         *)
(* transaction in which it reads the policy, fetches, inserts entry by     *)
(* entry with `on conflict do nothing`, records its attempt and commits.   *)
(*                                                                         *)
(* Runs interleave at every database statement.  An insert that collides   *)
(* with another run's uncommitted row waits for that run to end; a cycle   *)
(* of waits is broken by PostgreSQL, which aborts one of its transactions. *)
(* An exception rolls the transaction back and makes Dramatiq retry the    *)
(* message; a crash has the broker deliver the message again.              *)
(***************************************************************************)
EXTENDS RawEntries

CONSTANTS
  Workers,         \* Dramatiq worker threads
  Handlers,        \* threads of the worker's HTTP server
  Configs,         \* the configurations an administrator may give a source
  FirstSources,    \* the configurations the sources may have at first
  MaxRetries,      \* Dramatiq's retry limit for a message
  MaxRounds,       \* bound: how often the scheduler runs
  MaxPosts,        \* bound: manual ingest requests
  MaxPatches,      \* bound: changes of a source's configuration
  MaxFaults,       \* bound: crashes and lost connections
  Spent            \* what may be spent of the bounds at first

Runners == Workers \cup Handlers

\* "rss" also stands for "atom".  The table admits no type that has no adapter,
\* so dispatch never meets one.
SourceTypes == {"rss", "github", "arxiv"}

SourceConfig ==
  [type : SourceTypes, enabled : BOOLEAN, crawl : BOOLEAN, rights : RightsPolicies]

ASSUME IngestAssumption ==
  /\ Workers \cap Handlers = {} /\ IsFiniteSet(Workers)
  /\ Configs \subseteq SourceConfig
  /\ FirstSources \subseteq [Sources -> Configs]
  /\ Spent \subseteq [rounds : Nat, posts : Nat, patches : Nat, faults : Nat]
  /\ {MaxRetries, MaxRounds, MaxPosts, MaxPatches, MaxFaults} \subseteq Nat

VARIABLES
  sources,         \* sources joined with source_policies, as committed
  rawEntries,      \* committed rows of raw_entries
  attempts,        \* committed rows of source_ingest_attempts, in id order
  schedule,        \* sources the running scheduler has still to send
  queue,           \* messages waiting in the broker, by source and retries
  sent,            \* messages ever sent for a source
  dead,            \* messages given up after the last retry
  pc,              \* where each run is
  job,             \* the message or request each run works on
  adapter,         \* the source type that dispatch read
  tx,              \* each run's open transaction and local results
  used             \* how much of each bound is spent

brokerVars == <<queue, sent, dead>>
tableVars  == <<sources, rawEntries, attempts>>
runVars    == <<pc, job, adapter, tx>>
vars == <<tableVars, schedule, brokerVars, runVars, used>>

NoJob == [source |-> "none", retries |-> 0]
Job   == [source : Sources, retries : 0..MaxRetries]

NoTx ==
  [rights |-> "none", feed |-> <<>>, next |-> 1, rows |-> {}, inserted |-> 0,
   status |-> "none", failure |-> "none"]

Messages == Sources \X (0..MaxRetries)

Crawlable(c) == c.enabled /\ c.crawl

Init ==
  /\ sources \in FirstSources
  /\ rawEntries = {}
  /\ attempts = <<>>
  /\ schedule = {}
  /\ queue = [m \in Messages |-> 0]
  /\ sent = [s \in Sources |-> 0]
  /\ dead = [s \in Sources |-> 0]
  /\ pc = [r \in Runners |-> "idle"]
  /\ job = [r \in Runners |-> NoJob]
  /\ adapter = [r \in Runners |-> "none"]
  /\ tx = [r \in Runners |-> NoTx]
  /\ used \in Spent

-----------------------------------------------------------------------------
\* The administrator and the scheduler.

\* PATCH /sources/:id: one transaction replaces the configuration.
UpdateSource(s) ==
  /\ used.patches < MaxPatches
  /\ \E c \in Configs \ {sources[s]} : sources' = [sources EXCEPT ![s] = c]
  /\ used' = [used EXCEPT !.patches = @ + 1]
  /\ UNCHANGED <<rawEntries, attempts, schedule, brokerVars, runVars>>

\* schedule_enabled_sources reads the policies once; the order of the sends
\* (by source id) is not modelled.
ReadEnabledPolicies ==
  /\ schedule = {}
  /\ used.rounds < MaxRounds
  /\ schedule' = {s \in Sources : Crawlable(sources[s])}
  /\ used' = [used EXCEPT !.rounds = @ + 1]
  /\ UNCHANGED <<tableVars, brokerVars, runVars>>

SendTask(s) ==
  /\ s \in schedule
  /\ schedule' = schedule \ {s}
  /\ queue' = [queue EXCEPT ![<<s, 0>>] = @ + 1]
  /\ sent' = [sent EXCEPT ![s] = @ + 1]
  /\ UNCHANGED <<tableVars, dead, runVars, used>>

SchedulerCrash ==
  /\ schedule # {}
  /\ used.faults < MaxFaults
  /\ schedule' = {}
  /\ used' = [used EXCEPT !.faults = @ + 1]
  /\ UNCHANGED <<tableVars, brokerVars, runVars>>

-----------------------------------------------------------------------------
\* Starting a run.

Receive(w) ==
  /\ pc[w] = "idle"
  /\ \E m \in Messages :
       /\ queue[m] > 0
       /\ queue' = [queue EXCEPT ![m] = @ - 1]
       /\ job' = [job EXCEPT ![w] = [source |-> m[1], retries |-> m[2]]]
  /\ pc' = [pc EXCEPT ![w] = "dispatch"]
  /\ UNCHANGED <<tableVars, schedule, sent, dead, adapter, tx, used>>

\* POST /ingest/source/:id with the id of a source.
Post(h, s) ==
  /\ pc[h] = "idle"
  /\ used.posts < MaxPosts
  /\ job' = [job EXCEPT ![h] = [source |-> s, retries |-> 0]]
  /\ pc' = [pc EXCEPT ![h] = "dispatch"]
  /\ used' = [used EXCEPT !.posts = @ + 1]
  /\ UNCHANGED <<tableVars, schedule, brokerVars, adapter, tx>>

\* Mutant of EndRun: the connection is not closed, the rows stay locked.
LeakTransaction(r) ==
  /\ pc' = [pc EXCEPT ![r] = "idle"]
  /\ job' = [job EXCEPT ![r] = NoJob]
  /\ adapter' = [adapter EXCEPT ![r] = "none"]
  /\ tx' = [tx EXCEPT ![r] = [NoTx EXCEPT !.rows = tx[r].rows]]

\* The run is over: its transaction is gone, committed or rolled back.
EndRun(r) ==
  /\ pc' = [pc EXCEPT ![r] = "idle"]
  /\ job' = [job EXCEPT ![r] = NoJob]
  /\ adapter' = [adapter EXCEPT ![r] = "none"]
  /\ tx' = [tx EXCEPT ![r] = NoTx]

\* Mutant of Raise: the actor swallows every exception.
SwallowException(r) ==
  /\ EndRun(r)
  /\ UNCHANGED <<tableVars, schedule, brokerVars>>

\* An exception leaves the actor.  Dramatiq retries a message until its
\* limit; an HTTP request just ends without an answer.
Raise(r) ==
  /\ EndRun(r)
  /\ LET s == job[r].source
         n == job[r].retries
     IN  \/ /\ r \in Workers
            /\ n < MaxRetries
            /\ queue' = [queue EXCEPT ![<<s, n + 1>>] = @ + 1]
            /\ UNCHANGED dead
         \/ /\ r \in Workers
            /\ n = MaxRetries
            /\ dead' = [dead EXCEPT ![s] = @ + 1]
            /\ UNCHANGED queue
         \/ r \in Handlers /\ UNCHANGED <<queue, dead>>
  /\ UNCHANGED <<tableVars, schedule, sent>>

-----------------------------------------------------------------------------
\* The steps of a run.

\* ingest_configured_source: the type is read on a connection of its own.
ReadType(r) ==
  /\ pc[r] = "dispatch"
  /\ adapter' = [adapter EXCEPT ![r] = sources[job[r].source].type]
  /\ pc' = [pc EXCEPT ![r] = "connect"]
  /\ UNCHANGED <<tableVars, schedule, brokerVars, job, tx, used>>

\* Mutant of ReadSource: the rights policy is not selected.
ReadSourceWithoutRights(r) ==
  /\ pc[r] = "connect"
  /\ pc' = [pc EXCEPT ![r] = "fetch"]
  /\ UNCHANGED <<tableVars, schedule, brokerVars, job, adapter, tx, used>>

\* read_source, first statement of the transaction.  Only the GitHub and the
\* arXiv adapter check that the source still has their type.
ReadSource(r) ==
  /\ pc[r] = "connect"
  /\ LET c == sources[job[r].source]
         mismatch == adapter[r] \in {"github", "arxiv"} /\ c.type # adapter[r]
     IN  \/ mismatch /\ Raise(r) /\ UNCHANGED used
         \/ /\ ~mismatch
            /\ \/ /\ Crawlable(c)
                  /\ tx' = [tx EXCEPT ![r].rights = c.rights]
                  /\ pc' = [pc EXCEPT ![r] = "fetch"]
               \/ /\ ~Crawlable(c)
                  /\ tx' = [tx EXCEPT ![r].status = "skipped", ![r].failure = "policy"]
                  /\ pc' = [pc EXCEPT ![r] = "record"]
            /\ UNCHANGED <<tableVars, schedule, brokerVars, job, adapter, used>>

\* How each adapter classifies what goes wrong: RSS raises for every error
\* status, GitHub and arXiv single out rate limits, arXiv rejects a URL that
\* is not allow-listed as a policy failure.
FailuresOf(type) ==
  {"network", "parse"}
    \cup {f \in {"rate_limit"} : type \in {"github", "arxiv"}}
    \cup {f \in {"policy"} : type = "arxiv"}

\* GitHub and arXiv entries always have a link, and a GitHub fetch yields the
\* repository's own entry at least.
FeedsOf(type) ==
  {feed \in Feeds : /\ type # "rss" => LinkedItems(feed) = {feed[k] : k \in DOMAIN feed}
                    /\ type = "github" => feed # <<>>}

\* The requests of one run, with the transaction open: they fail, they make
\* the adapter raise an error it does not catch, or they yield entries.
Fetch(r) ==
  /\ pc[r] = "fetch"
  /\ \/ \E failure \in FailuresOf(adapter[r]) :
          /\ tx' = [tx EXCEPT ![r].status = "failure", ![r].failure = failure]
          /\ pc' = [pc EXCEPT ![r] = "record"]
          /\ UNCHANGED <<tableVars, schedule, brokerVars, job, adapter>>
     \/ \E feed \in FeedsOf(adapter[r]) :
          /\ tx' = [tx EXCEPT ![r].status = "success", ![r].feed = feed]
          /\ pc' = [pc EXCEPT ![r] = IF feed = <<>> THEN "record" ELSE "insert"]
          /\ UNCHANGED <<tableVars, schedule, brokerVars, job, adapter>>
     \/ Raise(r)
  /\ UNCHANGED used

\* The entry the loop is at, and the row it offers.
CurrentItem(r) == tx[r].feed[tx[r].next]

\* Mutant of CurrentRow: the rights are read again for each entry.
RowWithRightsOfNow(r) ==
  RawEntry(job[r].source, CurrentItem(r), sources[job[r].source].rights)

CurrentRow(r)  == RawEntry(job[r].source, CurrentItem(r), tx[r].rights)

\* The open transactions whose uncommitted rows make r's insert wait.
BlockedBy(r) ==
  IF pc[r] = "insert" /\ CurrentItem(r) \notin Linkless
  THEN {q \in Runners \ {r} : CollidesWithin(CurrentRow(r), tx[q].rows)}
  ELSE {}

\* Mutants of InsertOnConflictDoNothing: look first and insert without a
\* constraint; take another transaction's row for a duplicate; count the entry
\* whether or not it went in.
InsertIfAbsent(r) ==
  LET row == CurrentRow(r)
      new == {x \in {row} : ~CollidesWithin(x, rawEntries \cup tx[r].rows)}
  IN  tx' = [tx EXCEPT ![r].next = @ + 1,
                       ![r].rows = @ \cup new,
                       ![r].inserted = @ + Cardinality(new)]

SkipLocked(r) ==
  LET row == CurrentRow(r)
      new == {x \in {row} : /\ BlockedBy(r) = {}
                           /\ ~CollidesWithin(x, rawEntries \cup tx[r].rows)}
  IN  tx' = [tx EXCEPT ![r].next = @ + 1,
                       ![r].rows = @ \cup new,
                       ![r].inserted = @ + Cardinality(new)]

CountConflicts(r) ==
  LET row == CurrentRow(r)
      new == {x \in {row} : ~CollidesWithin(x, rawEntries \cup tx[r].rows)}
  IN  /\ new # {} => BlockedBy(r) = {}
      /\ tx' = [tx EXCEPT ![r].next = @ + 1,
                          ![r].rows = @ \cup new,
                          ![r].inserted = @ + 1]

\* insert ... on conflict do nothing: a stored row or a row of this very
\* transaction wins over the new one, another transaction's row is waited
\* for, and rowcount tells whether the row went in.
InsertOnConflictDoNothing(r) ==
  LET row == CurrentRow(r)
      visible == rawEntries \cup tx[r].rows
  IN  \/ /\ CollidesWithin(row, visible)
         /\ tx' = [tx EXCEPT ![r].next = @ + 1]
      \/ /\ ~CollidesWithin(row, visible)
         /\ BlockedBy(r) = {}
         /\ tx' = [tx EXCEPT ![r].next = @ + 1,
                             ![r].rows = @ \cup {row},
                             ![r].inserted = @ + 1]

\* Mutant of InsertEntry: every insert commits by itself.
InsertAndCommitEntry(r) ==
  /\ pc[r] = "insert"
  /\ \/ /\ CurrentItem(r) \in Linkless
        /\ tx' = [tx EXCEPT ![r].next = @ + 1]
     \/ /\ CurrentItem(r) \notin Linkless
        /\ InsertOnConflictDoNothing(r)
  /\ rawEntries' = rawEntries \cup tx'[r].rows
  /\ pc' = [pc EXCEPT ![r] = IF tx[r].next = Len(tx[r].feed) THEN "record" ELSE "insert"]
  /\ UNCHANGED <<sources, attempts, schedule, brokerVars, job, adapter, used>>

\* One turn of the insert loop; an item without a link is passed over.
InsertEntry(r) ==
  /\ pc[r] = "insert"
  /\ \/ /\ CurrentItem(r) \in Linkless
        /\ tx' = [tx EXCEPT ![r].next = @ + 1]
     \/ /\ CurrentItem(r) \notin Linkless
        /\ InsertOnConflictDoNothing(r)
  /\ pc' = [pc EXCEPT ![r] = IF tx[r].next = Len(tx[r].feed) THEN "record" ELSE "insert"]
  /\ UNCHANGED <<tableVars, schedule, brokerVars, job, adapter, used>>

\* Mutant of RecordAttempt: a run that inserted nothing leaves no attempt.
RecordAttemptIfInserted(r) ==
  /\ pc[r] = "record"
  /\ attempts' = IF tx[r].inserted = 0 THEN attempts ELSE Append(attempts,
       [source |-> job[r].source, status |-> tx[r].status, failure |-> tx[r].failure,
        seen |-> Len(tx[r].feed), inserted |-> tx[r].inserted])
  /\ rawEntries' = rawEntries \cup tx[r].rows
  /\ pc' = [pc EXCEPT ![r] = "ack"]
  /\ tx' = [tx EXCEPT ![r] = NoTx]
  /\ UNCHANGED <<sources, schedule, brokerVars, job, adapter, used>>

\* record_attempt and commit: rows and attempt become visible together.
RecordAttempt(r) ==
  /\ pc[r] = "record"
  /\ attempts' = Append(attempts,
       [source |-> job[r].source, status |-> tx[r].status, failure |-> tx[r].failure,
        seen |-> Len(tx[r].feed), inserted |-> tx[r].inserted])
  /\ rawEntries' = rawEntries \cup tx[r].rows
  /\ pc' = [pc EXCEPT ![r] = "ack"]
  /\ tx' = [tx EXCEPT ![r] = NoTx]
  /\ UNCHANGED <<sources, schedule, brokerVars, job, adapter, used>>

\* The actor returns: Dramatiq acknowledges the message; the HTTP handler
\* answers 202.
Ack(r) ==
  /\ pc[r] = "ack"
  /\ EndRun(r)
  /\ UNCHANGED <<tableVars, schedule, brokerVars, used>>

-----------------------------------------------------------------------------
\* What goes wrong around a run.

\* r waits in a cycle: everyone in S waits for, and is waited for by, a
\* member of S.
InWaitCycle(r) ==
  \E S \in SUBSET Runners :
    /\ r \in S
    /\ \A x \in S : /\ BlockedBy(x) \cap S # {}
                    /\ \E y \in S : x \in BlockedBy(y)

\* deadlock_timeout expires: PostgreSQL aborts a waiter of the cycle.
DeadlockAbort(r) ==
  /\ InWaitCycle(r)
  /\ Raise(r)
  /\ UNCHANGED used

\* The database connection is lost: psycopg raises, nothing was committed.
LoseConnection(r) ==
  /\ pc[r] \in {"dispatch", "connect", "fetch", "insert", "record"}
  /\ used.faults < MaxFaults
  /\ Raise(r)
  /\ used' = [used EXCEPT !.faults = @ + 1]

\* The process dies, perhaps after the commit: the broker delivers an
\* unacknowledged message again, an HTTP request is lost.
Crash(r) ==
  /\ pc[r] # "idle"
  /\ used.faults < MaxFaults
  /\ EndRun(r)
  /\ queue' = IF r \in Workers
              THEN [queue EXCEPT ![<<job[r].source, job[r].retries>>] = @ + 1]
              ELSE queue
  /\ used' = [used EXCEPT !.faults = @ + 1]
  /\ UNCHANGED <<tableVars, schedule, sent, dead>>

-----------------------------------------------------------------------------
RunStep(r) ==
  ReadType(r) \/ ReadSource(r) \/ Fetch(r) \/ InsertEntry(r) \/ RecordAttempt(r) \/ Ack(r)

Quiescent ==
  /\ schedule = {}
  /\ \A m \in Messages : queue[m] = 0
  /\ \A r \in Runners : pc[r] = "idle"

\* Nothing is left to do: not a deadlock.
Rest == Quiescent /\ UNCHANGED vars

Next ==
  \/ \E s \in Sources : UpdateSource(s) \/ SendTask(s)
  \/ ReadEnabledPolicies
  \/ SchedulerCrash
  \/ \E w \in Workers : Receive(w)
  \/ \E h \in Handlers, s \in Sources : Post(h, s)
  \/ \E r \in Runners : RunStep(r) \/ DeadlockAbort(r) \/ LoseConnection(r) \/ Crash(r)
  \/ Rest

Spec == Init /\ [][Next]_vars

\* Threads that can take a step do, the scheduler finishes its loop unless it
\* crashes, and PostgreSQL's deadlock timeout expires.
Fairness ==
  /\ \A s \in Sources : WF_vars(SendTask(s))
  /\ \A w \in Workers : WF_vars(Receive(w))
  /\ \A r \in Runners : WF_vars(RunStep(r)) /\ WF_vars(DeadlockAbort(r))

FairSpec == Spec /\ Fairness
-----------------------------------------------------------------------------
(***************************************************************************)
(* Properties.                                                             *)
(***************************************************************************)

PcStates == {"idle", "dispatch", "connect", "fetch", "insert", "record", "ack"}

TxSet ==
  [rights : RightsPolicies \cup {"none"}, feed : Feeds \cup {<<>>}, next : Nat \ {0},
   rows : SUBSET RawEntrySet, inserted : Nat,
   status : {"none", "success", "failure", "skipped"}, failure : FailureTypes]

\* Every variable stays in its type: the rows are rows the adapters build, the
\* attempts satisfy the checks of the table, no counter goes below zero.
TypeOK ==
  /\ sources \in [Sources -> SourceConfig]
  /\ rawEntries \subseteq RawEntrySet
  /\ attempts \in Seq(Attempt)
  /\ schedule \subseteq Sources
  /\ queue \in [Messages -> Nat]
  /\ sent \in [Sources -> Nat]
  /\ dead \in [Sources -> Nat]
  /\ pc \in [Runners -> PcStates]
  /\ job \in [Runners -> Job \cup {NoJob}]
  /\ adapter \in [Runners -> SourceTypes \cup {"none"}]
  /\ tx \in [Runners -> TxSet]
  /\ used \in [rounds : Nat, posts : Nat, patches : Nat, faults : Nat]

\* Whatever runs interleave, abort or repeat, no two committed entries share a
\* canonical hash, and no two of one source share an external id.
NoDuplicateEntries == Unique(rawEntries)

\* A transaction in progress owns its rows: nothing committed and nothing that
\* another transaction has inserted collides with them.
RowsOwned ==
  \A r \in Runners :
    /\ Unique(tx[r].rows)
    /\ \A x \in tx[r].rows :
         /\ ~CollidesWithin(x, rawEntries)
         /\ \A q \in Runners \ {r} : ~CollidesWithin(x, tx[q].rows)

\* What r's loop has behind it is represented, by a committed row or its own.
Represented(r) ==
  \A k \in 1..(tx[r].next - 1) :
    \/ tx[r].feed[k] \in Linkless
    \/ CollidesWithin(RawEntry(job[r].source, tx[r].feed[k], tx[r].rights),
                      rawEntries \cup tx[r].rows)

\* The local results of a run agree with the rows it has inserted.
ResultsOK(step, j, t) ==
  /\ step # "idle" => j \in Job
  /\ step \in {"insert", "record"} <=> t.status # "none"
  /\ step = "fetch" => t.rights \in RightsPolicies
  /\ step = "insert" => t.status = "success" /\ t.next \in DOMAIN t.feed
  /\ t.status # "success" =>
       t.feed = <<>> /\ t.next = 1 /\ t.rows = {} /\ t.inserted = 0
  /\ t.status = "success" =>
       /\ t.feed \in Feeds /\ t.rights \in RightsPolicies
       /\ t.rows \subseteq {RawEntry(j.source, i, t.rights) : i \in LinkedItems(t.feed)}
       /\ step = "record" => t.next = Len(t.feed) + 1
  /\ t.failure = "none" <=> t.status \in {"none", "success"}
  /\ IsFiniteSet(t.rows) /\ t.inserted = Cardinality(t.rows)

\* Between its statements a run's open transaction is consistent with the
\* tables and with the other runs: what makes its commit an atomic ingest.
RunsConsistent ==
  /\ RowsOwned
  /\ \A r \in Runners : Represented(r) /\ ResultsOK(pc[r], job[r], tx[r])

\* An entry carries the rights of a policy under which its source could be
\* crawled: a change that stops the crawl and tightens the rights at once is
\* never seen by halves.
RightsFromCrawlablePolicy ==
  \A x \in rawEntries : \E c \in Configs : Crawlable(c) /\ c.rights = x.rights

InsertedFor(s) ==
  LET total[n \in 0..Len(attempts)] ==
        IF n = 0 THEN 0
        ELSE total[n - 1] + (IF attempts[n].source = s THEN attempts[n].inserted ELSE 0)
  IN  total[Len(attempts)]

\* The attempt log accounts for the table: the counts of entries_inserted of a
\* source's attempts add up to the entries the source has.
LedgerBalanced ==
  \A s \in Sources : Cardinality({x \in rawEntries : x.source = s}) = InsertedFor(s)

AttemptsOf(s) == Cardinality({n \in DOMAIN attempts : attempts[n].source = s})

WaitingFor(s) ==
  LET total[n \in 0..MaxRetries] ==
        queue[<<s, n>>] + (IF n = 0 THEN 0 ELSE total[n - 1])
  IN  total[MaxRetries]

InHand(s) == Cardinality({w \in Workers : job[w].source = s})

\* No message vanishes: each one the scheduler sent is waiting, in a worker's
\* hands, given up, or has left an attempt in the log.
MessagesLeaveAttempts ==
  \A s \in Sources : sent[s] <= WaitingFor(s) + InHand(s) + dead[s] + AttemptsOf(s)

\* Ingest implements the atomic ledger: to a reader of the two tables a run is
\* one step, however many statements of other runs fell between its own.
Ledger == INSTANCE IngestLedger
ImplementsLedger == Ledger!Spec

\* Every message ends in an attempt or is given up after the last retry.
EveryMessageSettles ==
  \A s \in Sources, n \in 1..MaxRounds :
    sent[s] = n ~> AttemptsOf(s) + dead[s] >= n

\* No run waits forever, whatever locks the others hold.
RunsEnd == \A r \in Runners : pc[r] # "idle" ~> pc[r] = "idle"
=============================================================================
