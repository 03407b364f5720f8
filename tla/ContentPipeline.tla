--------------------------- MODULE ContentPipeline ---------------------------
(***************************************************************************)
(* The worker's stages on an ingested entry: extract its article text,     *)
(* evaluate it, translate it and summarise it.                             *)
(*                                                                         *)
(* A run of a stage reads its inputs, makes a slow outside call (the page  *)
(* or the model) with its transaction open, then writes its record and its *)
(* output and commits them together.  Runs of any stages interleave at the *)
(* outside call, and again between the insert of the attempt or model      *)
(* call, which draws its id, and the write of the text or output that      *)
(* names it.  Meanwhile an administrator changes source policies, and      *)
(* ingest runs (Ingest) fail: their failures share the list of failures.   *)
(*                                                                         *)
(* A text is named by the extraction attempt that fetched it; what a model *)
(* says is not modelled.  An output draws its own id as it commits.        *)
(***************************************************************************)
EXTENDS Integers, Sequences, FiniteSets, FiniteSetsExt

CONSTANTS
  Entries,         \* rows of raw_entries
  Runners,         \* processes that run stages
  RightsOf,        \* raw_entries.rights_status, which no statement updates
  PoliciesOf,      \* the policies an administrator may give an entry's source
  FailureLimit,    \* the limit of listFailures, 100 or what the request asks
  MaxRuns,         \* bound: stage runs started, and failed ingest runs
  MaxChanges,      \* bound: changes of a source's policy
  MaxFaults        \* bound: runs that end without a record

Rights ==
  {"unknown", "blocked", "metadata_only", "private_allowed",
   "public_excerpt_allowed", "public_fulltext_allowed"}

\* sources.enabled and crawl_enabled, save_level = 'full_text', rights_policy,
\* and translation_policy other than 'none'.
Policy ==
  [crawl : BOOLEAN, fullText : BOOLEAN, rights : Rights, translate : BOOLEAN]

ASSUME PipelineAssumption ==
  /\ IsFiniteSet(Runners)
  /\ RightsOf \in [Entries -> Rights]
  /\ PoliciesOf \in [Entries -> SUBSET Policy]
  /\ {FailureLimit, MaxRuns, MaxChanges, MaxFaults} \subseteq Nat

VARIABLES
  policy,          \* the policy of each entry's source, as committed
  ingestFailures,  \* failed source_ingest_attempts, each by its moment
  stage,           \* raw_entries.processing_stage
  attempts,        \* committed rows of raw_entry_extraction_attempts
  attemptIds,      \* ids drawn for extraction attempts
  extraction,      \* attempt_id of each entry's raw_entry_extractions row, or 0
  modelCalls,      \* committed rows of model_calls
  callIds,         \* ids drawn for model calls
  outputs,         \* rows of ai_evaluations, translations, summary_blocks
  pc,              \* where each run is
  job,             \* the stage and entry of each run, and when it began
  input,           \* what each run has read, and the id of the row it inserted
  used             \* how much of each bound is spent; history: runs that failed

sourceVars == <<policy, ingestFailures>>
textVars  == <<stage, attempts, attemptIds, extraction>>
modelVars == <<modelCalls, callIds, outputs>>
runVars   == <<pc, job, input>>
vars == <<sourceVars, textVars, modelVars, runVars, used>>

ModelStages == {"evaluate", "translate", "summarize"}

\* A transaction's now() is the moment of its first read: the number of the run.
Moments == 1..MaxRuns

Statuses == {"success", "failure", "skipped"}

Job     == [stage : ModelStages \cup {"extract"}, entry : Entries, at : Moments]
NoJob   == [stage |-> "none", entry |-> "none", at |-> 0]
NoInput ==
  [attempt |-> 0, call |-> 0, evaluation |-> 0, translation |-> 0, rights |-> "none"]

Init ==
  /\ policy \in {f \in [Entries -> Policy] : \A e \in Entries : f[e] \in PoliciesOf[e]}
  /\ ingestFailures = {}
  /\ stage = [e \in Entries |-> "metadata_ingested"]
  /\ attempts = {}
  /\ attemptIds = 0
  /\ extraction = [e \in Entries |-> 0]
  /\ modelCalls = {}
  /\ callIds = 0
  /\ outputs = [s \in ModelStages |-> <<>>]
  /\ pc = [r \in Runners |-> "idle"]
  /\ job = [r \in Runners |-> NoJob]
  /\ input = [r \in Runners |-> NoInput]
  /\ used = [runs |-> 0, changes |-> 0, faults |-> 0, failures |-> 0]

\* PATCH /sources/:id
ChangePolicy(e) ==
  /\ used.changes < MaxChanges
  /\ \E p \in PoliciesOf[e] \ {policy[e]} : policy' = [policy EXCEPT ![e] = p]
  /\ used' = [used EXCEPT !.changes = @ + 1]
  /\ UNCHANGED <<ingestFailures, textVars, modelVars, runVars>>

\* ingest_source commits an attempt without its feed.
IngestFails ==
  /\ used.runs < MaxRuns
  /\ ingestFailures' = ingestFailures \cup {used.runs + 1}
  /\ used' = [used EXCEPT !.runs = @ + 1, !.failures = @ + 1]
  /\ UNCHANGED <<policy, textVars, modelVars, runVars>>

-----------------------------------------------------------------------------
\* How a run starts and ends.

CountRun(r) ==
  /\ pc[r] = "idle"
  /\ used.runs < MaxRuns
  /\ used' = [used EXCEPT !.runs = @ + 1]

CountFailure == used' = [used EXCEPT !.failures = @ + 1]

\* The run has read v and goes on to its outside call.
GoOutside(r, s, e, v) ==
  /\ pc' = [pc EXCEPT ![r] = "outside"]
  /\ job' = [job EXCEPT ![r] = [stage |-> s, entry |-> e, at |-> used.runs + 1]]
  /\ input' = [input EXCEPT ![r] = v]

Close(r) ==
  /\ pc' = [pc EXCEPT ![r] = "idle"]
  /\ job' = [job EXCEPT ![r] = NoJob]
  /\ input' = [input EXCEPT ![r] = NoInput]

\* The connection or the process is lost, or an exception escapes
\* (httpx.InvalidURL is no httpx.HTTPError): the transaction rolls back.
Abort(r) ==
  /\ pc[r] # "idle"
  /\ used.faults < MaxFaults
  /\ Close(r)
  /\ used' = [used EXCEPT !.faults = @ + 1]
  /\ UNCHANGED <<sourceVars, textVars, modelVars>>

-----------------------------------------------------------------------------
\* extract_raw_entry

MayStoreText(p) ==
  /\ p.crawl
  /\ p.fullText
  /\ p.rights \in {"private_allowed", "public_fulltext_allowed"}

Attempt(i, e, status, at) == [id |-> i, entry |-> e, status |-> status, at |-> at]

\* record_attempt and commit, for an attempt that stores no text.
RecordAttempt(e, status, at) ==
  /\ attemptIds' = attemptIds + 1
  /\ attempts' = attempts \cup {Attempt(attemptIds + 1, e, status, at)}

\* Mutant: the policy is not consulted.
StoreAnyText(r, e) ==
  /\ CountRun(r)
  /\ GoOutside(r, "extract", e, NoInput)
  /\ UNCHANGED <<sourceVars, textVars, modelVars>>

StartExtraction(r, e) ==
  /\ CountRun(r)
  /\ \/ /\ MayStoreText(policy[e])
        /\ GoOutside(r, "extract", e, NoInput)
        /\ UNCHANGED textVars
     \/ /\ ~MayStoreText(policy[e])
        /\ RecordAttempt(e, "skipped", used.runs + 1)
        /\ UNCHANGED <<stage, extraction, runVars>>
  /\ UNCHANGED <<sourceVars, modelVars>>

\* Mutant: an HTTP error is not caught.
LeaveNoAttempt(r) ==
  /\ pc[r] = "outside"
  /\ job[r].stage = "extract"
  /\ Close(r)
  /\ CountFailure
  /\ UNCHANGED <<sourceVars, textVars, modelVars>>

\* No page, or no text on it.
FetchFails(r) ==
  /\ pc[r] = "outside"
  /\ job[r].stage = "extract"
  /\ RecordAttempt(job[r].entry, "failure", job[r].at)
  /\ Close(r)
  /\ CountFailure
  /\ UNCHANGED <<sourceVars, stage, extraction, modelVars>>

\* The attempt is inserted.
FetchSucceeds(r) ==
  /\ pc[r] = "outside"
  /\ job[r].stage = "extract"
  /\ attemptIds' = attemptIds + 1
  /\ input' = [input EXCEPT ![r].attempt = attemptIds + 1]
  /\ pc' = [pc EXCEPT ![r] = "store"]
  /\ UNCHANGED <<sourceVars, stage, attempts, extraction, modelVars, job, used>>

\* Mutant: the attempt of a repeated extraction is rolled back, its text kept.
StoreWithoutAttempt(r) ==
  /\ pc[r] = "store"
  /\ job[r].stage = "extract"
  /\ LET e == job[r].entry IN
       /\ attempts' =
            IF extraction[e] # 0 THEN attempts
            ELSE attempts \cup {Attempt(input[r].attempt, e, "success", job[r].at)}
       /\ extraction' = [extraction EXCEPT ![e] = input[r].attempt]
       /\ stage' = [stage EXCEPT ![e] = "extracted"]
  /\ Close(r)
  /\ UNCHANGED <<sourceVars, attemptIds, modelVars, used>>

\* The upsert takes effect at the commit, whichever attempt is older.
StoreExtraction(r) ==
  /\ pc[r] = "store"
  /\ job[r].stage = "extract"
  /\ LET e == job[r].entry IN
       /\ attempts' = attempts \cup {Attempt(input[r].attempt, e, "success", job[r].at)}
       /\ extraction' = [extraction EXCEPT ![e] = input[r].attempt]
       /\ stage' = [stage EXCEPT ![e] = "extracted"]
  /\ Close(r)
  /\ UNCHANGED <<sourceVars, attemptIds, modelVars, used>>

-----------------------------------------------------------------------------
\* evaluate_raw_entry, translate_raw_entry, generate_summary_blocks

\* Mutant of Latest: the newest row of any entry.
LatestOfAll(s, e) == Len(outputs[s])

\* The row with the largest id among an entry's outputs of a stage, or 0.
Latest(s, e) == Max({0} \cup {i \in DOMAIN outputs[s] : outputs[s][i].entry = e})

ReadInput(s, e) ==
  [attempt |-> extraction[e],
   call |-> 0,
   evaluation |-> IF s = "summarize" THEN Latest("evaluate", e) ELSE 0,
   translation |-> IF s = "summarize" THEN Latest("translate", e) ELSE 0,
   rights |-> policy[e].rights]

\* Mutant: only the source's policy is consulted.
MayEvaluateByPolicy(e) == policy[e].rights # "blocked" /\ extraction[e] # 0

MayEvaluate(e) == RightsOf[e] # "blocked" /\ extraction[e] # 0

MayTranslate(e) ==
  /\ "blocked" \notin {RightsOf[e], policy[e].rights}
  /\ policy[e].translate
  /\ extraction[e] # 0

MaySummarize(e) == extraction[e] # 0 /\ Latest("evaluate", e) # 0

\* The stage's prefilter admits the entry.
Admits(s, e) ==
  \/ s = "evaluate"  /\ MayEvaluate(e)
  \/ s = "translate" /\ MayTranslate(e)
  \/ s = "summarize" /\ MaySummarize(e)

ModelCall(i, s, e, status, at) ==
  [id |-> i, purpose |-> s, entry |-> e, status |-> status, at |-> at]

\* record_model_call and commit, for a call without an output.
RecordModelCall(s, e, status, at) ==
  /\ callIds' = callIds + 1
  /\ modelCalls' = modelCalls \cup {ModelCall(callIds + 1, s, e, status, at)}

StartModelStage(r, s, e) ==
  /\ CountRun(r)
  /\ \/ /\ Admits(s, e)
        /\ GoOutside(r, s, e, ReadInput(s, e))
        /\ UNCHANGED modelVars
     \/ /\ ~Admits(s, e)
        /\ RecordModelCall(s, e, "skipped", used.runs + 1)
        /\ UNCHANGED <<outputs, runVars>>
  /\ UNCHANGED <<sourceVars, textVars>>

\* The adapter raises, or its output fails validation.
AdapterFails(r) ==
  /\ pc[r] = "outside"
  /\ job[r].stage \in ModelStages
  /\ RecordModelCall(job[r].stage, job[r].entry, "failure", job[r].at)
  /\ Close(r)
  /\ CountFailure
  /\ UNCHANGED <<sourceVars, textVars, outputs>>

Success(r, i) == ModelCall(i, job[r].stage, job[r].entry, "success", job[r].at)

\* Mutant: the call is committed before its output is inserted.
CommitCallFirst(r) ==
  /\ pc[r] = "outside"
  /\ job[r].stage \in ModelStages
  /\ callIds' = callIds + 1
  /\ modelCalls' = modelCalls \cup {Success(r, callIds + 1)}
  /\ input' = [input EXCEPT ![r].call = callIds + 1]
  /\ pc' = [pc EXCEPT ![r] = "store"]
  /\ UNCHANGED <<sourceVars, textVars, outputs, job, used>>

\* The model call is inserted.
AdapterAnswers(r) ==
  /\ pc[r] = "outside"
  /\ job[r].stage \in ModelStages
  /\ callIds' = callIds + 1
  /\ input' = [input EXCEPT ![r].call = callIds + 1]
  /\ pc' = [pc EXCEPT ![r] = "store"]
  /\ UNCHANGED <<sourceVars, textVars, modelCalls, outputs, job, used>>

Output(r) ==
  [entry |-> job[r].entry, call |-> input[r].call,
   evaluation |-> input[r].evaluation, translation |-> input[r].translation,
   rights |-> input[r].rights]

\* The output is inserted, and both are committed.
StoreOutput(r) ==
  /\ pc[r] = "store"
  /\ job[r].stage \in ModelStages
  /\ modelCalls' = modelCalls \cup {Success(r, input[r].call)}
  /\ outputs' = [outputs EXCEPT ![job[r].stage] = Append(@, Output(r))]
  /\ Close(r)
  /\ UNCHANGED <<sourceVars, textVars, callIds, used>>

-----------------------------------------------------------------------------
\* listFailures: what GET /admin/failures lists and /metrics counts.

Failures ==
  {[failureStage |-> "source_ingest", createdAt |-> t] : t \in ingestFailures}
  \cup
  {[failureStage |-> "extraction", createdAt |-> a.at] :
     a \in {b \in attempts : b.status = "failure"}}
  \cup
  {[failureStage |-> "model_call", createdAt |-> c.at] :
     c \in {b \in modelCalls : b.status = "failure"}}

\* The newest failures of all stages together.  A row's time is its
\* transaction's first moment, so a slow run's failure comes in behind the
\* failures of runs that began after it.
FailureQueue ==
  {f \in Failures :
     Cardinality({g \in Failures : g.createdAt > f.createdAt}) < FailureLimit}

\* The gauge of a stage: how many of its failures are in the queue.
Backlog(failureStage) == Cardinality({f \in FailureQueue : f.failureStage = failureStage})

-----------------------------------------------------------------------------
RunStep(r) ==
  \/ FetchFails(r)
  \/ FetchSucceeds(r)
  \/ StoreExtraction(r)
  \/ AdapterFails(r)
  \/ AdapterAnswers(r)
  \/ StoreOutput(r)

Next ==
  \/ \E e \in Entries : ChangePolicy(e)
  \/ IngestFails
  \/ \E r \in Runners, e \in Entries : StartExtraction(r, e)
  \/ \E r \in Runners, s \in ModelStages, e \in Entries : StartModelStage(r, s, e)
  \/ \E r \in Runners : RunStep(r)
  \/ \E r \in Runners : Abort(r)

Spec == Init /\ [][Next]_vars

-----------------------------------------------------------------------------
\* Properties.

Outputs(s) == {outputs[s][i] : i \in DOMAIN outputs[s]}

\* Every table holds rows of its type, and a run past its read has a job whose
\* inputs exist: the state of the worker's stages and of what they read.
TypeOK ==
  /\ policy \in [Entries -> Policy]
  /\ ingestFailures \subseteq Moments
  /\ stage \in [Entries -> {"metadata_ingested", "extracted"}]
  /\ attemptIds \in Nat
  /\ attempts \subseteq
       [id : 1..attemptIds, entry : Entries, status : Statuses, at : Moments]
  /\ extraction \in [Entries -> 0..attemptIds]
  /\ callIds \in Nat
  /\ modelCalls \subseteq
       [id : 1..callIds, purpose : ModelStages, entry : Entries, status : Statuses,
        at : Moments]
  /\ outputs \in
       [ModelStages -> Seq([entry : Entries, call : Nat, evaluation : Nat,
                            translation : Nat, rights : Rights])]
  /\ pc \in [Runners -> {"idle", "outside", "store"}]
  /\ job \in [Runners -> Job \cup {NoJob}]
  /\ \A r \in Runners : pc[r] # "idle" => job[r] \in Job
  /\ input \in
       [Runners -> [attempt : 0..attemptIds, call : 0..callIds, evaluation : Nat,
                    translation : Nat, rights : Rights \cup {"none"}]]
  /\ used \in [runs : 0..MaxRuns, changes : 0..MaxChanges, faults : 0..MaxFaults,
              failures : Nat]

\* An entry is marked extracted exactly when it has a text, and the text names
\* a committed, successful attempt on that same entry, however the extractions
\* of several workers interleave (mark_raw_entry_extracted, store_extraction).
ExtractedIffText ==
  \A e \in Entries :
    /\ stage[e] = "extracted" <=> extraction[e] # 0
    /\ extraction[e] # 0 =>
         \E a \in attempts : a.id = extraction[e] /\ a.entry = e /\ a.status = "success"

\* Successful model calls and stored outputs pair off one to one, purpose by
\* purpose: no output without its call, no paid call without its output,
\* wherever between its two inserts a run is cut off and whatever other runs
\* insert there (record_model_call, record_evaluation and their one commit).
CallsMatchOutputs ==
  \A s \in ModelStages :
    /\ \A i, j \in DOMAIN outputs[s] :
         outputs[s][i].call = outputs[s][j].call => i = j
    /\ {<<o.call, o.entry>> : o \in Outputs(s)} =
         {<<c.id, c.entry>> :
            c \in {b \in modelCalls : b.purpose = s /\ b.status = "success"}}

\* No model output exists for an entry whose own rights are blocked, whatever
\* its source's policy becomes.  The summary stage never reads the rights: it
\* depends on the evaluation stage refusing the entry (summary prefilter).
NoModelSeesBlockedEntry ==
  \A s \in ModelStages : \A o \in Outputs(s) : RightsOf[o.entry] # "blocked"

\* A summary block cites an evaluation, and at most a translation, of its own
\* entry, each stored by an earlier model call (read_summary_input's joins).
SummaryCitesItsEntry ==
  \A o \in Outputs("summarize") :
    /\ o.evaluation \in DOMAIN outputs["evaluate"]
    /\ o.translation \in DOMAIN outputs["translate"] \cup {0}
    /\ LET cited == {outputs["evaluate"][o.evaluation]} \cup
                      {outputs["translate"][i] : i \in {o.translation} \ {0}}
       IN  \A c \in cited : c.entry = o.entry /\ c.call < o.call

\* An entry whose source never has a policy that allows text storage never
\* gets a text, and so nothing a model derives from one (policy_skip_reason).
NoTextWithoutEligiblePolicy ==
  \A e \in Entries :
    (\A p \in PoliciesOf[e] : ~MayStoreText(p)) =>
      /\ extraction[e] = 0
      /\ \A s \in ModelStages : \A o \in Outputs(s) : o.entry # e

\* Every run that is over left exactly one attempt or model call, the skipped
\* and failed ones too, unless it was cut off ("Every attempted evaluation
\* creates a model-call record"); the gauges count every failed run, ingests
\* included, until the list is full, and then what was cut began before all
\* that is listed (listFailures, renderApiMetrics).
EveryRunIsRecorded ==
  /\ Cardinality(attempts) + Cardinality(modelCalls) + Cardinality(ingestFailures) +
       used.faults + Cardinality({r \in Runners : pc[r] # "idle"}) = used.runs
  /\ Backlog("source_ingest") + Backlog("extraction") + Backlog("model_call") =
       IF used.failures < FailureLimit THEN used.failures ELSE FailureLimit
  /\ \A f \in Failures \ FailureQueue : \A g \in FailureQueue :
       f.createdAt < g.createdAt

\* ADR 0004 has content analysed only as the source's rights policy allows.
\* The prefilters of evaluation and summary do not read the policy.
AnalysisFollowsPolicy ==
  \A s \in {"evaluate", "summarize"} : \A o \in Outputs(s) : o.rights # "blocked"
=============================================================================
