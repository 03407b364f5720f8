--------------------------- MODULE PipelineProofs ---------------------------
(***************************************************************************)
(* Proofs about ContentPipeline, for any entries, rights, policies, number *)
(* of runners, runs and policy changes.                                    *)
(*                                                                         *)
(* What is stored was decided before the outside call, by a run that has   *)
(* read a state others have since changed.  The inductive invariant says   *)
(* what such a run still holds true (RunsSound): the policies its entry's  *)
(* source may have include one that allows text, or the entry has a text   *)
(* and rights that are not blocked, and what a summary is to cite is there *)
(* and of its entry.  It survives because texts, outputs and attempts are  *)
(* never taken back (Grows).                                               *)
(*                                                                         *)
(* That the records are complete rests on two further invariants: the id a *)
(* run drew for its model call is nobody else's (CallIdsAreFresh), nor is  *)
(* the moment it began (OwnMoments).                                       *)
(***************************************************************************)
EXTENDS ContentPipeline, TLAPS, FiniteSetTheorems, WellFoundedInduction

Calls(n) ==
  [id : 1..n, purpose : ModelStages, entry : Entries, status : Statuses, at : Moments]

OutputRow ==
  [entry : Entries, call : Nat, evaluation : Nat, translation : Nat, rights : Rights]

Attempts(n) ==
  [id : 1..n, entry : Entries, status : Statuses, at : Moments]

Input(n, m) ==
  [attempt : 0..n, call : 0..m, evaluation : Nat, translation : Nat,
   rights : Rights \cup {"none"}]

TextTypes ==
  /\ policy \in [Entries -> Policy]
  /\ ingestFailures \subseteq Moments
  /\ stage \in [Entries -> {"metadata_ingested", "extracted"}]
  /\ attemptIds \in Nat
  /\ attempts \subseteq Attempts(attemptIds)
  /\ extraction \in [Entries -> 0..attemptIds]

ModelTypes ==
  /\ callIds \in Nat
  /\ modelCalls \subseteq Calls(callIds)
  /\ outputs \in [ModelStages -> Seq(OutputRow)]

RunTypes ==
  /\ pc \in [Runners -> {"idle", "outside", "store"}]
  /\ job \in [Runners -> Job \cup {NoJob}]
  /\ \A r \in Runners : pc[r] # "idle" => job[r] \in Job
  /\ input \in [Runners -> Input(attemptIds, callIds)]

UsedTypes ==
  used \in [runs : 0..MaxRuns, changes : 0..MaxChanges, faults : 0..MaxFaults,
            failures : Nat]

LEMMA TypesInParts == TypeOK <=> TextTypes /\ ModelTypes /\ RunTypes /\ UsedTypes
BY DEF TypeOK, TextTypes, ModelTypes, RunTypes, UsedTypes, Calls, OutputRow, Attempts, Input

-----------------------------------------------------------------------------
\* The newest row of an entry is one of its rows.

Below == {p \in Nat \X Nat : p[1] < p[2]}

LEMMA BelowIsWellFounded == IsWellFoundedOn(Below, Nat)
<1>1. OpToRel(<, Nat) = Below
      BY Zenon DEF OpToRel, Below
<1> QED
    BY <1>1, NatLessThanWellFounded, Zenon

LEMMA HasLeast ==
  ASSUME NEW T \in SUBSET Nat, T # {}
  PROVE  \E x \in T : \A y \in T : x <= y
<1>0. T \subseteq Nat
      OBVIOUS
<1>1. PICK x \in T : \A y \in T : ~(<<y, x>> \in Below)
      BY <1>0, BelowIsWellFounded, WFMin, Zenon
<1>2. \A y \in T : x <= y
      <2> SUFFICES ASSUME NEW y \in T PROVE x <= y
          OBVIOUS
      <2>1. x \in Nat /\ y \in Nat
            BY <1>0
      <2>2. <<y, x>> \in Nat \X Nat /\ <<y, x>>[1] = y /\ <<y, x>>[2] = x
            BY <2>1
      <2>3. ~(y < x)
            BY <1>1, <2>2, Zenon DEF Below
      <2> QED
          BY <2>1, <2>3
<1> QED
    BY <1>2

LEMMA HasGreatest ==
  ASSUME NEW n \in Nat, NEW T \in SUBSET (0..n), T # {}
  PROVE  \E x \in T : \A y \in T : x >= y
<1> DEFINE U == {n - x : x \in T}
<1>1. \A x \in T : n - x \in Nat /\ n - x \in U
      OBVIOUS
<1>2. U \in SUBSET Nat /\ U # {}
      <2>1. \A u \in U : \E x \in T : u = n - x
            OBVIOUS
      <2> QED
          BY <1>1, <2>1
<1>3. PICK u \in U : \A v \in U : u <= v
      <2> HIDE DEF U
      <2> QED
          BY <1>2, HasLeast
<1>4. PICK x \in T : u = n - x
      OBVIOUS
<1>5. \A y \in T : x >= y
      <2> SUFFICES ASSUME NEW y \in T PROVE x >= y
          OBVIOUS
      <2>1. u <= n - y
            BY <1>1, <1>3
      <2> QED
          BY <1>4, <2>1
<1> QED
    BY <1>5

LEMMA MaxIsMember ==
  ASSUME NEW n \in Nat, NEW T \in SUBSET (0..n), T # {}
  PROVE  Max(T) \in T
BY HasGreatest DEF Max

\* What Latest returns is 0 or the id of one of the entry's outputs.
LEMMA LatestIsOwn ==
  ASSUME ModelTypes, NEW s \in ModelStages, NEW e \in Entries
  PROVE  /\ Latest(s, e) \in Nat
         /\ Latest(s, e) # 0 =>
              Latest(s, e) \in DOMAIN outputs[s] /\ outputs[s][Latest(s, e)].entry = e
<1> DEFINE T == {0} \cup {i \in DOMAIN outputs[s] : outputs[s][i].entry = e}
<1>1. Len(outputs[s]) \in Nat /\ DOMAIN outputs[s] = 1..Len(outputs[s])
      BY DEF ModelTypes
<1>2. T \in SUBSET (0..Len(outputs[s])) /\ T # {}
      BY <1>1
<1>3. Max(T) \in T
      <2> HIDE DEF T
      <2> QED
          BY <1>1, <1>2, MaxIsMember
<1> QED
    BY <1>1, <1>3 DEF Latest

-----------------------------------------------------------------------------
\* The inductive invariant.

Eligible(e) == \E p \in PoliciesOf[e] : MayStoreText(p)

TextsEligible ==
  \A e \in Entries :
    /\ policy[e] \in PoliciesOf[e]
    /\ extraction[e] # 0 => Eligible(e)

Cites(e, in) ==
  /\ in.evaluation \in DOMAIN outputs["evaluate"]
  /\ outputs["evaluate"][in.evaluation].entry = e
  /\ in.translation # 0 =>
       /\ in.translation \in DOMAIN outputs["translate"]
       /\ outputs["translate"][in.translation].entry = e

\* What a summary cites was stored by earlier calls.
CitesEarlier(in) ==
  /\ outputs["evaluate"][in.evaluation].call < in.call
  /\ in.translation # 0 => outputs["translate"][in.translation].call < in.call

\* What a run of stage s on entry e that has read in may still rely on.
ModelRunSound(s, e, in) ==
  /\ extraction[e] # 0
  /\ RightsOf[e] # "blocked"
  /\ in.rights \in Rights
  /\ s = "summarize" => Cites(e, in)

RunSound(r) ==
  /\ pc[r] = "store" /\ job[r].stage = "extract" => input[r].attempt # 0
  /\ pc[r] = "store" /\ job[r].stage \in ModelStages => input[r].call # 0
  /\ pc[r] = "store" /\ job[r].stage = "summarize" => CitesEarlier(input[r])
  /\ pc[r] # "idle" /\ job[r].stage = "extract" => Eligible(job[r].entry)
  /\ pc[r] # "idle" /\ job[r].stage \in ModelStages =>
       ModelRunSound(job[r].stage, job[r].entry, input[r])

RunsSound == \A r \in Runners : RunSound(r)

OutputsSound ==
  \A s \in ModelStages : \A i \in DOMAIN outputs[s] :
    /\ outputs[s][i].call \in 1..callIds
    /\ extraction[outputs[s][i].entry] # 0
    /\ RightsOf[outputs[s][i].entry] # "blocked"

IInv ==
  /\ TextTypes /\ ModelTypes /\ RunTypes /\ UsedTypes
  /\ ExtractedIffText /\ TextsEligible
  /\ RunsSound
  /\ OutputsSound /\ SummaryCitesItsEntry

LEMMA InitIInv == Init => IInv
<1> SUFFICES ASSUME Init PROVE IInv
    OBVIOUS
<1> USE PipelineAssumption DEF Init
<1>1. TextTypes
      BY DEF TextTypes
<1>2. ModelTypes /\ UsedTypes
      BY DEF ModelTypes, UsedTypes
<1>3. RunTypes
      BY DEF RunTypes, Input, NoInput
<1>4. ExtractedIffText /\ TextsEligible /\ RunsSound
      BY DEF ExtractedIffText, TextsEligible, RunsSound, RunSound
<1>5. \A s \in ModelStages : DOMAIN outputs[s] = {} /\ Outputs(s) = {}
      BY DEF Outputs
<1>6. OutputsSound /\ SummaryCitesItsEntry
      BY <1>5 DEF OutputsSound, SummaryCitesItsEntry, ModelStages
<1> QED
    BY <1>1, <1>2, <1>3, <1>4, <1>6 DEF IInv

-----------------------------------------------------------------------------
\* What a step may rely on.

\* Nothing stored is taken back.
Grows ==
  /\ attemptIds <= attemptIds'
  /\ callIds <= callIds'
  /\ \A e \in Entries : extraction[e] # 0 => extraction'[e] # 0
  /\ \A s \in ModelStages :
       /\ DOMAIN outputs[s] \subseteq DOMAIN outputs'[s]
       /\ \A i \in DOMAIN outputs[s] : outputs'[s][i] = outputs[s][i]

\* The runs that a step neither starts nor moves are as they were or over.
OthersStay(r) ==
  \A q \in Runners \ {r} : pc'[q] = pc[q] /\ job'[q] = job[q] /\ input'[q] = input[q]

LEMMA StillSound ==
  ASSUME IInv, Grows, NEW q \in Runners,
         pc'[q] = pc[q], job'[q] = job[q], input'[q] = input[q]
  PROVE  RunSound(q)'
<1>1. RunSound(q)
      BY DEF IInv, RunsSound
<1>2. pc[q] # "idle" => job[q].entry \in Entries
      BY DEF IInv, RunTypes, Job
<1>3. ASSUME NEW e \in Entries, NEW s, NEW in, ModelRunSound(s, e, in)
      PROVE  ModelRunSound(s, e, in)'
      BY <1>3 DEF ModelRunSound, Cites, Grows, ModelStages
<1>4. ASSUME NEW e, NEW in, Cites(e, in), CitesEarlier(in)
      PROVE  CitesEarlier(in)'
      BY <1>4 DEF Cites, CitesEarlier, Grows, ModelStages
<1>5. pc[q] = "store" /\ job[q].stage = "summarize" => CitesEarlier(input[q])'
      BY <1>1, <1>4 DEF RunSound, ModelRunSound, ModelStages
<1> QED
    BY <1>1, <1>2, <1>3, <1>5 DEF RunSound

LEMMA RunsStaySound ==
  ASSUME IInv, Grows, NEW r \in Runners, OthersStay(r), RunSound(r)'
  PROVE  RunsSound'
<1> SUFFICES ASSUME NEW q \in Runners PROVE RunSound(q)'
    BY DEF RunsSound
<1>1. CASE q = r
      BY <1>1
<1>2. CASE q # r
      BY <1>2, StillSound DEF OthersStay
<1> QED
    BY <1>1, <1>2

\* A run that starts has a moment of its own to come.
LEMMA CountsMoment ==
  ASSUME IInv, NEW r, CountRun(r)
  PROVE  used.runs + 1 \in Moments
BY PipelineAssumption DEF CountRun, Moments, IInv, UsedTypes

\* A run that ends.
LEMMA Closes ==
  ASSUME IInv, Grows, attemptIds' \in Nat, callIds' \in Nat, NEW r \in Runners, Close(r)
  PROVE  RunTypes' /\ RunsSound'
<1>1. /\ attemptIds <= attemptIds' /\ callIds <= callIds'
      /\ attemptIds \in Nat /\ callIds \in Nat
      BY DEF Grows, IInv, TextTypes, ModelTypes
<1>2. /\ NoInput \in Input(attemptIds', callIds')
      /\ Input(attemptIds, callIds) \subseteq Input(attemptIds', callIds')
      BY <1>1 DEF NoInput, Input
<1>3. RunTypes'
      BY <1>2 DEF IInv, RunTypes, Close
<1>4. OthersStay(r) /\ RunSound(r)'
      BY DEF IInv, RunTypes, Close, OthersStay, RunSound
<1> QED
    BY <1>3, <1>4, RunsStaySound

\* A run that starts.
LEMMA GoesOutside ==
  ASSUME IInv, UNCHANGED <<textVars, modelVars>>, NEW r \in Runners, CountRun(r),
         NEW s \in ModelStages \cup {"extract"}, NEW e \in Entries,
         NEW in \in Input(attemptIds, callIds), GoOutside(r, s, e, in),
         s = "extract" => Eligible(e),
         s \in ModelStages => ModelRunSound(s, e, in)
  PROVE  RunTypes' /\ RunsSound'
<1> DEFINE new == [stage |-> s, entry |-> e, at |-> used.runs + 1]
<1>1. Grows
      BY DEF Grows, IInv, TextTypes, ModelTypes, textVars, modelVars
<1>2. new \in Job
      BY CountsMoment DEF Job
<1>3. RunTypes'
      <2> HIDE DEF new
      <2> QED
          BY <1>2 DEF IInv, RunTypes, GoOutside, textVars, modelVars, new
<1>4. OthersStay(r)
      BY DEF IInv, RunTypes, GoOutside, OthersStay
<1>5. ModelRunSound(s, e, in) => ModelRunSound(s, e, in)'
      BY DEF ModelRunSound, Cites, textVars, modelVars
<1>6. /\ pc'[r] = "outside"
      /\ job'[r].stage = s /\ job'[r].entry = e
      /\ input'[r] = in
      BY DEF IInv, RunTypes, GoOutside
<1>7. RunSound(r)'
      BY <1>5, <1>6 DEF RunSound, ModelStages
<1> QED
    BY <1>1, <1>3, <1>4, <1>7, RunsStaySound

\* A step that leaves texts and model calls alone.
LEMMA TextsAlone ==
  ASSUME IInv, UNCHANGED <<sourceVars, textVars>>
  PROVE  (TextTypes /\ ExtractedIffText /\ TextsEligible)'
BY DEF IInv, sourceVars, textVars, TextTypes, ExtractedIffText, TextsEligible

LEMMA ModelsAlone ==
  ASSUME IInv, Grows, UNCHANGED modelVars
  PROVE  (ModelTypes /\ OutputsSound /\ SummaryCitesItsEntry)'
<1>0. modelCalls' = modelCalls /\ callIds' = callIds /\ outputs' = outputs
      BY DEF modelVars
<1>1. ModelTypes' /\ SummaryCitesItsEntry'
      <2>1. \A s : Outputs(s)' = Outputs(s)
            BY <1>0 DEF Outputs
      <2>2. ModelTypes'
            BY <1>0 DEF IInv, ModelTypes
      <2>3. SummaryCitesItsEntry'
            BY <1>0, <2>1 DEF IInv, SummaryCitesItsEntry
      <2> QED
          BY <2>2, <2>3
<1>2. \A s \in ModelStages : \A i \in DOMAIN outputs[s] : outputs[s][i].entry \in Entries
      <2> SUFFICES ASSUME NEW s \in ModelStages, NEW i \in DOMAIN outputs[s]
                   PROVE  outputs[s][i].entry \in Entries
          OBVIOUS
      <2>1. outputs[s] \in Seq(OutputRow)
            BY DEF IInv, ModelTypes
      <2>2. outputs[s][i] \in OutputRow
            BY <2>1
      <2> QED
          BY <2>2 DEF OutputRow
<1>3. OutputsSound'
      BY <1>2 DEF IInv, modelVars, OutputsSound, Grows
<1> QED
    BY <1>1, <1>3

-----------------------------------------------------------------------------
\* One lemma per action.

LEMMA PolicyChanges ==
  ASSUME IInv, NEW e \in Entries, ChangePolicy(e)
  PROVE  IInv'
<1> USE PipelineAssumption
<1>1. PICK p \in PoliciesOf[e] : policy' = [policy EXCEPT ![e] = p]
      BY DEF ChangePolicy
<1>2. UNCHANGED <<ingestFailures, textVars, modelVars, runVars>>
      BY DEF ChangePolicy
<1>3. Grows
      BY <1>2 DEF Grows, textVars, modelVars, IInv, TextTypes, ModelTypes
<1>4. p \in Policy
      BY <1>1
<1>5. (TextTypes /\ ExtractedIffText /\ TextsEligible)'
      BY <1>1, <1>2, <1>4
         DEF IInv, TextTypes, ExtractedIffText, TextsEligible, textVars
<1>6. RunTypes'
      BY <1>2 DEF IInv, RunTypes, textVars, modelVars, runVars
<1>7. RunsSound'
      <2> SUFFICES ASSUME NEW q \in Runners PROVE RunSound(q)'
          BY DEF RunsSound
      <2> QED
          BY <1>2, <1>3, StillSound DEF runVars
<1>8. UsedTypes'
      BY DEF ChangePolicy, IInv, UsedTypes
<1> QED
    BY <1>2, <1>3, <1>5, <1>6, <1>7, <1>8, ModelsAlone DEF IInv

\* A run, a fault or a failure is counted.
LEMMA Counts ==
  ASSUME UsedTypes
  PROVE  /\ \A r : CountRun(r) => UsedTypes'
         /\ CountFailure => UsedTypes'
         /\ UNCHANGED used => UsedTypes'
BY PipelineAssumption DEF UsedTypes, CountRun, CountFailure

LEMMA IngestsFail ==
  ASSUME IInv, IngestFails
  PROVE  IInv'
<1> USE PipelineAssumption
<1>1. UNCHANGED <<policy, textVars, modelVars, runVars>>
      BY DEF IngestFails
<1>2. Grows
      BY <1>1 DEF Grows, textVars, modelVars, IInv, TextTypes, ModelTypes
<1>3. ingestFailures' \subseteq Moments
      BY DEF IngestFails, IInv, TextTypes, UsedTypes, Moments
<1>4. (TextTypes /\ ExtractedIffText /\ TextsEligible)'
      BY <1>1, <1>3
         DEF IInv, TextTypes, ExtractedIffText, TextsEligible, textVars
<1>5. RunTypes'
      BY <1>1 DEF IInv, RunTypes, textVars, modelVars, runVars
<1>6. RunsSound'
      <2> SUFFICES ASSUME NEW q \in Runners PROVE RunSound(q)'
          BY DEF RunsSound
      <2> QED
          BY <1>1, <1>2, StillSound DEF runVars
<1>7. UsedTypes'
      <2>1. /\ used.runs + 1 \in 0..MaxRuns
            /\ used.failures + 1 \in Nat
            BY DEF IngestFails, IInv, UsedTypes
      <2>2. used' = [used EXCEPT !.runs = used.runs + 1, !.failures = used.failures + 1]
            BY DEF IngestFails
      <2> QED
          BY <2>1, <2>2 DEF IInv, UsedTypes
<1> QED
    BY <1>1, <1>2, <1>4, <1>5, <1>6, <1>7, ModelsAlone DEF IInv

\* An attempt without a text.
LEMMA RecordsAttempt ==
  ASSUME IInv, NEW e \in Entries, NEW status \in {"failure", "skipped"},
         NEW at \in Moments, RecordAttempt(e, status, at),
         UNCHANGED <<sourceVars, stage, extraction, modelVars>>
  PROVE  /\ Grows /\ attemptIds' \in Nat /\ callIds' \in Nat
         /\ (TextTypes /\ ExtractedIffText /\ TextsEligible)'
<1>1. /\ attemptIds \in Nat
      /\ attemptIds' = attemptIds + 1
      /\ attempts' = attempts \cup {Attempt(attemptIds + 1, e, status, at)}
      /\ callIds \in Nat
      BY DEF IInv, TextTypes, ModelTypes, RecordAttempt
<1>2. Grows
      BY <1>1 DEF Grows, modelVars
<1>3. Attempts(attemptIds) \subseteq Attempts(attemptIds')
      BY <1>1 DEF Attempts
<1>4. Attempt(attemptIds + 1, e, status, at) \in Attempts(attemptIds')
      BY <1>1 DEF Attempt, Attempts, Statuses
<1>5. TextTypes'
      BY <1>1, <1>3, <1>4 DEF IInv, TextTypes, sourceVars
<1>6. (ExtractedIffText /\ TextsEligible)'
      BY <1>1 DEF IInv, ExtractedIffText, TextsEligible, sourceVars
<1> QED
    BY <1>1, <1>2, <1>5, <1>6 DEF modelVars

LEMMA ExtractionStarts ==
  ASSUME IInv, NEW r \in Runners, NEW e \in Entries, StartExtraction(r, e)
  PROVE  IInv'
<1>1. UNCHANGED <<sourceVars, modelVars>> /\ CountRun(r)
      BY DEF StartExtraction
<1>2. UsedTypes'
      BY <1>1, Counts DEF IInv
<1>3. CASE MayStoreText(policy[e]) /\ GoOutside(r, "extract", e, NoInput) /\ UNCHANGED textVars
      <2>1. Eligible(e)
            BY <1>3 DEF IInv, TextsEligible, Eligible
      <2>2. NoInput \in Input(attemptIds, callIds)
            BY DEF NoInput, Input, IInv, TextTypes, ModelTypes
      <2>3. "extract" \notin ModelStages
            BY DEF ModelStages
      <2>4. RunTypes' /\ RunsSound'
            BY <1>1, <1>3, <2>1, <2>2, <2>3, GoesOutside
      <2>5. Grows
            BY <1>1, <1>3 DEF Grows, IInv, TextTypes, ModelTypes, textVars, modelVars
      <2> QED
          BY <1>1, <1>2, <1>3, <2>4, <2>5, TextsAlone, ModelsAlone DEF IInv
<1>4. CASE /\ RecordAttempt(e, "skipped", used.runs + 1)
           /\ UNCHANGED <<stage, extraction, runVars>>
      <2>1. /\ Grows /\ attemptIds' \in Nat /\ callIds' \in Nat
            /\ (TextTypes /\ ExtractedIffText /\ TextsEligible)'
            BY <1>1, <1>4, CountsMoment, RecordsAttempt
      <2>2. RunTypes'
            <3>1. Input(attemptIds, callIds) \subseteq Input(attemptIds', callIds')
                  BY <2>1 DEF Input, Grows, IInv, TextTypes, ModelTypes
            <3> QED
                BY <1>4, <3>1 DEF IInv, RunTypes, runVars
      <2>3. RunsSound'
            <3> SUFFICES ASSUME NEW q \in Runners PROVE RunSound(q)'
                BY DEF RunsSound
            <3> QED
                BY <1>4, <2>1, StillSound DEF runVars
      <2> QED
          BY <1>1, <1>2, <2>1, <2>2, <2>3, ModelsAlone DEF IInv
<1> QED
    BY <1>3, <1>4 DEF StartExtraction

LEMMA FetchesFail ==
  ASSUME IInv, NEW r \in Runners, FetchFails(r)
  PROVE  IInv'
<1>1. /\ RecordAttempt(job[r].entry, "failure", job[r].at)
      /\ Close(r)
      /\ CountFailure
      /\ UNCHANGED <<sourceVars, stage, extraction, modelVars>>
      BY DEF FetchFails
<1>2. job[r].entry \in Entries /\ job[r].at \in Moments
      BY DEF FetchFails, IInv, RunTypes, Job
<1>3. /\ Grows /\ attemptIds' \in Nat /\ callIds' \in Nat
      /\ (TextTypes /\ ExtractedIffText /\ TextsEligible)'
      BY <1>1, <1>2, RecordsAttempt
<1>4. RunTypes' /\ RunsSound'
      BY <1>1, <1>3, Closes
<1>5. UsedTypes'
      BY <1>1, Counts DEF IInv
<1> QED
    BY <1>1, <1>3, <1>4, <1>5, ModelsAlone DEF IInv

LEMMA FetchesSucceed ==
  ASSUME IInv, NEW r \in Runners, FetchSucceeds(r)
  PROVE  IInv'
<1>1. /\ attemptIds \in Nat
      /\ attemptIds' = attemptIds + 1
      /\ UNCHANGED <<sourceVars, stage, attempts, extraction, modelVars, job, used>>
      /\ callIds \in Nat /\ callIds' = callIds
      BY DEF FetchSucceeds, IInv, TextTypes, ModelTypes, modelVars
<1>2. pc[r] = "outside" /\ job[r].stage = "extract" /\ job[r] \in Job
      BY DEF FetchSucceeds, IInv, RunTypes
<1>3. Grows
      BY <1>1 DEF Grows, modelVars
<1>4. TextTypes'
      <2>1. Attempts(attemptIds) \subseteq Attempts(attemptIds')
            BY <1>1 DEF Attempts
      <2> QED
          BY <1>1, <2>1 DEF IInv, TextTypes, sourceVars
<1>5. (ExtractedIffText /\ TextsEligible)'
      BY <1>1 DEF IInv, ExtractedIffText, TextsEligible, sourceVars
<1>6. /\ input' \in [Runners -> Input(attemptIds', callIds')]
      /\ input'[r].attempt = attemptIds + 1
      /\ \A q \in Runners \ {r} : input'[q] = input[q]
      <2>1. input \in [Runners -> Input(attemptIds, callIds)]
            BY DEF IInv, RunTypes
      <2>2. input' = [input EXCEPT ![r] = [input[r] EXCEPT !.attempt = attemptIds + 1]]
            BY DEF FetchSucceeds
      <2>3. Input(attemptIds, callIds) \subseteq Input(attemptIds', callIds')
            BY <1>1 DEF Input
      <2>4. /\ [input[r] EXCEPT !.attempt = attemptIds + 1] \in Input(attemptIds', callIds')
            /\ [input[r] EXCEPT !.attempt = attemptIds + 1].attempt = attemptIds + 1
            <3>1. input[r] \in Input(attemptIds, callIds)
                  BY <2>1
            <3> QED
                BY <1>1, <3>1 DEF Input
      <2> QED
          BY <2>1, <2>2, <2>3, <2>4
<1>7. pc' = [pc EXCEPT ![r] = "store"]
      BY DEF FetchSucceeds
<1>8. RunTypes'
      BY <1>1, <1>2, <1>6, <1>7 DEF IInv, RunTypes
<1>9. OthersStay(r)
      BY <1>1, <1>6, <1>7 DEF OthersStay, IInv, RunTypes
<1>10. RunSound(r)'
       <2>1. pc'[r] = "store" /\ job'[r] = job[r] /\ input'[r].attempt # 0
             BY <1>1, <1>6, <1>7 DEF IInv, RunTypes
       <2>2. Eligible(job[r].entry)
             BY <1>2 DEF IInv, RunsSound, RunSound
       <2> QED
           BY <1>2, <2>1, <2>2 DEF RunSound, ModelStages
<1>11. RunsSound'
       BY <1>3, <1>9, <1>10, RunsStaySound
<1> QED
    BY <1>1, <1>3, <1>4, <1>5, <1>8, <1>11, ModelsAlone, Counts DEF IInv

LEMMA ExtractionsStored ==
  ASSUME IInv, NEW r \in Runners, StoreExtraction(r)
  PROVE  IInv'
<1> DEFINE e == job[r].entry
           id == input[r].attempt
           at == job[r].at
           row == Attempt(id, e, "success", at)
<1>1. /\ attempts' = attempts \cup {row}
      /\ extraction' = [extraction EXCEPT ![e] = id]
      /\ stage' = [stage EXCEPT ![e] = "extracted"]
      /\ Close(r)
      /\ UNCHANGED <<sourceVars, attemptIds, modelVars, used>>
      BY DEF StoreExtraction
<1>2. e \in Entries /\ at \in Moments
      BY DEF StoreExtraction, IInv, RunTypes, Job
<1>3. id \in 1..attemptIds
      <2>1. id \in 0..attemptIds /\ attemptIds \in Nat
            BY DEF IInv, TextTypes, RunTypes, Input
      <2>2. id # 0
            BY DEF StoreExtraction, IInv, RunsSound, RunSound
      <2> QED
          BY <2>1, <2>2
<1>4. Eligible(e)
      BY DEF StoreExtraction, IInv, RunsSound, RunSound
<1> HIDE DEF e, id, at
<1>5. Grows
      BY <1>1, <1>2, <1>3 DEF Grows, IInv, TextTypes, ModelTypes, modelVars
<1>6. TextTypes'
      BY <1>1, <1>2, <1>3 DEF IInv, TextTypes, Attempts, Attempt, Statuses, sourceVars
<1>7. ExtractedIffText'
      <2> SUFFICES ASSUME NEW d \in Entries
                   PROVE  /\ stage'[d] = "extracted" <=> extraction'[d] # 0
                          /\ extraction'[d] # 0 =>
                               \E a \in attempts' : /\ a.id = extraction'[d]
                                                     /\ a.entry = d
                                                     /\ a.status = "success"
          BY DEF ExtractedIffText
      <2>1. CASE d = e
            <3>1. row \in attempts' /\ row.id = id /\ row.entry = e /\ row.status = "success"
                  BY <1>1 DEF Attempt
            <3>2. stage'[e] = "extracted" /\ extraction'[e] = id /\ id # 0
                  BY <1>1, <1>2, <1>3 DEF IInv, TextTypes
            <3> HIDE DEF row
            <3> QED
                BY <2>1, <3>1, <3>2
      <2>2. CASE d # e
            BY <1>1, <1>2, <2>2 DEF IInv, TextTypes, ExtractedIffText
      <2> QED
          BY <2>1, <2>2
<1>8. TextsEligible'
      BY <1>1, <1>2, <1>4 DEF IInv, TextTypes, TextsEligible, sourceVars
<1>9. RunTypes' /\ RunsSound'
      BY <1>1, <1>5, Closes DEF IInv, TextTypes, ModelTypes, modelVars
<1> QED
    BY <1>1, <1>5, <1>6, <1>7, <1>8, <1>9, ModelsAlone, Counts DEF IInv

\* A call that stores nothing.
LEMMA RecordsCall ==
  ASSUME IInv, NEW s \in ModelStages, NEW e \in Entries, NEW status \in {"failure", "skipped"},
         NEW at \in Moments, RecordModelCall(s, e, status, at),
         UNCHANGED <<sourceVars, textVars, outputs>>
  PROVE  /\ Grows /\ attemptIds' \in Nat /\ callIds' \in Nat
         /\ (ModelTypes /\ OutputsSound /\ SummaryCitesItsEntry)'
<1>1. /\ attemptIds \in Nat
      /\ callIds \in Nat
      /\ callIds' = callIds + 1
      /\ modelCalls' = modelCalls \cup {ModelCall(callIds + 1, s, e, status, at)}
      BY DEF IInv, TextTypes, ModelTypes, RecordModelCall
<1>2. Grows
      BY <1>1 DEF Grows, textVars
<1>3. /\ Calls(callIds) \subseteq Calls(callIds')
      /\ ModelCall(callIds + 1, s, e, status, at) \in Calls(callIds')
      BY <1>1 DEF Calls, ModelCall, Statuses
<1>4. ModelTypes'
      BY <1>1, <1>3 DEF IInv, ModelTypes
<1>5. SummaryCitesItsEntry'
      BY DEF IInv, SummaryCitesItsEntry, Outputs
<1>6. OutputsSound'
      BY <1>1 DEF IInv, OutputsSound, textVars
<1> QED
    BY <1>1, <1>2, <1>4, <1>5, <1>6 DEF textVars

\* What the stages' prefilters admit.
LEMMA Admitted ==
  ASSUME IInv, NEW s \in ModelStages, NEW e \in Entries, Admits(s, e)
  PROVE  /\ ReadInput(s, e) \in Input(attemptIds, callIds)
         /\ ModelRunSound(s, e, ReadInput(s, e))
<1> USE PipelineAssumption
<1>1. /\ Latest("evaluate", e) \in Nat
      /\ Latest("evaluate", e) # 0 =>
           /\ Latest("evaluate", e) \in DOMAIN outputs["evaluate"]
           /\ outputs["evaluate"][Latest("evaluate", e)].entry = e
      BY LatestIsOwn DEF IInv, ModelStages
<1>2. /\ Latest("translate", e) \in Nat
      /\ Latest("translate", e) # 0 =>
           /\ Latest("translate", e) \in DOMAIN outputs["translate"]
           /\ outputs["translate"][Latest("translate", e)].entry = e
      BY LatestIsOwn DEF IInv, ModelStages
<1>3. policy[e].rights \in Rights
      BY DEF IInv, TextTypes, Policy
<1>4. ReadInput(s, e) \in Input(attemptIds, callIds)
      BY <1>1, <1>2, <1>3 DEF ReadInput, Input, IInv, TextTypes, ModelTypes
<1>5. extraction[e] # 0
      BY DEF Admits, MayEvaluate, MayTranslate, MaySummarize
<1>6. RightsOf[e] # "blocked"
      <2>1. CASE s = "summarize"
            BY <1>1, <2>1 DEF Admits, MaySummarize, IInv, OutputsSound, ModelStages
      <2>2. CASE s # "summarize"
            BY <2>2 DEF Admits, MayEvaluate, MayTranslate
      <2> QED
          BY <2>1, <2>2
<1>7. s = "summarize" => Cites(e, ReadInput(s, e))
      BY <1>1, <1>2 DEF Admits, MaySummarize, Cites, ReadInput
<1>8. ReadInput(s, e).rights \in Rights
      BY <1>3 DEF ReadInput
<1> QED
    BY <1>4, <1>5, <1>6, <1>7, <1>8 DEF ModelRunSound

LEMMA ModelStageStarts ==
  ASSUME IInv, NEW r \in Runners, NEW s \in ModelStages, NEW e \in Entries,
         StartModelStage(r, s, e)
  PROVE  IInv'
<1>1. UNCHANGED <<sourceVars, textVars>> /\ CountRun(r)
      BY DEF StartModelStage
<1>2. UsedTypes' /\ (TextTypes /\ ExtractedIffText /\ TextsEligible)'
      BY <1>1, Counts, TextsAlone DEF IInv
<1>3. CASE Admits(s, e) /\ GoOutside(r, s, e, ReadInput(s, e)) /\ UNCHANGED modelVars
      <2>1. Grows
            BY <1>1, <1>3 DEF Grows, IInv, TextTypes, ModelTypes, textVars, modelVars
      <2>2. s # "extract"
            BY DEF ModelStages
      <2>3. RunTypes' /\ RunsSound'
            BY <1>1, <1>3, <2>2, Admitted, GoesOutside
      <2> QED
          BY <1>2, <1>3, <2>1, <2>3, ModelsAlone DEF IInv
<1>4. CASE RecordModelCall(s, e, "skipped", used.runs + 1) /\ UNCHANGED <<outputs, runVars>>
      <2>1. /\ Grows /\ attemptIds' \in Nat /\ callIds' \in Nat
            /\ (ModelTypes /\ OutputsSound /\ SummaryCitesItsEntry)'
            BY <1>1, <1>4, CountsMoment, RecordsCall
      <2>2. RunTypes'
            <3>1. Input(attemptIds, callIds) \subseteq Input(attemptIds', callIds')
                  BY <2>1 DEF Input, Grows, IInv, TextTypes, ModelTypes
            <3> QED
                BY <1>4, <3>1 DEF IInv, RunTypes, runVars
      <2>3. RunsSound'
            <3> SUFFICES ASSUME NEW q \in Runners PROVE RunSound(q)'
                BY DEF RunsSound
            <3> QED
                BY <1>4, <2>1, StillSound DEF runVars
      <2> QED
          BY <1>2, <2>1, <2>2, <2>3 DEF IInv
<1> QED
    BY <1>3, <1>4 DEF StartModelStage

LEMMA AdaptersFail ==
  ASSUME IInv, NEW r \in Runners, AdapterFails(r)
  PROVE  IInv'
<1>1. /\ job[r].stage \in ModelStages
      /\ RecordModelCall(job[r].stage, job[r].entry, "failure", job[r].at)
      /\ Close(r)
      /\ CountFailure
      /\ UNCHANGED <<sourceVars, textVars, outputs>>
      BY DEF AdapterFails
<1>2. job[r].entry \in Entries /\ job[r].at \in Moments
      BY DEF AdapterFails, IInv, RunTypes, Job
<1>3. /\ Grows /\ attemptIds' \in Nat /\ callIds' \in Nat
      /\ (ModelTypes /\ OutputsSound /\ SummaryCitesItsEntry)'
      BY <1>1, <1>2, RecordsCall
<1>4. RunTypes' /\ RunsSound'
      BY <1>1, <1>3, Closes
<1> QED
    BY <1>1, <1>3, <1>4, Counts, TextsAlone DEF IInv

\* The id that is drawn is above those of all calls that have left an output.
LEMMA AdaptersAnswer ==
  ASSUME IInv, NEW r \in Runners, AdapterAnswers(r)
  PROVE  IInv'
<1>1. /\ attemptIds \in Nat
      /\ callIds \in Nat
      /\ callIds' = callIds + 1
      /\ UNCHANGED <<sourceVars, textVars, modelCalls, outputs, job, used>>
      /\ attemptIds' = attemptIds
      BY DEF AdapterAnswers, IInv, TextTypes, ModelTypes, textVars
<1>2. pc[r] = "outside" /\ job[r].stage \in ModelStages /\ job[r] \in Job
      BY DEF AdapterAnswers, IInv, RunTypes
<1>3. Grows
      BY <1>1 DEF Grows, textVars
<1>4. (TextTypes /\ ExtractedIffText /\ TextsEligible)'
      BY <1>1, TextsAlone
<1>5. ModelTypes'
      <2>1. Calls(callIds) \subseteq Calls(callIds')
            BY <1>1 DEF Calls
      <2> QED
          BY <1>1, <2>1 DEF IInv, ModelTypes
<1>6. SummaryCitesItsEntry'
      BY <1>1 DEF IInv, SummaryCitesItsEntry, Outputs
<1>7. OutputsSound'
      BY <1>1 DEF IInv, OutputsSound, textVars
<1>8. /\ input' \in [Runners -> Input(attemptIds', callIds')]
      /\ input'[r].call = callIds + 1
      /\ input'[r].evaluation = input[r].evaluation
      /\ input'[r].translation = input[r].translation
      /\ input'[r].rights = input[r].rights
      /\ \A q \in Runners \ {r} : input'[q] = input[q]
      <2> DEFINE in == [input[r] EXCEPT !.call = callIds + 1]
      <2>1. input \in [Runners -> Input(attemptIds, callIds)]
            BY DEF IInv, RunTypes
      <2>2. input' = [input EXCEPT ![r] = in]
            BY DEF AdapterAnswers
      <2>3. Input(attemptIds, callIds) \subseteq Input(attemptIds', callIds')
            BY <1>1 DEF Input
      <2>4. /\ in \in Input(attemptIds', callIds')
            /\ in.call = callIds + 1
            /\ in.evaluation = input[r].evaluation
            /\ in.translation = input[r].translation
            /\ in.rights = input[r].rights
            <3>1. input[r] \in Input(attemptIds, callIds)
                  BY <2>1
            <3> QED
                BY <1>1, <3>1 DEF Input
      <2> HIDE DEF in
      <2> QED
          BY <2>1, <2>2, <2>3, <2>4
<1>9. pc' = [pc EXCEPT ![r] = "store"]
      BY DEF AdapterAnswers
<1>10. RunTypes'
       BY <1>1, <1>2, <1>8, <1>9 DEF IInv, RunTypes
<1>11. OthersStay(r)
       BY <1>1, <1>8, <1>9 DEF OthersStay, IInv, RunTypes
<1>12. RunSound(r)'
       <2>1. pc'[r] = "store" /\ job'[r] = job[r] /\ input'[r].call # 0
             BY <1>1, <1>8, <1>9 DEF IInv, RunTypes
       <2>2. ModelRunSound(job[r].stage, job[r].entry, input[r])
             BY <1>2 DEF IInv, RunsSound, RunSound
       <2>3. ModelRunSound(job[r].stage, job[r].entry, input[r])'
             BY <1>1, <1>8, <2>2 DEF ModelRunSound, Cites, textVars
       <2>4. ASSUME job[r].stage = "summarize" PROVE CitesEarlier(input[r])'
             <3>1. Cites(job[r].entry, input[r])
                   BY <2>2, <2>4 DEF ModelRunSound
             <3>2. {"evaluate", "translate"} \subseteq ModelStages
                   BY DEF ModelStages
             <3>3. \A t \in ModelStages : \A i \in DOMAIN outputs[t] :
                     outputs[t][i].call < callIds + 1
                   BY <1>1 DEF IInv, OutputsSound
             <3> QED
                 BY <1>1, <1>8, <3>1, <3>2, <3>3 DEF Cites, CitesEarlier
       <2>5. job[r].stage # "extract"
             BY <1>2 DEF ModelStages
       <2> QED
           BY <2>1, <2>3, <2>4, <2>5 DEF RunSound
<1>13. RunsSound'
       BY <1>3, <1>11, <1>12, RunsStaySound
<1> QED
    BY <1>1, <1>4, <1>5, <1>6, <1>7, <1>10, <1>13, Counts DEF IInv

LEMMA OutputsStored ==
  ASSUME IInv, NEW r \in Runners, StoreOutput(r)
  PROVE  IInv'
<1>0. PICK s \in ModelStages, e \in Entries, at \in Moments :
        job[r].stage = s /\ job[r].entry = e /\ job[r].at = at
      BY DEF StoreOutput, IInv, RunTypes, Job
<1> DEFINE id == input[r].call
           row == ModelCall(id, s, e, "success", at)
           new == Output(r)
<1>1. /\ modelCalls' = modelCalls \cup {row}
      /\ outputs' = [outputs EXCEPT ![s] = Append(outputs[s], new)]
      /\ Close(r)
      /\ UNCHANGED <<sourceVars, textVars, callIds, used>>
      BY <1>0 DEF StoreOutput, Success
<1>2. /\ ModelRunSound(s, e, input[r])
      /\ s = "summarize" => CitesEarlier(input[r])
      /\ id # 0
      BY <1>0 DEF StoreOutput, IInv, RunsSound, RunSound
<1>3. input[r] \in Input(attemptIds, callIds)
      BY DEF IInv, RunTypes
<1>4. callIds \in Nat /\ id \in 1..callIds
      BY <1>2, <1>3 DEF IInv, ModelTypes, Input
<1>5. row \in Calls(callIds)
      BY <1>4 DEF Calls, ModelCall, Statuses
<1>6. /\ new.entry = e
      /\ new.call = id
      /\ new.evaluation = input[r].evaluation
      /\ new.translation = input[r].translation
      /\ new \in OutputRow
      BY <1>0, <1>2, <1>3, <1>4 DEF Output, OutputRow, ModelRunSound, Input
<1> HIDE DEF row, new, id
<1>8. \A t \in ModelStages : outputs[t] \in Seq(OutputRow)
      BY DEF IInv, ModelTypes
<1>9. /\ outputs' \in [ModelStages -> Seq(OutputRow)]
      /\ outputs'[s] = Append(outputs[s], new)
      /\ \A t \in ModelStages \ {s} : outputs'[t] = outputs[t]
      BY <1>1, <1>6, <1>8 DEF IInv, ModelTypes
<1>10. /\ DOMAIN outputs'[s] = DOMAIN outputs[s] \cup {Len(outputs[s]) + 1}
       /\ \A i \in DOMAIN outputs[s] : outputs'[s][i] = outputs[s][i]
       /\ outputs'[s][Len(outputs[s]) + 1] = new
       BY <1>1, <1>6, <1>8, <1>9
<1>11. Outputs(s)' = Outputs(s) \cup {new}
       BY <1>10 DEF Outputs
<1>12. \A t \in ModelStages \ {s} : Outputs(t)' = Outputs(t)
       BY <1>9 DEF Outputs
<1>13. Grows
       BY <1>1, <1>9, <1>10 DEF Grows, IInv, TextTypes, ModelTypes, textVars
<1>14. ModelTypes'
       BY <1>1, <1>5, <1>9 DEF IInv, ModelTypes
<1>15. OutputsSound'
       <2> SUFFICES ASSUME NEW t \in ModelStages, NEW i \in DOMAIN outputs'[t]
                    PROVE  /\ outputs'[t][i].call \in 1..callIds'
                           /\ extraction'[outputs'[t][i].entry] # 0
                           /\ RightsOf[outputs'[t][i].entry] # "blocked"
           BY DEF OutputsSound
       <2>1. CASE i \in DOMAIN outputs[t] /\ outputs'[t][i] = outputs[t][i]
             BY <1>1, <2>1 DEF IInv, OutputsSound, textVars
       <2>2. CASE outputs'[t][i] = new
             BY <1>1, <1>2, <1>4, <1>6, <2>2 DEF ModelRunSound, textVars
       <2> QED
           BY <1>9, <1>10, <2>1, <2>2
<1>16. SummaryCitesItsEntry'
       <2> DEFINE Cited(o) == {outputs["evaluate"][o.evaluation]} \cup
                                {outputs["translate"][i] : i \in {o.translation} \ {0}}
                  CitedNow(o) == {outputs'["evaluate"][o.evaluation]} \cup
                                   {outputs'["translate"][i] : i \in {o.translation} \ {0}}
                  There(o) ==
                    /\ o.evaluation \in DOMAIN outputs["evaluate"]
                    /\ o.translation \in DOMAIN outputs["translate"] \cup {0}
                    /\ \A c \in Cited(o) : c.entry = o.entry /\ c.call < o.call
                  ThereNow(o) ==
                    /\ o.evaluation \in DOMAIN outputs'["evaluate"]
                    /\ o.translation \in DOMAIN outputs'["translate"] \cup {0}
                    /\ \A c \in CitedNow(o) : c.entry = o.entry /\ c.call < o.call
       <2> SUFFICES ASSUME NEW o \in Outputs("summarize")' PROVE ThereNow(o)
           BY DEF SummaryCitesItsEntry
       <2>1. There(o) => ThereNow(o)
             <3>1. {"evaluate", "translate"} \subseteq ModelStages
                   BY DEF ModelStages
             <3>2. SUFFICES ASSUME There(o) PROVE ThereNow(o)
                   OBVIOUS
             <3>3. CitedNow(o) = Cited(o)
                   BY <1>13, <3>1, <3>2 DEF Grows
             <3> HIDE DEF Cited, CitedNow
             <3> QED
                 BY <1>13, <3>1, <3>2, <3>3 DEF Grows
       <2>2. CASE o \in Outputs("summarize")
             <3>1. There(o)
                   BY <2>2 DEF IInv, SummaryCitesItsEntry
             <3> QED
                 BY <2>1, <3>1
       <2>3. CASE s = "summarize" /\ o = new
             <3>1. Cites(e, input[r]) /\ CitesEarlier(input[r])
                   BY <1>2, <2>3 DEF ModelRunSound
             <3>2. /\ o.evaluation = input[r].evaluation
                   /\ o.translation = input[r].translation
                   /\ o.entry = e
                   /\ o.call = input[r].call
                   BY <1>6, <2>3 DEF id
             <3>3. There(o)
                   BY <3>1, <3>2 DEF Cites, CitesEarlier
             <3> QED
                 BY <2>1, <3>3
       <2> QED
           BY <1>11, <1>12, <2>2, <2>3 DEF ModelStages
<1>17. RunTypes' /\ RunsSound'
       BY <1>1, <1>13, Closes DEF IInv, TextTypes, ModelTypes, textVars
<1> QED
    BY <1>1, <1>14, <1>15, <1>16, <1>17, Counts, TextsAlone DEF IInv

LEMMA Aborts ==
  ASSUME IInv, NEW r \in Runners, Abort(r)
  PROVE  IInv'
<1>1. Close(r) /\ UNCHANGED <<sourceVars, textVars, modelVars>>
      BY DEF Abort
<1>2. Grows
      BY <1>1 DEF Grows, IInv, TextTypes, ModelTypes, textVars, modelVars
<1>3. RunTypes' /\ RunsSound'
      BY <1>1, <1>2, Closes DEF IInv, TextTypes, ModelTypes, textVars, modelVars
<1>4. UsedTypes'
      BY PipelineAssumption DEF Abort, IInv, UsedTypes
<1> QED
    BY <1>1, <1>2, <1>3, <1>4, TextsAlone, ModelsAlone DEF IInv

LEMMA Stutters ==
  ASSUME IInv, UNCHANGED vars
  PROVE  IInv'
<1>1. UNCHANGED <<sourceVars, textVars, modelVars, runVars, used>>
      BY DEF vars
<1>2. Grows
      BY <1>1 DEF Grows, IInv, TextTypes, ModelTypes, textVars, modelVars
<1>3. RunTypes' /\ UsedTypes'
      BY <1>1, Counts DEF IInv, RunTypes, textVars, modelVars, runVars
<1>4. RunsSound'
      <2> SUFFICES ASSUME NEW q \in Runners PROVE RunSound(q)'
          BY DEF RunsSound
      <2> QED
          BY <1>1, <1>2, StillSound DEF runVars
<1> QED
    BY <1>1, <1>2, <1>3, <1>4, TextsAlone, ModelsAlone DEF IInv

LEMMA StepsKeepIInv == IInv /\ [Next]_vars => IInv'
<1> SUFFICES ASSUME IInv, [Next]_vars PROVE IInv'
    OBVIOUS
<1>1. ASSUME NEW r \in Runners, RunStep(r) PROVE IInv'
      BY <1>1, FetchesFail, FetchesSucceed, ExtractionsStored, AdaptersFail, AdaptersAnswer,
         OutputsStored
         DEF RunStep
<1> QED
    BY <1>1, PolicyChanges, IngestsFail, ExtractionStarts, ModelStageStarts, Aborts, Stutters DEF Next

LEMMA Invariance == Spec => []IInv
BY InitIInv, StepsKeepIInv, PTL DEF Spec

-----------------------------------------------------------------------------
\* Calls and outputs pair off because the id a run has drawn for its call names
\* no committed call and no other run's.

Calling(r) == pc[r] = "store" /\ job[r].stage \in ModelStages

CallIdsAreFresh ==
  \A r \in Runners : Calling(r) =>
    /\ \A c \in modelCalls : c.id # input[r].call
    /\ \A q \in Runners \ {r} : Calling(q) => input[q].call # input[r].call

LEMMA CallIdsStayFresh ==
  ASSUME IInv, CallIdsAreFresh, [Next]_vars
  PROVE  CallIdsAreFresh'
<1> DEFINE Kept(q) == Calling(q)' => Calling(q) /\ input'[q].call = input[q].call
<1>1. /\ callIds \in Nat
      /\ \A c \in modelCalls : c.id \in 1..callIds
      /\ \A q \in Runners : input[q].call \in 0..callIds
      BY DEF IInv, ModelTypes, RunTypes, Calls, Input
<1>2. ASSUME modelCalls' = modelCalls, \A q \in Runners : Kept(q)
      PROVE  CallIdsAreFresh'
      BY <1>2 DEF CallIdsAreFresh
<1>3. ASSUME NEW r \in Runners, Close(r) PROVE ~Calling(r)' /\ \A q \in Runners : Kept(q)
      BY <1>3 DEF Close, Calling, IInv, RunTypes
<1>4. ASSUME NEW r \in Runners, NEW s, NEW e, NEW in, GoOutside(r, s, e, in)
      PROVE  \A q \in Runners : Kept(q)
      BY <1>4 DEF GoOutside, Calling, IInv, RunTypes
<1>5. ASSUME NEW s, NEW e, NEW status, NEW at, RecordModelCall(s, e, status, at),
             \A q \in Runners : Kept(q)
      PROVE  CallIdsAreFresh'
      BY <1>1, <1>5 DEF RecordModelCall, ModelCall, CallIdsAreFresh
<1>6. ASSUME UNCHANGED runVars PROVE \A q \in Runners : Kept(q)
      BY <1>6 DEF runVars, Calling
<1>7. ASSUME \/ \E e \in Entries : ChangePolicy(e)
             \/ IngestFails
      PROVE  CallIdsAreFresh'
      BY <1>2, <1>6, <1>7 DEF ChangePolicy, IngestFails, modelVars
<1>8. ASSUME NEW r \in Runners, NEW e \in Entries, StartExtraction(r, e)
      PROVE  CallIdsAreFresh'
      BY <1>2, <1>4, <1>6, <1>8 DEF StartExtraction, modelVars
<1>9. ASSUME NEW r \in Runners, NEW s \in ModelStages, NEW e \in Entries,
             StartModelStage(r, s, e)
      PROVE  CallIdsAreFresh'
      <2>1. CASE GoOutside(r, s, e, ReadInput(s, e)) /\ UNCHANGED modelVars
            BY <1>2, <1>4, <2>1 DEF modelVars
      <2>2. CASE RecordModelCall(s, e, "skipped", used.runs + 1) /\ UNCHANGED runVars
            BY <1>5, <1>6, <2>2
      <2> QED
          BY <1>9, <2>1, <2>2 DEF StartModelStage
<1>10. ASSUME NEW r \in Runners, Close(r), modelCalls' = modelCalls PROVE CallIdsAreFresh'
       BY <1>2, <1>3, <1>10
<1>11. ASSUME NEW r \in Runners, FetchSucceeds(r) PROVE CallIdsAreFresh'
       <2>1. /\ modelCalls' = modelCalls
             /\ job' = job
             /\ job[r].stage \notin ModelStages
             /\ \A q \in Runners \ {r} : pc'[q] = pc[q] /\ input'[q] = input[q]
             BY <1>11 DEF FetchSucceeds, modelVars, ModelStages, IInv, RunTypes
       <2>2. \A q \in Runners : Kept(q)
             BY <2>1 DEF Calling
       <2> QED
           BY <1>2, <2>1, <2>2
<1>12. ASSUME NEW r \in Runners, AdapterFails(r) PROVE CallIdsAreFresh'
       BY <1>3, <1>5, <1>12 DEF AdapterFails
<1>13. ASSUME NEW r \in Runners, AdapterAnswers(r) PROVE CallIdsAreFresh'
       <2>1. /\ modelCalls' = modelCalls
             /\ job' = job
             /\ input'[r].call = callIds + 1
             /\ \A q \in Runners \ {r} : pc'[q] = pc[q] /\ input'[q] = input[q]
             BY <1>13 DEF AdapterAnswers, IInv, RunTypes, Input
       <2>2. /\ \A c \in modelCalls : c.id # callIds + 1
             /\ \A q \in Runners : input[q].call # callIds + 1
             BY <1>1
       <2>3. \A q \in Runners \ {r} : Calling(q)' <=> Calling(q)
             BY <2>1 DEF Calling
       <2> SUFFICES ASSUME NEW q \in Runners, Calling(q)'
                    PROVE  /\ \A c \in modelCalls' : c.id # input'[q].call
                           /\ \A p \in Runners \ {q} : Calling(p)' =>
                                input'[p].call # input'[q].call
           BY DEF CallIdsAreFresh
       <2>4. CASE q = r
             BY <2>1, <2>2, <2>4
       <2>5. CASE q # r
             <3>1. /\ \A c \in modelCalls : c.id # input[q].call
                   /\ \A p \in Runners \ {q} : Calling(p) => input[p].call # input[q].call
                   BY <2>3, <2>5 DEF CallIdsAreFresh
             <3> QED
                 BY <2>1, <2>2, <2>3, <2>5, <3>1
       <2> QED
           BY <2>4, <2>5
<1>14. ASSUME NEW r \in Runners, StoreOutput(r) PROVE CallIdsAreFresh'
       <2> DEFINE row == Success(r, input[r].call)
       <2>1. modelCalls' = modelCalls \cup {row} /\ row.id = input[r].call
             BY <1>14 DEF StoreOutput, Success, ModelCall
       <2> HIDE DEF row
       <2>2. Close(r) /\ Calling(r)
             BY <1>14 DEF StoreOutput, Calling
       <2>3. ~Calling(r)' /\ \A q \in Runners : Kept(q)
             BY <1>3, <2>2
       <2> SUFFICES ASSUME NEW q \in Runners, Calling(q)'
                    PROVE  /\ \A c \in modelCalls' : c.id # input'[q].call
                           /\ \A p \in Runners \ {q} : Calling(p)' =>
                                input'[p].call # input'[q].call
           BY DEF CallIdsAreFresh
       <2>4. q # r /\ Calling(q) /\ input'[q].call = input[q].call
             BY <2>3
       <2>5. /\ \A c \in modelCalls : c.id # input[q].call
             /\ \A p \in Runners \ {q} : Calling(p) => input[p].call # input[q].call
             BY <2>4 DEF CallIdsAreFresh
       <2>6. row.id # input[q].call
             BY <2>1, <2>2, <2>4, <2>5
       <2> QED
           BY <2>1, <2>3, <2>4, <2>5, <2>6
<1>15. ASSUME NEW r \in Runners, RunStep(r) PROVE CallIdsAreFresh'
       <2>1. CASE FetchFails(r) \/ StoreExtraction(r)
             BY <1>10, <2>1 DEF FetchFails, StoreExtraction, modelVars
       <2> QED
           BY <1>11, <1>12, <1>13, <1>14, <1>15, <2>1 DEF RunStep
<1>16. ASSUME NEW r \in Runners, Abort(r) PROVE CallIdsAreFresh'
       BY <1>10, <1>16 DEF Abort, modelVars
<1>17. CASE UNCHANGED vars
       BY <1>2, <1>6, <1>17 DEF vars, modelVars
<1> QED
    BY <1>7, <1>8, <1>9, <1>15, <1>16, <1>17 DEF Next

\* The successful calls of a stage.
Successes(t) == {b \in modelCalls : b.purpose = t /\ b.status = "success"}

LEMMA CallsStayMatched ==
  ASSUME IInv, CallIdsAreFresh, CallsMatchOutputs, [Next]_vars
  PROVE  CallsMatchOutputs'
<1>1. ASSUME UNCHANGED outputs, \A t \in ModelStages : Successes(t)' = Successes(t)
      PROVE  CallsMatchOutputs'
      <2>1. \A t : Outputs(t)' = Outputs(t)
            BY <1>1 DEF Outputs
      <2> QED
          BY <1>1, <2>1 DEF CallsMatchOutputs, Successes
<1>2. ASSUME UNCHANGED <<modelCalls, outputs>> PROVE CallsMatchOutputs'
      BY <1>1, <1>2 DEF Successes
<1>3. ASSUME NEW s, NEW e, NEW status \in {"failure", "skipped"}, NEW at,
             RecordModelCall(s, e, status, at), UNCHANGED outputs
      PROVE  CallsMatchOutputs'
      <2>1. \A t \in ModelStages : Successes(t)' = Successes(t)
            BY <1>3 DEF RecordModelCall, ModelCall, Successes
      <2> QED
          BY <1>1, <1>3, <2>1
<1>4. ASSUME NEW r \in Runners, StoreOutput(r) PROVE CallsMatchOutputs'
      <2>0. PICK s \in ModelStages, e \in Entries : job[r].stage = s /\ job[r].entry = e
            BY <1>4 DEF StoreOutput, IInv, RunTypes, Job
      <2> DEFINE id == input[r].call
                 row == Success(r, id)
                 new == Output(r)
      <2>1. /\ modelCalls' = modelCalls \cup {row}
            /\ outputs' = [outputs EXCEPT ![s] = Append(outputs[s], new)]
            /\ Calling(r)
            BY <1>4, <2>0 DEF StoreOutput, Calling
      <2>2. row.id = id /\ row.entry = e /\ row.purpose = s /\ row.status = "success"
            BY <2>0 DEF Success, ModelCall
      <2>3. new.call = id /\ new.entry = e
            BY <2>0 DEF Output
      <2>4. \A c \in modelCalls : c.id # id
            BY <2>1 DEF CallIdsAreFresh
      <2> HIDE DEF id, row, new
      <2>5. \A t \in ModelStages : outputs[t] \in Seq(OutputRow)
            BY DEF IInv, ModelTypes
      <2>6. /\ outputs'[s] = Append(outputs[s], new)
            /\ \A t \in ModelStages \ {s} : outputs'[t] = outputs[t]
            BY <2>1, <2>5 DEF IInv, ModelTypes
      <2>7. /\ DOMAIN outputs'[s] = DOMAIN outputs[s] \cup {Len(outputs[s]) + 1}
            /\ \A i \in DOMAIN outputs[s] : outputs'[s][i] = outputs[s][i]
            /\ outputs'[s][Len(outputs[s]) + 1] = new
            BY <2>5, <2>6
      <2>8. Outputs(s)' = Outputs(s) \cup {new}
            BY <2>7 DEF Outputs
      <2>9. SUFFICES ASSUME NEW t \in ModelStages
                     PROVE  /\ \A i, j \in DOMAIN outputs'[t] :
                                 outputs'[t][i].call = outputs'[t][j].call => i = j
                            /\ {<<o.call, o.entry>> : o \in Outputs(t)'} =
                                 {<<c.id, c.entry>> : c \in Successes(t)'}
            BY DEF CallsMatchOutputs, Successes
      <2>10. /\ \A i, j \in DOMAIN outputs[t] :
                  outputs[t][i].call = outputs[t][j].call => i = j
             /\ {<<o.call, o.entry>> : o \in Outputs(t)} =
                  {<<c.id, c.entry>> : c \in Successes(t)}
             BY DEF CallsMatchOutputs, Successes
      <2>11. CASE t = s
             <3>1. Successes(t)' = Successes(t) \cup {row}
                   BY <2>1, <2>2, <2>11 DEF Successes
             <3>2. \A i \in DOMAIN outputs[s] : outputs[s][i].call # id
                   <4> SUFFICES ASSUME NEW i \in DOMAIN outputs[s]
                                PROVE  outputs[s][i].call # id
                       OBVIOUS
                   <4>1. outputs[s][i] \in Outputs(t)
                         BY <2>11 DEF Outputs
                   <4>2. <<outputs[s][i].call, outputs[s][i].entry>>
                           \in {<<c.id, c.entry>> : c \in Successes(t)}
                         BY <2>10, <4>1
                   <4>3. PICK c \in Successes(t) : outputs[s][i].call = c.id
                         BY <4>2
                   <4> QED
                       BY <2>4, <4>3 DEF Successes
             <3>3. \A i, j \in DOMAIN outputs'[t] :
                     outputs'[t][i].call = outputs'[t][j].call => i = j
                   BY <2>3, <2>7, <2>10, <2>11, <3>2
             <3>4. {<<o.call, o.entry>> : o \in Outputs(t)'} =
                     {<<o.call, o.entry>> : o \in Outputs(t)} \cup {<<id, e>>}
                   BY <2>3, <2>8, <2>11
             <3>5. {<<c.id, c.entry>> : c \in Successes(t)'} =
                     {<<c.id, c.entry>> : c \in Successes(t)} \cup {<<id, e>>}
                   BY <2>2, <3>1
             <3> QED
                 BY <2>10, <3>3, <3>4, <3>5
      <2>12. CASE t # s
             <3>1. Successes(t)' = Successes(t)
                   BY <2>1, <2>2, <2>12 DEF Successes
             <3>2. outputs'[t] = outputs[t] /\ Outputs(t)' = Outputs(t)
                   BY <2>6, <2>12 DEF Outputs
             <3> QED
                 BY <2>10, <3>1, <3>2
      <2> QED
          BY <2>11, <2>12
<1>5. ASSUME NEW r \in Runners, RunStep(r) PROVE CallsMatchOutputs'
      <2>1. CASE FetchFails(r) \/ FetchSucceeds(r) \/ StoreExtraction(r) \/ AdapterAnswers(r)
            BY <1>2, <2>1
               DEF FetchFails, FetchSucceeds, StoreExtraction, AdapterAnswers, modelVars
      <2>2. CASE AdapterFails(r)
            BY <1>3, <2>2 DEF AdapterFails
      <2> QED
          BY <1>4, <1>5, <2>1, <2>2 DEF RunStep
<1>6. ASSUME NEW r \in Runners, NEW s \in ModelStages, NEW e \in Entries,
             StartModelStage(r, s, e)
      PROVE  CallsMatchOutputs'
      <2>1. CASE UNCHANGED modelVars
            BY <1>2, <2>1 DEF modelVars
      <2>2. CASE RecordModelCall(s, e, "skipped", used.runs + 1) /\ UNCHANGED outputs
            BY <1>3, <2>2
      <2> QED
          BY <1>6, <2>1, <2>2 DEF StartModelStage
<1>7. CASE \/ \E e \in Entries : ChangePolicy(e)
           \/ IngestFails
           \/ \E r \in Runners, e \in Entries : StartExtraction(r, e)
           \/ \E r \in Runners : Abort(r)
           \/ UNCHANGED vars
      BY <1>2, <1>7 DEF ChangePolicy, IngestFails, StartExtraction, Abort, vars, modelVars
<1> QED
    BY <1>5, <1>6, <1>7 DEF Next

-----------------------------------------------------------------------------
\* Counting the runs.  A record is a new one because the moment of its run is
\* nobody else's.

Open == {r \in Runners : pc[r] # "idle"}

Records == attempts \cup modelCalls

\* The kinds of steps, as far as runs and their records go.

JobsStay == \A q \in Open : q \in Open' => job'[q] = job[q]

Count(runs, faults, failures) ==
  /\ used'.runs = used.runs + runs
  /\ used'.faults = used.faults + faults
  /\ used'.failures = used.failures + failures

Adds(row) ==
  \/ attempts' = attempts \cup {row} /\ modelCalls' = modelCalls
  \/ modelCalls' = modelCalls \cup {row} /\ attempts' = attempts

Waits ==
  UNCHANGED <<attempts, modelCalls>> /\ JobsStay /\ Open' = Open /\ Count(0, 0, 0)

Begins(r) ==
  /\ UNCHANGED <<attempts, modelCalls>> /\ JobsStay
  /\ r \notin Open /\ Open' = Open \cup {r}
  /\ job'[r].at = used.runs + 1
  /\ Count(1, 0, 0)

IsRefused(row) ==
  /\ Adds(row) /\ JobsStay
  /\ Open' = Open
  /\ row.at = used.runs + 1 /\ row.status = "skipped"
  /\ Count(1, 0, 0)

IsCutOff(r) ==
  /\ UNCHANGED <<attempts, modelCalls>> /\ JobsStay
  /\ r \in Open /\ Open' = Open \ {r}
  /\ Count(0, 1, 0)

Ends(r, row) ==
  /\ Adds(row) /\ JobsStay
  /\ r \in Open /\ Open' = Open \ {r}
  /\ row.at = job[r].at
  /\ IF row.status = "failure" THEN Count(0, 0, 1) ELSE Count(0, 0, 0)

RunKind ==
  \/ Waits
  \/ \E r \in Runners : Begins(r)
  \/ \E row : IsRefused(row)
  \/ \E r \in Runners : IsCutOff(r)
  \/ \E r \in Runners : \E row : Ends(r, row)

IsFailedIngest ==
  /\ UNCHANGED <<attempts, modelCalls>> /\ JobsStay
  /\ Open' = Open
  /\ ingestFailures' = ingestFailures \cup {used.runs + 1}
  /\ Count(1, 0, 1)

Kind == (RunKind /\ UNCHANGED ingestFailures) \/ IsFailedIngest

LEMMA Numbers ==
  ASSUME IInv
  PROVE  /\ used \in [runs : Nat, changes : Nat, faults : Nat, failures : Nat]
         /\ used.runs \in Nat /\ used.faults \in Nat /\ used.failures \in Nat
         /\ IsFiniteSet(Open)
         /\ Cardinality(Open) \in Nat
<1>1. used \in [runs : Nat, changes : Nat, faults : Nat, failures : Nat]
      BY PipelineAssumption DEF IInv, UsedTypes
<1>2. IsFiniteSet(Open)
      BY PipelineAssumption, FS_Subset DEF Open
<1> QED
    BY <1>1, <1>2, FS_CardinalityType

LEMMA Opens ==
  ASSUME IInv, NEW r \in Runners, NEW s, NEW e, NEW in, CountRun(r), GoOutside(r, s, e, in)
  PROVE  /\ r \notin Open /\ Open' = Open \cup {r} /\ JobsStay
         /\ job'[r].at = used.runs + 1
         /\ Count(1, 0, 0)
<1>1. r \notin Open /\ Open' = Open \cup {r} /\ JobsStay
      BY DEF Open, JobsStay, CountRun, GoOutside, IInv, RunTypes
<1>2. job'[r].at = used.runs + 1
      BY DEF GoOutside, IInv, RunTypes
<1>3. Count(1, 0, 0)
      BY Numbers DEF Count, CountRun
<1> QED
    BY <1>1, <1>2, <1>3

LEMMA Shuts ==
  ASSUME IInv, NEW r \in Runners, pc[r] # "idle", Close(r)
  PROVE  r \in Open /\ Open' = Open \ {r} /\ JobsStay
BY DEF Open, JobsStay, Close, IInv, RunTypes

LEMMA StepsAreOfAKind == IInv /\ [Next]_vars => Kind
<1> SUFFICES ASSUME IInv, [Next]_vars PROVE Kind
    OBVIOUS
<1>1. used.runs \in Nat /\ used.faults \in Nat /\ used.failures \in Nat
      BY Numbers
<1>2. used \in [runs : Nat, changes : Nat, faults : Nat, failures : Nat]
      BY Numbers
<1>3. ASSUME UNCHANGED used PROVE Count(0, 0, 0)
      BY <1>1, <1>3 DEF Count
<1>4. ASSUME UNCHANGED runVars PROVE Open' = Open /\ JobsStay
      BY <1>4 DEF Open, JobsStay, runVars
<1>5. ASSUME NEW e, NEW status, NEW at, RecordAttempt(e, status, at), UNCHANGED modelVars
      PROVE  \E row : Adds(row) /\ row.at = at /\ row.status = status
      <2> DEFINE row == Attempt(attemptIds + 1, e, status, at)
      <2>1. Adds(row) /\ row.at = at /\ row.status = status
            BY <1>5 DEF Adds, RecordAttempt, Attempt, modelVars
      <2> HIDE DEF row
      <2> QED
          BY <2>1
<1>6. ASSUME NEW s, NEW e, NEW status, NEW at, RecordModelCall(s, e, status, at),
             UNCHANGED textVars
      PROVE  \E row : Adds(row) /\ row.at = at /\ row.status = status
      <2> DEFINE row == ModelCall(callIds + 1, s, e, status, at)
      <2>1. Adds(row) /\ row.at = at /\ row.status = status
            BY <1>6 DEF Adds, RecordModelCall, ModelCall, textVars
      <2> HIDE DEF row
      <2> QED
          BY <2>1
<1>7. ASSUME NEW e \in Entries, ChangePolicy(e) PROVE RunKind
      <2>1. Count(0, 0, 0)
            BY <1>1, <1>2, <1>7 DEF ChangePolicy, Count
      <2> QED
          BY <1>4, <1>7, <2>1 DEF ChangePolicy, Waits, RunKind, textVars, modelVars
<1>8. ASSUME NEW r \in Runners, NEW e \in Entries, StartExtraction(r, e) PROVE RunKind
      <2>1. CountRun(r) /\ UNCHANGED modelVars
            BY <1>8 DEF StartExtraction
      <2>2. CASE GoOutside(r, "extract", e, NoInput) /\ UNCHANGED textVars
            <3>1. Begins(r)
                  BY <2>1, <2>2, Opens DEF Begins, textVars, modelVars
            <3> QED
                BY <3>1 DEF RunKind
      <2>3. CASE RecordAttempt(e, "skipped", used.runs + 1) /\ UNCHANGED runVars
            <3>1. PICK row : Adds(row) /\ row.at = used.runs + 1 /\ row.status = "skipped"
                  BY <1>5, <2>1, <2>3
            <3>2. Count(1, 0, 0)
                  BY <1>1, <1>2, <2>1 DEF Count, CountRun
            <3>3. IsRefused(row)
                  BY <1>4, <2>3, <3>1, <3>2 DEF IsRefused
            <3> QED
                BY <3>3 DEF RunKind
      <2> QED
          BY <1>8, <2>2, <2>3 DEF StartExtraction
<1>9. ASSUME NEW r \in Runners, NEW s \in ModelStages, NEW e \in Entries,
             StartModelStage(r, s, e)
      PROVE  RunKind
      <2>1. CountRun(r) /\ UNCHANGED textVars
            BY <1>9 DEF StartModelStage
      <2>2. CASE GoOutside(r, s, e, ReadInput(s, e)) /\ UNCHANGED modelVars
            <3>1. Begins(r)
                  BY <2>1, <2>2, Opens DEF Begins, textVars, modelVars
            <3> QED
                BY <3>1 DEF RunKind
      <2>3. CASE RecordModelCall(s, e, "skipped", used.runs + 1) /\ UNCHANGED runVars
            <3>1. PICK row : Adds(row) /\ row.at = used.runs + 1 /\ row.status = "skipped"
                  BY <1>6, <2>1, <2>3
            <3>2. Count(1, 0, 0)
                  BY <1>1, <1>2, <2>1 DEF Count, CountRun
            <3>3. IsRefused(row)
                  BY <1>4, <2>3, <3>1, <3>2 DEF IsRefused
            <3> QED
                BY <3>3 DEF RunKind
      <2> QED
          BY <1>9, <2>2, <2>3 DEF StartModelStage
<1>10. ASSUME CountFailure PROVE Count(0, 0, 1)
       BY <1>1, <1>2, <1>10 DEF Count, CountFailure
<1>11. ASSUME NEW r \in Runners, FetchFails(r) PROVE RunKind
       <2>1. PICK row : Adds(row) /\ row.at = job[r].at /\ row.status = "failure"
             BY <1>5, <1>11 DEF FetchFails
       <2>2. Ends(r, row)
             BY <1>10, <1>11, <2>1, Shuts DEF FetchFails, Ends
       <2> QED
           BY <2>2 DEF RunKind
<1>12. ASSUME NEW r \in Runners, AdapterFails(r) PROVE RunKind
       <2>1. PICK row : Adds(row) /\ row.at = job[r].at /\ row.status = "failure"
             BY <1>6, <1>12 DEF AdapterFails
       <2>2. Ends(r, row)
             BY <1>10, <1>12, <2>1, Shuts DEF AdapterFails, Ends
       <2> QED
           BY <2>2 DEF RunKind
<1>13. ASSUME NEW r \in Runners, FetchSucceeds(r) \/ AdapterAnswers(r) PROVE RunKind
       <2>1. UNCHANGED <<attempts, modelCalls, job, used>>
             BY <1>13 DEF FetchSucceeds, AdapterAnswers, textVars, modelVars
       <2>2. Open' = Open
             BY <1>13 DEF FetchSucceeds, AdapterAnswers, Open, IInv, RunTypes
       <2> QED
           BY <1>3, <2>1, <2>2 DEF Waits, JobsStay, RunKind
<1>14. ASSUME NEW r \in Runners, StoreExtraction(r) PROVE RunKind
       <2> DEFINE row == Attempt(input[r].attempt, job[r].entry, "success", job[r].at)
       <2>1. Adds(row) /\ row.at = job[r].at /\ row.status = "success"
             BY <1>14 DEF StoreExtraction, Adds, Attempt, modelVars
       <2> HIDE DEF row
       <2>2. Ends(r, row)
             BY <1>3, <1>14, <2>1, Shuts DEF StoreExtraction, Ends
       <2> QED
           BY <2>2 DEF RunKind
<1>15. ASSUME NEW r \in Runners, StoreOutput(r) PROVE RunKind
       <2> DEFINE row == Success(r, input[r].call)
       <2>1. Adds(row) /\ row.at = job[r].at /\ row.status = "success"
             BY <1>15 DEF StoreOutput, Adds, Success, ModelCall, textVars
       <2> HIDE DEF row
       <2>2. Ends(r, row)
             BY <1>3, <1>15, <2>1, Shuts DEF StoreOutput, Ends
       <2> QED
           BY <2>2 DEF RunKind
<1>16. ASSUME NEW r \in Runners, Abort(r) PROVE RunKind
       <2>1. Count(0, 1, 0)
             BY <1>1, <1>2, <1>16 DEF Abort, Count
       <2>2. IsCutOff(r)
             BY <1>16, <2>1, Shuts DEF Abort, IsCutOff, textVars, modelVars
       <2> QED
           BY <2>2 DEF RunKind
<1>17. ASSUME UNCHANGED vars PROVE RunKind
       BY <1>3, <1>4, <1>17 DEF vars, textVars, modelVars, Waits, RunKind
<1>18. CASE IngestFails
       <2>1. Count(1, 0, 1)
             BY <1>1, <1>2, <1>18 DEF IngestFails, Count
       <2> QED
           BY <1>4, <1>18, <2>1 DEF IngestFails, IsFailedIngest, Kind, textVars, modelVars
<1>19. CASE ~IngestFails
       <2>1. RunKind
             BY <1>7, <1>8, <1>9, <1>11, <1>12, <1>13, <1>14, <1>15, <1>16, <1>17, <1>19
                DEF Next, RunStep
       <2>2. UNCHANGED ingestFailures
             BY <1>19, Zenon
                DEF Next, RunStep, ChangePolicy, StartExtraction, StartModelStage, FetchFails,
                    FetchSucceeds, StoreExtraction, AdapterFails, AdapterAnswers, StoreOutput,
                    Abort, vars, sourceVars
       <2> QED
           BY <2>1, <2>2 DEF Kind
<1> QED
    BY <1>18, <1>19

\* Every record and every open run has a moment of its own.
OwnMoments ==
  /\ ingestFailures \subseteq 1..used.runs
  /\ \A a \in Records : a.at \in 1..used.runs /\ a.at \notin ingestFailures
  /\ \A a, b \in attempts : a.at = b.at => a = b
  /\ \A a, b \in modelCalls : a.at = b.at => a = b
  /\ \A a \in attempts, b \in modelCalls : a.at # b.at
  /\ \A r \in Open : /\ job[r].at \in (1..used.runs) \ ingestFailures
                     /\ \A a \in Records : a.at # job[r].at
                     /\ \A q \in Open \ {r} : job[q].at # job[r].at

LEMMA RunsKeepMoments ==
  ASSUME IInv, OwnMoments, RunKind, UNCHANGED ingestFailures
  PROVE  OwnMoments'
<1>1. used.runs \in Nat
      BY Numbers
<1>2. CASE Waits
      BY <1>1, <1>2 DEF Waits, Count, JobsStay, Records, OwnMoments
<1>3. ASSUME NEW r \in Runners, Begins(r) PROVE OwnMoments'
      <2>1. /\ UNCHANGED <<attempts, modelCalls>>
            /\ Open' = Open \cup {r} /\ r \notin Open
            /\ \A q \in Open : job'[q] = job[q]
            /\ job'[r].at = used.runs + 1
            /\ used'.runs = used.runs + 1
            BY <1>3 DEF Begins, Count, JobsStay
      <2>2. /\ \A a \in Records : a.at \in 1..used.runs
            /\ \A q \in Open : job[q].at \in 1..used.runs
            BY DEF OwnMoments
      <2> QED
          BY <1>1, <2>1, <2>2 DEF Records, OwnMoments
<1>4. ASSUME NEW row, IsRefused(row) PROVE OwnMoments'
      <2>1. /\ Adds(row)
            /\ Open' = Open
            /\ \A q \in Open : job'[q] = job[q]
            /\ row.at = used.runs + 1
            /\ used'.runs = used.runs + 1
            BY <1>4 DEF IsRefused, Count, JobsStay
      <2>2. /\ \A a \in Records : a.at \in 1..used.runs /\ a.at # row.at
            /\ \A q \in Open : job[q].at \in 1..used.runs /\ job[q].at # row.at
            BY <1>1, <2>1 DEF OwnMoments
      <2> QED
          BY <1>1, <2>1, <2>2 DEF Adds, Records, OwnMoments
<1>5. ASSUME NEW r \in Runners, IsCutOff(r) PROVE OwnMoments'
      BY <1>1, <1>5 DEF IsCutOff, Count, JobsStay, Records, OwnMoments
<1>6. ASSUME NEW r \in Runners, NEW row, Ends(r, row) PROVE OwnMoments'
      <2>1. /\ Adds(row)
            /\ r \in Open /\ Open' = Open \ {r}
            /\ \A q \in Open' : job'[q] = job[q]
            /\ row.at = job[r].at
            /\ used'.runs = used.runs
            BY <1>1, <1>6 DEF Ends, Count, JobsStay
      <2>2. /\ row.at \in 1..used.runs
            /\ \A a \in Records : a.at # row.at
            /\ \A q \in Open' : job[q].at # row.at
            BY <2>1 DEF OwnMoments
      <2> QED
          BY <1>1, <2>1, <2>2 DEF Adds, Records, OwnMoments
<1> QED
    BY <1>2, <1>3, <1>4, <1>5, <1>6 DEF RunKind

LEMMA MomentsStayOwn ==
  ASSUME IInv, OwnMoments, Kind
  PROVE  OwnMoments'
<1>1. CASE RunKind /\ UNCHANGED ingestFailures
      BY <1>1, RunsKeepMoments
<1>2. CASE IsFailedIngest
      <2>1. /\ UNCHANGED <<attempts, modelCalls>> /\ Open' = Open
            /\ \A q \in Open : job'[q] = job[q]
            /\ ingestFailures' = ingestFailures \cup {used.runs + 1}
            /\ used'.runs = used.runs + 1
            BY <1>2 DEF IsFailedIngest, Count, JobsStay
      <2>2. used.runs \in Nat
            BY Numbers
      <2>3. /\ \A a \in Records : a.at \in (1..used.runs) \ ingestFailures
            /\ \A q \in Open : job[q].at \in (1..used.runs) \ ingestFailures
            /\ ingestFailures \subseteq 1..used.runs
            BY DEF OwnMoments
      <2>4. /\ \A a \in Records : a.at \in (1..used'.runs) \ ingestFailures'
            /\ \A q \in Open : job[q].at \in (1..used'.runs) \ ingestFailures'
            /\ ingestFailures' \subseteq 1..used'.runs
            <3>1. used'.runs \in Nat /\ 1..used.runs \subseteq 1..used'.runs
                  BY <2>1, <2>2
            <3>2. used.runs + 1 \notin 1..used.runs /\ used.runs + 1 \in 1..used'.runs
                  BY <2>1, <2>2
            <3> QED
                BY <2>1, <2>3, <3>1, <3>2
      <2>5. Records' = Records
            BY <2>1 DEF Records
      <2> QED
          BY <2>1, <2>4, <2>5 DEF OwnMoments
<1> QED
    BY <1>1, <1>2 DEF Kind

Counted ==
  /\ IsFiniteSet(attempts) /\ IsFiniteSet(modelCalls) /\ IsFiniteSet(Failures)
  /\ IsFiniteSet(ingestFailures)
  /\ Cardinality(attempts) + Cardinality(modelCalls) + Cardinality(ingestFailures)
       + used.faults + Cardinality(Open) = used.runs
  /\ Cardinality(Failures) = used.failures

\* A record of a moment of its own is one more, in the failures too.
LEMMA OneMore ==
  ASSUME Counted, UNCHANGED ingestFailures,
         NEW row, Adds(row), \A a \in Records : a.at # row.at,
         row.at \notin ingestFailures
  PROVE  /\ IsFiniteSet(attempts') /\ IsFiniteSet(modelCalls') /\ IsFiniteSet(Failures')
         /\ Cardinality(attempts') + Cardinality(modelCalls')
              = Cardinality(attempts) + Cardinality(modelCalls) + 1
         /\ row.status = "failure" => Cardinality(Failures') = Cardinality(Failures) + 1
         /\ row.status # "failure" => Failures' = Failures
<1>1. row \notin attempts /\ row \notin modelCalls
      BY DEF Records
<1>2. /\ IsFiniteSet(attempts) /\ IsFiniteSet(modelCalls) /\ IsFiniteSet(Failures)
      /\ Cardinality(attempts) \in Nat /\ Cardinality(modelCalls) \in Nat
      BY FS_CardinalityType DEF Counted
<1>3. /\ IsFiniteSet(attempts') /\ IsFiniteSet(modelCalls')
      /\ Cardinality(attempts') + Cardinality(modelCalls')
           = Cardinality(attempts) + Cardinality(modelCalls) + 1
      <2>1. CASE attempts' = attempts \cup {row} /\ modelCalls' = modelCalls
            <3>1. /\ IsFiniteSet(attempts')
                  /\ Cardinality(attempts') = Cardinality(attempts) + 1
                  BY <1>1, <1>2, <2>1, FS_AddElement
            <3> QED
                BY <1>2, <2>1, <3>1
      <2>2. CASE modelCalls' = modelCalls \cup {row} /\ attempts' = attempts
            <3>1. /\ IsFiniteSet(modelCalls')
                  /\ Cardinality(modelCalls') = Cardinality(modelCalls) + 1
                  BY <1>1, <1>2, <2>2, FS_AddElement
            <3> QED
                BY <1>2, <2>2, <3>1
      <2> QED
          BY <2>1, <2>2 DEF Adds
<1>4. ASSUME row.status # "failure" PROVE Failures' = Failures
      BY <1>4 DEF Adds, Failures
<1>5. ASSUME row.status = "failure"
      PROVE  \E new : new \notin Failures /\ Failures' = Failures \cup {new}
      <2>1. \A f \in Failures : f.createdAt # row.at
            BY DEF Failures, Records
      <2> DEFINE Of(st) == [failureStage |-> st, createdAt |-> row.at]
      <2>2. \A st : Of(st) \notin Failures
            BY <2>1
      <2>3. CASE attempts' = attempts \cup {row} /\ modelCalls' = modelCalls
            <3>1. Failures' = Failures \cup {Of("extraction")}
                  BY <1>5, <2>3 DEF Failures
            <3> HIDE DEF Of
            <3> QED
                BY <2>2, <3>1
      <2>4. CASE modelCalls' = modelCalls \cup {row} /\ attempts' = attempts
            <3>1. Failures' = Failures \cup {Of("model_call")}
                  BY <1>5, <2>4 DEF Failures
            <3> HIDE DEF Of
            <3> QED
                BY <2>2, <3>1
      <2> QED
          BY <2>3, <2>4 DEF Adds
<1>6. CASE row.status = "failure"
      <2>1. PICK new : new \notin Failures /\ Failures' = Failures \cup {new}
            BY <1>5, <1>6
      <2>2. IsFiniteSet(Failures') /\ Cardinality(Failures') = Cardinality(Failures) + 1
            BY <1>2, <2>1, FS_AddElement
      <2> QED
          BY <1>3, <1>6, <2>2
<1>7. CASE row.status # "failure"
      BY <1>2, <1>3, <1>4, <1>7
<1> QED
    BY <1>6, <1>7

\* What a step adds to the records, it adds to the runs.
LEMMA RunsAddUp ==
  ASSUME IInv, OwnMoments, Counted, RunKind, UNCHANGED ingestFailures
  PROVE  Counted'
<1>1. /\ used.runs \in Nat /\ used.faults \in Nat /\ used.failures \in Nat
      /\ IsFiniteSet(Open)
      /\ Cardinality(Open) \in Nat
      BY Numbers
<1>2. /\ IsFiniteSet(attempts) /\ IsFiniteSet(modelCalls) /\ IsFiniteSet(Failures)
      /\ Cardinality(attempts) + Cardinality(modelCalls) + Cardinality(ingestFailures)
           + used.faults + Cardinality(Open) = used.runs
      /\ IsFiniteSet(ingestFailures')
      /\ Cardinality(ingestFailures') = Cardinality(ingestFailures)
      /\ Cardinality(Failures) = used.failures
      BY DEF Counted
<1>3. /\ Cardinality(attempts) \in Nat /\ Cardinality(modelCalls) \in Nat
      /\ Cardinality(ingestFailures) \in Nat
      BY <1>2, FS_CardinalityType
<1>4. ASSUME NEW r, r \notin Open, Open' = Open \cup {r}
      PROVE  Cardinality(Open') = Cardinality(Open) + 1
      BY <1>1, <1>4, FS_AddElement
<1>5. ASSUME NEW r, r \in Open, Open' = Open \ {r}
      PROVE  Cardinality(Open') = Cardinality(Open) - 1
      BY <1>1, <1>5, FS_RemoveElement
<1>6. ASSUME UNCHANGED <<attempts, modelCalls>> PROVE Failures' = Failures
      BY <1>6 DEF Failures
<1>7. CASE Waits
      <2>1. /\ UNCHANGED <<attempts, modelCalls>> /\ Open' = Open
            /\ used'.runs = used.runs + 0
            /\ used'.faults = used.faults + 0
            /\ used'.failures = used.failures + 0
            BY <1>7 DEF Waits, Count
      <2> QED
          BY <1>1, <1>2, <1>6, <2>1 DEF Counted
<1>8. ASSUME NEW r \in Runners, Begins(r) PROVE Counted'
      <2>1. /\ UNCHANGED <<attempts, modelCalls>>
            /\ used'.runs = used.runs + 1
            /\ used'.faults = used.faults + 0
            /\ used'.failures = used.failures + 0
            BY <1>8 DEF Begins, Count
      <2>2. Cardinality(Open') = Cardinality(Open) + 1
            BY <1>4, <1>8 DEF Begins
      <2> QED
          BY <1>1, <1>2, <1>3, <1>6, <2>1, <2>2 DEF Counted
<1>9. ASSUME NEW row, IsRefused(row) PROVE Counted'
      <2>1. /\ Adds(row) /\ Open' = Open
            /\ row.at = used.runs + 1 /\ row.status = "skipped"
            /\ used'.runs = used.runs + 1
            /\ used'.faults = used.faults + 0
            /\ used'.failures = used.failures + 0
            BY <1>9 DEF IsRefused, Count
      <2>2. row.at \notin ingestFailures /\ \A a \in Records : a.at # row.at
            BY <1>1, <2>1 DEF OwnMoments
      <2>3. /\ IsFiniteSet(attempts') /\ IsFiniteSet(modelCalls') /\ IsFiniteSet(Failures')
            /\ Cardinality(attempts') + Cardinality(modelCalls')
                 = Cardinality(attempts) + Cardinality(modelCalls) + 1
            /\ Failures' = Failures
            BY <2>1, <2>2, OneMore
      <2>4. Cardinality(attempts') \in Nat /\ Cardinality(modelCalls') \in Nat
            BY <2>3, FS_CardinalityType
      <2> QED
          BY <1>1, <1>2, <1>3, <2>1, <2>3, <2>4 DEF Counted
<1>10. ASSUME NEW r \in Runners, IsCutOff(r) PROVE Counted'
       <2>1. UNCHANGED <<attempts, modelCalls>> /\ Failures' = Failures
             BY <1>6, <1>10 DEF IsCutOff
       <2>2. /\ used'.runs = used.runs
             /\ used'.faults = used.faults + 1
             /\ used'.failures = used.failures
             BY <1>1, <1>10 DEF IsCutOff, Count
       <2>3. Cardinality(Open') = Cardinality(Open) - 1
             BY <1>5, <1>10 DEF IsCutOff
       <2>4. used'.faults + Cardinality(Open') = used.faults + Cardinality(Open)
             BY <1>1, <2>2, <2>3
       <2>5. used'.faults \in Nat /\ Cardinality(Open') \in Int
             BY <1>1, <2>2, <2>3
       <2>6. Cardinality(attempts') + Cardinality(modelCalls') + Cardinality(ingestFailures')
               + used'.faults + Cardinality(Open') = used'.runs
             BY <1>1, <1>2, <1>3, <2>1, <2>2, <2>4, <2>5
       <2> QED
           BY <1>2, <2>1, <2>2, <2>6 DEF Counted
<1>11. ASSUME NEW r \in Runners, NEW row, Ends(r, row) PROVE Counted'
       <2>1. /\ Adds(row) /\ r \in Open
             /\ row.at = job[r].at
             /\ used'.runs = used.runs + 0
             /\ used'.faults = used.faults + 0
             /\ row.status = "failure" => used'.failures = used.failures + 1
             /\ row.status # "failure" => used'.failures = used.failures + 0
             BY <1>11 DEF Ends, Count
       <2>2. Cardinality(Open') = Cardinality(Open) - 1
             BY <1>5, <1>11 DEF Ends
       <2>3. row.at \notin ingestFailures /\ \A a \in Records : a.at # row.at
             BY <2>1 DEF OwnMoments
       <2>4. /\ IsFiniteSet(attempts') /\ IsFiniteSet(modelCalls') /\ IsFiniteSet(Failures')
             /\ Cardinality(attempts') + Cardinality(modelCalls')
                  = Cardinality(attempts) + Cardinality(modelCalls) + 1
             /\ row.status = "failure" => Cardinality(Failures') = Cardinality(Failures) + 1
             /\ row.status # "failure" => Failures' = Failures
             BY <2>1, <2>3, OneMore
       <2>5. Cardinality(attempts') \in Nat /\ Cardinality(modelCalls') \in Nat
             BY <2>4, FS_CardinalityType
       <2>6. Cardinality(Failures') = used'.failures
             BY <1>1, <1>2, <2>1, <2>4
       <2> QED
           BY <1>1, <1>2, <1>3, <2>1, <2>2, <2>4, <2>5, <2>6 DEF Counted
<1> QED
    BY <1>7, <1>8, <1>9, <1>10, <1>11 DEF RunKind

LEMMA RecordsAddUp ==
  ASSUME IInv, OwnMoments, Counted, Kind
  PROVE  Counted'
<1>1. CASE RunKind /\ UNCHANGED ingestFailures
      BY <1>1, RunsAddUp
<1>2. CASE IsFailedIngest
      <2> DEFINE at == used.runs + 1
                 new == [failureStage |-> "source_ingest", createdAt |-> at]
      <2>1. /\ used.runs \in Nat /\ used.faults \in Nat /\ used.failures \in Nat
            /\ Cardinality(Open) \in Nat
            BY Numbers
      <2>2. /\ UNCHANGED <<attempts, modelCalls>> /\ Open' = Open
            /\ ingestFailures' = ingestFailures \cup {at}
            /\ used'.runs = used.runs + 1
            /\ used'.faults = used.faults + 0
            /\ used'.failures = used.failures + 1
            BY <1>2 DEF IsFailedIngest, Count
      <2>3. at \notin ingestFailures /\ \A a \in Records : a.at # at
            BY <2>1 DEF OwnMoments
      <2>4. new \notin Failures
            BY <2>3 DEF Failures
      <2>5. Failures' = Failures \cup {new}
            BY <2>2 DEF Failures
      <2> HIDE DEF at, new
      <2>6. /\ IsFiniteSet(ingestFailures) /\ IsFiniteSet(Failures)
            /\ Cardinality(attempts) \in Nat /\ Cardinality(modelCalls) \in Nat
            /\ Cardinality(ingestFailures) \in Nat
            BY FS_CardinalityType DEF Counted
      <2>7. /\ IsFiniteSet(ingestFailures')
            /\ Cardinality(ingestFailures') = Cardinality(ingestFailures) + 1
            BY <2>2, <2>3, <2>6, FS_AddElement
      <2>8. IsFiniteSet(Failures') /\ Cardinality(Failures') = Cardinality(Failures) + 1
            BY <2>4, <2>5, <2>6, FS_AddElement
      <2> QED
          BY <2>1, <2>2, <2>6, <2>7, <2>8 DEF Counted
<1> QED
    BY <1>1, <1>2 DEF Kind

LEMMA InitCounted == Init => Counted /\ OwnMoments /\ CallIdsAreFresh /\ CallsMatchOutputs
<1> SUFFICES ASSUME Init PROVE Counted /\ OwnMoments /\ CallIdsAreFresh /\ CallsMatchOutputs
    OBVIOUS
<1>1. attempts = {} /\ modelCalls = {} /\ ingestFailures = {} /\ Failures = {}
      BY DEF Init, Failures
<1>2. Open = {}
      BY DEF Init, Open
<1>3. used.runs = 0 /\ used.faults = 0 /\ used.failures = 0
      BY DEF Init
<1>4. Counted
      BY <1>1, <1>2, <1>3, FS_EmptySet DEF Counted
<1>5. OwnMoments
      BY <1>1, <1>2 DEF OwnMoments, Records
<1>6. CallIdsAreFresh
      BY DEF Init, CallIdsAreFresh, Calling
<1>7. CallsMatchOutputs
      <2>1. \A s \in ModelStages : DOMAIN outputs[s] = {} /\ Outputs(s) = {}
            BY DEF Init, Outputs
      <2> QED
          BY <1>1, <2>1 DEF CallsMatchOutputs
<1> QED
    BY <1>4, <1>5, <1>6, <1>7

-----------------------------------------------------------------------------
\* The failure queue: the newest of a set whose moments all differ.

Newest(S, n) == {f \in S : Cardinality({g \in S : g.createdAt > f.createdAt}) < n}

Distinct(S) == \A f, g \in S : f.createdAt = g.createdAt => f = g

LEMMA NewestOf ==
  ASSUME NEW S, IsFiniteSet(S), NEW m \in Nat, \A f \in S : f.createdAt \in 0..m,
         Distinct(S), NEW n \in Nat
  PROVE  /\ IsFiniteSet(Newest(S, n))
         /\ Cardinality(Newest(S, n)) = IF Cardinality(S) < n THEN Cardinality(S) ELSE n
         /\ \A f \in S \ Newest(S, n) : \A g \in Newest(S, n) : f.createdAt < g.createdAt
<1> DEFINE Above(f) == {g \in S : g.createdAt > f.createdAt}
           Q == Newest(S, n)
<1>1. \A f \in S : f.createdAt \in Nat
      OBVIOUS
<1>2. \A f \in S : IsFiniteSet(Above(f)) /\ Cardinality(Above(f)) \in Nat
      BY FS_Subset, FS_CardinalityType
<1>3. /\ Q \subseteq S
      /\ \A f \in S : f \in Q <=> Cardinality(Above(f)) < n
      BY DEF Newest
<1> HIDE DEF Q
<1>4. /\ IsFiniteSet(Q) /\ Cardinality(Q) \in Nat /\ Cardinality(S) \in Nat
      /\ Cardinality(Q) <= Cardinality(S)
      BY <1>3, FS_Subset, FS_CardinalityType
<1>5. ASSUME NEW f \in S \ Q, NEW g \in Q PROVE f.createdAt < g.createdAt
      <2> SUFFICES ASSUME ~(f.createdAt < g.createdAt) PROVE FALSE
          OBVIOUS
      <2>1. Above(f) \subseteq Above(g)
            BY <1>1, <1>3, <1>5
      <2>2. Cardinality(Above(f)) <= Cardinality(Above(g))
            <3> HIDE DEF Above
            <3> QED
                BY <1>2, <1>3, <1>5, <2>1, FS_Subset
      <2> HIDE DEF Above
      <2> QED
          BY <1>2, <1>3, <1>5, <2>2
<1>6. Cardinality(Q) <= n
      <2>1. CASE Q = {}
            BY <2>1, FS_EmptySet
      <2>2. CASE Q # {}
            <3> DEFINE T == {f.createdAt : f \in Q}
            <3>1. T \in SUBSET Nat /\ T # {}
                  BY <1>1, <1>3, <2>2
            <3>2. PICK x \in T : \A y \in T : x <= y
                  <4> HIDE DEF T
                  <4> QED
                      BY <3>1, HasLeast
            <3>3. PICK f \in Q : x = f.createdAt
                  OBVIOUS
            <3>4. Q \ {f} \subseteq Above(f)
                  <4> SUFFICES ASSUME NEW g \in Q \ {f} PROVE g.createdAt > f.createdAt
                      BY <1>3
                  <4>1. g.createdAt >= f.createdAt
                        BY <1>1, <1>3, <3>2, <3>3
                  <4>2. g.createdAt # f.createdAt
                        BY <1>3 DEF Distinct
                  <4> QED
                      BY <1>1, <1>3, <4>1, <4>2
            <3>5. Cardinality(Q \ {f}) = Cardinality(Q) - 1
                  BY <1>4, FS_RemoveElement
            <3>6. Cardinality(Q \ {f}) <= Cardinality(Above(f))
                  <4> HIDE DEF Above
                  <4> QED
                      BY <1>2, <1>3, <3>4, FS_Subset
            <3>7. Cardinality(Above(f)) < n /\ Cardinality(Above(f)) \in Nat
                  <4> HIDE DEF Above
                  <4> QED
                      BY <1>2, <1>3
            <3> HIDE DEF Above
            <3> QED
                BY <1>4, <3>5, <3>6, <3>7
      <2> QED
          BY <2>1, <2>2
<1>7. ASSUME S # Q PROVE n <= Cardinality(Q)
      <2> DEFINE T == {f.createdAt : f \in S \ Q}
      <2>1. T \in SUBSET (0..m) /\ T # {}
            BY <1>3, <1>7
      <2>2. PICK x \in T : \A y \in T : x >= y
            <3> HIDE DEF T
            <3> QED
                BY <2>1, HasGreatest
      <2>3. PICK f \in S \ Q : x = f.createdAt
            OBVIOUS
      <2>4. Above(f) \subseteq Q
            <3> SUFFICES ASSUME NEW g \in S, g.createdAt > f.createdAt, g \notin Q PROVE FALSE
                OBVIOUS
            <3>1. f.createdAt >= g.createdAt
                  BY <2>2, <2>3
            <3> QED
                BY <1>1, <3>1
      <2> HIDE DEF Above
      <2>5. Cardinality(Above(f)) <= Cardinality(Q)
            BY <1>4, <2>4, FS_Subset
      <2>6. ~(Cardinality(Above(f)) < n) /\ Cardinality(Above(f)) \in Nat
            BY <1>2, <1>3
      <2> QED
          BY <1>4, <2>5, <2>6
<1>8. Cardinality(Q) = IF Cardinality(S) < n THEN Cardinality(S) ELSE n
      BY <1>4, <1>6, <1>7
<1> QED
    BY <1>4, <1>5, <1>8 DEF Q

LEMMA DisjointSum ==
  ASSUME NEW S, NEW T, IsFiniteSet(S), IsFiniteSet(T), S \cap T = {}
  PROVE  Cardinality(S \cup T) = Cardinality(S) + Cardinality(T)
<1>1. Cardinality(S \cap T) = 0
      BY FS_EmptySet
<1>2. Cardinality(S \cup T) = Cardinality(S) + Cardinality(T) - Cardinality(S \cap T)
      BY FS_Union
<1> QED
    BY <1>1, <1>2, FS_CardinalityType

LEMMA CountedIsRecorded == IInv /\ OwnMoments /\ Counted => EveryRunIsRecorded
<1> SUFFICES ASSUME IInv, OwnMoments, Counted PROVE EveryRunIsRecorded
    OBVIOUS
<1>1. used.runs \in Nat /\ used.failures \in Nat /\ FailureLimit \in Nat
      BY Numbers, PipelineAssumption
<1>2. IsFiniteSet(Failures) /\ Cardinality(Failures) = used.failures
      BY DEF Counted
<1>3. \A f \in Failures : f.createdAt \in 0..used.runs
      BY <1>1 DEF Failures, Records, OwnMoments
<1>4. Distinct(Failures)
      <2>1. \A f \in Failures :
              \/ /\ f = [failureStage |-> "source_ingest", createdAt |-> f.createdAt]
                 /\ f.createdAt \in ingestFailures
              \/ /\ f = [failureStage |-> "extraction", createdAt |-> f.createdAt]
                 /\ \E a \in attempts : a.at = f.createdAt
              \/ /\ f = [failureStage |-> "model_call", createdAt |-> f.createdAt]
                 /\ \E c \in modelCalls : c.at = f.createdAt
            BY DEF Failures
      <2>2. /\ \A a \in attempts : a.at \notin ingestFailures
            /\ \A c \in modelCalls : c.at \notin ingestFailures
            /\ \A a \in attempts, c \in modelCalls : a.at # c.at
            BY DEF OwnMoments, Records
      <2>3. ASSUME NEW f \in Failures, NEW g \in Failures, f.createdAt = g.createdAt
            PROVE  f = g
            BY <2>1, <2>2, <2>3
      <2> QED
          BY <2>3 DEF Distinct
<1>5. FailureQueue = Newest(Failures, FailureLimit)
      BY DEF FailureQueue, Newest
<1>6. /\ IsFiniteSet(FailureQueue)
      /\ Cardinality(FailureQueue) =
           IF used.failures < FailureLimit THEN used.failures ELSE FailureLimit
      /\ \A f \in Failures \ FailureQueue : \A g \in FailureQueue : f.createdAt < g.createdAt
      BY <1>1, <1>2, <1>3, <1>4, <1>5, NewestOf
<1>7. Backlog("source_ingest") + Backlog("extraction") + Backlog("model_call")
        = Cardinality(FailureQueue)
      <2> DEFINE Of(st) == {f \in FailureQueue : f.failureStage = st}
           Runs == Of("extraction") \cup Of("model_call")
      <2>1. /\ Of("source_ingest") \cup Runs = FailureQueue
            /\ Of("source_ingest") \cap Runs = {}
            /\ Of("extraction") \cap Of("model_call") = {}
            BY DEF FailureQueue, Failures
      <2>2. /\ IsFiniteSet(Of("source_ingest")) /\ IsFiniteSet(Runs)
            /\ IsFiniteSet(Of("extraction")) /\ IsFiniteSet(Of("model_call"))
            BY <1>6, <2>1, FS_Subset
      <2>3. /\ Backlog("source_ingest") = Cardinality(Of("source_ingest"))
            /\ Backlog("extraction") = Cardinality(Of("extraction"))
            /\ Backlog("model_call") = Cardinality(Of("model_call"))
            BY DEF Backlog
      <2> HIDE DEF Of
      <2>4. Cardinality(Runs) = Cardinality(Of("extraction")) + Cardinality(Of("model_call"))
            BY <2>1, <2>2, DisjointSum
      <2> HIDE DEF Runs
      <2>5. Cardinality(FailureQueue) = Cardinality(Of("source_ingest")) + Cardinality(Runs)
            BY <2>1, <2>2, DisjointSum
      <2>6. /\ Cardinality(Of("source_ingest")) \in Nat
            /\ Cardinality(Of("extraction")) \in Nat
            /\ Cardinality(Of("model_call")) \in Nat
            BY <2>2, FS_CardinalityType
      <2> QED
          BY <2>3, <2>4, <2>5, <2>6
<1> QED
    BY <1>6, <1>7 DEF Counted, EveryRunIsRecorded, Open

-----------------------------------------------------------------------------
\* For any entries, policies and numbers of runners and runs, the stages' rows
\* and runs keep their types.
THEOREM PipelineTypes == Spec => []TypeOK
<1>1. IInv => TypeOK
      BY TypesInParts DEF IInv
<1> QED
    BY <1>1, Invariance, PTL

\* However extractions interleave, an entry is marked extracted exactly when
\* it has the text of a committed, successful attempt of its own
\* (store_extraction, mark_raw_entry_extracted).
THEOREM Extracted == Spec => []ExtractedIffText
<1>1. IInv => ExtractedIffText
      BY DEF IInv
<1> QED
    BY <1>1, Invariance, PTL

\* Without a policy that allows its storage no text is ever stored, nor
\* anything derived from one, whatever changes while a page is fetched.
THEOREM TextNeedsPolicy == Spec => []NoTextWithoutEligiblePolicy
<1>1. IInv => NoTextWithoutEligiblePolicy
      <2> SUFFICES ASSUME IInv, NEW e \in Entries, ~Eligible(e)
                   PROVE  /\ extraction[e] = 0
                          /\ \A s \in ModelStages : \A o \in Outputs(s) : o.entry # e
          BY DEF NoTextWithoutEligiblePolicy, Eligible
      <2>1. extraction[e] = 0
            BY DEF IInv, TextsEligible
      <2> QED
          BY <2>1 DEF IInv, OutputsSound, Outputs
<1> QED
    BY <1>1, Invariance, PTL

\* No output is derived from an entry whose own rights are blocked, by the
\* summary stage either, which never reads them.
THEOREM BlockedStaysUnread == Spec => []NoModelSeesBlockedEntry
<1>1. IInv => NoModelSeesBlockedEntry
      BY DEF IInv, OutputsSound, Outputs, NoModelSeesBlockedEntry
<1> QED
    BY <1>1, Invariance, PTL

\* A summary cites an evaluation, and at most a translation, of its own entry
\* (read_summary_input).
THEOREM SummaryCites == Spec => []SummaryCitesItsEntry
<1>1. IInv => SummaryCitesItsEntry
      BY DEF IInv
<1> QED
    BY <1>1, Invariance, PTL

\* The invariants together.
LEMMA RecordsInvariance ==
  Spec => [](IInv /\ OwnMoments /\ Counted /\ CallIdsAreFresh /\ CallsMatchOutputs)
<1>1. Init => Counted /\ OwnMoments /\ CallIdsAreFresh /\ CallsMatchOutputs
      BY InitCounted
<1>2. IInv /\ [Next]_vars => Kind
      BY StepsAreOfAKind
<1>3. IInv /\ OwnMoments /\ Counted /\ Kind => OwnMoments' /\ Counted'
      BY MomentsStayOwn, RecordsAddUp
<1>4. IInv /\ CallIdsAreFresh /\ CallsMatchOutputs /\ [Next]_vars
        => CallIdsAreFresh' /\ CallsMatchOutputs'
      BY CallIdsStayFresh, CallsStayMatched
<1> QED
    BY <1>1, <1>2, <1>3, <1>4, Invariance, PTL DEF Spec

\* Between any two inserts of any runs, successful calls and outputs pair off
\* one to one (record_model_call, record_evaluation and their one commit).
THEOREM CallsPairOff == Spec => []CallsMatchOutputs
BY RecordsInvariance, PTL

\* Every run that is over and was not cut off has left one attempt or one model
\* call; the gauges count all that failed until the list is full, and what is
\* cut began before all that is listed (listFailures).
THEOREM RunsRecorded == Spec => []EveryRunIsRecorded
BY RecordsInvariance, CountedIsRecorded, PTL
=============================================================================
