---------------------------- MODULE IngestProofs ----------------------------
(***************************************************************************)
(* Theorems about source ingest, for every set of sources, items, feeds,   *)
(* workers and handlers and every bound.                                   *)
(*                                                                         *)
(* The inductive invariant is the conjunction of the type invariant, of    *)
(* the uniqueness of the committed entries and of RunsConsistent: the type *)
(* invariant alone is not inductive (the row a run offers is well typed    *)
(* only because the run has a job and has read the rights), nor is the     *)
(* uniqueness (it needs that open transactions own their rows).            *)
(*                                                                         *)
(* The books add up: of every source, the balance of the runs is that of   *)
(* the entries (LInv), and the messages put into its queues are accounted  *)
(* for (MInv).  A sum over the log or over the retries is a recursive      *)
(* function; how one step moves it is proved by its smallest               *)
(* counterexample (WFMin).  MInv counts, of the runs, only those that have *)
(* not left their attempt: one that waits for the acknowledgement has its  *)
(* row in the log already, and would be counted twice.                     *)
(***************************************************************************)
EXTENDS Ingest, TLAPS, FiniteSetTheorems, WellFoundedInduction

IInv == TypeOK /\ NoDuplicateEntries /\ RunsConsistent

\* Feeds are sequences of items, the empty feed included.
LEMMA FeedIsSeq ==
  ASSUME NEW f \in Feeds \cup {<<>>}
  PROVE  f \in Seq(Items)
<1>1. <<>> \in Seq(Items)
  OBVIOUS
<1>2. Feeds \subseteq Seq(Items)
  BY RawEntriesAssumption
<1>3. QED
  BY <1>1, <1>2

\* What an adapter may be served is a feed.
LEMMA FeedsOfType == \A type : FeedsOf(type) \subseteq Feeds
BY DEF FeedsOf

\* A well-formed row comes from a source, an item and a rights policy.
LEMMA RowTyped ==
  ASSUME NEW s \in Sources, NEW i \in Items, NEW p \in RightsPolicies
  PROVE  RawEntry(s, i, p) \in RawEntrySet
BY DEF RawEntrySet

LEMMA CollideSymmetric == \A x, y : Collide(x, y) <=> Collide(y, x)
BY DEF Collide

\* The initial states satisfy the inductive invariant.
LEMMA InitIInv == Init => IInv
<1> SUFFICES ASSUME Init PROVE IInv
  OBVIOUS
<1> USE DEF Init
<1>1. TypeOK
  <2>1. sources \in [Sources -> SourceConfig]
    BY IngestAssumption
  <2>2. attempts \in Seq(Attempt)
    OBVIOUS
  <2>3. NoTx \in TxSet
    BY DEF NoTx, TxSet, FailureTypes
  <2>4. tx \in [Runners -> TxSet]
    BY <2>3
  <2>5. /\ rawEntries \subseteq RawEntrySet
        /\ schedule \subseteq Sources
        /\ pc \in [Runners -> PcStates]
        /\ job \in [Runners -> Job \cup {NoJob}]
        /\ adapter \in [Runners -> SourceTypes \cup {"none"}]
    BY DEF PcStates
  <2>6. /\ queue \in [Messages -> Nat]
        /\ sent \in [Sources -> Nat]
        /\ dead \in [Sources -> Nat]
    OBVIOUS
  <2>7. used \in [rounds : Nat, posts : Nat, patches : Nat, faults : Nat]
    BY IngestAssumption
  <2>8. QED
    BY <2>1, <2>2, <2>4, <2>5, <2>6, <2>7, Zenon DEF TypeOK
<1>2. NoDuplicateEntries
  BY DEF NoDuplicateEntries, Unique
<1>3. RowsOwned
  BY DEF RowsOwned, Unique, NoTx
<1>4. ASSUME NEW r \in Runners
      PROVE  Represented(r) /\ ResultsOK(pc[r], job[r], tx[r])
  <2>1. pc[r] = "idle" /\ tx[r] = NoTx
    OBVIOUS
  <2>2. Represented(r)
    BY <2>1 DEF Represented, NoTx
  <2>3. ResultsOK(pc[r], job[r], tx[r])
    BY <2>1, FS_EmptySet DEF ResultsOK, NoTx
  <2>4. QED
    BY <2>2, <2>3
<1>5. QED
  BY <1>1, <1>2, <1>3, <1>4 DEF IInv, RunsConsistent

-----------------------------------------------------------------------------
\* Steps of one run that leave it with no row of its own.

LEMMA NoTxTyped == NoTx \in TxSet
BY DEF NoTx, TxSet, FailureTypes

\* A run without an open transaction has nothing to account for.
LEMMA NoTxResultsOK ==
  ASSUME NEW step \in {"idle", "dispatch", "connect", "ack"},
         NEW j \in Job \cup {NoJob},
         step # "idle" => j \in Job
  PROVE  ResultsOK(step, j, NoTx)
BY FS_EmptySet DEF ResultsOK, NoTx

\* If one run moves to a transaction without rows and no table changes, the
\* runs stay consistent.
LEMMA BlankStep ==
  ASSUME IInv,
         NEW r \in Runners, NEW step, NEW j, NEW t,
         rawEntries' = rawEntries,
         pc' = [pc EXCEPT ![r] = step],
         job' = [job EXCEPT ![r] = j],
         tx' = [tx EXCEPT ![r] = t],
         t.rows = {}, t.next = 1,
         ResultsOK(step, j, t)
  PROVE  RunsConsistent'
<1> USE DEF IInv, TypeOK
<1>1. tx'[r] = t /\ pc'[r] = step /\ job'[r] = j
  OBVIOUS
<1>2. ASSUME NEW q \in Runners, q # r
      PROVE  tx'[q] = tx[q] /\ pc'[q] = pc[q] /\ job'[q] = job[q]
  BY <1>2
<1>3. RowsOwned'
  <2> SUFFICES ASSUME NEW q \in Runners
               PROVE  /\ Unique(tx'[q].rows)
                      /\ \A x \in tx'[q].rows :
                           /\ ~CollidesWithin(x, rawEntries)
                           /\ \A p \in Runners \ {q} : ~CollidesWithin(x, tx'[p].rows)
    BY DEF RowsOwned
  <2>1. CASE q = r
    BY <2>1, <1>1 DEF Unique
  <2>2. CASE q # r
    BY <2>2, <1>1, <1>2 DEF RunsConsistent, RowsOwned, CollidesWithin
  <2>3. QED
    BY <2>1, <2>2
<1>4. ASSUME NEW q \in Runners
      PROVE  Represented(q)' /\ ResultsOK(pc[q], job[q], tx[q])'
  <2>1. CASE q = r
    BY <2>1, <1>1 DEF Represented
  <2>2. CASE q # r
    BY <2>2, <1>2 DEF Represented, RunsConsistent
  <2>3. QED
    BY <2>1, <2>2
<1>5. QED
  BY <1>3, <1>4 DEF RunsConsistent

\* The end of a run, however it comes.
LEMMA EndRunConsistent ==
  ASSUME IInv, NEW r \in Runners, EndRun(r), rawEntries' = rawEntries
  PROVE  /\ RunsConsistent'
         /\ pc' \in [Runners -> PcStates]
         /\ job' \in [Runners -> Job \cup {NoJob}]
         /\ adapter' \in [Runners -> SourceTypes \cup {"none"}]
         /\ tx' \in [Runners -> TxSet]
<1>1. ResultsOK("idle", NoJob, NoTx)
  BY NoTxResultsOK
<1>2. NoTx.rows = {} /\ NoTx.next = 1
  BY DEF NoTx
<1>3. RunsConsistent'
  BY <1>1, <1>2, BlankStep DEF EndRun
<1>4. QED
  BY <1>3, NoTxTyped DEF EndRun, IInv, TypeOK, PcStates

UsedType == [rounds : Nat, posts : Nat, patches : Nat, faults : Nat]

\* Spending one of a bound leaves the counters natural numbers.
LEMMA SpendTyped ==
  ASSUME NEW u \in UsedType
  PROVE  /\ [u EXCEPT !.rounds = @ + 1] \in UsedType
         /\ [u EXCEPT !.posts = @ + 1] \in UsedType
         /\ [u EXCEPT !.patches = @ + 1] \in UsedType
         /\ [u EXCEPT !.faults = @ + 1] \in UsedType
<1>1. [u EXCEPT !.rounds = @ + 1] \in UsedType
  BY DEF UsedType
<1>2. [u EXCEPT !.posts = @ + 1] \in UsedType
  BY DEF UsedType
<1>3. [u EXCEPT !.patches = @ + 1] \in UsedType
  BY DEF UsedType
<1>4. [u EXCEPT !.faults = @ + 1] \in UsedType
  BY DEF UsedType
<1>5. QED
  BY <1>1, <1>2, <1>3, <1>4

\* What the type invariant says of the counters.
LEMMA UsedNow == IInv => used \in UsedType
BY DEF IInv, TypeOK, UsedType

LEMMA RaiseIInv ==
  ASSUME IInv, NEW r \in Runners, pc[r] # "idle", Raise(r), used' \in UsedType
  PROVE  IInv'
<1>1. job[r] \in Job
  BY DEF IInv, RunsConsistent, ResultsOK
<1>2. /\ queue' \in [Messages -> Nat]
      /\ dead' \in [Sources -> Nat]
  <2>1. job[r].source \in Sources /\ job[r].retries \in 0..MaxRetries
    BY <1>1 DEF Job
  <2>2. MaxRetries \in Nat
    BY IngestAssumption
  <2> DEFINE m == <<job[r].source, job[r].retries + 1>>
  <2>3. queue \in [Messages -> Nat] /\ dead \in [Sources -> Nat]
    BY DEF IInv, TypeOK
  <2>4. ASSUME job[r].retries < MaxRetries, queue' = [queue EXCEPT ![m] = @ + 1]
        PROVE  queue' \in [Messages -> Nat]
    <3>1. m \in Messages
      BY <2>1, <2>2, <2>4 DEF Messages
    <3>2. queue[m] + 1 \in Nat
      BY <2>3, <3>1
    <3> HIDE DEF m
    <3>3. QED
      BY <2>3, <2>4, <3>1, <3>2
  <2>5. ASSUME dead' = [dead EXCEPT ![job[r].source] = @ + 1]
        PROVE  dead' \in [Sources -> Nat]
    BY <2>1, <2>3, <2>5
  <2>6. QED
    BY <2>3, <2>4, <2>5 DEF Raise
<1>3. UNCHANGED <<tableVars, schedule, sent>>
  BY DEF Raise
<1>4. TypeOK'
  BY <1>2, <1>3, EndRunConsistent DEF Raise, tableVars, IInv, TypeOK, UsedType
<1>5. QED
  BY <1>3, <1>4, EndRunConsistent DEF Raise, tableVars, IInv, NoDuplicateEntries

-----------------------------------------------------------------------------
\* Steps outside the runs.

LEMMA RunsUnchanged ==
  ASSUME IInv, UNCHANGED <<rawEntries, runVars>>
  PROVE  RunsConsistent' /\ NoDuplicateEntries'
BY DEF IInv, runVars, RunsConsistent, RowsOwned, Represented, NoDuplicateEntries

LEMMA EnvironmentIInv ==
  ASSUME IInv,
         \/ \E s \in Sources : UpdateSource(s) \/ SendTask(s)
         \/ ReadEnabledPolicies \/ SchedulerCrash \/ UNCHANGED vars
  PROVE  IInv'
<1>1. ASSUME NEW s \in Sources, UpdateSource(s)
      PROVE  IInv'
  <2>1. sources' \in [Sources -> SourceConfig]
    BY <1>1, IngestAssumption DEF UpdateSource, IInv, TypeOK
  <2>2. used' \in UsedType
    BY <1>1, UsedNow, SpendTyped DEF UpdateSource
  <2>3. UNCHANGED <<rawEntries, attempts, schedule, brokerVars, runVars>>
    BY <1>1 DEF UpdateSource
  <2>4. QED
    BY <2>1, <2>2, <2>3, RunsUnchanged DEF tableVars, brokerVars, runVars, IInv, TypeOK, UsedType
<1>2. ASSUME NEW s \in Sources, SendTask(s)
      PROVE  IInv'
  <2>1. <<s, 0>> \in Messages
    BY IngestAssumption DEF Messages
  <2>2. queue' \in [Messages -> Nat] /\ sent' \in [Sources -> Nat]
    BY <1>2, <2>1 DEF SendTask, IInv, TypeOK
  <2>3. QED
    BY <1>2, <2>2, RunsUnchanged DEF SendTask, tableVars, runVars, IInv, TypeOK
<1>3. CASE ReadEnabledPolicies
  <2>1. schedule' \subseteq Sources
    BY <1>3 DEF ReadEnabledPolicies
  <2>2. used' \in UsedType
    BY <1>3, UsedNow, SpendTyped DEF ReadEnabledPolicies
  <2>3. UNCHANGED <<tableVars, brokerVars, runVars>>
    BY <1>3 DEF ReadEnabledPolicies
  <2>4. QED
    BY <2>1, <2>2, <2>3, RunsUnchanged DEF tableVars, brokerVars, runVars, IInv, TypeOK, UsedType
<1>4. CASE SchedulerCrash
  <2>1. schedule' \subseteq Sources
    BY <1>4 DEF SchedulerCrash
  <2>2. used' \in UsedType
    BY <1>4, UsedNow, SpendTyped DEF SchedulerCrash
  <2>3. UNCHANGED <<tableVars, brokerVars, runVars>>
    BY <1>4 DEF SchedulerCrash
  <2>4. QED
    BY <2>1, <2>2, <2>3, RunsUnchanged DEF tableVars, brokerVars, runVars, IInv, TypeOK, UsedType
<1>5. CASE UNCHANGED vars
  BY <1>5, RunsUnchanged DEF vars, tableVars, brokerVars, runVars, IInv, TypeOK
<1>6. QED
  BY <1>1, <1>2, <1>3, <1>4, <1>5

-----------------------------------------------------------------------------
\* Steps of a run before its first insert and after its commit.

LEMMA ReceiveIInv ==
  ASSUME IInv, NEW w \in Workers, Receive(w)
  PROVE  IInv'
<1> USE DEF IInv, tableVars, brokerVars
<1>1. PICK m \in Messages :
        /\ queue[m] > 0
        /\ queue' = [queue EXCEPT ![m] = @ - 1]
        /\ job' = [job EXCEPT ![w] = [source |-> m[1], retries |-> m[2]]]
  BY DEF Receive
<1> DEFINE j == [source |-> m[1], retries |-> m[2]]
<1>2. j \in Job
  BY DEF Messages, Job
<1>3. w \in Runners /\ tx[w].rows = {} /\ tx[w].next = 1
  BY DEF Runners, Receive, RunsConsistent, ResultsOK
<1>4. ResultsOK("dispatch", j, tx[w])
  BY <1>2, <1>3 DEF Receive, RunsConsistent, ResultsOK
<1>5. tx' = [tx EXCEPT ![w] = tx[w]]
  BY <1>3 DEF Receive, TypeOK
<1>6. RunsConsistent'
  BY <1>1, <1>3, <1>4, <1>5, BlankStep DEF Receive
<1>7. queue' \in [Messages -> Nat]
  BY <1>1 DEF TypeOK
<1>8. TypeOK'
  BY <1>1, <1>2, <1>3, <1>7 DEF Receive, TypeOK, PcStates
<1>9. QED
  BY <1>6, <1>8 DEF Receive, NoDuplicateEntries

LEMMA PostIInv ==
  ASSUME IInv, NEW h \in Handlers, NEW s \in Sources, Post(h, s)
  PROVE  IInv'
<1> USE DEF IInv, tableVars, brokerVars
<1> DEFINE j == [source |-> s, retries |-> 0]
<1>1. j \in Job
  BY IngestAssumption DEF Job
<1>2. h \in Runners /\ tx[h].rows = {} /\ tx[h].next = 1
  BY DEF Runners, Post, RunsConsistent, ResultsOK
<1>3. ResultsOK("dispatch", j, tx[h])
  BY <1>1, <1>2 DEF Post, RunsConsistent, ResultsOK
<1>4. tx' = [tx EXCEPT ![h] = tx[h]]
  BY <1>2 DEF Post, TypeOK
<1>5. RunsConsistent'
  BY <1>2, <1>3, <1>4, BlankStep DEF Post
<1>6. used' \in UsedType
  BY UsedNow, SpendTyped DEF Post
<1>7. job' \in [Runners -> Job \cup {NoJob}] /\ pc' \in [Runners -> PcStates]
  BY <1>1, <1>2 DEF Post, TypeOK, PcStates
<1>8. UNCHANGED <<tableVars, schedule, brokerVars, adapter, tx>>
  BY DEF Post
<1>9. TypeOK'
  BY <1>6, <1>7, <1>8 DEF TypeOK, UsedType
<1>10. QED
  BY <1>5, <1>8, <1>9 DEF NoDuplicateEntries

LEMMA ReadTypeIInv ==
  ASSUME IInv, NEW r \in Runners, ReadType(r)
  PROVE  IInv'
<1> USE DEF IInv, tableVars, brokerVars
<1>1. job[r] \in Job /\ tx[r].rows = {} /\ tx[r].next = 1
  BY DEF ReadType, RunsConsistent, ResultsOK
<1>2. ResultsOK("connect", job[r], tx[r])
  BY <1>1 DEF ReadType, RunsConsistent, ResultsOK
<1>3. tx' = [tx EXCEPT ![r] = tx[r]] /\ job' = [job EXCEPT ![r] = job[r]]
  BY DEF ReadType, TypeOK
<1>4. RunsConsistent'
  BY <1>1, <1>2, <1>3, BlankStep DEF ReadType
<1>5. sources[job[r].source].type \in SourceTypes
  BY <1>1 DEF TypeOK, Job, SourceConfig
<1>6. TypeOK'
  BY <1>5 DEF ReadType, TypeOK, PcStates
<1>7. QED
  BY <1>4, <1>6 DEF ReadType, NoDuplicateEntries

\* A run that has a job but no result yet: its transaction is still blank.
LEMMA BlankRun ==
  ASSUME IInv, NEW r \in Runners, pc[r] \in {"dispatch", "connect", "fetch", "ack"}
  PROVE  /\ job[r] \in Job
         /\ job[r].source \in Sources
         /\ tx[r] \in TxSet
         /\ tx[r].status = "none" /\ tx[r].failure = "none" /\ tx[r].feed = <<>> /\ tx[r].next = 1
         /\ tx[r].rows = {} /\ tx[r].inserted = 0
         /\ IsFiniteSet(tx[r].rows) /\ Cardinality(tx[r].rows) = 0
<1>1. ResultsOK(pc[r], job[r], tx[r])
  BY DEF IInv, RunsConsistent
<1>2. job[r] \in Job
  BY <1>1 DEF ResultsOK
<1>3. tx[r] \in TxSet
  BY DEF IInv, TypeOK
<1>4. tx[r].status = "none"
  BY <1>1 DEF ResultsOK
<1>5. QED
  BY <1>1, <1>2, <1>3, <1>4 DEF ResultsOK, Job

\* A step of one run that keeps its job and its adapter, and the tables,
\* preserves the type invariant when its new transaction is well typed.
LEMMA RunStepTyped ==
  ASSUME IInv, NEW r \in Runners, NEW step \in PcStates, NEW t \in TxSet,
         pc' = [pc EXCEPT ![r] = step],
         tx' = [tx EXCEPT ![r] = t],
         UNCHANGED <<tableVars, schedule, brokerVars, job, adapter, used>>
  PROVE  /\ TypeOK' /\ NoDuplicateEntries' /\ rawEntries' = rawEntries
         /\ job' = [job EXCEPT ![r] = job[r]]
<1>1. TypeOK'
  BY DEF IInv, TypeOK, tableVars, brokerVars
<1>2. NoDuplicateEntries'
  BY DEF IInv, NoDuplicateEntries, tableVars
<1>3. QED
  BY <1>1, <1>2 DEF IInv, TypeOK, tableVars

LEMMA ReadSourceIInv ==
  ASSUME IInv, NEW r \in Runners, ReadSource(r)
  PROVE  IInv'
<1> DEFINE c == sources[job[r].source]
<1>1. pc[r] = "connect"
  BY DEF ReadSource
<1>2. c \in SourceConfig
  BY <1>1, BlankRun DEF IInv, TypeOK
<1>3. CASE Raise(r) /\ UNCHANGED used
  BY <1>1, <1>3, RaiseIInv, UsedNow
<1>4. ASSUME Crawlable(c),
             tx' = [tx EXCEPT ![r].rights = c.rights],
             pc' = [pc EXCEPT ![r] = "fetch"],
             UNCHANGED <<tableVars, schedule, brokerVars, job, adapter, used>>
      PROVE  IInv'
  <2> DEFINE t == [tx[r] EXCEPT !.rights = c.rights]
  <2>1. t \in TxSet /\ t.rights \in RightsPolicies
    BY <1>1, <1>2, BlankRun DEF TxSet, SourceConfig
  <2>2. ResultsOK("fetch", job[r], t) /\ t.rows = {} /\ t.next = 1
    BY <1>1, <2>1, BlankRun DEF ResultsOK, TxSet
  <2>3. tx' = [tx EXCEPT ![r] = t]
    BY <1>4
  <2> HIDE DEF t
  <2>4. TypeOK' /\ NoDuplicateEntries' /\ rawEntries' = rawEntries
        /\ job' = [job EXCEPT ![r] = job[r]]
    BY <1>4, <2>1, <2>3, RunStepTyped DEF PcStates
  <2>5. RunsConsistent'
    BY <1>4, <2>2, <2>3, <2>4, BlankStep
  <2>6. QED
    BY <2>4, <2>5 DEF IInv
<1>5. ASSUME tx' = [tx EXCEPT ![r].status = "skipped", ![r].failure = "policy"],
             pc' = [pc EXCEPT ![r] = "record"],
             UNCHANGED <<tableVars, schedule, brokerVars, job, adapter, used>>
      PROVE  IInv'
  <2> DEFINE t == [tx[r] EXCEPT !.status = "skipped", !.failure = "policy"]
  <2>1. t \in TxSet
    BY <1>1, BlankRun DEF TxSet, FailureTypes
  <2>2. ResultsOK("record", job[r], t) /\ t.rows = {} /\ t.next = 1
    BY <1>1, <2>1, BlankRun DEF ResultsOK, TxSet
  <2>3. tx' = [tx EXCEPT ![r] = t]
    BY <1>5
  <2> HIDE DEF t
  <2>4. TypeOK' /\ NoDuplicateEntries' /\ rawEntries' = rawEntries
        /\ job' = [job EXCEPT ![r] = job[r]]
    BY <1>5, <2>1, <2>3, RunStepTyped DEF PcStates
  <2>5. RunsConsistent'
    BY <1>5, <2>2, <2>3, <2>4, BlankStep
  <2>6. QED
    BY <2>4, <2>5 DEF IInv
<1>6. QED
  BY <1>3, <1>4, <1>5 DEF ReadSource

LEMMA FetchIInv ==
  ASSUME IInv, NEW r \in Runners, Fetch(r)
  PROVE  IInv'
<1>1. pc[r] = "fetch" /\ UNCHANGED used
  BY DEF Fetch
<1>2. CASE Raise(r)
  BY <1>1, <1>2, RaiseIInv, UsedNow
<1>3. ASSUME NEW failure \in FailuresOf(adapter[r]),
             tx' = [tx EXCEPT ![r].status = "failure", ![r].failure = failure],
             pc' = [pc EXCEPT ![r] = "record"],
             UNCHANGED <<tableVars, schedule, brokerVars, job, adapter>>
      PROVE  IInv'
  <2> DEFINE t == [tx[r] EXCEPT !.status = "failure", !.failure = failure]
  <2>1. failure \in FailureTypes \ {"none"}
    BY DEF FailuresOf, FailureTypes
  <2>2. t \in TxSet
    <3>1. tx[r] \in TxSet /\ failure \in FailureTypes
      BY <1>1, <2>1, BlankRun
    <3>2. QED
      BY <3>1 DEF TxSet
  <2>3. t.status = "failure" /\ t.failure = failure /\ t.feed = <<>> /\ t.next = 1
        /\ t.rows = {} /\ t.inserted = 0
    BY <1>1, BlankRun DEF TxSet
  <2>4. tx' = [tx EXCEPT ![r] = t]
    BY <1>3
  <2> HIDE DEF t
  <2>5. job[r] \in Job /\ IsFiniteSet({}) /\ Cardinality({}) = 0
    BY <1>1, BlankRun, FS_EmptySet
  <2>6. failure # "none"
    BY <2>1
  <2>7. ResultsOK("record", job[r], t)
    BY <2>3, <2>5, <2>6 DEF ResultsOK
  <2>8. TypeOK' /\ NoDuplicateEntries' /\ rawEntries' = rawEntries
        /\ job' = [job EXCEPT ![r] = job[r]]
    BY <1>1, <1>3, <2>2, <2>4, RunStepTyped DEF PcStates
  <2>9. RunsConsistent'
    BY <1>3, <2>3, <2>4, <2>7, <2>8, BlankStep
  <2>10. QED
    BY <2>8, <2>9 DEF IInv
<1>4. ASSUME NEW feed \in FeedsOf(adapter[r]),
             tx' = [tx EXCEPT ![r].status = "success", ![r].feed = feed],
             pc' = [pc EXCEPT ![r] = IF feed = <<>> THEN "record" ELSE "insert"],
             UNCHANGED <<tableVars, schedule, brokerVars, job, adapter>>
      PROVE  IInv'
  <2> DEFINE t == [tx[r] EXCEPT !.status = "success", !.feed = feed]
             step == IF feed = <<>> THEN "record" ELSE "insert"
  <2>1. feed \in Feeds /\ feed \in Seq(Items)
    BY FeedsOfType, FeedIsSeq
  <2>2. tx[r].rights \in RightsPolicies /\ tx[r].failure = "none"
    BY <1>1, BlankRun DEF IInv, RunsConsistent, ResultsOK, TxSet
  <2>3. t \in TxSet
    BY <1>1, <2>1, BlankRun DEF TxSet
  <2>4. t.status = "success" /\ t.feed = feed /\ t.next = 1 /\ t.rows = {}
        /\ t.inserted = 0 /\ t.rights = tx[r].rights /\ t.failure = tx[r].failure
    BY <1>1, BlankRun DEF TxSet
  <2>5. feed # <<>> => 1 \in DOMAIN feed
    BY <2>1
  <2>6. step \in {"insert", "record"}
    OBVIOUS
  <2>7. tx' = [tx EXCEPT ![r] = t]
    BY <1>4
  <2> HIDE DEF t
  <2>8. ResultsOK(step, job[r], t)
    <3>1. job[r] \in Job /\ IsFiniteSet({}) /\ Cardinality({}) = 0
      BY <1>1, BlankRun, FS_EmptySet
    <3>2. CASE feed = <<>>
      BY <2>1, <2>2, <2>4, <3>1, <3>2 DEF ResultsOK
    <3>3. CASE feed # <<>>
      BY <2>1, <2>2, <2>4, <2>5, <3>1, <3>3 DEF ResultsOK
    <3>4. QED
      BY <3>2, <3>3
  <2>9. pc' = [pc EXCEPT ![r] = step]
    BY <1>4
  <2> HIDE DEF step
  <2>10. TypeOK' /\ NoDuplicateEntries' /\ rawEntries' = rawEntries
         /\ job' = [job EXCEPT ![r] = job[r]]
    BY <1>1, <1>4, <2>3, <2>6, <2>7, <2>9, RunStepTyped DEF PcStates
  <2>11. RunsConsistent'
    BY <2>4, <2>7, <2>8, <2>9, <2>10, BlankStep
  <2>12. QED
    BY <2>10, <2>11 DEF IInv
<1>5. QED
  BY <1>2, <1>3, <1>4 DEF Fetch

-----------------------------------------------------------------------------
\* The insert loop.

\* What the invariant says of a run that is in the loop.
LEMMA InsertingRun ==
  ASSUME IInv, NEW r \in Runners, pc[r] = "insert"
  PROVE  /\ job[r] \in Job /\ job[r].source \in Sources
         /\ tx[r] \in TxSet
         /\ tx[r].status = "success" /\ tx[r].failure = "none"
         /\ tx[r].feed \in Feeds /\ tx[r].feed \in Seq(Items)
         /\ tx[r].next \in 1..Len(tx[r].feed)
         /\ CurrentItem(r) \in Items
         /\ tx[r].rights \in RightsPolicies
         /\ CurrentRow(r) \in RawEntrySet
         /\ IsFiniteSet(tx[r].rows) /\ tx[r].inserted = Cardinality(tx[r].rows)
         /\ tx[r].rows \subseteq
              {RawEntry(job[r].source, i, tx[r].rights) : i \in LinkedItems(tx[r].feed)}
<1>1. ResultsOK("insert", job[r], tx[r])
  BY DEF IInv, RunsConsistent
<1>2. job[r] \in Job /\ job[r].source \in Sources
  BY <1>1 DEF ResultsOK, Job
<1>3. tx[r] \in TxSet
  BY DEF IInv, TypeOK
<1>4. tx[r].status = "success" /\ tx[r].next \in DOMAIN tx[r].feed
  BY <1>1 DEF ResultsOK
<1>5. tx[r].feed \in Feeds /\ tx[r].rights \in RightsPolicies /\ tx[r].failure = "none"
  BY <1>1, <1>4 DEF ResultsOK
<1>6. tx[r].feed \in Seq(Items)
  BY <1>5, RawEntriesAssumption
<1>7. tx[r].next \in 1..Len(tx[r].feed) /\ CurrentItem(r) \in Items
  BY <1>4, <1>6 DEF CurrentItem
<1>8. CurrentRow(r) \in RawEntrySet
  BY <1>2, <1>5, <1>7, RowTyped DEF CurrentRow
<1>9. QED
  BY <1>1, <1>2, <1>3, <1>4, <1>5, <1>6, <1>7, <1>8 DEF ResultsOK

\* One turn of the loop, whatever the statement did: new holds the row that
\* went in, if one did.
LEMMA InsertStep ==
  ASSUME IInv, NEW r \in Runners, pc[r] = "insert",
         NEW new, new \subseteq {CurrentRow(r)}, NEW t,
         new # {} => /\ CurrentItem(r) \notin Linkless
                     /\ ~CollidesWithin(CurrentRow(r), rawEntries)
                     /\ ~CollidesWithin(CurrentRow(r), tx[r].rows)
                     /\ \A q \in Runners \ {r} : ~CollidesWithin(CurrentRow(r), tx[q].rows),
         \/ CurrentItem(r) \in Linkless
         \/ CollidesWithin(CurrentRow(r), rawEntries \cup tx[r].rows \cup new),
         t.rows = tx[r].rows \cup new,
         t.inserted = Cardinality(t.rows), IsFiniteSet(t.rows),
         t.next = tx[r].next + 1,
         t.rights = tx[r].rights, t.feed = tx[r].feed,
         t.status = tx[r].status, t.failure = tx[r].failure,
         tx' = [tx EXCEPT ![r] = t],
         pc' = [pc EXCEPT ![r] = IF tx[r].next = Len(tx[r].feed) THEN "record" ELSE "insert"],
         UNCHANGED <<rawEntries, job>>
  PROVE  RunsConsistent'
<1> DEFINE row == CurrentRow(r)
<1>1. tx'[r] = t /\ job'[r] = job[r]
      /\ pc'[r] = IF tx[r].next = Len(tx[r].feed) THEN "record" ELSE "insert"
  BY DEF IInv, TypeOK
<1>2. ASSUME NEW q \in Runners, q # r
      PROVE  tx'[q] = tx[q] /\ pc'[q] = pc[q] /\ job'[q] = job[q]
  BY <1>2 DEF IInv, TypeOK
<1>3. \A q \in Runners : Unique(tx[q].rows) /\ \A x \in tx[q].rows : ~CollidesWithin(x, rawEntries)
  BY DEF IInv, RunsConsistent, RowsOwned
<1>4. \A q \in Runners : \A p \in Runners \ {q} : \A x \in tx[q].rows : ~CollidesWithin(x, tx[p].rows)
  BY DEF IInv, RunsConsistent, RowsOwned
<1>5. RowsOwned'
  <2>1. Unique(t.rows)
    BY <1>3, CollideSymmetric DEF Unique, CollidesWithin
  <2>2. \A x \in t.rows : ~CollidesWithin(x, rawEntries)
    BY <1>3
  <2>3. ASSUME NEW q \in Runners \ {r}
        PROVE  /\ \A x \in t.rows : ~CollidesWithin(x, tx[q].rows)
               /\ \A x \in tx[q].rows : ~CollidesWithin(x, t.rows)
    <3>1. \A x \in t.rows : ~CollidesWithin(x, tx[q].rows)
      BY <1>4
    <3>2. QED
      BY <3>1, CollideSymmetric DEF CollidesWithin
  <2> SUFFICES ASSUME NEW q \in Runners
               PROVE  /\ Unique(tx'[q].rows)
                      /\ \A x \in tx'[q].rows :
                           /\ ~CollidesWithin(x, rawEntries)
                           /\ \A p \in Runners \ {q} : ~CollidesWithin(x, tx'[p].rows)
    BY DEF RowsOwned
  <2>4. CASE q = r
    BY <2>1, <2>2, <2>3, <2>4, <1>1, <1>2
  <2>5. CASE q # r
    <3>1. ASSUME NEW x \in tx[q].rows, NEW p \in Runners \ {q}
          PROVE  ~CollidesWithin(x, tx'[p].rows)
      <4>1. CASE p = r
        BY <2>3, <2>5, <4>1, <1>1
      <4>2. CASE p # r
        BY <1>2, <1>4, <4>2
      <4>3. QED
        BY <4>1, <4>2
    <3>2. QED
      BY <2>5, <3>1, <1>2, <1>3
  <2>6. QED
    BY <2>4, <2>5
<1>6. Represented(r)'
  <2> SUFFICES ASSUME NEW k \in 1..(t.next - 1), t.feed[k] \notin Linkless
               PROVE  CollidesWithin(RawEntry(job[r].source, t.feed[k], t.rights),
                                     rawEntries \cup t.rows)
    BY <1>1 DEF Represented
  <2>1. tx[r].next \in Nat
    BY InsertingRun
  <2>2. CASE k = tx[r].next
    BY <2>2 DEF CurrentRow, CurrentItem, CollidesWithin
  <2>3. CASE k \in 1..(tx[r].next - 1)
    <3>1. Represented(r)
      BY DEF IInv, RunsConsistent
    <3>2. CollidesWithin(RawEntry(job[r].source, t.feed[k], t.rights), rawEntries \cup tx[r].rows)
      BY <2>3, <3>1 DEF Represented
    <3>3. QED
      BY <3>2 DEF CollidesWithin
  <2>4. QED
    BY <2>1, <2>2, <2>3
<1>7. ResultsOK(pc'[r], job[r], t)
  <2>1. t.rows \subseteq {RawEntry(job[r].source, i, t.rights) : i \in LinkedItems(t.feed)}
    <3>1. CurrentItem(r) \notin Linkless => CurrentItem(r) \in LinkedItems(tx[r].feed)
      BY InsertingRun DEF CurrentItem, LinkedItems
    <3>2. QED
      BY <3>1, InsertingRun DEF CurrentRow
  <2>2. tx[r].next \in 1..Len(tx[r].feed) /\ tx[r].feed \in Seq(Items)
    BY InsertingRun
  <2>3. CASE tx[r].next = Len(tx[r].feed)
    <3>1. pc'[r] = "record" /\ t.next = Len(t.feed) + 1
      BY <1>1, <2>3
    <3>2. QED
      BY <3>1, <2>1, InsertingRun DEF ResultsOK
  <2>4. CASE tx[r].next # Len(tx[r].feed)
    <3>1. pc'[r] = "insert" /\ t.next \in DOMAIN t.feed
      BY <1>1, <2>2, <2>4
    <3>2. QED
      BY <3>1, <2>1, InsertingRun DEF ResultsOK
  <2>5. QED
    BY <2>3, <2>4
<1>8. ASSUME NEW q \in Runners
      PROVE  Represented(q)' /\ ResultsOK(pc[q], job[q], tx[q])'
  <2>1. CASE q = r
    BY <2>1, <1>1, <1>6, <1>7
  <2>2. CASE q # r
    BY <2>2, <1>2 DEF Represented, IInv, RunsConsistent
  <2>3. QED
    BY <2>1, <2>2
<1>9. QED
  BY <1>5, <1>8 DEF RunsConsistent

LEMMA InsertEntryIInv ==
  ASSUME IInv, NEW r \in Runners, InsertEntry(r)
  PROVE  IInv'
<1>1. pc[r] = "insert"
      /\ pc' = [pc EXCEPT ![r] = IF tx[r].next = Len(tx[r].feed) THEN "record" ELSE "insert"]
      /\ UNCHANGED <<tableVars, schedule, brokerVars, job, adapter, used>>
  BY DEF InsertEntry
<1>2. ASSUME NEW t \in TxSet, tx' = [tx EXCEPT ![r] = t], RunsConsistent'
      PROVE  IInv'
  <2>1. (IF tx[r].next = Len(tx[r].feed) THEN "record" ELSE "insert") \in PcStates
    BY DEF PcStates
  <2>2. TypeOK' /\ NoDuplicateEntries'
    BY <1>1, <1>2, <2>1, RunStepTyped
  <2>3. QED
    BY <1>2, <2>2 DEF IInv
<1>3. ASSUME \/ CurrentItem(r) \in Linkless
             \/ CollidesWithin(CurrentRow(r), rawEntries \cup tx[r].rows),
             tx' = [tx EXCEPT ![r].next = @ + 1]
      PROVE  IInv'
  <2> DEFINE t == [tx[r] EXCEPT !.next = @ + 1]
  <2>1. tx[r] \in TxSet
    BY <1>1, InsertingRun
  <2>2. t \in TxSet
    BY <2>1 DEF TxSet
  <2>3. /\ t.rows = tx[r].rows \cup {} /\ t.inserted = tx[r].inserted
        /\ t.next = tx[r].next + 1 /\ t.rights = tx[r].rights /\ t.feed = tx[r].feed
        /\ t.status = tx[r].status /\ t.failure = tx[r].failure
    BY <2>1 DEF TxSet
  <2>4. tx' = [tx EXCEPT ![r] = t]
    BY <1>3
  <2> HIDE DEF t
  <2>5. t.inserted = Cardinality(t.rows) /\ IsFiniteSet(t.rows)
    BY <1>1, <2>3, InsertingRun
  <2>6. \/ CurrentItem(r) \in Linkless
        \/ CollidesWithin(CurrentRow(r), rawEntries \cup tx[r].rows \cup {})
    BY <1>3
  <2>7. UNCHANGED <<rawEntries, job>>
    BY <1>1 DEF tableVars
  <2>8. RunsConsistent'
    BY <1>1, <2>3, <2>4, <2>5, <2>6, <2>7, InsertStep
  <2>9. QED
    BY <1>2, <2>2, <2>4, <2>8
<1>4. ASSUME CurrentItem(r) \notin Linkless,
             ~CollidesWithin(CurrentRow(r), rawEntries \cup tx[r].rows),
             BlockedBy(r) = {},
             tx' = [tx EXCEPT ![r].next = @ + 1,
                              ![r].rows = @ \cup {CurrentRow(r)},
                              ![r].inserted = @ + 1]
      PROVE  IInv'
  <2> DEFINE row == CurrentRow(r)
             t   == [tx[r] EXCEPT !.next = @ + 1, !.rows = @ \cup {row}, !.inserted = @ + 1]
  <2>1. tx[r] \in TxSet /\ row \in RawEntrySet
    BY <1>1, InsertingRun
  <2>2. tx' = [tx EXCEPT ![r] = t]
    BY <1>4
  <2> HIDE DEF row
  <2>3. t \in TxSet
    <3>1. tx[r].rows \cup {row} \in SUBSET RawEntrySet
      BY <2>1 DEF TxSet
    <3>2. tx[r].next + 1 \in Nat \ {0} /\ tx[r].inserted + 1 \in Nat
      BY <2>1 DEF TxSet
    <3> DEFINE rows == tx[r].rows \cup {row}
               next == tx[r].next + 1
               inserted == tx[r].inserted + 1
    <3>3. t = [tx[r] EXCEPT !.next = next, !.rows = rows, !.inserted = inserted]
      OBVIOUS
    <3> HIDE DEF rows, next, inserted, t
    <3>4. QED
      BY <2>1, <3>1, <3>2, <3>3 DEF TxSet, rows, next, inserted
  <2>4. /\ t.rows = tx[r].rows \cup {row} /\ t.inserted = tx[r].inserted + 1
        /\ t.next = tx[r].next + 1 /\ t.rights = tx[r].rights /\ t.feed = tx[r].feed
        /\ t.status = tx[r].status /\ t.failure = tx[r].failure
    BY <2>1 DEF TxSet
  <2> HIDE DEF t
  <2>5. row \notin tx[r].rows /\ Collide(row, row)
    BY <1>4 DEF row, CollidesWithin, Collide
  <2>6. t.inserted = Cardinality(t.rows) /\ IsFiniteSet(t.rows)
    <3>1. IsFiniteSet(tx[r].rows) /\ tx[r].inserted = Cardinality(tx[r].rows)
      BY <1>1, InsertingRun
    <3>2. /\ IsFiniteSet(tx[r].rows \cup {row})
          /\ Cardinality(tx[r].rows \cup {row}) = Cardinality(tx[r].rows) + 1
      BY <2>5, <3>1, FS_AddElement
    <3>3. QED
      BY <2>4, <3>1, <3>2
  <2>7. /\ ~CollidesWithin(row, rawEntries) /\ ~CollidesWithin(row, tx[r].rows)
        /\ \A q \in Runners \ {r} : ~CollidesWithin(row, tx[q].rows)
    BY <1>1, <1>4 DEF row, CollidesWithin, BlockedBy
  <2>8. CollidesWithin(row, rawEntries \cup tx[r].rows \cup {row})
    BY <2>5 DEF CollidesWithin
  <2>9. UNCHANGED <<rawEntries, job>>
    BY <1>1 DEF tableVars
  <2>10. RunsConsistent'
    BY <1>1, <1>4, <2>2, <2>4, <2>6, <2>7, <2>8, <2>9, InsertStep DEF row
  <2>11. QED
    BY <1>2, <2>2, <2>3, <2>10
<1>5. QED
  BY <1>3, <1>4 DEF InsertEntry, InsertOnConflictDoNothing

-----------------------------------------------------------------------------
\* The commit, and the ends of a run.

\* The rows of one run become visible to all at once: they were nobody's
\* duplicates and nothing of what the others have behind them is undone.
LEMMA RecordAttemptIInv ==
  ASSUME IInv, NEW r \in Runners, RecordAttempt(r)
  PROVE  IInv'
<1>1. /\ pc[r] = "record"
      /\ rawEntries' = rawEntries \cup tx[r].rows
      /\ pc' = [pc EXCEPT ![r] = "ack"]
      /\ tx' = [tx EXCEPT ![r] = NoTx]
      /\ UNCHANGED <<sources, schedule, brokerVars, job, adapter, used>>
  BY DEF RecordAttempt
<1>2. ResultsOK("record", job[r], tx[r]) /\ tx[r] \in TxSet
  BY <1>1 DEF IInv, TypeOK, RunsConsistent
<1>3. job[r] \in Job /\ job[r].source \in Sources /\ tx[r].status # "none"
  BY <1>2 DEF ResultsOK, Job
<1>4. tx[r].feed \in Seq(Items)
  BY <1>2, FeedIsSeq DEF TxSet
<1> DEFINE attempt ==
      [source |-> job[r].source, status |-> tx[r].status, failure |-> tx[r].failure,
       seen |-> Len(tx[r].feed), inserted |-> tx[r].inserted]
<1>5. attempt \in Attempt
  <2>1. Len(tx[r].feed) \in Nat
    BY <1>4
  <2>2. /\ tx[r].status \in {"success", "failure", "skipped"}
        /\ tx[r].failure \in FailureTypes /\ tx[r].inserted \in Nat
    BY <1>2, <1>3 DEF TxSet
  <2>3. QED
    BY <1>3, <2>1, <2>2 DEF Attempt
<1>6. TypeOK'
  <2>1. attempts' = Append(attempts, attempt)
    BY DEF RecordAttempt
  <2> HIDE DEF attempt
  <2>2. attempts' \in Seq(Attempt)
    <3>1. attempts \in Seq(Attempt)
      BY DEF IInv, TypeOK
    <3>2. QED
      BY <1>5, <2>1, <3>1
  <2>3. rawEntries' \subseteq RawEntrySet
    BY <1>1, <1>2 DEF IInv, TypeOK, TxSet
  <2>4. pc' \in [Runners -> PcStates] /\ tx' \in [Runners -> TxSet]
    BY <1>1, NoTxTyped DEF IInv, TypeOK, PcStates
  <2>5. UNCHANGED <<sources, schedule, queue, sent, dead, job, adapter, used>>
    BY <1>1 DEF brokerVars
  <2>6. QED
    BY <2>5, <2>2, <2>3, <2>4 DEF IInv, TypeOK
<1>7. RowsOwned /\ Unique(rawEntries)
  BY DEF IInv, RunsConsistent, NoDuplicateEntries
<1>8. NoDuplicateEntries'
  BY <1>1, <1>7, CollideSymmetric DEF NoDuplicateEntries, RowsOwned, Unique, CollidesWithin
<1>9. tx'[r] = NoTx /\ NoTx.rows = {} /\ NoTx.next = 1
      /\ \A q \in Runners : q # r => tx'[q] = tx[q]
  BY <1>1 DEF IInv, TypeOK, NoTx
<1>10. RowsOwned'
  <2> SUFFICES ASSUME NEW q \in Runners
               PROVE  /\ Unique(tx'[q].rows)
                      /\ \A x \in tx'[q].rows :
                           /\ ~CollidesWithin(x, rawEntries')
                           /\ \A p \in Runners \ {q} : ~CollidesWithin(x, tx'[p].rows)
    BY DEF RowsOwned
  <2>1. CASE q = r
    BY <2>1, <1>9 DEF Unique
  <2>2. CASE q # r
    BY <2>2, <1>1, <1>7, <1>9 DEF RowsOwned, CollidesWithin
  <2>3. QED
    BY <2>1, <2>2
<1>11. ASSUME NEW q \in Runners
       PROVE  Represented(q)' /\ ResultsOK(pc[q], job[q], tx[q])'
  <2>1. CASE q = r
    <3>1. ResultsOK("ack", job[r], NoTx)
      BY <1>3, NoTxResultsOK
    <3>2. pc'[r] = "ack" /\ job'[r] = job[r]
      BY <1>1 DEF IInv, TypeOK
    <3>3. QED
      BY <2>1, <3>1, <3>2, <1>9 DEF Represented
  <2>2. CASE q # r
    <3>1. pc'[q] = pc[q] /\ job'[q] = job[q] /\ tx'[q] = tx[q]
      BY <2>2, <1>1, <1>9 DEF IInv, TypeOK
    <3>2. Represented(q) /\ ResultsOK(pc[q], job[q], tx[q])
      BY DEF IInv, RunsConsistent
    <3>3. Represented(q)'
      BY <3>1, <3>2, <1>1 DEF Represented, CollidesWithin
    <3>4. QED
      BY <3>1, <3>2, <3>3
  <2>3. QED
    BY <2>1, <2>2
<1>12. QED
  BY <1>6, <1>8, <1>10, <1>11 DEF IInv, RunsConsistent

LEMMA AckIInv ==
  ASSUME IInv, NEW r \in Runners, Ack(r)
  PROVE  IInv'
<1>1. EndRun(r) /\ UNCHANGED <<tableVars, schedule, brokerVars, used>>
  BY DEF Ack
<1>2. rawEntries' = rawEntries
  BY <1>1 DEF tableVars
<1>3. TypeOK'
  BY <1>1, <1>2, EndRunConsistent DEF IInv, TypeOK, tableVars, brokerVars
<1>4. QED
  BY <1>1, <1>2, <1>3, EndRunConsistent DEF IInv, NoDuplicateEntries

LEMMA CrashIInv ==
  ASSUME IInv, NEW r \in Runners, Crash(r)
  PROVE  IInv'
<1>1. EndRun(r) /\ UNCHANGED <<tableVars, schedule, sent, dead>> /\ pc[r] # "idle"
  BY DEF Crash
<1>2. rawEntries' = rawEntries
  BY <1>1 DEF tableVars
<1>3. queue' \in [Messages -> Nat]
  <2>1. job[r] \in Job
    BY <1>1 DEF IInv, RunsConsistent, ResultsOK
  <2> DEFINE m == <<job[r].source, job[r].retries>>
  <2>2. m \in Messages
    BY <2>1 DEF Job, Messages
  <2>3. queue \in [Messages -> Nat] /\ queue' \in {queue, [queue EXCEPT ![m] = @ + 1]}
    BY DEF Crash, IInv, TypeOK
  <2> HIDE DEF m
  <2>4. QED
    BY <2>2, <2>3
<1>4. used' \in UsedType
  BY UsedNow, SpendTyped DEF Crash
<1>5. TypeOK'
  BY <1>1, <1>3, <1>4, EndRunConsistent, <1>2 DEF IInv, TypeOK, tableVars, UsedType
<1>6. QED
  BY <1>1, <1>2, <1>5, EndRunConsistent DEF IInv, NoDuplicateEntries

\* A lost connection and a deadlock abort both raise in a run that is under way.
LEMMA FaultIInv ==
  ASSUME IInv, NEW r \in Runners, DeadlockAbort(r) \/ LoseConnection(r)
  PROVE  IInv'
<1>1. CASE DeadlockAbort(r)
  <2>1. BlockedBy(r) # {}
    BY <1>1 DEF DeadlockAbort, InWaitCycle
  <2>2. pc[r] # "idle"
    BY <2>1 DEF BlockedBy
  <2>3. QED
    BY <1>1, <2>2, RaiseIInv, UsedNow DEF DeadlockAbort
<1>2. CASE LoseConnection(r)
  <2>1. used' \in UsedType
    BY <1>2, UsedNow, SpendTyped DEF LoseConnection
  <2>2. pc[r] # "idle" /\ Raise(r)
    BY <1>2 DEF LoseConnection
  <2>3. QED
    BY <2>1, <2>2, RaiseIInv
<1>3. QED
  BY <1>1, <1>2

-----------------------------------------------------------------------------
\* Every step preserves the inductive invariant.
LEMMA NextIInv == IInv /\ [Next]_vars => IInv'
<1> SUFFICES ASSUME IInv, [Next]_vars PROVE IInv'
  OBVIOUS
<1>1. ASSUME NEW s \in Sources, UpdateSource(s) \/ SendTask(s)
      PROVE  IInv'
  BY <1>1, EnvironmentIInv
<1>2. CASE ReadEnabledPolicies \/ SchedulerCrash \/ Rest \/ UNCHANGED vars
  BY <1>2, EnvironmentIInv DEF Rest
<1>3. ASSUME NEW w \in Workers, Receive(w)
      PROVE  IInv'
  BY <1>3, ReceiveIInv
<1>4. ASSUME NEW h \in Handlers, NEW s \in Sources, Post(h, s)
      PROVE  IInv'
  BY <1>4, PostIInv
<1>5. ASSUME NEW r \in Runners, RunStep(r)
      PROVE  IInv'
  BY <1>5, ReadTypeIInv, ReadSourceIInv, FetchIInv, InsertEntryIInv, RecordAttemptIInv,
     AckIInv DEF RunStep
<1>6. ASSUME NEW r \in Runners, DeadlockAbort(r) \/ LoseConnection(r) \/ Crash(r)
      PROVE  IInv'
  BY <1>6, FaultIInv, CrashIInv
<1>7. QED
  BY <1>1, <1>2, <1>3, <1>4, <1>5, <1>6 DEF Next

LEMMA Invariant == Spec => []IInv
<1>1. QED
  BY InitIInv, NextIInv, PTL DEF Spec

\* Every row, attempt, message and local result is of its type in every
\* reachable state, for every set of sources, runners and feeds.
THEOREM TypeCorrect == Spec => []TypeOK
<1>1. IInv => TypeOK
  BY DEF IInv
<1>2. QED
  BY <1>1, Invariant, PTL

\* However runs interleave, abort, retry or are delivered again, the entries
\* of raw_entries never duplicate one another.
THEOREM EntriesUnique == Spec => []NoDuplicateEntries
<1>1. IInv => NoDuplicateEntries
  BY DEF IInv
<1>2. QED
  BY <1>1, Invariant, PTL

\* Between any two statements an open ingest transaction agrees with what is
\* committed and with every other open transaction.
THEOREM OpenRunsConsistent == Spec => []RunsConsistent
<1>1. IInv => RunsConsistent
  BY DEF IInv
<1>2. QED
  BY <1>1, Invariant, PTL

-----------------------------------------------------------------------------
\* The refinement: the commit of a run is the one step of the ledger, and
\* every other step leaves the ledger as it is.

\* The ledger counts, collects and compares rows as the detailed module does.
LEMMA LedgerOperators ==
  /\ \A S : Ledger!Cardinality(S) = Cardinality(S)
  /\ Ledger!FailureTypes = FailureTypes
  /\ \A feed : Ledger!LinkedItems(feed) = LinkedItems(feed)
  /\ \A s, i, rights : Ledger!RawEntry(s, i, rights) = RawEntry(s, i, rights)
  /\ \A x, rows : Ledger!CollidesWithin(x, rows) <=> CollidesWithin(x, rows)
  /\ \A rows : Ledger!Unique(rows) <=> Unique(rows)
  /\ \A s, feed, rights :
       {Ledger!RawEntry(s, i, rights) : i \in Ledger!LinkedItems(feed)}
         = {RawEntry(s, i, rights) : i \in LinkedItems(feed)}
<1>1. \A S : Ledger!Cardinality(S) = Cardinality(S)
  BY DEF Ledger!Cardinality, Cardinality, Ledger!IsFiniteSet, IsFiniteSet
<1>2. Ledger!FailureTypes = FailureTypes
  BY DEF Ledger!FailureTypes, FailureTypes
<1>3. \A feed : Ledger!LinkedItems(feed) = LinkedItems(feed)
  BY DEF Ledger!LinkedItems, LinkedItems
<1>4. \A s, i, rights : Ledger!RawEntry(s, i, rights) = RawEntry(s, i, rights)
  BY DEF Ledger!RawEntry, RawEntry
<1>5. /\ \A x, rows : Ledger!CollidesWithin(x, rows) <=> CollidesWithin(x, rows)
      /\ \A rows : Ledger!Unique(rows) <=> Unique(rows)
  BY DEF Ledger!CollidesWithin, CollidesWithin, Ledger!Collide, Collide, Ledger!Unique, Unique
<1>6. ASSUME NEW s, NEW feed, NEW rights
      PROVE  {Ledger!RawEntry(s, i, rights) : i \in Ledger!LinkedItems(feed)}
               = {RawEntry(s, i, rights) : i \in LinkedItems(feed)}
  BY <1>3, <1>4
<1>7. QED
  BY <1>1, <1>2, <1>3, <1>4, <1>5, <1>6

\* What the commit of a successful run adds is what its feed adds.
LEMMA CommitAdds ==
  ASSUME IInv, NEW r \in Runners, pc[r] = "record", tx[r].status = "success"
  PROVE  Ledger!Adds(job[r].source, tx[r].feed, tx[r].rights, tx[r].rows)
<1> DEFINE feed == tx[r].feed
           offered(i) == RawEntry(job[r].source, i, tx[r].rights)
<1>1. ResultsOK("record", job[r], tx[r]) /\ Represented(r) /\ RowsOwned
  BY DEF IInv, RunsConsistent
<1>2. feed \in Seq(Items) /\ tx[r].next = Len(feed) + 1
  BY <1>1, RawEntriesAssumption DEF ResultsOK
<1>3. \A i \in LinkedItems(feed) : CollidesWithin(offered(i), rawEntries \cup tx[r].rows)
  <2> SUFFICES ASSUME NEW i \in LinkedItems(feed)
               PROVE  CollidesWithin(offered(i), rawEntries \cup tx[r].rows)
    OBVIOUS
  <2>1. PICK k \in DOMAIN feed : feed[k] = i
    BY DEF LinkedItems
  <2>2. k \in 1..(tx[r].next - 1) /\ feed[k] \notin Linkless
    BY <2>1, <1>2 DEF LinkedItems
  <2>3. QED
    BY <2>1, <2>2, <1>1 DEF Represented
<1>4. /\ Unique(tx[r].rows)
      /\ \A x \in tx[r].rows : ~CollidesWithin(x, rawEntries)
  BY <1>1 DEF RowsOwned
<1>5. tx[r].rows \subseteq {offered(i) : i \in LinkedItems(feed)}
  BY <1>1 DEF ResultsOK
<1>6. QED
  BY <1>3, <1>4, <1>5, LedgerOperators DEF Ledger!Adds

LEMMA CommitIsLedgerStep ==
  ASSUME IInv, NEW r \in Runners, RecordAttempt(r)
  PROVE  Ledger!Next
<1> DEFINE s == job[r].source
<1>1. /\ pc[r] = "record"
      /\ rawEntries' = rawEntries \cup tx[r].rows
      /\ attempts' = Append(attempts,
           [source |-> s, status |-> tx[r].status, failure |-> tx[r].failure,
            seen |-> Len(tx[r].feed), inserted |-> tx[r].inserted])
  BY DEF RecordAttempt
<1>2. ResultsOK("record", job[r], tx[r]) /\ tx[r] \in TxSet
  BY <1>1 DEF IInv, TypeOK, RunsConsistent
<1>3. s \in Sources /\ tx[r].status # "none"
  BY <1>2 DEF ResultsOK, Job
<1>4. CASE tx[r].status = "success"
  <2>1. Ledger!Adds(s, tx[r].feed, tx[r].rights, tx[r].rows)
    BY <1>1, <1>4, CommitAdds
  <2>2. /\ tx[r].feed \in Feeds /\ tx[r].rights \in RightsPolicies
        /\ tx[r].failure = "none" /\ tx[r].inserted = Cardinality(tx[r].rows)
        /\ tx[r].rows \in
             SUBSET {RawEntry(s, i, tx[r].rights) : i \in LinkedItems(tx[r].feed)}
    BY <1>2, <1>4 DEF ResultsOK
  <2>3. Ledger!Ingested(s)
    <3> DEFINE new == tx[r].rows
    <3>1. new \in SUBSET {Ledger!RawEntry(s, i, tx[r].rights) : i \in Ledger!LinkedItems(tx[r].feed)}
      BY <2>2, LedgerOperators
    <3>2. rawEntries' = rawEntries \cup new
      BY <1>1
    <3>3. attempts' = Append(attempts,
            [source |-> s, status |-> "success", failure |-> "none",
             seen |-> Len(tx[r].feed), inserted |-> Ledger!Cardinality(new)])
      BY <2>2, <1>1, <1>4, LedgerOperators
    <3> HIDE DEF new
    <3>4. QED
      BY <2>1, <2>2, <3>1, <3>2, <3>3 DEF new, Ledger!Ingested
  <2>4. QED
    BY <2>3, <1>3 DEF Ledger!Next
<1>5. CASE tx[r].status # "success"
  <2>1. /\ tx[r].status \in {"failure", "skipped"}
        /\ tx[r].failure \in FailureTypes \ {"none"}
    BY <1>2, <1>3, <1>5 DEF ResultsOK, TxSet
  <2>2. Len(tx[r].feed) = 0 /\ tx[r].inserted = 0 /\ tx[r].rows = {}
    BY <1>2, <1>5 DEF ResultsOK
  <2>3. Ledger!NotIngested(s)
    <3>1. rawEntries' = rawEntries
      BY <2>2, <1>1
    <3>2. attempts' = Append(attempts,
            [source |-> s, status |-> tx[r].status, failure |-> tx[r].failure,
             seen |-> 0, inserted |-> 0])
      BY <2>2, <1>1
    <3>3. tx[r].failure \in Ledger!FailureTypes \ {"none"}
      BY <2>1, LedgerOperators
    <3>4. QED
      BY <2>1, <3>1, <3>2, <3>3 DEF Ledger!NotIngested
  <2>4. QED
    BY <2>3, <1>3 DEF Ledger!Next
<1>6. QED
  BY <1>4, <1>5

LEMMA OtherStepsKeepLedger ==
  ASSUME [Next]_vars, ~\E r \in Runners : RecordAttempt(r)
  PROVE  UNCHANGED <<rawEntries, attempts>>
<1>1. ASSUME NEW r \in Runners, Raise(r)
      PROVE  UNCHANGED tableVars
  BY <1>1 DEF Raise
<1>2. ASSUME NEW s \in Sources, UpdateSource(s) \/ SendTask(s)
      PROVE  UNCHANGED <<rawEntries, attempts>>
  BY <1>2 DEF UpdateSource, SendTask, tableVars
<1>3. CASE ReadEnabledPolicies \/ SchedulerCrash \/ Rest \/ UNCHANGED vars
  BY <1>3 DEF ReadEnabledPolicies, SchedulerCrash, Rest, vars, tableVars
<1>4. ASSUME NEW w \in Workers, Receive(w)
      PROVE  UNCHANGED <<rawEntries, attempts>>
  BY <1>4 DEF Receive, tableVars
<1>5. ASSUME NEW h \in Handlers, NEW s \in Sources, Post(h, s)
      PROVE  UNCHANGED <<rawEntries, attempts>>
  BY <1>5 DEF Post, tableVars
<1>6. ASSUME NEW r \in Runners, RunStep(r)
      PROVE  UNCHANGED tableVars
  <2>1. CASE ReadType(r)
    BY <2>1 DEF ReadType
  <2>2. CASE ReadSource(r)
    BY <2>2, <1>1 DEF ReadSource
  <2>3. CASE Fetch(r)
    BY <2>3, <1>1 DEF Fetch
  <2>4. CASE InsertEntry(r)
    BY <2>4 DEF InsertEntry
  <2>5. CASE Ack(r)
    BY <2>5 DEF Ack
  <2>6. QED
    BY <2>1, <2>2, <2>3, <2>4, <2>5, <1>6 DEF RunStep
<1>7. ASSUME NEW r \in Runners, DeadlockAbort(r) \/ LoseConnection(r) \/ Crash(r)
      PROVE  UNCHANGED tableVars
  BY <1>7, <1>1 DEF DeadlockAbort, LoseConnection, Crash
<1>8. QED
  BY <1>2, <1>3, <1>4, <1>5, <1>6, <1>7 DEF Next, tableVars

\* To a reader of the two tables every run of ingest is one atomic step: it
\* adds exactly the entries of its feed that the table lacked, together with
\* the attempt that counts them, or an attempt alone.
THEOREM IngestImplementsLedger == Spec => ImplementsLedger
<1>1. Init => Ledger!Init
  BY DEF Init, Ledger!Init
<1>2. IInv /\ [Next]_vars => [Ledger!Next]_(Ledger!ledgerVars)
  BY CommitIsLedgerStep, OtherStepsKeepLedger DEF Ledger!ledgerVars
<1>3. QED
  BY <1>1, <1>2, Invariant, PTL DEF Spec, ImplementsLedger, Ledger!Spec

-----------------------------------------------------------------------------
\* The rights of an entry.

CrawledRights(rights) == \E c \in Configs : Crawlable(c) /\ c.rights = rights

\* A run that has read its policy holds the rights of a crawlable one.
RInv ==
  /\ sources \in [Sources -> Configs]
  /\ RightsFromCrawlablePolicy
  /\ \A r \in Runners :
       pc[r] = "fetch" \/ tx[r].status = "success" => CrawledRights(tx[r].rights)

\* A run that ends holds no rights.
LEMMA EndRunRInv ==
  ASSUME IInv, RInv, NEW r \in Runners, EndRun(r), UNCHANGED tableVars
  PROVE  RInv'
<1>1. \A q \in Runners : /\ pc'[q] = IF q = r THEN "idle" ELSE pc[q]
                         /\ tx'[q] = IF q = r THEN NoTx ELSE tx[q]
  BY DEF EndRun, IInv, TypeOK
<1>2. NoTx.status = "none"
  BY DEF NoTx
<1>3. QED
  BY <1>1, <1>2 DEF RInv, RightsFromCrawlablePolicy, tableVars

\* So does a step that moves one run, if the run's new state allows it.
LEMMA RunStepRInv ==
  ASSUME IInv, RInv, NEW r \in Runners, NEW step, NEW t,
         pc' = [pc EXCEPT ![r] = step], tx' = [tx EXCEPT ![r] = t],
         UNCHANGED tableVars,
         step = "fetch" \/ t.status = "success" => CrawledRights(t.rights)
  PROVE  RInv'
<1>1. \A q \in Runners : /\ pc'[q] = IF q = r THEN step ELSE pc[q]
                         /\ tx'[q] = IF q = r THEN t ELSE tx[q]
  BY DEF IInv, TypeOK
<1>2. QED
  BY <1>1 DEF RInv, RightsFromCrawlablePolicy, tableVars

LEMMA ReadSourceRInv ==
  ASSUME IInv, RInv, NEW r \in Runners, ReadSource(r)
  PROVE  RInv'
<1> DEFINE c == sources[job[r].source]
<1>1. job[r].source \in Sources /\ tx[r] \in TxSet /\ tx[r].status = "none"
  BY BlankRun DEF ReadSource
<1>2. c \in Configs
  BY <1>1 DEF RInv
<1>3. CASE Raise(r)
  BY <1>3, EndRunRInv DEF Raise
<1>4. ASSUME Crawlable(c),
             tx' = [tx EXCEPT ![r].rights = c.rights],
             pc' = [pc EXCEPT ![r] = "fetch"],
             UNCHANGED tableVars
      PROVE  RInv'
  <2> DEFINE t == [tx[r] EXCEPT !.rights = c.rights]
  <2>1. tx' = [tx EXCEPT ![r] = t]
    BY <1>4
  <2>2. CrawledRights(t.rights)
    BY <1>1, <1>2, <1>4 DEF CrawledRights, TxSet
  <2> HIDE DEF t
  <2>3. QED
    BY <1>4, <2>1, <2>2, RunStepRInv
<1>5. ASSUME tx' = [tx EXCEPT ![r].status = "skipped", ![r].failure = "policy"],
             pc' = [pc EXCEPT ![r] = "record"],
             UNCHANGED tableVars
      PROVE  RInv'
  <2> DEFINE t == [tx[r] EXCEPT !.status = "skipped", !.failure = "policy"]
  <2>1. tx' = [tx EXCEPT ![r] = t]
    BY <1>5
  <2>2. t.status # "success"
    BY <1>1 DEF TxSet
  <2> HIDE DEF t
  <2>3. QED
    BY <1>5, <2>1, <2>2, RunStepRInv
<1>6. QED
  BY <1>3, <1>4, <1>5 DEF ReadSource

LEMMA FetchRInv ==
  ASSUME IInv, RInv, NEW r \in Runners, Fetch(r)
  PROVE  RInv'
<1>1. pc[r] = "fetch" /\ tx[r] \in TxSet /\ CrawledRights(tx[r].rights)
  BY DEF Fetch, RInv, IInv, TypeOK
<1>2. CASE Raise(r)
  BY <1>2, EndRunRInv DEF Raise
<1>3. ASSUME NEW failure,
             tx' = [tx EXCEPT ![r].status = "failure", ![r].failure = failure],
             pc' = [pc EXCEPT ![r] = "record"], UNCHANGED tableVars
      PROVE  RInv'
  <2> DEFINE t == [tx[r] EXCEPT !.status = "failure", !.failure = failure]
  <2>1. t.rights = tx[r].rights
    BY <1>1 DEF TxSet
  <2>2. QED
    BY <1>1, <1>3, <2>1, RunStepRInv
<1>4. ASSUME NEW feed,
             tx' = [tx EXCEPT ![r].status = "success", ![r].feed = feed],
             pc' = [pc EXCEPT ![r] = IF feed = <<>> THEN "record" ELSE "insert"],
             UNCHANGED tableVars
      PROVE  RInv'
  <2> DEFINE t    == [tx[r] EXCEPT !.status = "success", !.feed = feed]
             step == IF feed = <<>> THEN "record" ELSE "insert"
  <2>1. t.rights = tx[r].rights
    BY <1>1 DEF TxSet
  <2>2. tx' = [tx EXCEPT ![r] = t] /\ pc' = [pc EXCEPT ![r] = step]
    BY <1>4
  <2> HIDE DEF t, step
  <2>3. QED
    BY <1>1, <1>4, <2>1, <2>2, RunStepRInv
<1>5. QED
  BY <1>2, <1>3, <1>4 DEF Fetch

LEMMA InsertEntryRInv ==
  ASSUME IInv, RInv, NEW r \in Runners, InsertEntry(r)
  PROVE  RInv'
<1>1. UNCHANGED tableVars /\ tx[r] \in TxSet /\ tx[r].status = "success"
  BY InsertingRun DEF InsertEntry
<1>2. CrawledRights(tx[r].rights)
  BY <1>1 DEF RInv
<1> DEFINE passed   == [tx[r] EXCEPT !.next = @ + 1]
           inserted == [tx[r] EXCEPT !.next = @ + 1, !.rows = @ \cup {CurrentRow(r)},
                                     !.inserted = @ + 1]
<1>3. PICK t \in {passed, inserted} : tx' = [tx EXCEPT ![r] = t]
  BY DEF InsertEntry, InsertOnConflictDoNothing
<1>4. t.rights = tx[r].rights
  BY <1>1 DEF TxSet
<1>5. QED
  BY <1>1, <1>2, <1>3, <1>4, RunStepRInv DEF InsertEntry

LEMMA RecordAttemptRInv ==
  ASSUME IInv, RInv, NEW r \in Runners, RecordAttempt(r)
  PROVE  RInv'
<1>1. ASSUME NEW x \in tx[r].rows
      PROVE  CrawledRights(x.rights)
  <2>1. ResultsOK(pc[r], job[r], tx[r])
    BY DEF IInv, RunsConsistent
  <2>2. tx[r].status = "success"
    BY <1>1, <2>1 DEF ResultsOK
  <2>3. PICK i \in LinkedItems(tx[r].feed) : x = RawEntry(job[r].source, i, tx[r].rights)
    BY <1>1, <2>1, <2>2 DEF ResultsOK
  <2>4. x.rights = tx[r].rights
    BY <2>3 DEF RawEntry
  <2>5. QED
    BY <2>2, <2>4 DEF RInv
<1>2. RightsFromCrawlablePolicy'
  BY <1>1 DEF RecordAttempt, RInv, RightsFromCrawlablePolicy, CrawledRights
<1>3. \A q \in Runners : /\ pc'[q] = IF q = r THEN "ack" ELSE pc[q]
                         /\ tx'[q] = IF q = r THEN NoTx ELSE tx[q]
  BY DEF RecordAttempt, IInv, TypeOK
<1>4. NoTx.status = "none"
  BY DEF NoTx
<1>5. QED
  BY <1>2, <1>3, <1>4 DEF RInv, RecordAttempt

LEMMA NextRInv == IInv /\ RInv /\ [Next]_vars => RInv'
<1> SUFFICES ASSUME IInv, RInv, [Next]_vars PROVE RInv'
  OBVIOUS
<1>1. ASSUME NEW s \in Sources, UpdateSource(s)
      PROVE  RInv'
  <2>1. sources' \in [Sources -> Configs]
    BY <1>1 DEF UpdateSource, RInv
  <2>2. UNCHANGED <<rawEntries, pc, tx>>
    BY <1>1 DEF UpdateSource, runVars
  <2>3. QED
    BY <2>1, <2>2 DEF RInv, RightsFromCrawlablePolicy
<1>2. ASSUME UNCHANGED <<sources, rawEntries, pc, tx>>
      PROVE  RInv'
  BY <1>2 DEF RInv, RightsFromCrawlablePolicy
<1>3. ASSUME NEW s \in Sources, SendTask(s)
      PROVE  RInv'
  BY <1>2, <1>3 DEF SendTask, tableVars, runVars
<1>4. CASE ReadEnabledPolicies \/ SchedulerCrash \/ Rest \/ UNCHANGED vars
  BY <1>2, <1>4 DEF ReadEnabledPolicies, SchedulerCrash, Rest, vars, tableVars, runVars
<1>5. ASSUME NEW r \in Runners, NEW step \in {"dispatch", "connect"},
             pc' = [pc EXCEPT ![r] = step], UNCHANGED <<tableVars, tx>>
      PROVE  RInv'
  BY <1>5 DEF RInv, RightsFromCrawlablePolicy, tableVars, IInv, TypeOK
<1>6. ASSUME NEW w \in Workers, Receive(w)
      PROVE  RInv'
  BY <1>5, <1>6 DEF Receive, Runners
<1>7. ASSUME NEW h \in Handlers, NEW s \in Sources, Post(h, s)
      PROVE  RInv'
  BY <1>5, <1>7 DEF Post, Runners
<1>8. ASSUME NEW r \in Runners, RunStep(r)
      PROVE  RInv'
  <2>1. CASE ReadType(r)
    BY <1>5, <2>1 DEF ReadType
  <2>2. CASE Ack(r)
    BY <2>2, EndRunRInv DEF Ack
  <2>3. QED
    BY <1>8, <2>1, <2>2, ReadSourceRInv, FetchRInv, InsertEntryRInv, RecordAttemptRInv
       DEF RunStep
<1>9. ASSUME NEW r \in Runners, DeadlockAbort(r) \/ LoseConnection(r) \/ Crash(r)
      PROVE  RInv'
  BY <1>9, EndRunRInv DEF DeadlockAbort, LoseConnection, Crash, Raise
<1>10. QED
  BY <1>1, <1>2, <1>3, <1>4, <1>6, <1>7, <1>8, <1>9 DEF Next

\* Every entry carries the rights of a policy under which its source could be
\* crawled, whatever the administrator changes while runs are under way.
THEOREM RightsCrawlable == Spec => []RightsFromCrawlablePolicy
<1>1. ASSUME Init PROVE RInv
  <2>1. sources \in [Sources -> Configs] /\ RightsFromCrawlablePolicy
    BY <1>1, IngestAssumption DEF Init, RightsFromCrawlablePolicy
  <2>2. \A r \in Runners : pc[r] = "idle" /\ tx[r].status = "none"
    BY <1>1 DEF Init, NoTx
  <2>3. QED
    BY <2>1, <2>2 DEF RInv
<1>2. RInv => RightsFromCrawlablePolicy
  BY DEF RInv
<1>3. QED
  BY <1>1, <1>2, NextRInv, Invariant, PTL DEF Spec


-----------------------------------------------------------------------------
\* Running sums, as InsertedFor and WaitingFor take them.

Below == {p \in Nat \X Nat : p[1] < p[2]}

LEMMA SmallestNat ==
  ASSUME NEW T \in SUBSET Nat, T # {}
  PROVE  \E n \in T : \A m \in T : n <= m
<1>1. IsWellFoundedOn(Below, Nat)
  <2>1. OpToRel(<, Nat) = Below
    BY Zenon DEF OpToRel, Below
  <2>2. QED
    BY <2>1, NatLessThanWellFounded, Zenon
<1>2. PICK n \in T : \A m \in T : ~(<<m, n>> \in Below)
  BY <1>1, WFMin, Zenon
<1>3. ASSUME NEW m \in T PROVE n <= m
  <2>1. n \in Nat /\ m \in Nat /\ ~(<<m, n>> \in Below)
    BY <1>2
  <2>2. ~(m < n)
    BY <2>1 DEF Below
  <2>3. QED
    BY <2>1, <2>2
<1>4. QED
  BY <1>3

\* f[k] is the sum of v[0] to v[k].
Sums(f, n, v) == f = [k \in 0..n |-> v[k] + (IF k = 0 THEN 0 ELSE f[k - 1])]

LEMMA SumsExist ==
  ASSUME NEW n \in Nat, NEW v \in [0..n -> Int]
  PROVE  \E f \in [0..n -> Int] : Sums(f, n, v)
<1> DEFINE Solved(m) == \E f \in [0..m -> Int] : Sums(f, m, v)
           T == {m \in 0..n : ~Solved(m)}
<1>1. SUFFICES ASSUME T # {} PROVE FALSE
  <2> HIDE DEF Solved
  <2>1. n \in 0..n
    OBVIOUS
  <2>2. ~(T # {}) => Solved(n)
    BY <2>1
  <2>3. QED
    BY <2>2 DEF Solved
<1>2. PICK m \in T : \A k \in T : m <= k
  <2> HIDE DEF Solved
  <2>1. T \in SUBSET Nat
    OBVIOUS
  <2>2. QED
    BY <1>1, <2>1, SmallestNat
<1>3. CASE m = 0
  <2>1. [k \in 0..0 |-> v[0]] \in [0..0 -> Int]
    OBVIOUS
  <2>2. Sums([k \in 0..0 |-> v[0]], 0, v)
    BY DEF Sums
  <2>3. QED
    BY <1>3, <2>1, <2>2
<1>4. CASE m # 0
  <2>1. m - 1 \in 0..n /\ m - 1 \notin T /\ m \in 0..n
    BY <1>2, <1>4
  <2>2. PICK f \in [0..(m - 1) -> Int] : Sums(f, m - 1, v)
    BY <2>1
  <2> DEFINE g == [k \in 0..m |-> IF k = m THEN v[m] + f[m - 1] ELSE f[k]]
  <2>3. g \in [0..m -> Int]
    BY <2>1
  <2>4. \A k \in 0..(m - 1) : f[k] = v[k] + (IF k = 0 THEN 0 ELSE f[k - 1])
    BY <2>2 DEF Sums
  <2>5. ASSUME NEW k \in 0..m PROVE g[k] = v[k] + (IF k = 0 THEN 0 ELSE g[k - 1])
    <3>1. k # 0 => g[k - 1] = f[k - 1]
      BY <2>1
    <3>2. CASE k = m
      BY <1>4, <3>1, <3>2
    <3>3. CASE k # m
      BY <2>1, <2>4, <3>1, <3>3
    <3>4. QED
      BY <3>2, <3>3
  <2> HIDE DEF g
  <2>6. g = [k \in 0..m |-> g[k]]
    BY <2>3
  <2>7. Sums(g, m, v)
    BY <2>5, <2>6 DEF Sums
  <2>8. QED
    BY <2>3, <2>7
<1>5. QED
  BY <1>3, <1>4

LEMMA SumStep ==
  ASSUME NEW a \in Int, NEW b \in Int, NEW x \in Int, NEW y \in Int,
         NEW k \in Int, NEW m \in Int, NEW d \in Int,
         b = a + (IF m <= k - 1 THEN d ELSE 0), y = x + (IF k = m THEN d ELSE 0)
  PROVE  y + b = x + a + (IF m <= k THEN d ELSE 0)
<1>1. CASE k = m
  BY <1>1
<1>2. CASE m < k
  BY <1>2
<1>3. CASE k < m
  BY <1>3
<1>4. QED
  BY <1>1, <1>2, <1>3

\* One term of w is d more than that of v, and the sums from there on are.
Changed(v, w, n, m, d) == \A k \in 0..n : w[k] = v[k] + (IF k = m THEN d ELSE 0)

Shifted(f, g, n, m, d) == \A k \in 0..n : g[k] = f[k] + (IF m <= k THEN d ELSE 0)

\* Where one term differs by d, the sums from there on do.
LEMMA SumsDiffer ==
  ASSUME NEW n \in Nat, NEW p \in Nat, n <= p,
         NEW v \in [0..n -> Int], NEW w \in [0..p -> Int],
         NEW f \in [0..n -> Int], NEW g \in [0..p -> Int], Sums(f, n, v), Sums(g, p, w),
         NEW m \in Nat, NEW d \in Int, Changed(v, w, n, m, d)
  PROVE  Shifted(f, g, n, m, d)
<1> DEFINE T == {k \in 0..n : g[k] # f[k] + (IF m <= k THEN d ELSE 0)}
<1>1. SUFFICES ASSUME T # {} PROVE FALSE
  BY DEF Shifted
<1>2. T \in SUBSET Nat
  OBVIOUS
<1>3. PICK k \in T : \A j \in T : k <= j
  <2> HIDE DEF T
  <2>1. QED
    BY <1>1, <1>2, SmallestNat
<1>4. /\ k \in 0..n /\ k \in 0..p /\ f[k] \in Int /\ g[k] \in Int /\ v[k] \in Int /\ w[k] \in Int
      /\ g[k] # f[k] + (IF m <= k THEN d ELSE 0)
      /\ w[k] = v[k] + (IF k = m THEN d ELSE 0)
  BY DEF Changed
<1>5. /\ f[k] = v[k] + (IF k = 0 THEN 0 ELSE f[k - 1])
      /\ g[k] = w[k] + (IF k = 0 THEN 0 ELSE g[k - 1])
  BY <1>4 DEF Sums
<1>6. ASSUME k # 0
      PROVE  k - 1 \in 0..n /\ f[k - 1] \in Int /\ g[k - 1] \in Int
             /\ g[k - 1] = f[k - 1] + (IF m <= k - 1 THEN d ELSE 0)
  <2>1. k - 1 \in 0..n /\ k - 1 \in 0..p /\ ~(k <= k - 1)
    BY <1>4, <1>6
  <2>2. k - 1 \notin T
    BY <1>3, <2>1
  <2>3. QED
    BY <2>1, <2>2
<1> HIDE DEF T
<1>7. CASE k = 0
  BY <1>4, <1>5, <1>7
<1>8. CASE k # 0
  <2>1. /\ f[k] = v[k] + f[k - 1] /\ g[k] = w[k] + g[k - 1]
        /\ f[k - 1] \in Int /\ g[k - 1] \in Int
        /\ g[k - 1] = f[k - 1] + (IF m <= k - 1 THEN d ELSE 0)
    BY <1>5, <1>6, <1>8
  <2>2. g[k] = f[k] + (IF m <= k THEN d ELSE 0)
    <3> DEFINE a == f[k - 1]
               b == g[k - 1]
               x == v[k]
               y == w[k]
    <3>1. /\ a \in Int /\ b \in Int /\ x \in Int /\ y \in Int /\ k \in Int /\ m \in Int
          /\ b = a + (IF m <= k - 1 THEN d ELSE 0) /\ y = x + (IF k = m THEN d ELSE 0)
          /\ f[k] = x + a /\ g[k] = y + b
      BY <1>4, <2>1
    <3> HIDE DEF a, b, x, y
    <3>2. y + b = x + a + (IF m <= k THEN d ELSE 0)
      BY <3>1, SumStep
    <3>3. QED
      BY <3>1, <3>2
  <2>3. QED
    BY <1>4, <2>2
<1>9. QED
  BY <1>7, <1>8

-----------------------------------------------------------------------------
\* The attempts account for the entries.

\* What InsertedFor takes of a log.
Tally(log, s) ==
  LET total[n \in 0..Len(log)] ==
        IF n = 0 THEN 0
        ELSE total[n - 1] + (IF log[n].source = s THEN log[n].inserted ELSE 0)
  IN  total[Len(log)]

Counted(log, s) ==
  [k \in 0..Len(log) |-> IF k # 0 /\ log[k].source = s THEN log[k].inserted ELSE 0]

LEMMA CountedTyped ==
  ASSUME NEW log \in Seq(Attempt), NEW s
  PROVE  Counted(log, s) \in [0..Len(log) -> Int] /\ Len(log) \in Nat
<1>1. Len(log) \in Nat /\ \A k \in 1..Len(log) : log[k] \in Attempt
  OBVIOUS
<1>2. \A k \in 1..Len(log) : log[k].inserted \in Int
  BY <1>1 DEF Attempt
<1>3. QED
  BY <1>1, <1>2 DEF Counted

LEMMA TallyIs ==
  ASSUME NEW log \in Seq(Attempt), NEW s
  PROVE  \E f \in [0..Len(log) -> Int] :
           Sums(f, Len(log), Counted(log, s)) /\ Tally(log, s) = f[Len(log)]
<1> DEFINE n == Len(log)
           v == Counted(log, s)
           w(k) == IF log[k].source = s THEN log[k].inserted ELSE 0
           Body(f) == [k \in 0..n |-> IF k = 0 THEN 0 ELSE f[k - 1] + w(k)]
           total == CHOOSE f : f = Body(f)
<1>1. n \in Nat /\ v \in [0..n -> Int]
  BY CountedTyped
<1>2. v[0] = 0 /\ \A k \in 0..n : k # 0 => v[k] = w(k)
  BY <1>1 DEF Counted
<1>3. Tally(log, s) = total[n]
  BY DEF Tally
<1> HIDE DEF n, v, w
<1>4. PICK f \in [0..n -> Int] : Sums(f, n, v)
  BY <1>1, SumsExist
<1>5. ASSUME NEW k \in 0..n
      PROVE  /\ f[0] = 0 /\ f[k] \in Int
             /\ k # 0 => f[k] = f[k - 1] + w(k) /\ f[k - 1] \in Int /\ w(k) \in Int
  <2>1. f[0] = v[0] + 0 /\ f[k] = v[k] + (IF k = 0 THEN 0 ELSE f[k - 1])
    BY <1>1, <1>4 DEF Sums
  <2>2. v[k] \in Int /\ f[k] \in Int /\ (k # 0 => f[k - 1] \in Int)
    BY <1>1, <1>4
  <2>3. QED
    BY <1>2, <2>1, <2>2
<1>6. f = Body(f)
  <2>1. \A k \in 0..n : f[k] = IF k = 0 THEN 0 ELSE f[k - 1] + w(k)
    BY <1>5
  <2>2. QED
    BY <1>4, <2>1
<1>7. total = Body(total)
  <2> HIDE DEF Body
  <2>1. QED
    BY <1>6
<1> HIDE DEF total
<1>8. total[n] = f[n]
  <2> DEFINE T == {k \in 0..n : total[k] # f[k]}
  <2>1. SUFFICES ASSUME T # {} PROVE FALSE
    <3>1. n \in 0..n
      BY <1>1
    <3>2. QED
      BY <3>1
  <2>2. T \in SUBSET Nat
    OBVIOUS
  <2>3. PICK k \in T : \A j \in T : k <= j
    <3> HIDE DEF T
    <3>1. QED
      BY <2>1, <2>2, SmallestNat
  <2>4. k \in 0..n /\ total[k] # f[k]
    OBVIOUS
  <2>5. total[k] = IF k = 0 THEN 0 ELSE total[k - 1] + w(k)
    BY <1>7, <2>4
  <2>6. CASE k = 0
    BY <1>5, <2>4, <2>5, <2>6
  <2>7. CASE k # 0
    <3>1. k - 1 \in 0..n /\ ~(k <= k - 1)
      <4> HIDE DEF T
      <4>1. QED
        BY <1>1, <2>4, <2>7
    <3>2. total[k - 1] = f[k - 1]
      BY <2>3, <3>1
    <3>3. QED
      BY <1>5, <2>4, <2>5, <2>7, <3>2
  <2>8. QED
    BY <2>6, <2>7
<1>9. QED
  BY <1>3, <1>4, <1>8 DEF n, v

\* An attempt more adds what it inserted to the tally of its source.
LEMMA TallyAppend ==
  ASSUME NEW log \in Seq(Attempt), NEW a \in Attempt, NEW s
  PROVE  /\ Tally(log, s) \in Int
         /\ Tally(Append(log, a), s) = Tally(log, s) + (IF a.source = s THEN a.inserted ELSE 0)
<1> DEFINE n == Len(log)
           more == Append(log, a)
           v == Counted(log, s)
           w == Counted(more, s)
<1>1. /\ more \in Seq(Attempt) /\ n \in Nat /\ Len(more) = n + 1 /\ more[n + 1] = a
      /\ \A k \in 1..n : more[k] = log[k]
  OBVIOUS
<1> HIDE DEF more
<1>2. v \in [0..n -> Int] /\ w \in [0..(n + 1) -> Int]
  BY <1>1, CountedTyped
<1>3. \A k \in 0..n : w[k] = v[k]
  BY <1>1 DEF Counted
<1>4. w[n + 1] = IF a.source = s THEN a.inserted ELSE 0
  BY <1>1 DEF Counted
<1>5. PICK f \in [0..n -> Int] : Sums(f, n, v) /\ Tally(log, s) = f[n]
  BY TallyIs
<1>6. PICK g \in [0..(n + 1) -> Int] : Sums(g, n + 1, w) /\ Tally(more, s) = g[n + 1]
  BY <1>1, TallyIs
<1> HIDE DEF n, v, w
<1>7. g[n] = f[n]
  <2>1. PICK zero \in Nat : zero = 0
    OBVIOUS
  <2>2. Changed(v, w, n, zero, zero)
    BY <1>1, <1>2, <1>3, <2>1 DEF Changed
  <2>3. n <= n + 1 /\ n + 1 \in Nat /\ zero \in Int
    BY <1>1
  <2>4. Shifted(f, g, n, zero, zero)
    BY <1>1, <1>2, <1>5, <1>6, <2>2, <2>3, SumsDiffer
  <2>5. g[n] \in Int /\ f[n] \in Int /\ g[n] = f[n] + 0
    BY <1>1, <1>5, <1>6, <2>1, <2>4 DEF Shifted
  <2>6. QED
    BY <2>5
<1>8. g[n + 1] = w[n + 1] + g[n]
  BY <1>1, <1>6 DEF Sums
<1>9. f[n] \in Int /\ w[n + 1] \in Int
  BY <1>1, <1>2, <1>5
<1>10. QED
  BY <1>4, <1>5, <1>6, <1>7, <1>8, <1>9 DEF more

LInv == IsFiniteSet(rawEntries) /\ LedgerBalanced

\* A commit adds to its source as many entries as its attempt says, and none
\* to another.
LEMMA CommitKeepsBalance ==
  ASSUME IInv, LInv, NEW r \in Runners, RecordAttempt(r)
  PROVE  LInv'
<1> DEFINE new == tx[r].rows
           src == job[r].source
           a == [source |-> src, status |-> tx[r].status, failure |-> tx[r].failure,
                 seen |-> Len(tx[r].feed), inserted |-> tx[r].inserted]
<1>1. /\ pc[r] = "record" /\ rawEntries' = rawEntries \cup new
      /\ attempts' = Append(attempts, a)
  BY Zenon DEF RecordAttempt
<1>2. /\ ResultsOK("record", job[r], tx[r]) /\ RowsOwned /\ attempts \in Seq(Attempt)
      /\ tx[r] \in TxSet
  BY <1>1 DEF IInv, TypeOK, RunsConsistent
<1>3. /\ IsFiniteSet(new) /\ tx[r].inserted = Cardinality(new)
      /\ \A x \in new : x.source = src
      /\ src \in Sources
  BY <1>2 DEF ResultsOK, RawEntry, Job
<1>4. \A x \in new : x \notin rawEntries
  BY <1>2 DEF RowsOwned, CollidesWithin, Collide
<1>5. a \in Attempt
  <2>1. tx[r].feed \in Seq(Items)
    BY <1>2, FeedIsSeq DEF TxSet
  <2>2. Len(tx[r].feed) \in Nat
    BY <2>1
  <2>3. /\ tx[r].status \in {"success", "failure", "skipped"} /\ tx[r].failure \in FailureTypes
        /\ tx[r].inserted \in Nat
    BY <1>2 DEF ResultsOK, TxSet
  <2>4. QED
    BY <1>3, <2>2, <2>3 DEF Attempt
<1>6. a.source = src /\ a.inserted = Cardinality(new)
  BY <1>3
<1> HIDE DEF a, new, src
<1>7. IsFiniteSet(rawEntries')
  BY <1>1, <1>3, FS_Union DEF LInv
<1>8. ASSUME NEW s \in Sources
      PROVE  Cardinality({x \in rawEntries' : x.source = s}) = InsertedFor(s)'
  <2> DEFINE before == {x \in rawEntries : x.source = s}
             after == {x \in rawEntries' : x.source = s}
  <2>1. Cardinality(before) = InsertedFor(s)
    BY DEF LInv, LedgerBalanced
  <2>2. InsertedFor(s) = Tally(attempts, s) /\ InsertedFor(s)' = Tally(attempts', s)
    BY DEF InsertedFor, Tally
  <2>3. InsertedFor(s)' = InsertedFor(s) + (IF src = s THEN Cardinality(new) ELSE 0)
    BY <1>1, <1>2, <1>5, <1>6, <2>2, TallyAppend
  <2>4. IsFiniteSet(before) /\ Cardinality(before) \in Nat /\ Cardinality(new) \in Nat
    BY <1>3, FS_Subset, FS_CardinalityType DEF LInv
  <2>5. CASE src = s
    <3>1. after = before \cup new /\ before \cap new = {}
      BY <1>1, <1>3, <1>4, <2>5
    <3>2. Cardinality(before \cap new) = 0
      BY <3>1, FS_EmptySet
    <3>3. Cardinality(before \cup new) = Cardinality(before) + Cardinality(new) - Cardinality(before \cap new)
      BY <1>3, <2>4, FS_Union
    <3> HIDE DEF before, after
    <3>4. Cardinality(after) = Cardinality(before) + Cardinality(new)
      BY <2>4, <3>1, <3>2, <3>3
    <3>5. InsertedFor(s)' = InsertedFor(s) + Cardinality(new)
      BY <2>3, <2>5
    <3>6. Cardinality(after) = InsertedFor(s)'
      BY <2>1, <3>4, <3>5
    <3>7. QED
      BY <3>6 DEF after
  <2>6. CASE src # s
    <3>1. after = before
      BY <1>1, <1>3, <2>6
    <3> HIDE DEF before, after
    <3>2. QED
      BY <2>1, <2>3, <2>4, <2>6, <3>1 DEF after
  <2>7. QED
    BY <2>5, <2>6
<1>9. QED
  BY <1>7, <1>8 DEF LInv, LedgerBalanced

\* The counts of entries_inserted of a source's attempts add up to its rows
\* of raw_entries, however runs interleave, fail or are repeated.
THEOREM LedgerAccounts == Spec => []LedgerBalanced
<1>1. ASSUME Init PROVE LInv
  <2>1. rawEntries = {} /\ attempts = <<>>
    BY <1>1 DEF Init
  <2>2. ASSUME NEW s PROVE InsertedFor(s) = 0
    <3>1. <<>> \in Seq(Attempt) /\ Len(<<>>) = 0
      OBVIOUS
    <3>2. PICK f \in [0..0 -> Int] : Sums(f, 0, Counted(<<>>, s)) /\ Tally(<<>>, s) = f[0]
      BY <3>1, TallyIs
    <3>3. f[0] = Counted(<<>>, s)[0] + 0 /\ Counted(<<>>, s)[0] = 0
      BY <3>1, <3>2 DEF Sums, Counted
    <3>4. InsertedFor(s) = Tally(<<>>, s)
      BY <2>1 DEF InsertedFor, Tally
    <3>5. QED
      BY <3>2, <3>3, <3>4
  <2>3. QED
    BY <2>1, <2>2, FS_EmptySet DEF LInv, LedgerBalanced
<1>2. IInv /\ LInv /\ [Next]_vars => LInv'
  <2>1. ASSUME LInv, UNCHANGED <<rawEntries, attempts>> PROVE LInv'
    BY <2>1 DEF LInv, LedgerBalanced, InsertedFor
  <2>2. QED
    BY <2>1, CommitKeepsBalance, OtherStepsKeepLedger
<1>3. LInv => LedgerBalanced
  BY DEF LInv
<1>4. QED
  BY <1>1, <1>2, <1>3, Invariant, PTL DEF Spec

-----------------------------------------------------------------------------
\* The messages of a source.

\* What WaitingFor takes of a queue.
Waiting(q, s) ==
  LET total[n \in 0..MaxRetries] ==
        q[<<s, n>>] + (IF n = 0 THEN 0 ELSE total[n - 1])
  IN  total[MaxRetries]

Queued(q, s) == [k \in 0..MaxRetries |-> q[<<s, k>>]]

LEMMA SumsUnique ==
  ASSUME NEW n \in Nat, NEW v, NEW f, NEW g, Sums(f, n, v), Sums(g, n, v)
  PROVE  f[n] = g[n]
<1> DEFINE T == {k \in 0..n : f[k] # g[k]}
<1>1. SUFFICES ASSUME T # {} PROVE FALSE
  <2>1. n \in 0..n
    OBVIOUS
  <2>2. QED
    BY <2>1
<1>2. T \in SUBSET Nat
  OBVIOUS
<1>3. PICK k \in T : \A j \in T : k <= j
  <2> HIDE DEF T
  <2>1. QED
    BY <1>1, <1>2, SmallestNat
<1>4. k \in 0..n /\ f[k] # g[k]
  OBVIOUS
<1>5. k # 0 => f[k - 1] = g[k - 1]
  <2>1. k # 0 => k - 1 \in 0..n /\ ~(k <= k - 1)
    <3> HIDE DEF T
    <3>1. QED
      BY <1>4
  <2>2. QED
    BY <1>3, <2>1
<1>6. /\ f[k] = v[k] + (IF k = 0 THEN 0 ELSE f[k - 1])
      /\ g[k] = v[k] + (IF k = 0 THEN 0 ELSE g[k - 1])
  BY <1>4 DEF Sums
<1>7. QED
  BY <1>4, <1>5, <1>6

LEMMA WaitingIs ==
  ASSUME NEW q \in [Messages -> Nat], NEW s \in Sources
  PROVE  /\ MaxRetries \in Nat /\ Queued(q, s) \in [0..MaxRetries -> Int]
         /\ \E f \in [0..MaxRetries -> Int] :
              Sums(f, MaxRetries, Queued(q, s)) /\ Waiting(q, s) = f[MaxRetries]
<1> DEFINE n == MaxRetries
           v == Queued(q, s)
           Body(f) == [k \in 0..n |-> q[<<s, k>>] + (IF k = 0 THEN 0 ELSE f[k - 1])]
           total == CHOOSE f : f = Body(f)
<1>1. n \in Nat
  BY IngestAssumption
<1>2. v \in [0..n -> Int] /\ \A k \in 0..n : v[k] = q[<<s, k>>]
  BY DEF Queued, Messages
<1>3. Waiting(q, s) = total[n]
  BY DEF Waiting
<1> HIDE DEF v
<1>4. PICK f \in [0..n -> Int] : Sums(f, n, v)
  BY <1>1, <1>2, SumsExist
<1>5. ASSUME NEW g PROVE g = Body(g) <=> Sums(g, n, v)
  <2>1. Body(g) = [k \in 0..n |-> v[k] + (IF k = 0 THEN 0 ELSE g[k - 1])]
    BY <1>2
  <2>2. QED
    BY <2>1 DEF Sums
<1>6. total = Body(total)
  <2> HIDE DEF Body
  <2>1. QED
    BY <1>4, <1>5
<1> HIDE DEF total, Body
<1>7. total[n] = f[n]
  BY <1>1, <1>4, <1>5, <1>6, SumsUnique
<1>8. QED
  BY <1>1, <1>2, <1>3, <1>4, <1>7 DEF v

Moved(q, p, t, m, d) == p = [q EXCEPT ![<<t, m>>] = @ + d]

\* One message more or less in the queue is one more or less waiting.
LEMMA WaitingChanges ==
  ASSUME NEW q \in [Messages -> Nat], NEW p \in [Messages -> Nat], NEW t \in Sources,
         NEW m \in 0..MaxRetries, NEW d \in Int, Moved(q, p, t, m, d),
         NEW s \in Sources
  PROVE  Waiting(q, s) \in Int /\ Waiting(p, s) = Waiting(q, s) + (IF s = t THEN d ELSE 0)
<1> DEFINE n == MaxRetries
           v == Queued(q, s)
           w == Queued(p, s)
<1>1. n \in Nat /\ n <= n /\ v \in [0..n -> Int] /\ w \in [0..n -> Int] /\ m \in Nat /\ m <= n
  <2>1. n \in Nat /\ v \in [0..n -> Int]
    BY WaitingIs
  <2>2. w \in [0..n -> Int]
    BY WaitingIs
  <2>3. m \in 0..n
    OBVIOUS
  <2> HIDE DEF v, w, n
  <2>4. QED
    BY <2>1, <2>2, <2>3
<1>2. PICK e \in Int : e = IF s = t THEN d ELSE 0
  OBVIOUS
<1>3. Changed(v, w, n, m, e)
  <2>1. ASSUME NEW k \in 0..n PROVE w[k] = v[k] + (IF k = m THEN e ELSE 0)
    <3>1. <<s, k>> \in Messages /\ q[<<s, k>>] \in Nat
      BY DEF Messages
    <3>2. CASE <<s, k>> = <<t, m>>
      BY <1>2, <3>1, <3>2 DEF Queued, Moved
    <3>3. CASE <<s, k>> # <<t, m>>
      <4>1. p[<<s, k>>] = q[<<s, k>>]
        BY <3>1, <3>3 DEF Moved
      <4>2. k = m => e = 0
        BY <1>2, <3>3
      <4>3. QED
        BY <3>1, <4>1, <4>2 DEF Queued
    <3>4. QED
      BY <3>2, <3>3
  <2>2. QED
    BY <2>1 DEF Changed
<1>4. PICK f \in [0..n -> Int] : Sums(f, n, v) /\ Waiting(q, s) = f[n]
  BY WaitingIs
<1>5. PICK g \in [0..n -> Int] : Sums(g, n, w) /\ Waiting(p, s) = g[n]
  BY WaitingIs
<1> HIDE DEF v, w, n
<1>6. Shifted(f, g, n, m, e)
  BY <1>1, <1>3, <1>4, <1>5, SumsDiffer
<1>7. g[n] = f[n] + e /\ f[n] \in Int
  BY <1>1, <1>4, <1>6 DEF Shifted
<1>8. QED
  BY <1>2, <1>4, <1>5, <1>7

\* The runs of workers that have not left their attempt yet.
Held(s) == {w \in Workers : pc[w] \notin {"idle", "ack"} /\ job[w].source = s}

Accounted(s) ==
  sent[s] <= Waiting(queue, s) + Cardinality(Held(s)) + dead[s] + AttemptsOf(s)

MInv == \A s \in Sources : Accounted(s)

LEMMA CountsTyped ==
  ASSUME IInv, NEW s \in Sources
  PROVE  /\ sent[s] \in Int /\ Waiting(queue, s) \in Int /\ dead[s] \in Int
         /\ IsFiniteSet(Held(s)) /\ Cardinality(Held(s)) \in Int
         /\ AttemptsOf(s) \in Int
<1>1. sent[s] \in Int /\ dead[s] \in Int /\ queue \in [Messages -> Nat] /\ attempts \in Seq(Attempt)
  BY DEF IInv, TypeOK
<1>2. Waiting(queue, s) \in Int
  BY <1>1, WaitingIs
<1>3. IsFiniteSet(Held(s))
  BY FS_Subset, IngestAssumption DEF Held
<1>4. IsFiniteSet({n \in DOMAIN attempts : attempts[n].source = s})
  <2>1. DOMAIN attempts = 1..Len(attempts) /\ Len(attempts) \in Nat
    BY <1>1
  <2>2. IsFiniteSet(1..Len(attempts))
    BY <2>1, FS_Interval
  <2>3. QED
    BY <2>1, <2>2, FS_Subset
<1>5. QED
  BY <1>1, <1>2, <1>3, <1>4, FS_CardinalityType DEF AttemptsOf

LEMMA AttemptsAppend ==
  ASSUME attempts \in Seq(Attempt), NEW a, attempts' = Append(attempts, a), NEW s
  PROVE  AttemptsOf(s)' = AttemptsOf(s) + (IF a.source = s THEN 1 ELSE 0)
<1> DEFINE old == {n \in DOMAIN attempts : attempts[n].source = s}
           new == {n \in DOMAIN attempts' : attempts'[n].source = s}
           last == Len(attempts) + 1
<1>1. /\ Len(attempts) \in Nat /\ DOMAIN attempts = 1..Len(attempts)
      /\ DOMAIN attempts' = 1..last /\ attempts'[last] = a
      /\ \A n \in 1..Len(attempts) : attempts'[n] = attempts[n]
  OBVIOUS
<1>2. IsFiniteSet(1..Len(attempts)) /\ last \notin 1..Len(attempts) /\ last \in 1..last
  BY <1>1, FS_Interval
<1>3. IsFiniteSet(old) /\ last \notin old
  BY <1>1, <1>2, FS_Subset
<1>4. \A n \in 1..last : n = last \/ n \in 1..Len(attempts)
  BY <1>1
<1>5. new = IF a.source = s THEN old \cup {last} ELSE old
  BY <1>1, <1>2, <1>4
<1> HIDE DEF old, new, last
<1>6. Cardinality(old) \in Nat /\ Cardinality(old \cup {last}) = Cardinality(old) + 1
  BY <1>3, FS_AddElement, FS_CardinalityType
<1>7. AttemptsOf(s) = Cardinality(old) /\ AttemptsOf(s)' = Cardinality(new)
  BY DEF AttemptsOf, old, new
<1>8. CASE a.source = s
  BY <1>5, <1>6, <1>7, <1>8
<1>9. CASE a.source # s
  BY <1>5, <1>6, <1>7, <1>9
<1>10. QED
  BY <1>8, <1>9

\* A step of one run takes at most that run out of those held.
LEMMA HeldStep ==
  ASSUME IInv, IInv', NEW r \in Runners, \A w \in Runners \ {r} : pc'[w] = pc[w] /\ job'[w] = job[w],
         NEW s \in Sources
  PROVE  /\ Cardinality(Held(s)') >= Cardinality(Held(s)) - 1
         /\ r \notin Held(s) => Cardinality(Held(s)') >= Cardinality(Held(s))
         /\ r \notin Held(s) /\ r \in Held(s)' => Cardinality(Held(s)') >= Cardinality(Held(s)) + 1
         /\ r \in Held(s)' => Cardinality(Held(s)') >= Cardinality(Held(s))
<1> DEFINE old == Held(s)
           new == Held(s)'
<1>1. IsFiniteSet(old) /\ Cardinality(old) \in Int
  BY CountsTyped
<1>2. IsFiniteSet(new) /\ Cardinality(new) \in Int
  <2>1. IsFiniteSet(new)
    BY FS_Subset, IngestAssumption DEF Held
  <2>2. QED
    BY <2>1, FS_CardinalityType
<1>3. old \ {r} \subseteq new
  BY DEF Held, Runners
<1> HIDE DEF old, new
<1>4. IsFiniteSet(old \ {r}) /\ Cardinality(old \ {r}) <= Cardinality(new)
      /\ Cardinality(old \ {r}) \in Int
  BY <1>1, <1>2, <1>3, FS_Subset, FS_CardinalityType
<1>5. r \in old => Cardinality(old \ {r}) = Cardinality(old) - 1
  BY <1>1, FS_RemoveElement
<1>6. r \notin old => old \ {r} = old
  OBVIOUS
<1>7. ASSUME r \notin old, r \in new PROVE Cardinality(new) >= Cardinality(old) + 1
  <2>1. old \cup {r} \subseteq new
    BY <1>3, <1>7
  <2>2. Cardinality(old \cup {r}) = Cardinality(old) + 1
    BY <1>1, <1>7, FS_AddElement
  <2>3. Cardinality(old \cup {r}) <= Cardinality(new)
    BY <1>2, <2>1, FS_Subset
  <2>4. QED
    BY <1>1, <1>2, <2>2, <2>3
<1>8. r \in old /\ r \in new => Cardinality(new) >= Cardinality(old)
  <2>1. r \in old /\ r \in new => old \subseteq new
    BY <1>3
  <2>2. QED
    BY <1>2, <2>1, FS_Subset, <1>1
<1>9. QED
  BY <1>1, <1>2, <1>4, <1>5, <1>6, <1>7, <1>8 DEF old, new

\* A step of the runs that moves no message: nobody held is let go.
LEMMA QuietKeeps ==
  ASSUME IInv, IInv', MInv, UNCHANGED <<queue, sent, dead, attempts>>,
         \A s \in Sources : Held(s) \subseteq Held(s)'
  PROVE  MInv'
<1>1. ASSUME NEW s \in Sources PROVE Accounted(s)'
  <2>1. IsFiniteSet(Held(s)')
    BY FS_Subset, IngestAssumption DEF Held
  <2>2. Cardinality(Held(s)) <= Cardinality(Held(s)') /\ Cardinality(Held(s)') \in Int
    BY <2>1, FS_Subset, FS_CardinalityType
  <2>3. AttemptsOf(s)' = AttemptsOf(s)
    BY DEF AttemptsOf
  <2>4. Accounted(s)
    BY DEF MInv
  <2>5. QED
    BY <2>2, <2>3, <2>4, CountsTyped DEF Accounted
<1>2. QED
  BY <1>1 DEF MInv

LEMMA SendKeeps ==
  ASSUME IInv, IInv', MInv, NEW t \in Sources, SendTask(t)
  PROVE  MInv'
<1>1. /\ queue' = [queue EXCEPT ![<<t, 0>>] = @ + 1] /\ sent' = [sent EXCEPT ![t] = @ + 1]
      /\ UNCHANGED <<dead, attempts, pc, job>>
  BY DEF SendTask, tableVars, runVars
<1>2. /\ queue \in [Messages -> Nat] /\ queue' \in [Messages -> Nat] /\ sent \in [Sources -> Nat]
      /\ 0 \in 0..MaxRetries
  <2>1. queue \in [Messages -> Nat] /\ sent \in [Sources -> Nat]
    BY DEF IInv, TypeOK
  <2>2. queue' \in [Messages -> Nat]
    BY DEF IInv, TypeOK
  <2>3. 0 \in 0..MaxRetries
    BY IngestAssumption
  <2>4. QED
    BY <2>1, <2>2, <2>3
<1>3. ASSUME NEW s \in Sources PROVE Accounted(s)'
  <2>1. Waiting(queue', s) = Waiting(queue, s) + (IF s = t THEN 1 ELSE 0)
    <3>1. Moved(queue, queue', t, 0, 1)
      BY <1>1 DEF Moved
    <3>2. QED
      BY <1>2, <3>1, WaitingChanges
  <2>2. sent'[s] = sent[s] + (IF s = t THEN 1 ELSE 0)
    BY <1>1, <1>2
  <2>3. Held(s)' = Held(s) /\ AttemptsOf(s)' = AttemptsOf(s) /\ dead'[s] = dead[s]
    BY <1>1 DEF Held, AttemptsOf
  <2>4. Accounted(s)
    BY DEF MInv
  <2>5. QED
    BY <2>1, <2>2, <2>3, <2>4, CountsTyped DEF Accounted
<1>4. QED
  BY <1>3 DEF MInv

LEMMA ReceiveKeeps ==
  ASSUME IInv, IInv', MInv, NEW w \in Workers, Receive(w)
  PROVE  MInv'
<1>1. PICK m \in Messages : /\ queue[m] > 0
                            /\ queue' = [queue EXCEPT ![m] = @ - 1]
                            /\ job' = [job EXCEPT ![w] = [source |-> m[1], retries |-> m[2]]]
  BY DEF Receive
<1>2. /\ pc[w] = "idle" /\ pc' = [pc EXCEPT ![w] = "dispatch"]
      /\ UNCHANGED <<sent, dead, attempts>>
  BY DEF Receive, tableVars
<1>3. /\ queue \in [Messages -> Nat] /\ queue' \in [Messages -> Nat] /\ w \in Runners
      /\ pc \in [Runners -> PcStates] /\ job \in [Runners -> Job \cup {NoJob}]
  BY DEF IInv, TypeOK, Runners
<1>4. PICK t \in Sources, k \in 0..MaxRetries : m = <<t, k>>
  BY DEF Messages
<1>5. Moved(queue, queue', t, k, -1)
  BY <1>1, <1>3, <1>4 DEF Moved
<1>6. ASSUME NEW s \in Sources PROVE Accounted(s)'
  <2>1. Waiting(queue', s) = Waiting(queue, s) + (IF s = t THEN -1 ELSE 0)
    BY <1>3, <1>5, WaitingChanges
  <2>2. \A q \in Runners \ {w} : pc'[q] = pc[q] /\ job'[q] = job[q]
    BY <1>1, <1>2, <1>3
  <2>3. pc'[w] = "dispatch" /\ job'[w].source = t
    BY <1>1, <1>2, <1>3, <1>4
  <2>4. w \notin Held(s) /\ (s = t => w \in Held(s)')
    BY <1>2, <2>3 DEF Held
  <2>5. Cardinality(Held(s)') >= Cardinality(Held(s)) + (IF s = t THEN 1 ELSE 0)
    BY <1>3, <2>2, <2>4, HeldStep, CountsTyped
  <2>6. Cardinality(Held(s)') \in Int
    <3>1. IsFiniteSet(Held(s)')
      BY FS_Subset, IngestAssumption DEF Held
    <3>2. QED
      BY <3>1, FS_CardinalityType
  <2>7. AttemptsOf(s)' = AttemptsOf(s) /\ dead'[s] = dead[s] /\ sent'[s] = sent[s]
    BY <1>2 DEF AttemptsOf
  <2>8. Accounted(s)
    BY DEF MInv
  <2>9. QED
    BY <2>1, <2>5, <2>6, <2>7, <2>8, CountsTyped DEF Accounted
<1>7. QED
  BY <1>6 DEF MInv

\* A run that ends gives its message back to the queue, or gives it up.
LEMMA EndKeeps ==
  ASSUME IInv, IInv', MInv, NEW r \in Runners, pc[r] # "idle", EndRun(r), UNCHANGED <<sent, attempts>>,
         \/ r \in Handlers /\ UNCHANGED <<queue, dead>>
         \/ /\ \E k \in 0..MaxRetries : queue' = [queue EXCEPT ![<<job[r].source, k>>] = @ + 1]
            /\ UNCHANGED dead
         \/ dead' = [dead EXCEPT ![job[r].source] = @ + 1] /\ UNCHANGED queue
  PROVE  MInv'
<1> DEFINE t == job[r].source
<1>1. /\ queue \in [Messages -> Nat] /\ queue' \in [Messages -> Nat] /\ dead \in [Sources -> Nat]
      /\ dead' \in [Sources -> Nat]
      /\ pc \in [Runners -> PcStates] /\ job \in [Runners -> Job \cup {NoJob}]
  BY DEF IInv, TypeOK
<1>2. t \in Sources
  BY DEF IInv, RunsConsistent, ResultsOK, Job
<1>3. \A q \in Runners \ {r} : pc'[q] = pc[q] /\ job'[q] = job[q]
  BY <1>1 DEF EndRun
<1>4. ASSUME NEW s \in Sources PROVE Accounted(s)'
  <2>1. r \in Held(s) => s = t /\ r \notin Handlers
    BY IngestAssumption DEF Held
  <2>2. Cardinality(Held(s)') \in Int
    <3>1. IsFiniteSet(Held(s)')
      BY FS_Subset, IngestAssumption DEF Held
    <3>2. QED
      BY <3>1, FS_CardinalityType
  <2>3. /\ Cardinality(Held(s)') >= Cardinality(Held(s)) - 1
        /\ r \notin Held(s) => Cardinality(Held(s)') >= Cardinality(Held(s))
    BY <1>3, HeldStep
  <2>4. \/ Waiting(queue', s) = Waiting(queue, s) /\ dead'[s] = dead[s] /\ r \notin Held(s)
        \/ /\ Waiting(queue', s) = Waiting(queue, s) + (IF s = t THEN 1 ELSE 0)
           /\ dead'[s] = dead[s]
        \/ /\ Waiting(queue', s) = Waiting(queue, s)
           /\ dead'[s] = dead[s] + (IF s = t THEN 1 ELSE 0)
    <3>1. CASE r \in Handlers /\ UNCHANGED <<queue, dead>>
      BY <2>1, <3>1
    <3>2. CASE \E k \in 0..MaxRetries : queue' = [queue EXCEPT ![<<t, k>>] = @ + 1] /\ UNCHANGED dead
      <4>1. PICK k \in 0..MaxRetries : Moved(queue, queue', t, k, 1)
        BY <3>2 DEF Moved
      <4>2. t \in Sources /\ 1 \in Int
        BY <1>2
      <4> HIDE DEF t
      <4>3. Waiting(queue', s) = Waiting(queue, s) + (IF s = t THEN 1 ELSE 0)
        BY <1>1, <4>1, <4>2, WaitingChanges
      <4>4. QED
        BY <3>2, <4>3
    <3>3. CASE dead' = [dead EXCEPT ![t] = @ + 1] /\ UNCHANGED queue
      BY <1>1, <1>2, <3>3
    <3>4. QED
      BY <3>1, <3>2, <3>3
  <2>5. AttemptsOf(s)' = AttemptsOf(s) /\ sent'[s] = sent[s]
    BY DEF AttemptsOf
  <2>6. Accounted(s)
    BY DEF MInv
  <2> HIDE DEF t
  <2>7. /\ Cardinality(Held(s)) \in Int /\ Waiting(queue, s) \in Int /\ dead[s] \in Int
        /\ sent[s] \in Int /\ AttemptsOf(s) \in Int
    BY CountsTyped
  <2>8. CASE r \in Held(s)
    BY <2>1, <2>2, <2>3, <2>4, <2>5, <2>6, <2>7, <2>8 DEF Accounted
  <2>9. CASE r \notin Held(s)
    BY <2>2, <2>3, <2>4, <2>5, <2>6, <2>7, <2>9 DEF Accounted
  <2>10. QED
    BY <2>8, <2>9
<1>5. QED
  BY <1>4 DEF MInv

LEMMA RaiseKeeps ==
  ASSUME IInv, IInv', MInv, NEW r \in Runners, pc[r] # "idle", Raise(r)
  PROVE  MInv'
<1>1. EndRun(r) /\ UNCHANGED <<sent, attempts>>
  BY DEF Raise, tableVars
<1>2. job[r].retries \in 0..MaxRetries /\ MaxRetries \in Nat
  BY IngestAssumption DEF IInv, RunsConsistent, ResultsOK, Job
<1>3. job[r].retries < MaxRetries => job[r].retries + 1 \in 0..MaxRetries
  BY <1>2
<1>4. \/ r \in Handlers /\ UNCHANGED <<queue, dead>>
      \/ /\ \E k \in 0..MaxRetries : queue' = [queue EXCEPT ![<<job[r].source, k>>] = @ + 1]
         /\ UNCHANGED dead
      \/ dead' = [dead EXCEPT ![job[r].source] = @ + 1] /\ UNCHANGED queue
  BY <1>3 DEF Raise
<1>5. QED
  BY <1>1, <1>4, EndKeeps

LEMMA CrashKeeps ==
  ASSUME IInv, IInv', MInv, NEW r \in Runners, Crash(r)
  PROVE  MInv'
<1>1. pc[r] # "idle" /\ EndRun(r) /\ UNCHANGED <<sent, dead, attempts>>
  BY DEF Crash, tableVars
<1>2. job[r].retries \in 0..MaxRetries
  BY <1>1 DEF IInv, RunsConsistent, ResultsOK, Job
<1>3. \/ r \in Handlers /\ UNCHANGED <<queue, dead>>
      \/ /\ \E k \in 0..MaxRetries : queue' = [queue EXCEPT ![<<job[r].source, k>>] = @ + 1]
         /\ UNCHANGED dead
  BY <1>1, <1>2 DEF Crash, Runners
<1>4. QED
  BY <1>1, <1>3, EndKeeps

LEMMA RecordKeeps ==
  ASSUME IInv, IInv', MInv, NEW r \in Runners, RecordAttempt(r)
  PROVE  MInv'
<1> DEFINE t == job[r].source
           a == [source |-> t, status |-> tx[r].status, failure |-> tx[r].failure,
                 seen |-> Len(tx[r].feed), inserted |-> tx[r].inserted]
<1>1. /\ attempts' = Append(attempts, a) /\ pc' = [pc EXCEPT ![r] = "ack"]
      /\ UNCHANGED <<queue, sent, dead, job>>
  BY Zenon DEF RecordAttempt, brokerVars
<1>2. attempts \in Seq(Attempt) /\ a.source = t /\ pc \in [Runners -> PcStates]
  BY DEF IInv, TypeOK
<1> HIDE DEF a
<1>3. \A q \in Runners \ {r} : pc'[q] = pc[q] /\ job'[q] = job[q]
  BY <1>1, <1>2
<1>4. ASSUME NEW s \in Sources PROVE Accounted(s)'
  <2>1. r \in Held(s) => s = t
    BY DEF Held
  <2>2. Cardinality(Held(s)') \in Int
    <3>1. IsFiniteSet(Held(s)')
      BY FS_Subset, IngestAssumption DEF Held
    <3>2. QED
      BY <3>1, FS_CardinalityType
  <2>3. /\ Cardinality(Held(s)') >= Cardinality(Held(s)) - 1
        /\ r \notin Held(s) => Cardinality(Held(s)') >= Cardinality(Held(s))
    BY <1>3, HeldStep
  <2>4. AttemptsOf(s)' = AttemptsOf(s) + (IF t = s THEN 1 ELSE 0)
    BY <1>1, <1>2, AttemptsAppend
  <2>5. Accounted(s)
    BY DEF MInv
  <2> HIDE DEF t
  <2>6. /\ Cardinality(Held(s)) \in Int /\ Waiting(queue, s) \in Int /\ dead[s] \in Int
        /\ sent[s] \in Int /\ AttemptsOf(s) \in Int
    BY CountsTyped
  <2>7. CASE r \in Held(s)
    BY <1>1, <2>1, <2>2, <2>3, <2>4, <2>5, <2>6, <2>7 DEF Accounted
  <2>8. CASE r \notin Held(s)
    BY <1>1, <2>2, <2>3, <2>4, <2>5, <2>6, <2>8 DEF Accounted
  <2>9. QED
    BY <2>7, <2>8
<1>5. QED
  BY <1>4 DEF MInv

LEMMA RunKeeps ==
  ASSUME IInv, IInv', MInv, NEW r \in Runners, RunStep(r)
  PROVE  MInv'
<1>1. pc \in [Runners -> PcStates] /\ job \in [Runners -> Job \cup {NoJob}]
  BY DEF IInv, TypeOK
<1>2. ASSUME NEW step, step \notin {"idle", "ack"}, pc' = [pc EXCEPT ![r] = step],
             UNCHANGED <<tableVars, schedule, brokerVars, job>>
      PROVE  MInv'
  <2>1. \A s \in Sources : Held(s) \subseteq Held(s)'
    BY <1>1, <1>2 DEF Held
  <2>2. QED
    BY <1>2, <2>1, QuietKeeps DEF tableVars, brokerVars
<1>3. ASSUME Raise(r), pc[r] # "idle" PROVE MInv'
  BY <1>3, RaiseKeeps
<1>4. CASE ReadType(r)
  BY <1>2, <1>4 DEF ReadType
<1>5. CASE ReadSource(r)
  <2>1. pc[r] = "connect"
    BY <1>5 DEF ReadSource
  <2>2. \/ Raise(r)
        \/ /\ \E step \in {"fetch", "record"} : pc' = [pc EXCEPT ![r] = step]
           /\ UNCHANGED <<tableVars, schedule, brokerVars, job>>
    BY <1>5 DEF ReadSource
  <2>3. QED
    BY <1>2, <1>3, <2>1, <2>2
<1>6. CASE Fetch(r)
  <2>1. pc[r] = "fetch"
    BY <1>6 DEF Fetch
  <2>2. \/ Raise(r)
        \/ /\ \E step \in {"insert", "record"} : pc' = [pc EXCEPT ![r] = step]
           /\ UNCHANGED <<tableVars, schedule, brokerVars, job>>
    BY <1>6 DEF Fetch
  <2>3. QED
    BY <1>2, <1>3, <2>1, <2>2
<1>7. CASE InsertEntry(r)
  <2>1. /\ \E step \in {"insert", "record"} : pc' = [pc EXCEPT ![r] = step]
        /\ UNCHANGED <<tableVars, schedule, brokerVars, job>>
    BY <1>7 DEF InsertEntry
  <2>2. QED
    BY <1>2, <2>1
<1>8. CASE RecordAttempt(r)
  BY <1>8, RecordKeeps
<1>9. CASE Ack(r)
  <2>1. \A s \in Sources : Held(s) \subseteq Held(s)'
    BY <1>1, <1>9 DEF Ack, EndRun, Held
  <2>2. UNCHANGED <<tableVars, brokerVars>>
    BY <1>9 DEF Ack
  <2>3. QED
    BY <2>1, <2>2, QuietKeeps DEF tableVars, brokerVars
<1>10. QED
  BY <1>4, <1>5, <1>6, <1>7, <1>8, <1>9 DEF RunStep

LEMMA NextMInv == IInv /\ IInv' /\ MInv /\ [Next]_vars => MInv'
<1> SUFFICES ASSUME IInv, IInv', MInv, [Next]_vars PROVE MInv'
  OBVIOUS
<1>1. ASSUME UNCHANGED <<attempts, brokerVars, pc, job>>
      PROVE  MInv'
  <2>1. \A s \in Sources : Held(s) \subseteq Held(s)'
    BY <1>1 DEF Held
  <2>2. QED
    BY <1>1, <2>1, QuietKeeps DEF brokerVars
<1>2. ASSUME NEW s \in Sources, UpdateSource(s) PROVE MInv'
  BY <1>1, <1>2 DEF UpdateSource, runVars
<1>3. ASSUME NEW s \in Sources, SendTask(s) PROVE MInv'
  BY <1>3, SendKeeps
<1>4. CASE ReadEnabledPolicies \/ SchedulerCrash \/ Rest \/ UNCHANGED vars
  BY <1>1, <1>4 DEF ReadEnabledPolicies, SchedulerCrash, Rest, vars, tableVars, runVars
<1>5. ASSUME NEW w \in Workers, Receive(w) PROVE MInv'
  BY <1>5, ReceiveKeeps
<1>6. ASSUME NEW h \in Handlers, NEW s \in Sources, Post(h, s) PROVE MInv'
  <2>1. \A t \in Sources : Held(t) \subseteq Held(t)'
    BY <1>6, IngestAssumption DEF Post, Held, IInv, TypeOK, Runners
  <2>2. QED
    BY <1>6, <2>1, QuietKeeps DEF Post, tableVars, brokerVars
<1>7. ASSUME NEW r \in Runners, RunStep(r) PROVE MInv'
  BY <1>7, RunKeeps
<1>8. ASSUME NEW r \in Runners, DeadlockAbort(r) PROVE MInv'
  <2>1. BlockedBy(r) # {} /\ Raise(r)
    BY <1>8 DEF DeadlockAbort, InWaitCycle
  <2>2. pc[r] # "idle"
    BY <2>1 DEF BlockedBy
  <2>3. QED
    BY <2>1, <2>2, RaiseKeeps
<1>9. ASSUME NEW r \in Runners, LoseConnection(r) PROVE MInv'
  BY <1>9, RaiseKeeps DEF LoseConnection
<1>10. ASSUME NEW r \in Runners, Crash(r) PROVE MInv'
  BY <1>10, CrashKeeps
<1>11. QED
  BY <1>2, <1>3, <1>4, <1>5, <1>6, <1>7, <1>8, <1>9, <1>10 DEF Next

\* However runs fail, crash and are delivered again, each message that was
\* sent is waiting, in a worker's hands, given up, or has left an attempt.
THEOREM MessagesAreAccountedFor == Spec => []MessagesLeaveAttempts
<1>1. ASSUME Init PROVE MInv
  <2>1. IInv
    BY <1>1, InitIInv
  <2>2. ASSUME NEW s \in Sources PROVE Accounted(s)
    <3>1. sent[s] = 0 /\ dead[s] = 0 /\ attempts = <<>>
      BY <1>1 DEF Init
    <3>2. Cardinality(Held(s)) \in Nat
      BY <2>1, CountsTyped, FS_CardinalityType
    <3>3. AttemptsOf(s) \in Nat
      <4>1. {n \in DOMAIN attempts : attempts[n].source = s} = {}
        BY <3>1
      <4>2. QED
        BY <4>1, FS_EmptySet DEF AttemptsOf
    <3>4. Waiting(queue, s) = 0
      <4>1. queue \in [Messages -> Nat] /\ queue = [m \in Messages |-> 0]
        BY <1>1, <2>1 DEF Init, IInv, TypeOK
      <4>2. PICK f \in [0..MaxRetries -> Int] :
              Sums(f, MaxRetries, Queued(queue, s)) /\ Waiting(queue, s) = f[MaxRetries]
        BY <4>1, WaitingIs
      <4>3. MaxRetries \in Nat
        BY IngestAssumption
      <4>4. PICK n \in Nat : n = MaxRetries
        BY <4>3
      <4> DEFINE g == [k \in 0..n |-> 0]
      <4>5. Sums(g, n, Queued(queue, s))
        <5>1. \A k \in 0..n : Queued(queue, s)[k] = 0
          BY <4>1, <4>4 DEF Queued, Messages
        <5>2. \A k \in 0..n : g[k] = Queued(queue, s)[k] + (IF k = 0 THEN 0 ELSE g[k - 1])
          BY <5>1
        <5>3. g = [k \in 0..n |-> g[k]]
          OBVIOUS
        <5> HIDE DEF g
        <5>4. QED
          BY <5>2, <5>3 DEF Sums
      <4>6. f[n] = g[n]
        <5> HIDE DEF g
        <5>1. QED
          BY <4>2, <4>4, <4>5, SumsUnique
      <4>7. QED
        BY <4>2, <4>4, <4>6
    <3>5. QED
      BY <3>1, <3>2, <3>3, <3>4 DEF Accounted
  <2>3. QED
    BY <2>2 DEF MInv
<1>2. IInv /\ MInv => MessagesLeaveAttempts
  <2> SUFFICES ASSUME IInv, MInv, NEW s \in Sources
               PROVE  sent[s] <= WaitingFor(s) + InHand(s) + dead[s] + AttemptsOf(s)
    BY DEF MessagesLeaveAttempts
  <2>1. WaitingFor(s) = Waiting(queue, s)
    BY DEF WaitingFor, Waiting
  <2>2. IsFiniteSet({w \in Workers : job[w].source = s})
    BY FS_Subset, IngestAssumption
  <2>3. Held(s) \subseteq {w \in Workers : job[w].source = s}
    BY DEF Held
  <2>4. Cardinality(Held(s)) <= InHand(s) /\ InHand(s) \in Nat
    BY <2>2, <2>3, FS_Subset, FS_CardinalityType DEF InHand
  <2>5. Accounted(s)
    BY DEF MInv
  <2>6. QED
    BY <2>1, <2>4, <2>5, CountsTyped DEF Accounted
<1>3. QED
  BY <1>1, <1>2, NextMInv, Invariant, PTL DEF Spec
=============================================================================
