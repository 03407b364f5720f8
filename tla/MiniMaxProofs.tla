---------------------------- MODULE MiniMaxProofs ----------------------------
(***************************************************************************)
(* Proofs about MiniMaxCalls, for any number of retries and evaluations.   *)
(*                                                                         *)
(* The rows of model_calls say something of posts that are gone, so the    *)
(* inductive invariant adds what the evaluation that is still running has  *)
(* posted (Running) and what its result will say of it (Outcome).          *)
(***************************************************************************)
EXTENDS MiniMaxCalls, TLAPS

Posts == Seq(Transport \cup Statuses)

\* What the running evaluation has posted, by where it is.
Running ==
  /\ pc = "idle" => posts = <<>>
  /\ pc = "post" => \A k \in 1..Len(posts) : Transient(posts[k])
  /\ pc \in {"parse", "gate"} => Bounded(posts) /\ posts[Len(posts)] = "200"

\* What it will record.
Outcome ==
  pc = "record" =>
    /\ Bounded(posts)
    /\ Tells(posts, result)
    /\ result.provider # "none"
    /\ result.code = "none" => Valid(Repaired(answer)) /\ posts[Len(posts)] = "200"

\* What the gate has done to an answer it lets through.
Gated(given, stored) ==
  \A f \in Fields :
    \/ Typed(given, f) /\ stored[f] = given[f]
    \/ given[f] = "absent" /\ f \in {"evidence", "summary"} /\ stored[f] = "ok"

IInv == TypeOK /\ Running /\ Outcome /\ RetriesAreBounded /\ CallsTellTheirOutcome
          /\ StoredOutputPassedGate

LEMMA InitIInv == Init => IInv
<1> SUFFICES ASSUME Init PROVE IInv
    OBVIOUS
<1> USE MiniMaxAssumption DEF Init
<1>1. TypeOK
      BY DEF TypeOK, Answer, NoAnswer, Shape, NoResult, Codes
<1> QED
    BY <1>1 DEF IInv, Running, Outcome, RetriesAreBounded, CallsTellTheirOutcome,
                StoredOutputPassedGate

\* A step that leaves the tables alone leaves what is said of them alone.
LEMMA TablesAlone ==
  ASSUME IInv, UNCHANGED <<modelCalls, evaluations>>
  PROVE  (RetriesAreBounded /\ CallsTellTheirOutcome /\ StoredOutputPassedGate)'
BY DEF IInv, RetriesAreBounded, CallsTellTheirOutcome, StoredOutputPassedGate, Bounded, Tells,
       Typed, Transient

LEMMA Starts ==
  ASSUME IInv, Start
  PROVE  IInv'
<1>1. TypeOK'
      BY MiniMaxAssumption DEF IInv, TypeOK, Start, Running
<1>2. Running' /\ Outcome'
      BY DEF IInv, TypeOK, Start, Running, Outcome
<1> QED
    BY <1>1, <1>2, TablesAlone DEF IInv, Start

\* One more post: it ends the posting, or may be retried while attempts remain.
LEMMA OneMorePost ==
  ASSUME IInv, pc = "post", NEW o \in Transport \cup Statuses, posts' = Append(posts, o)
  PROVE  /\ posts' \in Posts
         /\ Len(posts') = Len(posts) + 1
         /\ Len(posts) \in 0..RetryAttempts
         /\ posts'[Len(posts')] = o
         /\ \A k \in 1..Len(posts) : Transient(posts'[k])
         /\ ~Transient(o) \/ ~AttemptsLeft => Bounded(posts')
<1> USE MiniMaxAssumption
<1>1. posts \in Posts /\ Len(posts) \in 0..RetryAttempts
      BY DEF IInv, TypeOK, Posts
<1>2. \A k \in 1..Len(posts) : Transient(posts[k])
      BY DEF IInv, Running
<1>3. /\ posts' \in Posts
      /\ Len(posts') = Len(posts) + 1
      /\ posts'[Len(posts')] = o
      /\ \A k \in 1..Len(posts) : posts'[k] = posts[k]
      BY <1>1 DEF Posts
<1>4. \A k \in 1..Len(posts) : Transient(posts'[k])
      BY <1>2, <1>3
<1>5. ~AttemptsLeft => Len(posts') = RetryAttempts + 1
      BY <1>1, <1>3 DEF AttemptsLeft
<1>6. ~Transient(o) \/ ~AttemptsLeft => Bounded(posts')
      BY <1>1, <1>3, <1>4, <1>5 DEF Bounded
<1> QED
    BY <1>1, <1>3, <1>4, <1>6

\* A post after which the evaluation goes on posting.
LEMMA PostsAgain ==
  ASSUME IInv, pc = "post", NEW o \in Transport \cup Retryable,
         posts' = Append(posts, o), AttemptsLeft,
         UNCHANGED <<pc, answer, result, modelCalls, evaluations>>
  PROVE  IInv'
<1> USE MiniMaxAssumption
<1>1. o \in Transport \cup Statuses /\ Transient(o)
      BY DEF Retryable, Statuses, Transient
<1>2. /\ posts' \in Posts
      /\ Len(posts') = Len(posts) + 1
      /\ Len(posts) \in 0..RetryAttempts
      /\ posts'[Len(posts')] = o
      /\ \A k \in 1..Len(posts) : Transient(posts'[k])
      BY <1>1, OneMorePost
<1>3. TypeOK'
      BY <1>2 DEF IInv, TypeOK, AttemptsLeft, Posts
<1>4. \A k \in 1..Len(posts') : Transient(posts'[k])
      <2> SUFFICES ASSUME NEW k \in 1..Len(posts') PROVE Transient(posts'[k])
          OBVIOUS
      <2>1. k \in 1..Len(posts) \/ k = Len(posts')
            BY <1>2
      <2> QED
          BY <1>1, <1>2, <2>1
<1>5. Running' /\ Outcome'
      BY <1>4 DEF Running, Outcome
<1> QED
    BY <1>3, <1>5, TablesAlone DEF IInv

\* A post after which the evaluation gives up.
LEMMA GivesUp ==
  ASSUME IInv, pc = "post", NEW o \in Transport \cup Statuses, NEW code \in Codes,
         posts' = Append(posts, o), Fail("minimax", code, Len(posts)),
         ~Transient(o) \/ ~AttemptsLeft,
         o = "timeout" <=> code = "provider_timeout",
         o = "request_error" <=> code = "provider_request_error",
         o \in Retryable <=> code = "provider_retry_exhausted",
         o = "4xx" <=> code = "provider_http_error",
         code # "none",
         UNCHANGED <<answer, modelCalls, evaluations>>
  PROVE  IInv'
<1> USE MiniMaxAssumption
<1>1. /\ posts' \in Posts
      /\ Len(posts') = Len(posts) + 1
      /\ Len(posts) \in 0..RetryAttempts
      /\ posts'[Len(posts')] = o
      /\ Bounded(posts')
      BY OneMorePost
<1>2. TypeOK'
      BY <1>1 DEF IInv, TypeOK, Fail, Posts
<1>3. Running'
      BY DEF Running, Fail
<1>4. Tells(posts', result')
      BY <1>1 DEF Tells, Fail
<1>5. Outcome'
      BY <1>1, <1>4 DEF Outcome, Fail
<1> QED
    BY <1>2, <1>3, <1>5, TablesAlone DEF IInv

LEMMA PostsFail ==
  ASSUME IInv, PostFails
  PROVE  IInv'
<1>1. PICK o \in Transport :
        /\ posts' = Append(posts, o)
        /\ \/ AttemptsLeft /\ UNCHANGED <<pc, result>>
           \/ ~AttemptsLeft /\ Fail("minimax", TransportError(o), Len(posts))
      BY DEF PostFails
<1>2. pc = "post" /\ UNCHANGED <<answer, modelCalls, evaluations>>
      BY DEF PostFails
<1>3. CASE AttemptsLeft /\ UNCHANGED <<pc, result>>
      BY <1>1, <1>2, <1>3, PostsAgain
<1>4. CASE ~AttemptsLeft /\ Fail("minimax", TransportError(o), Len(posts))
      <2>1. /\ TransportError(o) \in Codes
            /\ TransportError(o) # "none"
            /\ o = "timeout" <=> TransportError(o) = "provider_timeout"
            /\ o = "request_error" <=> TransportError(o) = "provider_request_error"
            /\ o \in Retryable <=> TransportError(o) = "provider_retry_exhausted"
            /\ o = "4xx" <=> TransportError(o) = "provider_http_error"
            BY DEF Transport, TransportError, Codes, Retryable
      <2> QED
          BY <1>1, <1>2, <1>4, <2>1, GivesUp
<1> QED
    BY <1>1, <1>3, <1>4

\* An answered post ends the posting.
LEMMA PostsArrive ==
  ASSUME IInv, pc = "post", posts' = Append(posts, "200"), pc' = "parse",
         UNCHANGED <<answer, result, modelCalls, evaluations>>
  PROVE  IInv'
<1> USE MiniMaxAssumption
<1>1. "200" \in Transport \cup Statuses /\ ~Transient("200")
      BY DEF Statuses, Transient, Transport, Retryable
<1>2. /\ posts' \in Posts
      /\ Len(posts') = Len(posts) + 1
      /\ Len(posts) \in 0..RetryAttempts
      /\ posts'[Len(posts')] = "200"
      /\ Bounded(posts')
      BY <1>1, OneMorePost
<1>3. TypeOK'
      BY <1>2 DEF IInv, TypeOK, Posts
<1>4. Running' /\ Outcome'
      BY <1>2 DEF Running, Outcome
<1> QED
    BY <1>3, <1>4, TablesAlone DEF IInv

LEMMA PostsAnswered ==
  ASSUME IInv, PostAnswered
  PROVE  IInv'
<1>1. PICK s \in Statuses :
        /\ posts' = Append(posts, s)
        /\ \/ s \in Retryable /\ AttemptsLeft /\ UNCHANGED <<pc, result>>
           \/ s \in Retryable /\ ~AttemptsLeft /\ Fail("minimax", StatusError(s), Len(posts))
           \/ s = "4xx" /\ Fail("minimax", StatusError(s), Len(posts))
           \/ s = "200" /\ pc' = "parse" /\ UNCHANGED result
      BY DEF PostAnswered
<1>2. pc = "post" /\ UNCHANGED <<answer, modelCalls, evaluations>>
      BY DEF PostAnswered
<1>3. CASE s \in Retryable /\ AttemptsLeft /\ UNCHANGED <<pc, result>>
      BY <1>1, <1>2, <1>3, PostsAgain
<1>4. CASE /\ (s \in Retryable /\ ~AttemptsLeft) \/ s = "4xx"
           /\ Fail("minimax", StatusError(s), Len(posts))
      <2>1. /\ StatusError(s) \in Codes
            /\ StatusError(s) # "none"
            /\ s = "timeout" <=> StatusError(s) = "provider_timeout"
            /\ s = "request_error" <=> StatusError(s) = "provider_request_error"
            /\ s \in Retryable <=> StatusError(s) = "provider_retry_exhausted"
            /\ s = "4xx" <=> StatusError(s) = "provider_http_error"
            BY <1>4 DEF Statuses, StatusError, Codes, Retryable
      <2>2. ~Transient(s) \/ ~AttemptsLeft
            BY <1>4 DEF Transient, Transport, Retryable
      <2> QED
          BY <1>1, <1>2, <1>4, <2>1, <2>2, GivesUp
<1>5. CASE s = "200" /\ pc' = "parse" /\ UNCHANGED result
      BY <1>1, <1>2, <1>5, PostsArrive
<1> QED
    BY <1>1, <1>3, <1>4, <1>5

\* Once the posting is over the posts stay as they are, and a result that
\* blames no post is right about a last post that was answered.
LEMMA AnsweredPosts ==
  ASSUME IInv, pc \in {"parse", "gate"}
  PROVE  /\ posts \in Posts
         /\ Bounded(posts)
         /\ posts[Len(posts)] = "200"
         /\ \A code \in {"none", "schema_error", "adapter_error"},
              provider \in {"minimax", "adapter"}, retries \in 0..RetryAttempts :
              (provider = "minimax" => retries = Len(posts) - 1) =>
                Tells(posts, [provider |-> provider, code |-> code, retries |-> retries])
BY DEF IInv, TypeOK, Running, Posts, Tells, Retryable

LEMMA AnswersTyped ==
  ASSUME NEW a \in Answer
  PROVE  Repaired(a) \in Answer
BY DEF Repaired, Answer, Shape

LEMMA Parses ==
  ASSUME IInv, Parse
  PROVE  IInv'
<1> USE MiniMaxAssumption
<1>1. /\ pc = "parse"
      /\ UNCHANGED <<posts, modelCalls, evaluations>>
      BY DEF Parse
<1>2. CASE answer' \in Answer /\ pc' = "gate" /\ UNCHANGED result
      <2>1. TypeOK'
            BY <1>1, <1>2 DEF IInv, TypeOK
      <2>2. Running' /\ Outcome'
            BY <1>1, <1>2 DEF IInv, Running, Outcome, Bounded, Transient
      <2> QED
          BY <1>1, <2>1, <2>2, TablesAlone DEF IInv
<1>3. ASSUME NEW code \in {"schema_error", "adapter_error"}, Fail("adapter", code, 0),
             UNCHANGED answer
      PROVE  IInv'
      <2>1. result' = [provider |-> "adapter", code |-> code, retries |-> 0] /\ pc' = "record"
            BY <1>3 DEF Fail
      <2>2. code \in Codes
            BY DEF Codes
      <2>3. TypeOK'
            BY <1>1, <1>3, <2>1, <2>2 DEF IInv, TypeOK
      <2>4. Bounded(posts) /\ Tells(posts, result')
            BY <1>1, <2>1, AnsweredPosts
      <2>5. Running' /\ Outcome'
            BY <1>1, <2>1, <2>4 DEF Running, Outcome
      <2> QED
          BY <1>1, <2>3, <2>5, TablesAlone DEF IInv
<1> QED
    BY <1>2, <1>3 DEF Parse

LEMMA GatePasses ==
  ASSUME IInv, Gate
  PROVE  IInv'
<1> USE MiniMaxAssumption
<1>1. /\ pc = "gate"
      /\ pc' = "record"
      /\ UNCHANGED <<posts, answer, modelCalls, evaluations>>
      BY DEF Gate, Fail
<1>2. Len(posts) - 1 \in 0..RetryAttempts
      BY <1>1, AnsweredPosts DEF Bounded
<1>3. \/ /\ Valid(Repaired(answer))
         /\ result' = [provider |-> "minimax", code |-> "none", retries |-> Len(posts) - 1]
      \/ result' = [provider |-> "adapter", code |-> "schema_error", retries |-> 0]
      BY DEF Gate, Fail
<1>4. TypeOK'
      BY <1>1, <1>2, <1>3 DEF IInv, TypeOK, Codes
<1>5. Bounded(posts) /\ Tells(posts, result')
      BY <1>1, <1>2, <1>3, AnsweredPosts
<1>6. /\ result'.provider # "none"
      /\ result'.code = "none" => Valid(Repaired(answer)) /\ posts[Len(posts)] = "200"
      BY <1>1, <1>3, AnsweredPosts
<1>7. Running' /\ Outcome'
      BY <1>1, <1>5, <1>6 DEF Running, Outcome
<1> QED
    BY <1>1, <1>4, <1>7, TablesAlone DEF IInv

\* What the gate lets through after its repair was there, or absent where an
\* empty value will do.
LEMMA RepairIsBounded ==
  ASSUME NEW a \in Answer, Valid(Repaired(a))
  PROVE  Gated(a, Repaired(a))
BY DEF Valid, Typed, Repaired, Gated

LEMMA Records ==
  ASSUME IInv, Record
  PROVE  IInv'
<1> USE MiniMaxAssumption
<1> DEFINE row == [result |-> result, posts |-> posts]
           rowId == Len(modelCalls) + 1
           kept == [call |-> rowId, given |-> answer, stored |-> Repaired(answer)]
           Row == [result : [provider : {"minimax", "adapter"}, code : Codes,
                             retries : 0..RetryAttempts],
                   posts : Posts]
<1>1. /\ pc = "record"
      /\ modelCalls' = Append(modelCalls, row)
      /\ pc' = "idle"
      /\ posts' = <<>>
      /\ answer' = NoAnswer
      /\ result' = NoResult
      BY DEF Record
<1>2. \/ result.code = "none" /\ evaluations' = evaluations \cup {kept}
      \/ evaluations' = evaluations
      BY DEF Record
<1>3. modelCalls \in Seq(Row) /\ row \in Row
      BY <1>1 DEF IInv, TypeOK, Outcome, Posts
<1>4. /\ modelCalls' \in Seq(Row)
      /\ DOMAIN modelCalls' = DOMAIN modelCalls \cup {rowId}
      /\ \A i \in DOMAIN modelCalls : modelCalls'[i] = modelCalls[i]
      /\ modelCalls'[rowId] = row
      BY <1>1, <1>3
<1>5. kept \in [call : DOMAIN modelCalls', given : Answer, stored : Answer]
      BY <1>4, AnswersTyped DEF IInv, TypeOK
<1>6. evaluations' \subseteq [call : DOMAIN modelCalls', given : Answer, stored : Answer]
      BY <1>2, <1>4, <1>5 DEF IInv, TypeOK
<1>7. TypeOK'
      BY <1>1, <1>4, <1>6 DEF TypeOK, Posts, Answer, NoAnswer, Shape, NoResult, Codes
<1>8. Running' /\ Outcome'
      BY <1>1 DEF Running, Outcome
<1>9. Bounded(row.posts) /\ Tells(row.posts, row.result)
      BY <1>1 DEF IInv, Outcome
<1>10. RetriesAreBounded' /\ CallsTellTheirOutcome'
       BY <1>4, <1>9 DEF IInv, RetriesAreBounded, CallsTellTheirOutcome
<1>11. ASSUME NEW v \in evaluations, v.call \in DOMAIN modelCalls
       PROVE  modelCalls'[v.call] = modelCalls[v.call]
       BY <1>4, <1>11
<1>12. StoredOutputPassedGate'
       <2> SUFFICES ASSUME NEW v \in evaluations'
                    PROVE  /\ modelCalls'[v.call].result.code = "none"
                           /\ modelCalls'[v.call].posts[Len(modelCalls'[v.call].posts)] = "200"
                           /\ Gated(v.given, v.stored)
           BY DEF StoredOutputPassedGate, Gated
       <2>1. CASE v \in evaluations
             <3>1. /\ modelCalls[v.call].result.code = "none"
                   /\ modelCalls[v.call].posts[Len(modelCalls[v.call].posts)] = "200"
                   /\ Gated(v.given, v.stored)
                   BY <2>1 DEF IInv, StoredOutputPassedGate, Gated
             <3>2. modelCalls'[v.call] = modelCalls[v.call]
                   BY <1>11, <2>1 DEF IInv, TypeOK
             <3> QED
                 BY <3>1, <3>2
       <2>2. CASE result.code = "none" /\ v = kept
             <3>1. /\ Valid(Repaired(answer)) /\ answer \in Answer
                   /\ posts[Len(posts)] = "200"
                   BY <1>1, <2>2 DEF IInv, TypeOK, Outcome
             <3>2. Gated(v.given, v.stored)
                   BY <2>2, <3>1, RepairIsBounded
             <3> QED
                 BY <1>4, <2>2, <3>1, <3>2
       <2> QED
           BY <1>2, <2>1, <2>2
<1> QED
    BY <1>7, <1>8, <1>10, <1>12 DEF IInv

LEMMA StepsKeepIInv == IInv /\ [Next]_vars => IInv'
<1> SUFFICES ASSUME IInv, [Next]_vars PROVE IInv'
    OBVIOUS
<1>1. CASE Start
      BY <1>1, Starts
<1>2. CASE RunStep
      BY <1>2, PostsFail, PostsAnswered, Parses, GatePasses, Records DEF RunStep
<1>3. CASE UNCHANGED vars
      <2>1. UNCHANGED <<pc, posts, answer, result, modelCalls, evaluations>>
            BY <1>3 DEF vars
      <2>2. TypeOK' /\ Running' /\ Outcome'
            BY <2>1 DEF IInv, TypeOK, Running, Outcome, Bounded, Tells, Transient, Valid,
                        Typed, Repaired
      <2> QED
          BY <2>1, <2>2, TablesAlone DEF IInv
<1> QED
    BY <1>1, <1>2, <1>3 DEF Next

LEMMA Invariance == Spec => []IInv
BY InitIInv, StepsKeepIInv, PTL DEF Spec

\* For every retry limit, the running evaluation and the two tables keep their
\* types.
THEOREM MiniMaxTypes == Spec => []TypeOK
<1>1. IInv => TypeOK
      BY DEF IInv
<1> QED
    BY <1>1, Invariance, PTL

\* For every retry limit, an evaluation's posts are bounded by it and none
\* follows a terminal outcome (post_minimax_messages).
THEOREM Retries == Spec => []RetriesAreBounded
<1>1. IInv => RetriesAreBounded
      BY DEF IInv
<1> QED
    BY <1>1, Invariance, PTL

\* The recorded code and retry count are those of the call's own last post
\* (evaluate_raw_entry's except clauses).
THEOREM Outcomes == Spec => []CallsTellTheirOutcome
<1>1. IInv => CallsTellTheirOutcome
      BY DEF IInv
<1> QED
    BY <1>1, Invariance, PTL

\* What is stored answers the last post of its successful call, and the gate has
\* supplied only an absent evidence and summary (validate_or_repair_output).
THEOREM StoredOutput == Spec => []StoredOutputPassedGate
<1>1. IInv => StoredOutputPassedGate
      BY DEF IInv
<1> QED
    BY <1>1, Invariance, PTL
=============================================================================
