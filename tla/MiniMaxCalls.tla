---------------------------- MODULE MiniMaxCalls ----------------------------
(***************************************************************************)
(* Evaluations through the MiniMax adapter: evaluate_raw_entry on an entry *)
(* that has passed its prefilter, the adapter's bounded retries of one     *)
(* request, the local schema gate with its deterministic repair, and the   *)
(* model call each evaluation records.                                     *)
(*                                                                         *)
(* The provider is the environment: each post may time out, fail in        *)
(* transport, or return any status and any answer.  Of an answer only the  *)
(* shape of its four fields matters: the gate sees no further than their   *)
(* JSON types, though the schema sent with the request asks for more.      *)
(***************************************************************************)
EXTENDS Integers, Sequences

CONSTANTS
  RetryAttempts,   \* MINIMAX_RETRY_ATTEMPTS
  MaxEvaluations   \* bound: evaluations started

ASSUME MiniMaxAssumption ==
  /\ RetryAttempts \in Nat
  /\ MaxEvaluations \in Nat

VARIABLES
  pc,              \* "idle", "post", "parse", "gate" or "record"
  posts,           \* outcomes of the running evaluation's posts, in order
  answer,          \* the tool output the adapter returned
  result,          \* what the running evaluation will record
  modelCalls,      \* model_calls, in id order, with the posts behind each
  evaluations      \* ai_evaluations: the stored output and its model call

vars == <<pc, posts, answer, result, modelCalls, evaluations>>

Fields == {"scores", "rationale", "evidence", "summary"}

\* A field is absent; of the wrong JSON type; an object (a list, for evidence)
\* that AI_EVALUATION_JSON_SCHEMA forbids, like scores out of range; or one that
\* the schema allows.
Shape == {"absent", "wrong", "loose", "ok"}
Answer == [Fields -> Shape]
NoAnswer == [f \in Fields |-> "absent"]

Transport == {"timeout", "request_error"}
Statuses == {"200", "4xx", "429", "5xx"}

\* is_retryable_minimax_status
Retryable == {"429", "5xx"}

Codes ==
  {"none", "provider_timeout", "provider_request_error", "provider_retry_exhausted",
   "provider_http_error", "schema_error", "adapter_error"}

NoResult == [provider |-> "none", code |-> "none", retries |-> 0]

Init ==
  /\ pc = "idle"
  /\ posts = <<>>
  /\ answer = NoAnswer
  /\ result = NoResult
  /\ modelCalls = <<>>
  /\ evaluations = {}

Start ==
  /\ pc = "idle"
  /\ Len(modelCalls) < MaxEvaluations
  /\ pc' = "post"
  /\ UNCHANGED <<posts, answer, result, modelCalls, evaluations>>

-----------------------------------------------------------------------------
\* post_minimax_messages: posts again while the outcome may be retried and
\* attempts are left.  attempt_index is Len(posts).

\* The evaluation ends in the except clause that catches its error.
Fail(provider, code, retries) ==
  /\ result' = [provider |-> provider, code |-> code, retries |-> retries]
  /\ pc' = "record"

AttemptsLeft == Len(posts) < RetryAttempts

\* Mutant: a timeout is caught as the request error it also is.
AnyRequestError(o) == "provider_request_error"

\* The error that minimax_transport_error makes of a transport failure.
TransportError(o) ==
  IF o = "timeout" THEN "provider_timeout" ELSE "provider_request_error"

PostFails ==
  /\ pc = "post"
  /\ \E o \in Transport :
       /\ posts' = Append(posts, o)
       /\ \/ AttemptsLeft /\ UNCHANGED <<pc, result>>
          \/ ~AttemptsLeft /\ Fail("minimax", TransportError(o), Len(posts))
  /\ UNCHANGED <<answer, modelCalls, evaluations>>

\* The error that minimax_provider_error makes of a status.
StatusError(s) ==
  IF s \in Retryable THEN "provider_retry_exhausted" ELSE "provider_http_error"

\* Mutant: an error status is retried like a busy one, whatever it says.
RetryEveryError ==
  /\ pc = "post"
  /\ \E s \in Statuses :
       /\ posts' = Append(posts, s)
       /\ \/ s # "200" /\ AttemptsLeft /\ UNCHANGED <<pc, result>>
          \/ s # "200" /\ ~AttemptsLeft /\ Fail("minimax", StatusError(s), Len(posts))
          \/ s = "200" /\ pc' = "parse" /\ UNCHANGED result
  /\ UNCHANGED <<answer, modelCalls, evaluations>>

\* Mutant: an exhausted retry starts over.
RetryForever ==
  /\ pc = "post"
  /\ \E s \in Statuses :
       \/ /\ s \in Retryable
          /\ posts' = IF AttemptsLeft THEN Append(posts, s) ELSE <<>>
          /\ UNCHANGED <<pc, result>>
       \/ /\ s \notin Retryable
          /\ posts' = Append(posts, s)
          /\ \/ s = "4xx" /\ Fail("minimax", StatusError(s), Len(posts))
             \/ s = "200" /\ pc' = "parse" /\ UNCHANGED result
  /\ UNCHANGED <<answer, modelCalls, evaluations>>

PostAnswered ==
  /\ pc = "post"
  /\ \E s \in Statuses :
       /\ posts' = Append(posts, s)
       /\ \/ s \in Retryable /\ AttemptsLeft /\ UNCHANGED <<pc, result>>
          \/ s \in Retryable /\ ~AttemptsLeft /\ Fail("minimax", StatusError(s), Len(posts))
          \/ s = "4xx" /\ Fail("minimax", StatusError(s), Len(posts))
          \/ s = "200" /\ pc' = "parse" /\ UNCHANGED result
  /\ UNCHANGED <<answer, modelCalls, evaluations>>

-----------------------------------------------------------------------------
\* parse_minimax_tool_output and the schema gate.

\* No JSON, no tool block or a malformed one is a ValueError; a payload that
\* is no object raises something else.  Neither error knows its provider.
Parse ==
  /\ pc = "parse"
  /\ \/ /\ answer' \in Answer
        /\ pc' = "gate"
        /\ UNCHANGED result
     \/ /\ \E code \in {"schema_error", "adapter_error"} : Fail("adapter", code, 0)
        /\ UNCHANGED answer
  /\ UNCHANGED <<posts, modelCalls, evaluations>>

\* validate_output: all fields are there, with the right JSON type.
Typed(a, f) == a[f] \in {"loose", "ok"}
Valid(a) == \A f \in Fields : Typed(a, f)

\* The bounded repair: absent evidence and summary become empty ones, provided
\* the provider answered with scores and a rationale.
Repaired(a) ==
  [f \in Fields |->
     IF f \in {"evidence", "summary"} /\ a[f] = "absent"
          /\ Typed(a, "scores") /\ Typed(a, "rationale")
     THEN "ok" ELSE a[f]]

\* Mutant: the repaired output is stored without being validated again.
TrustRepair ==
  /\ pc = "gate"
  /\ \/ /\ Valid(answer) \/ Repaired(answer) # answer
        /\ result' = [provider |-> "minimax", code |-> "none", retries |-> Len(posts) - 1]
        /\ pc' = "record"
     \/ /\ ~Valid(answer) /\ Repaired(answer) = answer
        /\ Fail("adapter", "schema_error", 0)
  /\ UNCHANGED <<posts, answer, modelCalls, evaluations>>

Gate ==
  /\ pc = "gate"
  /\ \/ /\ Valid(Repaired(answer))
        /\ result' = [provider |-> "minimax", code |-> "none", retries |-> Len(posts) - 1]
        /\ pc' = "record"
     \/ /\ ~Valid(Repaired(answer))
        /\ Fail("adapter", "schema_error", 0)
  /\ UNCHANGED <<posts, answer, modelCalls, evaluations>>

-----------------------------------------------------------------------------
\* record_model_call, record_evaluation after a success, and the commit.

Record ==
  /\ pc = "record"
  /\ modelCalls' = Append(modelCalls, [result |-> result, posts |-> posts])
  /\ \/ /\ result.code = "none"
        /\ evaluations' = evaluations \cup
             {[call |-> Len(modelCalls) + 1, given |-> answer, stored |-> Repaired(answer)]}
     \/ /\ result.code # "none"
        /\ UNCHANGED evaluations
  /\ pc' = "idle"
  /\ posts' = <<>>
  /\ answer' = NoAnswer
  /\ result' = NoResult

RunStep == PostFails \/ PostAnswered \/ Parse \/ Gate \/ Record

Next == Start \/ RunStep

Spec == Init /\ [][Next]_vars

\* Every post has the client's timeout, so a running evaluation goes on.
FairSpec == Spec /\ WF_vars(RunStep)

-----------------------------------------------------------------------------
\* Properties.

\* The control state, the posts of the running evaluation and the two tables.
TypeOK ==
  /\ pc \in {"idle", "post", "parse", "gate", "record"}
  /\ posts \in Seq(Transport \cup Statuses)
  /\ Len(posts) <= RetryAttempts + 1
  /\ pc = "post" => Len(posts) <= RetryAttempts
  /\ answer \in Answer
  /\ result \in [provider : {"none", "minimax", "adapter"}, code : Codes, retries : 0..RetryAttempts]
  /\ modelCalls \in
       Seq([result : [provider : {"minimax", "adapter"}, code : Codes, retries : 0..RetryAttempts],
            posts : Seq(Transport \cup Statuses)])
  /\ evaluations \subseteq [call : DOMAIN modelCalls, given : Answer, stored : Answer]

\* The outcome o of a post may be retried.
Transient(o) == o \in Transport \cup Retryable

\* The posts p of one evaluation that has stopped posting.
Bounded(p) ==
  /\ Len(p) \in 1..(RetryAttempts + 1)
  /\ \A k \in 1..(Len(p) - 1) : Transient(p[k])
  /\ Transient(p[Len(p)]) => Len(p) = RetryAttempts + 1

\* No post follows a terminal outcome, every evaluation posts at most
\* RetryAttempts + 1 times, and it gives up only when the last outcome may not
\* be retried or no attempt is left (post_minimax_messages).
RetriesAreBounded == \A i \in DOMAIN modelCalls : Bounded(modelCalls[i].posts)

\* The result r is that of the last post of p.
Tells(p, r) ==
  LET last == p[Len(p)]
  IN  /\ last = "timeout" <=> r.code = "provider_timeout"
      /\ last = "request_error" <=> r.code = "provider_request_error"
      /\ last \in Retryable <=> r.code = "provider_retry_exhausted"
      /\ last = "4xx" <=> r.code = "provider_http_error"
      /\ r.provider = "minimax" => r.retries = Len(p) - 1

\* The error code and retry count recorded for a call are those of its own
\* last post, after any mixture of earlier outcomes (evaluate_raw_entry's
\* except clauses).
CallsTellTheirOutcome ==
  \A i \in DOMAIN modelCalls : Tells(modelCalls[i].posts, modelCalls[i].result)

\* What enters ai_evaluations answers the last post of its own, successful
\* call, and the gate has supplied nothing but absent evidence and an absent
\* summary: no field of the wrong type is passed or papered over.  That is all
\* the gate sees to; what the schema forbids within a field is stored as it
\* came (validate_or_repair_output, validate_output).
StoredOutputPassedGate ==
  \A v \in evaluations :
    LET call == modelCalls[v.call]
    IN  /\ call.result.code = "none" /\ call.posts[Len(call.posts)] = "200"
        /\ \A f \in Fields :
             \/ Typed(v.given, f) /\ v.stored[f] = v.given[f]
             \/ v.given[f] = "absent" /\ f \in {"evidence", "summary"} /\ v.stored[f] = "ok"

\* Every evaluation ends with its one model call, however the provider behaves.
EvaluationsSettle == \A n \in 0..(MaxEvaluations - 1) :
  (pc # "idle" /\ Len(modelCalls) = n) ~> (pc = "idle" /\ Len(modelCalls) = n + 1)
=============================================================================
