---------------------------- MODULE IngestLedger ----------------------------
(***************************************************************************)
(* What source ingest promises, with no transactions, workers or queues in *)
(* sight: one ingest of a source is one atomic step that adds to the table *)
(* exactly the entries of the fetched feed the table did not hold yet, and *)
(* adds the one attempt row that accounts for them.  A run that fails or   *)
(* is skipped adds its attempt and no entry.                               *)
(***************************************************************************)
EXTENDS RawEntries

VARIABLES
  rawEntries,      \* committed rows of raw_entries
  attempts         \* committed rows of source_ingest_attempts, in id order

ledgerVars == <<rawEntries, attempts>>

Init ==
  /\ rawEntries = {}
  /\ attempts = <<>>

\* new is what a feed adds to the table: nothing that collides with a stored
\* entry or with another new one, and no linked item left unrepresented.
Adds(s, feed, rights, new) ==
  /\ new \subseteq {RawEntry(s, i, rights) : i \in LinkedItems(feed)}
  /\ Unique(new)
  /\ \A x \in new : ~CollidesWithin(x, rawEntries)
  /\ \A i \in LinkedItems(feed) :
       CollidesWithin(RawEntry(s, i, rights), rawEntries \cup new)

Ingested(s) ==
  \E feed \in Feeds, rights \in RightsPolicies :
    \E new \in SUBSET {RawEntry(s, i, rights) : i \in LinkedItems(feed)} :
      /\ Adds(s, feed, rights, new)
      /\ rawEntries' = rawEntries \cup new
      /\ attempts' = Append(attempts,
           [source |-> s, status |-> "success", failure |-> "none",
            seen |-> Len(feed), inserted |-> Cardinality(new)])

NotIngested(s) ==
  \E status \in {"failure", "skipped"}, failure \in FailureTypes \ {"none"} :
    /\ attempts' = Append(attempts,
         [source |-> s, status |-> status, failure |-> failure,
          seen |-> 0, inserted |-> 0])
    /\ UNCHANGED rawEntries

Next == \E s \in Sources : Ingested(s) \/ NotIngested(s)

Spec == Init /\ [][Next]_ledgerVars
=============================================================================
