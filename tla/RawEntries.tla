----------------------------- MODULE RawEntries -----------------------------
(***************************************************************************)
(* The rows of the raw_entries table and the two uniqueness constraints    *)
(* that every ingest adapter relies on.                                    *)
(*                                                                         *)
(* A feed item is opaque: all that ingest tells apart is the canonical     *)
(* hash of its normalised link, the external id it carries, and whether it *)
(* has a link at all.  Two items with the same hash are one page reached   *)
(* by two spellings of its link (fragments are dropped, blanks stripped);  *)
(* two items with the same external id are one entry whose link changed.   *)
(***************************************************************************)
EXTENDS Integers, Sequences, FiniteSets

CONSTANTS
  Sources,         \* registered sources
  Items,           \* the feed items the outside world may serve
  Linkless,        \* the items without a link, which RSS ingest passes over
  Feeds,           \* what one fetch may return: finite sequences of items
  HashOf,          \* canonical hash of an item's normalised link
  ExternalIdOf,    \* an item's own id, its normalised link when it has none
  RightsPolicies   \* values of source_policies.rights_policy

ASSUME RawEntriesAssumption ==
  /\ Linkless \subseteq Items
  /\ Feeds \subseteq Seq(Items)
  /\ DOMAIN HashOf = Items
  /\ DOMAIN ExternalIdOf = Items

\* The row that insert_raw_entry offers for item i of source s: the rights
\* status of the entry is the rights policy that the run read.
RawEntry(s, i, rights) ==
  [source     |-> s,
   externalId |-> ExternalIdOf[i],
   hash       |-> HashOf[i],
   rights     |-> rights]

RawEntrySet ==
  {RawEntry(s, i, rights) : s \in Sources, i \in Items, rights \in RightsPolicies}

\* unique (canonical_hash) and unique (source_id, external_id).
Collide(x, y) ==
  \/ x.hash = y.hash
  \/ x.source = y.source /\ x.externalId = y.externalId

CollidesWithin(x, rows) == \E y \in rows : Collide(x, y)

\* No two distinct rows of a table collide.
Unique(rows) == \A x, y \in rows : Collide(x, y) => x = y

\* The items of a feed that ingest tries to store.
LinkedItems(feed) == {feed[k] : k \in DOMAIN feed} \ Linkless

FailureTypes == {"none", "policy", "network", "parse", "rate_limit"}

\* A row of source_ingest_attempts.
Attempt ==
  [source   : Sources,
   status   : {"success", "failure", "skipped"},
   failure  : FailureTypes,
   seen     : Nat,
   inserted : Nat]
=============================================================================
