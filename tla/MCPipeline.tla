----------------------------- MODULE MCPipeline -----------------------------
(***************************************************************************)
(* Instances of ContentPipeline for TLC.  Entry open has no rights of its  *)
(* own against it; barred was ingested under blocked rights, though its    *)
(* source's policy now allows its text; bookmark is of a source that only  *)
(* ever stores metadata.                                                   *)
(***************************************************************************)
EXTENDS ContentPipeline, TLC

CONSTANTS open, barred, bookmark, r1, r2

MCRightsOf ==
  (open :> "unknown") @@ (barred :> "blocked") @@ (bookmark :> "metadata_only")

Allowed ==
  [crawl |-> TRUE, fullText |-> TRUE, rights |-> "private_allowed", translate |-> TRUE]
Blocked == [Allowed EXCEPT !.rights = "blocked", !.translate = FALSE]
MetadataOnly == [Allowed EXCEPT !.fullText = FALSE]

MCPoliciesOf ==
  (open :> {Allowed, Blocked}) @@ (barred :> {Allowed}) @@ (bookmark :> {MetadataOnly})

\* A run that is refused changes nothing another reads: one of them is enough.
OneRefusal ==
  Cardinality({a \in attempts \cup modelCalls : a.status = "skipped"}) <= 1

RunnerSymmetry == Permutations(Runners)
=============================================================================
