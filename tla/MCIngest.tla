------------------------------ MODULE MCIngest ------------------------------
(***************************************************************************)
(* Instances of Ingest for TLC.  Three items exercise every kind of        *)
(* collision: moved and twin are one entry (same external id) whose link   *)
(* changed, twin and other are one page under two external ids, moved and  *)
(* other have nothing in common; bare has no link.                         *)
(***************************************************************************)
EXTENDS Ingest, TLC

CONSTANTS s1, s2, w1, w2, h1, moved, twin, other, bare

MCItems == {moved, twin, other, bare}
MCLinkless == {bare}
MCHashOf ==
  (moved :> "hash1") @@ (twin :> "hash2") @@ (other :> "hash2") @@ (bare :> "none")
MCExternalIdOf ==
  (moved :> "id1") @@ (twin :> "id1") @@ (other :> "id2") @@ (bare :> "none")

\* Two feeds in opposite orders deadlock; the third, a repeated item, collides
\* with either item of theirs; the last begins with an item that has no link.
MCFeeds == {<<moved, other>>, <<other, moved>>, <<twin, twin>>, <<bare, moved>>}

Rss == [type |-> "rss", enabled |-> TRUE, crawl |-> TRUE, rights |-> "metadata_only"]
GitHub == [Rss EXCEPT !.type = "github"]
Arxiv == [Rss EXCEPT !.type = "arxiv"]

AllRss == {[s \in Sources |-> Rss]}
\* What an administrator may turn a source into while runs are under way.
\* Only a source that may not be crawled has blocked rights.
EditedConfigs ==
  {Rss, [Rss EXCEPT !.enabled = FALSE, !.rights = "blocked"],
   [GitHub EXCEPT !.crawl = FALSE, !.rights = "blocked"], GitHub, Arxiv}

\* Two checks in one: two workers ingest both sources, and something breaks;
\* or one request ingests a source whose configuration changes meanwhile.
MCSpent ==
  {[rounds |-> 0, posts |-> MaxPosts, patches |-> MaxPatches, faults |-> 0],
   [rounds |-> MaxRounds, posts |-> 0, patches |-> 0, faults |-> MaxFaults]}
=============================================================================
