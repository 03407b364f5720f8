------------------------------- MODULE MCDigest -------------------------------
(***************************************************************************)
(* DigestEditions for TLC.  Four visible entries and one that may arrive:  *)
(* a source with the newest ones, another source of its board, and one of  *)
(* another board, which also has a blocked entry.  At first no entry has   *)
(* feedback, or two of the ai board have.  The limit per source and those  *)
(* on candidates are scaled down with the entries, so that they cut.       *)
(*                                                                         *)
(* Entries 3 and 4 are duplicates; 4 represents them, but 3 has the better *)
(* signal from 1.  The arriving entry is a duplicate of 1.  A search finds *)
(* 2 and 3, 4 by a part of a word, and 1 once it has its first summary.    *)
(***************************************************************************)
EXTENDS DigestEditions, TLC

CONSTANTS h1, h2

HandlerSymmetry == Permutations(Handlers)

\* A reader who turns pages, a page that is rendered and the generations share
\* the entries only: a behaviour has one of the three.
OneActivity ==
  LET walks     == walk.visit # None
      opens     == opened.item # None
      generates == used.requests > 0
  IN  /\ ~(walks /\ opens)
      /\ ~(walks /\ generates)
      /\ ~(opens /\ generates)

MCSourceOf == 1 :> "wide" @@ 2 :> "wide" @@ 3 :> "narrow" @@ 4 :> "web" @@ 5 :> "wide" @@ 6 :> "web"
MCBoardOf == "wide" :> "ai" @@ "narrow" :> "ai" @@ "web" :> "software"
MCPublishedAt == 1 :> 2 @@ 2 :> 2 @@ 3 :> 1 @@ 4 :> 0 @@ 5 :> 1 @@ 6 :> 3
MCRights ==
  1 :> "unknown" @@ 2 :> "public_excerpt_allowed" @@ 3 :> "public_fulltext_allowed"
  @@ 4 :> "metadata_only" @@ 5 :> "unknown" @@ 6 :> "blocked"
MCFeedbacks ==
  {<<>>,
   <<[entry |-> 2, type |-> "duplicate", status |-> "reviewed"],
     [entry |-> 3, type |-> "duplicate", status |-> "open"]>>}

Silent == [words |-> {}, parts |-> {}]
Whole == [words |-> {"llm"}, parts |-> {}]
Inside == [words |-> {}, parts |-> {"llm"}]
MCEntryText == 1 :> Silent @@ 2 :> Whole @@ 3 :> Whole @@ 4 :> Inside @@ 5 :> Whole @@ 6 :> Whole
MCSummaryTexts == [e \in Entries |-> IF e = 1 THEN <<Whole>> ELSE <<Whole, Silent>>]
MCFirstSummaries == [e \in Entries |-> IF e = 2 THEN 1 ELSE 0]
MCVisits ==
  {[kind |-> "list", board |-> "any"],
   [kind |-> "search", board |-> "any", query |-> "llm"],
   [kind |-> "search", board |-> "any", query |-> "  "]}

MCGroupOf == [e \in Entries |-> CASE e \in {3, 4} -> 7 [] e \in {1, 5} -> 8 [] OTHER -> None]
MCRepresentative == 7 :> 4 @@ 8 :> None
MCSignal ==
  [pair \in Entries \X Entries |->
     CASE pair = <<1, 3>> -> 9 [] pair = <<1, 4>> -> 0 [] pair = <<3, 2>> -> 5 [] OTHER -> NoSignal]
MCTrigram == [pair \in Entries \X Entries |-> CASE pair \in {<<2, 4>>, <<4, 2>>} -> 40 [] OTHER -> 10]
MCTextRank == [pair \in Entries \X Entries |-> IF pair = <<4, 1>> THEN 1 ELSE 0]
=============================================================================
