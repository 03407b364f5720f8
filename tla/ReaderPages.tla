----------------------------- MODULE ReaderPages -----------------------------
(***************************************************************************)
(* The page of one entry: the server reads the entry's detail, then the    *)
(* entries related to it.  These are two requests to the API, and things   *)
(* change between them.                                                    *)
(*                                                                         *)
(* Duplicate groups and similarity signals are rows that operators write   *)
(* (docs/ops/postgres-similarity-dedup.md); here they are constants.       *)
(***************************************************************************)
EXTENDS ReaderItems

CONSTANTS
  Groups,          \* duplicate groups
  GroupOf,         \* duplicate_group_id of each entry, or None
  Representative,  \* representative_raw_entry_id of each group, or None
  NoSignal,
  Signal,          \* highest score of the similarity signals from one entry to another, or NoSignal
  Trigram,         \* similarity(...) of two titles, in percent
  TextRank,        \* ts_rank_cd of the second for the text of the first, 0 where it does not match
  RelatedLimit

ASSUME PagesAssumption ==
  /\ None \notin Entries \cup Groups
  /\ GroupOf \in [Entries -> Groups \cup {None}]
  /\ Representative \in [Groups -> Entries \cup {None}]
  /\ NoSignal \notin Nat
  /\ Signal \in [Entries \X Entries -> Nat \cup {NoSignal}]
  /\ {Trigram, TextRank} \subseteq [Entries \X Entries -> Nat]
  /\ RelatedLimit \in Nat \ {0}

VARIABLE
  opened           \* the page being rendered: the entry and what is related

pageVars == <<readerVars, opened>>

TrigramThreshold == 35

Closed == [item |-> None, related |-> None]

PagesInit == ReaderInit /\ opened = Closed

-----------------------------------------------------------------------------
\* The detail.

DetailFound(e) ==
  /\ e \in stored
  /\ SourceOf[e] \in enabled
  /\ e \notin hidden
  /\ RightsOf[e] # "blocked"

-----------------------------------------------------------------------------
\* What is related.

\* Mutant of RelatedTarget: only the entry's row is looked for.
RelatedTargetStored(t) == t \in stored

RelatedTarget(t) == t \in stored /\ SourceOf[t] \in enabled /\ t \notin hidden /\ RightsOf[t] # "blocked"

SameSource(t, e) == SourceOf[t] = SourceOf[e]
SameBoard(t, e) == BoardOf[SourceOf[t]] = BoardOf[SourceOf[e]]

\* One of the five reasons for an entry to be a candidate.
Relates(t, e) ==
  \/ SameSource(t, e)
  \/ SameBoard(t, e)
  \/ TextRank[<<t, e>>] > 0
  \/ Signal[<<t, e>>] # NoSignal
  \/ Trigram[<<t, e>>] >= TrigramThreshold

RelatedCandidates(t) ==
  {e \in stored \ {t} :
     /\ SourceOf[e] \in enabled
     /\ e \notin hidden
     /\ RightsOf[e] # "blocked"
     /\ GroupOf[t] = None \/ GroupOf[e] # GroupOf[t]
     /\ Relates(t, e)}

\* The order by of tuples of numbers, highest first.
Exceeds(a, b) ==
  \E i \in DOMAIN a : a[i] > b[i] /\ \A j \in 1..(i - 1) : a[j] = b[j]

One(condition) == IF condition THEN 1 ELSE 0

Score(t, e) == IF Signal[<<t, e>>] = NoSignal THEN 0 ELSE Signal[<<t, e>>]

\* Mutant of FoldKey: the best score stands for the group, whoever represents it.
FoldKeyByScore(t, e) == <<Score(t, e), Trigram[<<t, e>>], PublishedAt[e], e>>

\* Who comes first in the group.
FoldKey(t, e) ==
  <<One(GroupOf[e] # None /\ Representative[GroupOf[e]] = e),
    Score(t, e), Trigram[<<t, e>>], PublishedAt[e], e>>

\* One candidate of each group, and all without a group: duplicate_rank = 1.
Folded(t) ==
  LET candidates == RelatedCandidates(t)
  IN  {e \in candidates :
         \A d \in candidates \ {e} :
           GroupOf[e] # None /\ GroupOf[d] = GroupOf[e] => Exceeds(FoldKey(t, e), FoldKey(t, d))}

RelatedKey(t, e) ==
  <<IF Score(t, e) > 0 THEN 2 ELSE One(Trigram[<<t, e>>] >= TrigramThreshold),
    Score(t, e), Trigram[<<t, e>>], One(SameSource(t, e)), One(SameBoard(t, e)),
    TextRank[<<t, e>>], PublishedAt[e], e>>

Related(t, limit) ==
  Rows(Ordered(Folded(t), LAMBDA d, e : Exceeds(RelatedKey(t, d), RelatedKey(t, e))), limit, 0)

-----------------------------------------------------------------------------
\* The page.

\* The first request; notFound() where there is no detail.
OpenItem(e) ==
  /\ opened.item = None
  /\ DetailFound(e)
  /\ opened' = [opened EXCEPT !.item = e]
  /\ UNCHANGED readerVars

\* The second; if the entry has gone since, the page shows nothing related.
LoadRelated ==
  /\ opened.item # None
  /\ opened.related = None
  /\ opened' = [opened EXCEPT !.related =
                  IF RelatedTarget(opened.item) THEN Related(opened.item, RelatedLimit) ELSE <<>>]
  /\ UNCHANGED readerVars

\* The form of the page; then the browser is sent to the page anew.
SubmitFeedback(type) ==
  /\ opened.related # None
  /\ CreateFeedback(opened.item, type)
  /\ opened' = Closed

PagesStep ==
  \/ ReaderStep /\ UNCHANGED opened
  \/ \E e \in Entries : OpenItem(e)
  \/ LoadRelated
  \/ \E type \in FeedbackTypes : SubmitFeedback(type)

-----------------------------------------------------------------------------
\* Properties.

\* The related entries of a page: never the entry itself nor one of its group,
\* one of each other group and that the representative if it is a candidate,
\* and none left out or put after another whose evidence is weaker: an explicit
\* signal before a similar title, before a shared source, before a shared board
\* (docs/api/reader.md:179 and :181; listRelatedReaderItems).
RelatedPromised(t, items) ==
  LET Evidence(e) == <<Score(t, e), Trigram[<<t, e>>], One(SameSource(t, e)), One(SameBoard(t, e))>>
      Stronger(d, e) == Exceeds(Evidence(d), Evidence(e))
      Place(e) == CHOOSE i \in DOMAIN items : items[i] = e
      OneGroup(d, e) == GroupOf[d] # None /\ GroupOf[d] = GroupOf[e]
      shown == ToSet(items)
  IN  /\ t \notin shown
      /\ \A e \in shown : ~OneGroup(t, e)
      /\ \A d, e \in shown : d # e => ~OneGroup(d, e)
      /\ \A d \in RelatedCandidates(t), e \in shown :
           d # e /\ OneGroup(d, e) => Representative[GroupOf[d]] # d
      /\ \A d, e \in shown : Stronger(d, e) => Place(d) < Place(e)
      /\ \A d \in RelatedCandidates(t) \ shown :
           \/ \E e \in shown : OneGroup(d, e)
           \/ Len(items) = RelatedLimit /\ (d \in Folded(t) => \A e \in shown : ~Stronger(d, e))

\* Every page that is shown keeps these promises about what is visible when
\* its related entries are read, whatever was hidden or disabled since the
\* entry itself was: it shows as related visible entries only, and nothing at
\* all once the entry has gone; as long as it has not, an empty list means
\* that there are no candidates (page.tsx:35, listRelatedReaderItems).
PagesKeepPromises ==
  [][opened.related = None /\ opened'.related # None =>
       LET shown == ToSet(opened'.related)
       IN  /\ shown \subseteq Visible
           /\ opened.item \notin Visible => shown = {}
           /\ opened.item \in Visible => RelatedPromised(opened.item, opened'.related)]_pageVars
=============================================================================
