----------------------------- MODULE ReaderItems -----------------------------
(***************************************************************************)
(* What readers see: the entries of enabled sources that are neither       *)
(* hidden nor blocked, newest first or as a search ranks them, page by     *)
(* page; and the digest, a selection of them that puts entries with        *)
(* complaints last and keeps one source or board from filling it.          *)
(*                                                                         *)
(* Readers, runs and administrators change what is seen while a reader     *)
(* follows the links from page to page; each page is a query of its own.   *)
(***************************************************************************)
EXTENDS Integers, Sequences, FiniteSets, FiniteSetsExt, SequencesExt

CONSTANTS
  Entries,         \* ids of raw entries
  Arriving,        \* those not yet ingested at first
  Sources,
  Boards,
  SourceOf,        \* source_id of each entry
  BoardOf,         \* board_id of each source
  PublishedAt,     \* coalesce(published_at, created_at) of each entry
  RightsOf,        \* rights_status of each entry
  Words,           \* search queries
  Blank,           \* a query of blanks
  EntryText,       \* what the entry, its source and board say, of each entry
  SummaryTexts,    \* what its summary blocks say, in the order they come
  FirstSummaries,  \* how many of them there are at first
  Visits,          \* the lists and searches that a reader goes through
  FirstFeedbacks,  \* the feedback there may be at first
  FeedbackTypes,   \* the types of the feedback that is given
  AnyBoard,        \* no board filter
  None,
  PageLimit,
  SourceItemLimit, CandidateMultiplier, MinimumCandidates, MaximumCandidates,
  MaxEdits         \* bound: changes made to entries, sources and feedback

\* A text contains some queries as whole words, and others inside a word.
Texts == [words : SUBSET Words, parts : SUBSET Words]

Weight ==
  [rights_concern |-> 4, correction |-> 3, quality_issue |-> 2, duplicate |-> 1, broken_link |-> 1]

Feedback ==
  [entry : Entries, type : DOMAIN Weight, status : {"open", "reviewed", "dismissed", "resolved"}]

ASSUME ReaderAssumption ==
  /\ Entries \subseteq Nat /\ IsFiniteSet(Entries)
  /\ Arriving \subseteq Entries
  /\ SourceOf \in [Entries -> Sources]
  /\ BoardOf \in [Sources -> Boards]
  /\ PublishedAt \in [Entries -> Nat]
  /\ AnyBoard \notin Boards
  /\ RightsOf \in [Entries -> {"unknown", "blocked", "metadata_only", "private_allowed",
                               "public_excerpt_allowed", "public_fulltext_allowed"}]
  /\ EntryText \in [Entries -> Texts]
  /\ SummaryTexts \in [Entries -> Seq(Texts)]
  /\ FirstSummaries \in [Entries -> Nat]
  /\ \A e \in Entries : FirstSummaries[e] <= Len(SummaryTexts[e])
  /\ Blank \notin Words
  /\ Visits \subseteq [kind : {"list"}, board : Boards \cup {AnyBoard}]
                \cup [kind : {"search"}, board : Boards \cup {AnyBoard}, query : Words \cup {Blank}]
  /\ None \notin Visits
  /\ FirstFeedbacks \subseteq Seq(Feedback)
  /\ FeedbackTypes \subseteq DOMAIN Weight
  /\ {MaxEdits, CandidateMultiplier, MinimumCandidates, MaximumCandidates} \subseteq Nat
  /\ {PageLimit, SourceItemLimit} \subseteq Nat \ {0}

VARIABLES
  stored,          \* entries ingested
  enabled,         \* sources
  hidden,          \* entries whose lifecycle_status is hidden
  feedback,        \* reader_feedback, in id order
  summaries,       \* number of summary_blocks of each entry: the card shows the last
  walk,            \* a reader who goes from page to page
  edits            \* how much of the bound is spent

readerVars == <<stored, enabled, hidden, feedback, summaries, walk, edits>>

-----------------------------------------------------------------------------
\* Queries.

\* The three conditions that every reader query repeats.
Visible ==
  {e \in stored : SourceOf[e] \in enabled /\ e \notin hidden /\ RightsOf[e] # "blocked"}

VisibleOn(board) == {e \in Visible : board \in {AnyBoard, BoardOf[SourceOf[e]]}}

\* order by, for an order that is total on S.
Ordered(S, Precedes(_, _)) ==
  [i \in 1..Cardinality(S) |-> CHOOSE e \in S : Cardinality({d \in S : Precedes(d, e)}) = i - 1]

\* limit and offset.
Rows(seq, limit, offset) == SubSeq(seq, offset + 1, Min({Len(seq), offset + limit}))

Newer(d, e) ==
  \/ PublishedAt[d] > PublishedAt[e]
  \/ PublishedAt[d] = PublishedAt[e] /\ d > e

\* The text searched: the entry's own, and its last summary's.
TextOf(e) ==
  <<EntryText[e]>> \o (IF summaries[e] = 0 THEN <<>> ELSE <<SummaryTexts[e][summaries[e]]>>)

\* The full-text query, or position(...) > 0.
Matches(q, e) == \E text \in ToSet(TextOf(e)) : q \in text.words \cup text.parts

\* ts_rank, which is 0 for a word that the text has only inside others.
Rank(q, e) == Cardinality({i \in DOMAIN TextOf(e) : q \in TextOf(e)[i].words})

\* A blank query finds nothing.
Searched(query, board) ==
  IF query = Blank THEN {} ELSE {e \in VisibleOn(board) : Matches(query, e)}

\* The entries that the pages of a visit go through.
Hits(visit) ==
  IF visit.kind = "list" THEN VisibleOn(visit.board) ELSE Searched(visit.query, visit.board)

\* A search puts the higher rank first.
Higher(visit, d, e) ==
  LET Of(x) == IF visit.kind = "list" THEN 0 ELSE Rank(visit.query, x)
  IN  Of(d) > Of(e) \/ (Of(d) = Of(e) /\ Newer(d, e))

Found(visit) == Ordered(Hits(visit), LAMBDA d, e : Higher(visit, d, e))

\* Mutant of Page: the next page starts after the extra row that was fetched.
PageAfterExtraRow(visit, limit, offset) ==
  LET rows == Rows(Found(visit), limit + 1, offset)
  IN  [items |-> ToSet(Rows(rows, limit, 0)),
       hasMore |-> Len(rows) > limit,
       nextOffset |-> offset + limit + 1]

\* One row more than the page is fetched, to tell whether there is a next one.
Page(visit, limit, offset) ==
  LET rows == Rows(Found(visit), limit + 1, offset)
  IN  [items |-> ToSet(Rows(rows, limit, 0)),
       hasMore |-> Len(rows) > limit,
       nextOffset |-> offset + limit]

-----------------------------------------------------------------------------
\* The digest.

\* Dismissed feedback does not count, and the sum is capped.
Penalty(e) ==
  LET counted == {i \in DOMAIN feedback : feedback[i].entry = e /\ feedback[i].status # "dismissed"}
  IN  Min({8, MapThenSumSet(LAMBDA i : Weight[feedback[i].type], counted)})

CandidateLimit(limit) ==
  Max({limit, Min({Max({limit * CandidateMultiplier, MinimumCandidates}), MaximumCandidates})})

\* The rows of the digest's query, with their penalties.
Candidates(board, limit) ==
  LET penalty == [e \in VisibleOn(board) |-> Penalty(e)]
      Precedes(d, e) == penalty[d] < penalty[e] \/ (penalty[d] = penalty[e] /\ Newer(d, e))
      ids == Rows(Ordered(VisibleOn(board), Precedes), CandidateLimit(limit), 0)
  IN  [i \in DOMAIN ids |-> [id |-> ids[i], penalty |-> penalty[ids[i]]]]

FromSource(chosen, s) == {d \in ToSet(chosen) : SourceOf[d] = s}

HasBoard(chosen, b) == \E d \in ToSet(chosen) : BoardOf[SourceOf[d]] = b

\* Mutant of BelowSourceLimit: one more than the limit is let in.
AtSourceLimit(chosen, e) == Cardinality(FromSource(chosen, SourceOf[e])) <= SourceItemLimit

BelowSourceLimit(chosen, e) == Cardinality(FromSource(chosen, SourceOf[e])) < SourceItemLimit

\* What each of the three passes over a group asks of an entry.
Fits(pass, chosen, e) ==
  /\ pass = "boards" => ~HasBoard(chosen, BoardOf[SourceOf[e]])
  /\ pass # "rest" => BelowSourceLimit(chosen, e)

\* One pass: the entries that fit are added, as long as there is room.
AddRows(chosen, group, limit, pass) ==
  FoldLeft(LAMBDA acc, e :
             IF Len(acc) < limit /\ e \notin ToSet(acc) /\ Fits(pass, acc, e) THEN Append(acc, e) ELSE acc,
           chosen, group)

\* A board's first entries, then what the limit per source allows, then the rest.
SelectFromGroup(group, limit, diversify) ==
  LET firsts == IF diversify THEN AddRows(<<>>, group, limit, "boards") ELSE <<>>
      spread == AddRows(firsts, group, limit, "spread")
  IN  AddRows(spread, group, limit, "rest")

\* The ids of the rows with penalty p.
Group(rows, p) ==
  FoldLeft(LAMBDA acc, row : IF row.penalty = p THEN Append(acc, row.id) ELSE acc, <<>>, rows)

\* Group by group of equal penalty; the counts start anew in each group.
Digest(board, limit) ==
  LET rows == Candidates(board, limit)
      penalties == Ordered({row.penalty : row \in ToSet(rows)}, <)
      AddGroup(acc, p) ==
        acc \o SelectFromGroup(Group(rows, p), limit - Len(acc), board = AnyBoard)
  IN  FoldLeft(AddGroup, <<>>, penalties)

-----------------------------------------------------------------------------
ReaderInit ==
  /\ stored = Entries \ Arriving
  /\ enabled = Sources
  /\ hidden = {}
  /\ feedback \in FirstFeedbacks
  /\ summaries = FirstSummaries
  /\ walk = [visit |-> None, offset |-> 0, due |-> {}, seen |-> {}, moved |-> FALSE, done |-> FALSE]
  /\ edits = 0

\* Those found before are still found, in the same order.
OnlyAdds(visit) ==
  /\ Hits(visit) \subseteq Hits(visit)'
  /\ \A d, e \in Hits(visit) : Higher(visit, d, e) = Higher(visit, d, e)'

\* A change of what is seen.  The walk remembers, as history, whether anything
\* went out of its sight, or changed places, since its first page.
Edit ==
  /\ edits < MaxEdits
  /\ edits' = edits + 1
  /\ \E visit \in {walk.visit} :
       walk' = [walk EXCEPT !.moved = @ \/ (visit # None /\ ~walk.done /\ ~OnlyAdds(visit))]

\* An ingest run stores an entry.
Arrive(e) ==
  /\ e \notin stored
  /\ stored' = stored \cup {e}
  /\ UNCHANGED <<enabled, hidden, feedback, summaries>>
  /\ Edit

\* PATCH /sources/:id, and PATCH /raw-entries/:id.
SetEnabled(s) ==
  /\ enabled' = IF s \in enabled THEN enabled \ {s} ELSE enabled \cup {s}
  /\ UNCHANGED <<stored, hidden, feedback, summaries>>
  /\ Edit

SetLifecycle(e, action) ==
  /\ e \in stored
  /\ hidden' = IF action = "hide" THEN hidden \cup {e} ELSE hidden \ {e}
  /\ UNCHANGED <<stored, enabled, feedback, summaries>>
  /\ Edit

\* visible_item in createFeedback: the entry may have gone since its page was
\* shown, and then the answer is 404.
TakesFeedback(e) ==
  /\ e \in stored
  /\ SourceOf[e] \in enabled
  /\ e \notin hidden
  /\ RightsOf[e] # "blocked"

CreateFeedback(e, type) ==
  /\ TakesFeedback(e)
  /\ feedback' = Append(feedback, [entry |-> e, type |-> type, status |-> "open"])
  /\ UNCHANGED <<stored, enabled, hidden, summaries>>
  /\ Edit

ReviewFeedback(i, status) ==
  /\ feedback' = [feedback EXCEPT ![i].status = status]
  /\ UNCHANGED <<stored, enabled, hidden, summaries>>
  /\ Edit

\* The worker adds a summary block: the card and the search use the last one.
Summarize(e) ==
  /\ e \in stored
  /\ summaries[e] < Len(SummaryTexts[e])
  /\ summaries' = [summaries EXCEPT ![e] = @ + 1]
  /\ UNCHANGED <<stored, enabled, hidden, feedback>>
  /\ Edit

\* A reader opens the first page of a list or a search.
OpenList(visit) ==
  LET page == Page(visit, PageLimit, 0)
  IN  /\ walk.visit = None
      /\ walk' = [visit  |-> visit,
                   offset |-> page.nextOffset,
                   due    |-> Hits(visit),
                   seen   |-> page.items,
                   moved  |-> FALSE,
                   done   |-> ~page.hasMore]
      /\ UNCHANGED <<stored, enabled, hidden, feedback, summaries, edits>>

\* The link to the next page, which is there when there is one.
LoadMore ==
  LET page == Page(walk.visit, PageLimit, walk.offset)
  IN  /\ walk.visit # None
      /\ ~walk.done
      /\ walk' = [walk EXCEPT !.offset = page.nextOffset,
                              !.seen = @ \cup page.items,
                              !.done = ~page.hasMore]
      /\ UNCHANGED <<stored, enabled, hidden, feedback, summaries, edits>>

ReaderStep ==
  \/ \E e \in Entries :
       \/ Arrive(e)
       \/ Summarize(e)
       \/ \E action \in {"hide", "restore"} : SetLifecycle(e, action)
       \/ \E type \in FeedbackTypes : CreateFeedback(e, type)
  \/ \E s \in Sources : SetEnabled(s)
  \/ \E i \in DOMAIN feedback, status \in {"open", "reviewed", "dismissed", "resolved"} :
       ReviewFeedback(i, status)
  \/ \E visit \in Visits : OpenList(visit)
  \/ LoadMore

-----------------------------------------------------------------------------
\* Properties.

\* A reader who follows the links of a list or a search to the last page has
\* seen every entry that was found at the start, as long as none of them went
\* out of sight or changed places on the way: entries that arrive may make one
\* be seen twice, but push none out between two pages (listReaderItemsPage and
\* searchReaderItemsPage, nextOffset).
WalksMissNothing == walk.done /\ ~walk.moved => walk.due \subseteq walk.seen
=============================================================================
