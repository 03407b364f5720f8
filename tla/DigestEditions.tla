--------------------------- MODULE DigestEditions ---------------------------
(***************************************************************************)
(* Digest editions: POST /admin/digest-editions selects the digest of the  *)
(* moment, then stores it under the key of its date and board in one       *)
(* transaction, unless an edition with that key exists; either way the     *)
(* answer is the stored edition.  GET /reader/digest-editions/:editionKey  *)
(* replays it.                                                             *)
(*                                                                         *)
(* Requests overlap, and an insert waits for an open transaction that has  *)
(* inserted the same key.  The session check in front is AdminSessions'.   *)
(***************************************************************************)
EXTENDS ReaderPages

CONSTANTS
  Handlers,        \* requests the API works on at once
  AskedDates,      \* editionDate of requests: some name no day
  NoDay,           \* those that do not
  AskedBoards,     \* boardSlug of requests: not every slug is a board's
  Limits,
  MaxRequests,     \* bound: generations asked for
  MaxFaults        \* bound: statements that fail

\* What item_snapshot_json keeps of an entry: its last summary is the content.
Cards == [id : Entries, summary : Nat]

ASSUME EditionsAssumption ==
  /\ None \notin Seq(Cards)
  /\ AskedBoards \subseteq STRING /\ Boards \cup {AnyBoard} \subseteq STRING
  /\ Limits \subseteq Nat \ {0}
  /\ {MaxRequests, MaxFaults} \subseteq Nat

VARIABLES
  editions,        \* committed editions with their items, by key
  job,             \* the generation each handler works on
  selections,      \* history: the digests selected, with their keys
  answers,         \* history: the editions answered and replayed, with their keys
  used             \* how much of each bound is spent

editionVars == <<editions, job, selections, answers, used>>
vars == <<pageVars, editionVars>>

Keys == [date : AskedDates \ NoDay, board : AskedBoards]

\* items is what was selected; rows are the items inserted so far.
Idle == [pc |-> "idle", key |-> None, limit |-> 0, items |-> <<>>, inserted |-> FALSE, rows |-> <<>>]

Init ==
  /\ PagesInit
  /\ editions = [k \in Keys |-> None]
  /\ job = [h \in Handlers |-> Idle]
  /\ selections = {}
  /\ answers = {}
  /\ used = [requests |-> 0, faults |-> 0]

\* The card kept in item_snapshot_json: the entry, with its summary of now.
Card(e) == [id |-> e, summary |-> summaries[e]]

\* The digest of now, as GET /reader/digest also answers it.
DigestCards(board, limit) ==
  LET digest == Digest(board, limit)
  IN  [i \in DOMAIN digest |-> Card(digest[i])]

\* digestEditionWindowForDate: 400 for a date that names no day.
HasWindow(date) == date \notin NoDay

\* The digest is selected by one query, before the transaction.
Generate(h, date, board, limit) ==
  LET key == [date |-> date, board |-> board]
      items == DigestCards(board, limit)
  IN  /\ job[h].pc = "idle"
      /\ HasWindow(date)
      /\ used.requests < MaxRequests
      /\ job' = [job EXCEPT ![h] = [Idle EXCEPT !.pc = "insert", !.key = key, !.limit = limit,
                                         !.items = items]]
      /\ selections' = selections \cup {[key |-> key, items |-> items]}
      /\ used' = [used EXCEPT !.requests = @ + 1]
      /\ UNCHANGED <<pageVars, editions, answers>>

\* Open transactions that have inserted an edition with the key of h.
KeyHolders(h) ==
  {q \in Handlers \ {h} : job[q].inserted /\ job[q].key = job[h].key}

\* findBoardId: 400 for a slug without a board.
RefuseBoard(h) ==
  /\ job[h].pc = "insert"
  /\ job[h].key.board \notin Boards \cup {AnyBoard}
  /\ job' = [job EXCEPT ![h] = Idle]
  /\ UNCHANGED <<pageVars, editions, selections, answers, used>>

\* insert ... on conflict (edition_key) do nothing.
InsertEdition(h) ==
  /\ job[h].pc = "insert"
  /\ job[h].key.board \in Boards \cup {AnyBoard}
  /\ KeyHolders(h) = {}
  /\ LET inserts == editions[job[h].key] = None
     IN  job' = [job EXCEPT ![h].inserted = inserts,
                            ![h].pc = IF inserts THEN "items" ELSE "reread"]
  /\ UNCHANGED <<pageVars, editions, selections, answers, used>>

InsertItem(h) ==
  /\ job[h].pc = "items"
  /\ LET n == Len(job[h].rows)
     IN  IF n < Len(job[h].items)
         THEN job' = [job EXCEPT ![h].rows = Append(@, job[h].items[n + 1])]
         ELSE job' = [job EXCEPT ![h].pc = "reread"]
  /\ UNCHANGED <<pageVars, editions, selections, answers, used>>

\* hydrateDigestEdition: the stored rows by position, or none.
Stored(key) == editions[key]

\* Mutant of Reread: the answer is what was selected.
SelectedItems(h) == job[h].items

\* getDigestEditionByKey, in the transaction: its own rows, or those committed.
Reread(h) == IF job[h].inserted THEN job[h].rows ELSE Stored(job[h].key)

\* What the transaction leaves: its edition with the items inserted.
Committed(h) ==
  IF job[h].inserted THEN [editions EXCEPT ![job[h].key] = job[h].rows] ELSE editions

\* Commit, and the answer.
Commit(h) ==
  /\ job[h].pc = "reread"
  /\ editions' = Committed(h)
  /\ answers' = answers \cup {[key |-> job[h].key, items |-> Reread(h)]}
  /\ job' = [job EXCEPT ![h] = Idle]
  /\ UNCHANGED <<pageVars, selections, used>>

\* Mutant of Fail: what was inserted is kept.
FailWithoutRollback(h) ==
  /\ job[h].pc # "idle"
  /\ used.faults < MaxFaults
  /\ editions' = Committed(h)
  /\ job' = [job EXCEPT ![h] = Idle]
  /\ used' = [used EXCEPT !.faults = @ + 1]
  /\ UNCHANGED <<pageVars, selections, answers>>

\* A statement fails or the connection is lost: rollback, and 500; a commit may
\* take effect although its reply is lost.
Fail(h) ==
  /\ job[h].pc # "idle"
  /\ used.faults < MaxFaults
  /\ \/ UNCHANGED editions
     \/ job[h].pc = "reread" /\ editions' = Committed(h)
  /\ job' = [job EXCEPT ![h] = Idle]
  /\ used' = [used EXCEPT !.faults = @ + 1]
  /\ UNCHANGED <<pageVars, selections, answers>>

\* The public replay shows what is stored, and does not select; 404 for other keys.
Replay(key) ==
  /\ Stored(key) # None
  /\ answers' = answers \cup {[key |-> key, items |-> Stored(key)]}
  /\ UNCHANGED <<pageVars, editions, job, selections, used>>

Next ==
  \/ PagesStep /\ UNCHANGED editionVars
  \/ \E h \in Handlers :
       \/ \E date \in AskedDates, board \in AskedBoards, limit \in Limits : Generate(h, date, board, limit)
       \/ RefuseBoard(h)
       \/ InsertEdition(h)
       \/ InsertItem(h)
       \/ Commit(h)
       \/ Fail(h)
  \/ \E key \in Keys : Replay(key)

Spec == Init /\ [][Next]_vars

-----------------------------------------------------------------------------
\* Properties.

\* Entries, editions and jobs keep their types, and no two open transactions
\* have inserted one key, nor a key that is already committed.
TypeOK ==
  /\ stored \cup hidden \subseteq Entries
  /\ enabled \subseteq Sources
  /\ feedback \in Seq(Feedback)
  /\ editions \in [Keys -> Seq(Cards) \cup {None}]
  /\ job \in [Handlers -> [pc : {"idle", "insert", "items", "reread"}, key : Keys \cup {None}, limit : Nat,
                            items : Seq(Cards), inserted : BOOLEAN, rows : Seq(Cards)]]
  /\ \A h \in Handlers : job[h].inserted => KeyHolders(h) = {} /\ editions[job[h].key] = None

\* An edition is one request's whole selection, in its order: never a part of
\* it, and never a mixture of two (createDigestEdition's transaction).
EditionIsOneSelection ==
  \A key \in Keys : editions[key] # None => [key |-> key, items |-> editions[key]] \in selections

\* Whoever generates or replays an edition is shown the same items, whatever
\* has since become of the entries, their feedback and their summaries
\* (docs/api/digest-editions.md:5 and :61).
AnswersAgree == \A a, b \in answers : a.key = b.key => a.items = b.items

-----------------------------------------------------------------------------
\* What a digest promises of a selection, without saying how it is made.

Chosen(items) == {items[i].id : i \in DOMAIN items}

Before(items, d, e) ==
  \E i, j \in DOMAIN items : i < j /\ items[i].id = d /\ items[j].id = e

\* As many visible entries as there are, up to the limit, each once.
FillsLimit(items, board, limit) ==
  /\ Chosen(items) \subseteq VisibleOn(board)
  /\ Cardinality(Chosen(items)) = Len(items)
  /\ Len(items) = Min({limit, Cardinality(VisibleOn(board))})

\* An entry with fewer complaints is neither left out for nor put after one
\* with more.
FewerComplaintsFirst(items, board) ==
  \A d \in VisibleOn(board), e \in Chosen(items) :
    Penalty(d) < Penalty(e) => d \in Chosen(items) /\ ~Before(items, e, d)

\* Among the candidates with equal penalty, a source has more entries than its
\* limit only when every entry of a source below the limit is in.
SpreadsSources(items, board, limit) ==
  \A d \in {row.id : row \in ToSet(Candidates(board, limit))} \ Chosen(items) :
    LET Taken(s) == Cardinality({e \in Chosen(items) : SourceOf[e] = s /\ Penalty(e) = Penalty(d)})
    IN  Taken(SourceOf[d]) < SourceItemLimit =>
          \A s \in Sources : Taken(s) <= SourceItemLimit

\* Without a board filter, a board has a second entry only when every board
\* with candidates of that penalty has one.
SpreadsBoards(items, limit) ==
  \A d \in {row.id : row \in ToSet(Candidates(AnyBoard, limit))} :
    LET Taken(b) == Cardinality({e \in Chosen(items) :
                                   BoardOf[SourceOf[e]] = b /\ Penalty(e) = Penalty(d)})
    IN  Taken(BoardOf[SourceOf[d]]) = 0 => \A b \in Boards : Taken(b) <= 1

\* Of one source and penalty, the newest are taken.
NewestOfSource(items, board) ==
  \A d \in VisibleOn(board), e \in Chosen(items) :
    SourceOf[d] = SourceOf[e] /\ Penalty(d) = Penalty(e) /\ Newer(d, e) => d \in Chosen(items)

\* Every selection keeps these promises about the entries that are visible when
\* it is made (docs/api/reader.md:107; listReaderDigestItems).
SelectionsKeepPromises ==
  [][\A h \in Handlers : job[h].pc = "idle" /\ job'[h].pc = "insert" =>
       LET items == job'[h].items
           board == job'[h].key.board
           limit == job'[h].limit
       IN  /\ FillsLimit(items, board, limit)
           /\ FewerComplaintsFirst(items, board)
           /\ SpreadsSources(items, board, limit)
           /\ board = AnyBoard => SpreadsBoards(items, limit)
           /\ NewestOfSource(items, board)]_vars
=============================================================================
