---------------------------- MODULE DigestProofs ----------------------------
(***************************************************************************)
(* Proofs about DigestEditions and the reader's queries it builds on, for  *)
(* any entries, edits, generations at once and faults.                     *)
(*                                                                         *)
(* Pages: the rows of a query are the entries found, each at the place     *)
(* that the number of those before it gives (RankedOnce, FoundAt).  The    *)
(* inductive invariant of a walk from page to page is that an entry that   *)
(* was found at the start has been seen, or still stands at or after the   *)
(* offset of the next page.                                                *)
(*                                                                         *)
(* Editions: the items of an edition, stored or being written, are the     *)
(* first so many of one request's selection, which nobody else can write   *)
(* because its key is taken (EditionInv).                                  *)
(*                                                                         *)
(* Selections: a fold is followed one element at a time (LeftFoldSteps).   *)
(* A pass over a group keeps what is chosen within its limits and takes a  *)
(* source's newest entries first, and leaves out only rows that it could   *)
(* not take (PassOK, PassedBy); group after group, the digest has the rows *)
(* with the fewest complaints, or all of them (DigestOK).  The candidates  *)
(* suffice because no row left out comes before one of them.               *)
(*                                                                         *)
(* Related entries: the evidence of two entries is compared like words, so *)
(* it orders the candidates, and the best of a group stands first among    *)
(* them (ExceedsOrders, RepresentativeFirst).                              *)
(*                                                                         *)
(* What a fold keeps is proved from its smallest counterexample, which the *)
(* naturals have because they are well-founded.                            *)
(***************************************************************************)
EXTENDS DigestEditions, TLAPS, FiniteSetTheorems, WellFoundedInduction

-----------------------------------------------------------------------------
\* Orders and their rows.

\* R is a strict order that is total on S.
Orders(R, S) ==
  /\ \A d \in S : <<d, d>> \notin R
  /\ \A d, e, f \in S : <<d, e>> \in R /\ <<e, f>> \in R => <<d, f>> \in R
  /\ \A d, e \in S : d # e => <<d, e>> \in R \/ <<e, d>> \in R

Preceding(R, S, e) == {d \in S : <<d, e>> \in R}

LEMMA PrecedingFewer ==
  ASSUME NEW S, IsFiniteSet(S), NEW R, Orders(R, S), NEW d \in S, NEW e \in S, <<d, e>> \in R
  PROVE  Cardinality(Preceding(R, S, d)) < Cardinality(Preceding(R, S, e))
<1>1. Preceding(R, S, d) \subseteq Preceding(R, S, e)
  BY DEF Preceding, Orders
<1>2. d \in Preceding(R, S, e) /\ d \notin Preceding(R, S, d)
  BY DEF Preceding, Orders
<1>3. IsFiniteSet(Preceding(R, S, e))
  BY FS_Subset DEF Preceding
<1>4. /\ Cardinality(Preceding(R, S, d)) <= Cardinality(Preceding(R, S, e))
      /\ Cardinality(Preceding(R, S, e)) # Cardinality(Preceding(R, S, d))
      /\ IsFiniteSet(Preceding(R, S, d))
  BY <1>1, <1>2, <1>3, FS_Subset
<1>5. Cardinality(Preceding(R, S, d)) \in Nat /\ Cardinality(Preceding(R, S, e)) \in Nat
  BY <1>3, <1>4, FS_CardinalityType
<1>6. QED
  BY <1>4, <1>5

\* In a finite set every place is taken, by one element.
LEMMA RankedOnce ==
  ASSUME NEW S, IsFiniteSet(S), NEW R, Orders(R, S)
  PROVE  /\ Cardinality(S) \in Nat
         /\ \A e \in S : Cardinality(Preceding(R, S, e)) \in 0..(Cardinality(S) - 1)
         /\ \A d, e \in S :
              Cardinality(Preceding(R, S, d)) = Cardinality(Preceding(R, S, e)) => d = e
         /\ \A i \in 0..(Cardinality(S) - 1) :
              \E e \in S : Cardinality(Preceding(R, S, e)) = i
<1> DEFINE n == Cardinality(S)
           rank == [e \in S |-> Cardinality(Preceding(R, S, e))]
<1>1. n \in Nat
  BY FS_CardinalityType
<1>2. ASSUME NEW e \in S PROVE rank[e] \in 0..(n - 1)
  <2>1. Preceding(R, S, e) \subseteq S /\ Preceding(R, S, e) # S
    BY DEF Preceding, Orders
  <2>2. /\ Cardinality(Preceding(R, S, e)) <= n /\ Cardinality(Preceding(R, S, e)) # n
        /\ IsFiniteSet(Preceding(R, S, e))
    BY <2>1, FS_Subset
  <2>3. Cardinality(Preceding(R, S, e)) \in Nat
    BY <2>2, FS_CardinalityType
  <2>4. QED
    BY <1>1, <2>2, <2>3
<1>3. ASSUME NEW d \in S, NEW e \in S, rank[d] = rank[e] PROVE d = e
  <2>1. rank[d] \in Int /\ rank[e] \in Int
    BY <1>2
  <2>2. <<d, e>> \in R => rank[d] < rank[e]
    BY PrecedingFewer
  <2>3. <<e, d>> \in R => rank[e] < rank[d]
    BY PrecedingFewer
  <2>4. QED
    BY <1>3, <2>1, <2>2, <2>3 DEF Orders
<1>4. rank \in Injection(S, 0..(n - 1))
  BY <1>2, <1>3 DEF Injection, IsInjective
<1>5. IsFiniteSet(0..(n - 1)) /\ Cardinality(0..(n - 1)) = n
  BY <1>1, FS_Interval
<1>6. rank \in Surjection(S, 0..(n - 1))
  BY <1>4, <1>5, FS_Injection
<1>7. QED
  BY <1>1, <1>2, <1>3, <1>6 DEF Surjection

-----------------------------------------------------------------------------
\* The entries found by a visit, in the order of its rows.

EntriesOK == stored \subseteq Entries

LEMMA NewerOrders ==
  /\ \A d \in Entries : ~Newer(d, d)
  /\ \A d, e, f \in Entries : Newer(d, e) /\ Newer(e, f) => Newer(d, f)
  /\ \A d, e \in Entries : d # e => Newer(d, e) \/ Newer(e, d)
<1>1. \A e \in Entries : PublishedAt[e] \in Nat /\ e \in Nat
  BY ReaderAssumption
<1>2. QED
  BY <1>1 DEF Newer

LEMMA RankTyped ==
  ASSUME NEW q, NEW e
  PROVE  Rank(q, e) \in Nat
<1> DEFINE a == EntryText[e]
           b == SummaryTexts[e][summaries[e]]
<1>1. TextOf(e) \in Seq({a, b})
  <2>1. <<a>> \in Seq({a, b}) /\ <<>> \in Seq({a, b}) /\ <<b>> \in Seq({a, b})
    OBVIOUS
  <2>2. (IF summaries[e] = 0 THEN <<>> ELSE <<b>>) \in Seq({a, b})
    BY <2>1
  <2> HIDE DEF a, b
  <2>3. QED
    BY <2>1, <2>2 DEF TextOf, a, b
<1>2. DOMAIN TextOf(e) = 1..Len(TextOf(e)) /\ Len(TextOf(e)) \in Nat
  BY <1>1
<1>3. IsFiniteSet(DOMAIN TextOf(e))
  BY <1>2, FS_Interval
<1>4. IsFiniteSet({i \in DOMAIN TextOf(e) : q \in TextOf(e)[i].words})
  BY <1>3, FS_Subset
<1>5. QED
  BY <1>4, FS_CardinalityType DEF Rank

LEMMA HitsEntries ==
  ASSUME EntriesOK, NEW visit
  PROVE  Hits(visit) \subseteq stored /\ IsFiniteSet(Hits(visit)) /\ Hits(visit) \subseteq Entries
<1>1. Hits(visit) \subseteq stored
  BY DEF Hits, Searched, VisibleOn, Visible
<1>2. QED
  BY <1>1, FS_Subset, ReaderAssumption DEF EntriesOK

Above(visit) == {p \in Hits(visit) \X Hits(visit) : Higher(visit, p[1], p[2])}

\* How many entries are found before e.
Place(visit, e) == Cardinality({d \in Hits(visit) : Higher(visit, d, e)})

LEMMA AboveOrders ==
  ASSUME EntriesOK, NEW visit
  PROVE  Orders(Above(visit), Hits(visit))
<1>1. Hits(visit) \subseteq Entries
  BY HitsEntries
<1> DEFINE Of(x) == IF visit.kind = "list" THEN 0 ELSE Rank(visit.query, x)
<1>2. \A x : Of(x) \in Nat
  BY RankTyped
<1>3. \A d, e : Higher(visit, d, e) <=> Of(d) > Of(e) \/ (Of(d) = Of(e) /\ Newer(d, e))
  BY DEF Higher
<1> HIDE DEF Of
<1>4. ASSUME NEW d \in Entries PROVE ~Higher(visit, d, d)
  BY <1>2, <1>3, NewerOrders
<1>5. ASSUME NEW d \in Entries, NEW e \in Entries, NEW f \in Entries,
             Higher(visit, d, e), Higher(visit, e, f)
      PROVE  Higher(visit, d, f)
  <2>1. Of(d) \in Nat /\ Of(e) \in Nat /\ Of(f) \in Nat
    BY <1>2
  <2>2. Newer(d, e) /\ Newer(e, f) => Newer(d, f)
    BY NewerOrders
  <2>3. QED
    BY <1>3, <1>5, <2>1, <2>2
<1>6. ASSUME NEW d \in Entries, NEW e \in Entries, d # e
      PROVE  Higher(visit, d, e) \/ Higher(visit, e, d)
  <2>1. Of(d) \in Nat /\ Of(e) \in Nat
    BY <1>2
  <2>2. Newer(d, e) \/ Newer(e, d)
    BY <1>6, NewerOrders
  <2>3. QED
    BY <1>3, <2>1, <2>2
<1>7. \A d, e \in Hits(visit) : <<d, e>> \in Above(visit) <=> Higher(visit, d, e)
  BY DEF Above
<1>8. QED
  BY <1>1, <1>4, <1>5, <1>6, <1>7 DEF Orders

\* The entries found, each at its place.
LEMMA FoundAt ==
  ASSUME EntriesOK, NEW visit
  PROVE  /\ Found(visit) \in Seq(Entries) /\ Len(Found(visit)) = Cardinality(Hits(visit))
         /\ Cardinality(Hits(visit)) \in Nat
         /\ \A e \in Hits(visit) :
              Place(visit, e) \in 0..(Cardinality(Hits(visit)) - 1) /\ Found(visit)[Place(visit, e) + 1] = e
<1> DEFINE S == Hits(visit)
           n == Cardinality(S)
           R == Above(visit)
<1>1. IsFiniteSet(S) /\ S \subseteq Entries /\ Orders(R, S)
  BY HitsEntries, AboveOrders
<1>2. \A e \in S : Preceding(R, S, e) = {d \in S : Higher(visit, d, e)}
  BY DEF Preceding, Above
<1>3. /\ n \in Nat
      /\ \A e \in S : Place(visit, e) \in 0..(n - 1)
      /\ \A d, e \in S : Place(visit, d) = Place(visit, e) => d = e
      /\ \A i \in 0..(n - 1) : \E e \in S : Place(visit, e) = i
  <2>1. \A e \in S : Place(visit, e) = Cardinality(Preceding(R, S, e))
    BY <1>2 DEF Place
  <2> HIDE DEF S, R
  <2>2. /\ Cardinality(S) \in Nat
        /\ \A e \in S : Cardinality(Preceding(R, S, e)) \in 0..(Cardinality(S) - 1)
        /\ \A d, e \in S :
             Cardinality(Preceding(R, S, d)) = Cardinality(Preceding(R, S, e)) => d = e
        /\ \A i \in 0..(Cardinality(S) - 1) :
             \E e \in S : Cardinality(Preceding(R, S, e)) = i
    BY <1>1, RankedOnce
  <2>3. QED
    BY <2>1, <2>2
<1>4. Found(visit) = [i \in 1..n |-> CHOOSE e \in S : Place(visit, e) = i - 1]
  BY DEF Found, Ordered, Place
<1> HIDE DEF S, n, R
<1>5. \A i \in 1..n : i - 1 \in 0..(n - 1)
  BY <1>3
<1>6. \A i \in 1..n : Found(visit)[i] \in S /\ Place(visit, Found(visit)[i]) = i - 1
  BY <1>3, <1>4, <1>5
<1>7. Found(visit) \in Seq(Entries) /\ Len(Found(visit)) = n
  BY <1>1, <1>3, <1>4, <1>6
<1>8. ASSUME NEW e \in S PROVE Found(visit)[Place(visit, e) + 1] = e
  <2>1. Place(visit, e) + 1 \in 1..n /\ Place(visit, e) + 1 - 1 = Place(visit, e)
    BY <1>3
  <2>2. QED
    BY <1>3, <1>6, <2>1
<1>9. QED
  BY <1>3, <1>7, <1>8 DEF S, n

-----------------------------------------------------------------------------
\* Pages.

LEMMA MinOf ==
  ASSUME NEW a \in Int, NEW b \in Int
  PROVE  Min({a, b}) = IF a <= b THEN a ELSE b
<1>1. \E x \in {a, b} : \A y \in {a, b} : x <= y
  OBVIOUS
<1>2. Min({a, b}) \in {a, b} /\ \A y \in {a, b} : Min({a, b}) <= y
  BY <1>1 DEF Min
<1>3. QED
  BY <1>2

\* The rows of a query: those from the offset on, up to the limit.
RowsFrom(seq, limit, offset, rows) ==
  /\ Len(seq) <= offset => Len(rows) = 0
  /\ offset <= Len(seq) /\ Len(seq) <= offset + limit => Len(rows) = Len(seq) - offset
  /\ offset + limit <= Len(seq) => Len(rows) = limit
  /\ \A i \in 1..Len(rows) : offset + i \in 1..Len(seq) /\ rows[i] = seq[offset + i]

LEMMA RowsAre ==
  ASSUME NEW S, NEW seq \in Seq(S), NEW limit \in Nat, NEW offset \in Nat
  PROVE  Rows(seq, limit, offset) \in Seq(S) /\ RowsFrom(seq, limit, offset, Rows(seq, limit, offset))
<1> DEFINE m == Min({Len(seq), offset + limit})
           rows == SubSeq(seq, offset + 1, m)
<1>1. Len(seq) \in Nat /\ offset + limit \in Nat
  OBVIOUS
<1>2. m = IF Len(seq) <= offset + limit THEN Len(seq) ELSE offset + limit
  BY <1>1, MinOf
<1> HIDE DEF m
<1>3. m \in Nat /\ m <= Len(seq) /\ m <= offset + limit
  BY <1>1, <1>2
<1>4. \A i \in (offset + 1)..m : seq[i] \in S
  BY <1>1, <1>3
<1>5. Len(rows) = IF offset + 1 <= m THEN m - offset ELSE 0
  BY <1>3
<1>6. \A i \in 1..(m - offset) : rows[i] = seq[offset + i]
  BY <1>3
<1>7. rows \in Seq(S)
  BY <1>3, <1>4
<1>8. Rows(seq, limit, offset) = rows
  BY DEF Rows, m
<1> HIDE DEF rows
<1>9. Len(rows) = 0 \/ (Len(rows) = m - offset /\ offset < m)
  BY <1>3, <1>5
<1>10. \A i \in 1..Len(rows) : offset + i \in 1..Len(seq) /\ rows[i] = seq[offset + i]
  BY <1>1, <1>3, <1>6, <1>9
<1>11. /\ Len(seq) <= offset => Len(rows) = 0
       /\ offset <= Len(seq) /\ Len(seq) <= offset + limit => Len(rows) = Len(seq) - offset
       /\ offset + limit <= Len(seq) => Len(rows) = limit
  BY <1>1, <1>2, <1>5
<1>12. QED
  BY <1>7, <1>8, <1>10, <1>11 DEF RowsFrom

\* A page shows what stands from its offset on, up to the offset of the next
\* page; if anything stands there or behind, there is a next page.
LEMMA PageShows ==
  ASSUME EntriesOK, NEW visit, NEW offset \in Nat, NEW e \in Hits(visit), Place(visit, e) >= offset
  PROVE  LET page == Page(visit, PageLimit, offset)
         IN  \/ e \in page.items
             \/ Place(visit, e) >= page.nextOffset /\ page.hasMore = TRUE
<1> DEFINE found == Found(visit)
           rows == Rows(found, PageLimit + 1, offset)
           shown == Rows(rows, PageLimit, 0)
           place == Place(visit, e)
           page == Page(visit, PageLimit, offset)
<1>1. /\ found \in Seq(Entries) /\ place \in Nat /\ place + 1 <= Len(found) /\ found[place + 1] = e
      /\ place >= offset /\ Len(found) \in Nat
  BY FoundAt
<1>2. /\ page.items = ToSet(shown) /\ page.nextOffset = offset + PageLimit
      /\ page.hasMore = (Len(rows) > PageLimit)
  BY DEF Page
<1> HIDE DEF found, place, page
<1>3. PageLimit \in Nat /\ PageLimit + 1 \in Nat
  BY ReaderAssumption
<1>4. /\ rows \in Seq(Entries) /\ Len(rows) \in Nat
      /\ offset <= Len(found) /\ Len(found) <= offset + (PageLimit + 1) => Len(rows) = Len(found) - offset
      /\ offset + (PageLimit + 1) <= Len(found) => Len(rows) = PageLimit + 1
      /\ \A i \in 1..Len(rows) : rows[i] = found[offset + i]
  <2> HIDE DEF rows
  <2>1. /\ rows \in Seq(Entries)
        /\ offset <= Len(found) /\ Len(found) <= offset + (PageLimit + 1) => Len(rows) = Len(found) - offset
        /\ offset + (PageLimit + 1) <= Len(found) => Len(rows) = PageLimit + 1
        /\ \A i \in 1..Len(rows) : rows[i] = found[offset + i]
    <3>1. rows \in Seq(Entries) /\ RowsFrom(found, PageLimit + 1, offset, rows)
      BY <1>1, <1>3, RowsAre DEF rows
    <3>2. QED
      BY <3>1, Zenon DEF RowsFrom
  <2>2. Len(rows) \in Nat
    BY <2>1
  <2>3. QED
    BY <2>1, <2>2
<1> HIDE DEF rows
<1>5. /\ shown \in Seq(Entries) /\ Len(shown) \in Nat
      /\ 0 <= Len(rows) /\ Len(rows) <= 0 + PageLimit => Len(shown) = Len(rows) - 0
      /\ 0 + PageLimit <= Len(rows) => Len(shown) = PageLimit
      /\ \A i \in 1..Len(shown) : 0 + i \in 1..Len(rows) /\ shown[i] = rows[0 + i]
  <2>1. shown \in Seq(Entries) /\ RowsFrom(rows, PageLimit, 0, shown)
    BY <1>3, <1>4, RowsAre
  <2>2. Len(shown) \in Nat
    BY <2>1
  <2> HIDE DEF shown
  <2>3. QED
    BY <2>1, <2>2, Zenon DEF RowsFrom
<1> HIDE DEF shown
<1>6. CASE place < offset + PageLimit
  <2>1. place + 1 - offset \in 1..Len(shown)
    BY <1>1, <1>3, <1>4, <1>5, <1>6
  <2>2. shown[place + 1 - offset] = e
    <3>1. shown[place + 1 - offset] = rows[place + 1 - offset] /\ place + 1 - offset \in 1..Len(rows)
      BY <1>5, <2>1
    <3>2. rows[place + 1 - offset] = found[offset + (place + 1 - offset)]
      BY <1>4, <3>1
    <3>3. offset + (place + 1 - offset) = place + 1
      BY <1>1
    <3>4. QED
      BY <1>1, <3>1, <3>2, <3>3
  <2>3. DOMAIN shown = 1..Len(shown)
    BY <1>5
  <2>4. QED
    BY <1>2, <2>1, <2>2, <2>3 DEF ToSet, page, place
<1>7. CASE place >= offset + PageLimit
  <2>1. Len(rows) > PageLimit
    BY <1>1, <1>3, <1>4, <1>7
  <2>2. QED
    BY <1>2, <1>7, <2>1 DEF page, place
<1>8. place < offset + PageLimit \/ place >= offset + PageLimit
  BY <1>1, <1>3
<1>9. QED
  BY <1>6, <1>7, <1>8

LEMMA PageTyped ==
  ASSUME EntriesOK, NEW visit, NEW offset \in Nat
  PROVE  LET page == Page(visit, PageLimit, offset)
         IN  page.items \subseteq Entries /\ page.nextOffset \in Nat /\ page.hasMore \in BOOLEAN
<1> DEFINE rows == Rows(Found(visit), PageLimit + 1, offset)
           shown == Rows(rows, PageLimit, 0)
<1>1. PageLimit \in Nat /\ PageLimit + 1 \in Nat /\ Found(visit) \in Seq(Entries)
  BY ReaderAssumption, FoundAt
<1>2. rows \in Seq(Entries)
  BY <1>1, RowsAre
<1>3. shown \in Seq(Entries)
  BY <1>1, <1>2, RowsAre
<1> HIDE DEF shown
<1>4. ToSet(shown) \subseteq Entries
  BY <1>3 DEF ToSet
<1>5. QED
  BY <1>1, <1>4 DEF Page, shown

-----------------------------------------------------------------------------
\* The walk from page to page.

Walks ==
  [visit : Visits \cup {None}, offset : Nat, due : SUBSET Entries, seen : SUBSET Entries,
   moved : BOOLEAN, done : BOOLEAN]

\* An entry that has not been seen is still to come.
Ahead(w, e) == e \in w.seen \/ (~w.done /\ e \in Hits(w.visit) /\ Place(w.visit, e) >= w.offset)

WalkInv ==
  /\ EntriesOK
  /\ walk \in Walks
  /\ walk.visit = None => walk.due = {}
  /\ ~walk.moved => \A e \in walk.due : Ahead(walk, e)

\* Entries that are only added leave those found behind at least as many.
LEMMA PlaceGrows ==
  ASSUME EntriesOK, EntriesOK', NEW visit, Hits(visit) \subseteq Hits(visit)',
         \A d, e \in Hits(visit) : Higher(visit, d, e) <=> Higher(visit, d, e)',
         NEW e \in Hits(visit)
  PROVE  /\ e \in Hits(visit)' /\ Place(visit, e) \in Nat /\ Place(visit, e)' \in Nat
         /\ Place(visit, e) <= Place(visit, e)'
<1> DEFINE old == {d \in Hits(visit) : Higher(visit, d, e)}
           new == {d \in Hits(visit)' : Higher(visit, d, e)'}
<1>1. IsFiniteSet(Hits(visit)) /\ IsFiniteSet(Hits(visit)')
  <2>1. IsFiniteSet(Hits(visit))
    BY HitsEntries
  <2>2. Hits(visit)' \subseteq Entries
    BY DEF Hits, Searched, VisibleOn, Visible, EntriesOK
  <2>3. QED
    BY <2>1, <2>2, ReaderAssumption, FS_Subset
<1>2. old \subseteq new
  OBVIOUS
<1>3. IsFiniteSet(old) /\ IsFiniteSet(new)
  BY <1>1, FS_Subset
<1>4. Cardinality(old) <= Cardinality(new)
  BY <1>2, <1>3, FS_Subset
<1>5. Cardinality(old) \in Nat /\ Cardinality(new) \in Nat
  BY <1>3, FS_CardinalityType
<1>6. Place(visit, e) = Cardinality(old) /\ Place(visit, e)' = Cardinality(new)
  BY DEF Place
<1>7. QED
  BY <1>4, <1>5, <1>6

LEMMA EditKeepsWalk ==
  ASSUME WalkInv, Edit, EntriesOK'
  PROVE  WalkInv'
<1> DEFINE v == walk.visit
<1>1. PICK visit \in {v} :
        walk' = [walk EXCEPT !.moved = @ \/ (visit # None /\ ~walk.done /\ ~OnlyAdds(visit))]
  BY Zenon DEF Edit
<1>2. visit = v
  BY <1>1
<1>3. /\ walk'.visit = v /\ walk'.offset = walk.offset /\ walk'.due = walk.due
      /\ walk'.seen = walk.seen /\ walk'.done = walk.done /\ walk' \in Walks
      /\ walk'.moved <=> walk.moved \/ (v # None /\ ~walk.done /\ ~OnlyAdds(visit))
  BY <1>1, <1>2 DEF WalkInv, Walks
<1>4. ASSUME ~walk'.moved, NEW e \in walk.due
      PROVE  e \in walk.seen \/ (~walk.done /\ e \in Hits(visit)' /\ Place(visit, e)' >= walk.offset)
  <2>1. ~walk.moved /\ v # None /\ Ahead(walk, e)
    BY <1>3, <1>4 DEF WalkInv
  <2>2. CASE e \in walk.seen
    BY <2>2
  <2>3. CASE ~walk.done /\ e \in Hits(visit) /\ Place(visit, e) >= walk.offset
    <3>1. OnlyAdds(visit)
      BY <1>3, <1>4, <2>1, <2>3
    <3>2. /\ e \in Hits(visit)' /\ Place(visit, e) \in Nat /\ Place(visit, e)' \in Nat
          /\ Place(visit, e) <= Place(visit, e)'
      BY <2>3, <3>1, PlaceGrows DEF OnlyAdds, WalkInv
    <3>3. walk.offset \in Nat
      BY DEF WalkInv, Walks
    <3>4. QED
      BY <2>3, <3>2, <3>3
  <2>4. QED
    BY <1>2, <2>1, <2>2, <2>3 DEF Ahead
<1>5. \A e \in walk'.due : ~walk'.moved => Ahead(walk, e)'
  BY <1>2, <1>3, <1>4 DEF Ahead
<1>6. QED
  BY <1>3, <1>5 DEF WalkInv

LEMMA OpenListKeepsWalk ==
  ASSUME WalkInv, NEW visit \in Visits, OpenList(visit)
  PROVE  WalkInv'
<1> DEFINE page == Page(visit, PageLimit, 0)
<1>1. /\ walk' = [visit |-> visit, offset |-> page.nextOffset, due |-> Hits(visit), seen |-> page.items,
                  moved |-> FALSE, done |-> ~page.hasMore]
      /\ UNCHANGED <<stored, enabled, hidden, feedback, summaries, edits>>
  BY DEF OpenList
<1>2. EntriesOK /\ EntriesOK' /\ visit # None
  BY <1>1, ReaderAssumption DEF WalkInv, EntriesOK
<1>3. page.items \subseteq Entries /\ page.nextOffset \in Nat /\ page.hasMore \in BOOLEAN
  BY <1>2, PageTyped
<1>4. Hits(visit) \subseteq Entries
  BY <1>2, HitsEntries
<1>5. ASSUME NEW e \in Hits(visit)
      PROVE  e \in page.items \/ (Place(visit, e) >= page.nextOffset /\ page.hasMore = TRUE)
  <2>1. Place(visit, e) >= 0
    BY <1>2, FoundAt
  <2>2. QED
    BY <1>2, <2>1, PageShows
<1>6. \A e : (e \in Hits(visit)' <=> e \in Hits(visit)) /\ Place(visit, e)' = Place(visit, e)
  BY <1>1 DEF Place, Hits, Searched, VisibleOn, Visible, Matches, TextOf, Higher, Rank
<1> HIDE DEF page
<1>7. /\ walk'.visit = visit /\ walk'.offset = page.nextOffset /\ walk'.due = Hits(visit)
      /\ walk'.seen = page.items /\ walk'.done = ~page.hasMore
  BY <1>1
<1>8. walk' \in Walks
  BY <1>1, <1>3, <1>4 DEF Walks
<1>9. \A e \in walk'.due : Ahead(walk, e)'
  BY <1>5, <1>6, <1>7 DEF Ahead
<1>10. QED
  BY <1>2, <1>7, <1>8, <1>9 DEF WalkInv

LEMMA LoadMoreKeepsWalk ==
  ASSUME WalkInv, LoadMore
  PROVE  WalkInv'
<1> DEFINE visit == walk.visit
           page == Page(visit, PageLimit, walk.offset)
<1>1. /\ visit # None /\ ~walk.done
      /\ walk' = [walk EXCEPT !.offset = page.nextOffset, !.seen = @ \cup page.items,
                              !.done = ~page.hasMore]
      /\ UNCHANGED <<stored, enabled, hidden, feedback, summaries, edits>>
  BY DEF LoadMore
<1>2. EntriesOK /\ EntriesOK' /\ walk \in Walks /\ walk.offset \in Nat
  BY <1>1 DEF WalkInv, EntriesOK, Walks
<1>3. page.items \subseteq Entries /\ page.nextOffset \in Nat /\ page.hasMore \in BOOLEAN
  BY <1>2, PageTyped
<1>4. ASSUME NEW e \in Hits(visit), Place(visit, e) >= walk.offset
      PROVE  e \in page.items \/ (Place(visit, e) >= page.nextOffset /\ page.hasMore = TRUE)
  BY <1>2, <1>4, PageShows
<1> HIDE DEF page
<1>5. /\ walk'.visit = walk.visit /\ walk'.offset = page.nextOffset /\ walk'.due = walk.due
      /\ walk'.seen = walk.seen \cup page.items /\ walk'.done = ~page.hasMore
      /\ walk'.moved = walk.moved /\ walk' \in Walks
  BY <1>1, <1>2, <1>3 DEF Walks
<1>6. ASSUME NEW v
      PROVE  \A e : (e \in Hits(v)' <=> e \in Hits(v)) /\ Place(v, e)' = Place(v, e)
  BY <1>1 DEF Place, Hits, Searched, VisibleOn, Visible, Matches, TextOf, Higher, Rank
<1>7. ASSUME ~walk.moved, NEW e \in walk.due
      PROVE  Ahead(walk, e)'
  <2>1. SUFFICES ASSUME NEW w, w = walk' PROVE Ahead(w, e)'
    OBVIOUS
  <2>2. Ahead(walk, e)
    BY <1>7 DEF WalkInv
  <2>3. e \in page.items \/ e \in walk.seen
          \/ (e \in Hits(visit) /\ Place(visit, e) >= page.nextOffset /\ page.hasMore = TRUE)
    BY <1>4, <2>2 DEF Ahead
  <2>4. QED
    BY <1>5, <1>6, <2>1, <2>3 DEF Ahead
<1>8. QED
  BY <1>1, <1>2, <1>5, <1>7 DEF WalkInv

-----------------------------------------------------------------------------
\* Folds: what MapThenFoldSet takes out of the set first is folded in last.

Below == {p \in Nat \X Nat : p[1] < p[2]}

LEMMA BelowIsWellFounded == IsWellFoundedOn(Below, Nat)
<1>1. OpToRel(<, Nat) = Below
  BY Zenon DEF OpToRel, Below
<1>2. QED
  BY <1>1, NatLessThanWellFounded, Zenon

LEMMA SmallestNat ==
  ASSUME NEW T \in SUBSET Nat, T # {}
  PROVE  \E n \in T : \A m \in T : n <= m
<1>1. PICK n \in T : \A m \in T : ~(<<m, n>> \in Below)
  BY BelowIsWellFounded, WFMin, Zenon
<1>2. ASSUME NEW m \in T PROVE n <= m
  <2>1. n \in Nat /\ m \in Nat /\ ~(<<m, n>> \in Below)
    BY <1>1
  <2>2. ~(m < n)
    BY <2>1 DEF Below
  <2>3. QED
    BY <2>1, <2>2
<1>3. QED
  BY <1>2

LEMMA MaxIsMember ==
  ASSUME NEW n \in Nat, NEW T \in SUBSET (1..n), T # {}
  PROVE  Max(T) \in T
<1> DEFINE U == {n - x : x \in T}
<1>1. U \in SUBSET Nat /\ U # {} /\ \A x \in T : n - x \in U /\ x \in Nat
  <2>1. \A x \in T : n - x \in Nat /\ x \in Nat /\ n - x \in U
    OBVIOUS
  <2>2. \A u \in U : \E x \in T : u = n - x
    OBVIOUS
  <2>3. QED
    BY <2>1, <2>2
<1>2. PICK u \in U : \A v \in U : u <= v
  <2> HIDE DEF U
  <2>1. QED
    BY <1>1, SmallestNat
<1>3. PICK x \in T : u = n - x
  OBVIOUS
<1>4. ASSUME NEW y \in T PROVE x >= y
  <2>1. u <= n - y /\ x \in Nat /\ y \in Nat
    BY <1>1, <1>2
  <2>2. QED
    BY <1>3, <2>1
<1>5. QED
  BY <1>4 DEF Max

\* ch takes an element out of every subset of C but the empty one.
Takes(ch, C) == \A s \in SUBSET C : s # {} => ch[s] \in s

\* f is the fold of step over C.
Folds(f, C, ch, base, step) ==
  /\ f[{}] = base
  /\ \A s \in SUBSET C : s # {} => f[s] = step[<<f[s \ {ch[s]}], ch[s]>>]

\* The fold exists, with values in A.
LEMMA FoldExists ==
  ASSUME NEW C, IsFiniteSet(C), NEW ch, Takes(ch, C),
         NEW A, NEW base \in A, NEW step \in [A \X C -> A]
  PROVE  \E f \in [SUBSET C -> A] : Folds(f, C, ch, base, step)
<1> DEFINE K(n) == {s \in SUBSET C : Cardinality(s) <= n}
           Solves(f, s) == f[s] = IF s = {} THEN base ELSE step[<<f[s \ {ch[s]}], ch[s]>>]
           Solved(n) == \E f \in [K(n) -> A] : \A s \in K(n) : Solves(f, s)
<1>1. \A s \in SUBSET C : IsFiniteSet(s) /\ Cardinality(s) \in Nat
  BY FS_Subset, FS_CardinalityType
<1>2. ASSUME NEW s \in SUBSET C, s # {}
      PROVE  /\ ch[s] \in C /\ s \ {ch[s]} \in SUBSET C
             /\ Cardinality(s \ {ch[s]}) = Cardinality(s) - 1
  BY <1>1, <1>2, FS_RemoveElement DEF Takes
<1>3. Solved(0)
  <2>1. \A s \in K(0) : s = {}
    BY <1>1, FS_EmptySet
  <2>2. [s \in K(0) |-> base] \in [K(0) -> A]
    OBVIOUS
  <2>3. \A s \in K(0) : Solves([t \in K(0) |-> base], s)
    BY <2>1
  <2>4. QED
    BY <2>2, <2>3
<1>4. ASSUME NEW n \in Nat, Solved(n) PROVE Solved(n + 1)
  <2>1. PICK f \in [K(n) -> A] : \A s \in K(n) : Solves(f, s)
    BY <1>4
  <2> DEFINE g == [s \in K(n + 1) |-> IF s = {} THEN base ELSE step[<<f[s \ {ch[s]}], ch[s]>>]]
  <2>2. ASSUME NEW s \in K(n + 1), s # {}
        PROVE  s \ {ch[s]} \in K(n) /\ ch[s] \in C /\ f[s \ {ch[s]}] \in A
    <3>1. Cardinality(s \ {ch[s]}) <= n
      BY <1>1, <1>2, <2>2
    <3>2. QED
      BY <1>2, <2>2, <3>1
  <2>3. g \in [K(n + 1) -> A]
    BY <2>2
  <2>4. ASSUME NEW s \in K(n) PROVE s \in K(n + 1) /\ g[s] = f[s]
    <3>1. Cardinality(s) <= n + 1
      BY <1>1, <2>4
    <3>2. QED
      BY <2>1, <3>1
  <2>5. ASSUME NEW s \in K(n + 1) PROVE Solves(g, s)
    <3>1. s # {} => g[s \ {ch[s]}] = f[s \ {ch[s]}]
      BY <2>2, <2>4
    <3>2. QED
      BY <3>1
  <2> HIDE DEF g
  <2>6. QED
    BY <2>3, <2>5
<1> HIDE DEF Solved
<1>5. \A n \in Nat : Solved(n)
  <2> DEFINE T == {n \in Nat : ~Solved(n)}
  <2>1. SUFFICES ASSUME T # {} PROVE FALSE
    OBVIOUS
  <2>2. PICK n \in T : \A m \in T : n <= m
    BY <2>1, SmallestNat
  <2>3. n # 0
    BY <1>3
  <2>4. n - 1 \in Nat /\ n - 1 \notin T
    BY <2>2, <2>3
  <2>5. Solved((n - 1) + 1)
    BY <1>4, <2>4
  <2>6. QED
    BY <2>5
<1>6. K(Cardinality(C)) = SUBSET C /\ Cardinality(C) \in Nat
  BY FS_Subset, FS_CardinalityType
<1>7. PICK f \in [K(Cardinality(C)) -> A] : \A s \in K(Cardinality(C)) : Solves(f, s)
  BY <1>5, <1>6 DEF Solved
<1>8. f \in [SUBSET C -> A] /\ \A s \in SUBSET C : Solves(f, s)
  BY <1>6, <1>7
<1>9. Folds(f, C, ch, base, step)
  BY <1>8 DEF Folds
<1>10. QED
  BY <1>8, <1>9

\* What holds of the base and of each element folded in holds of the fold.
LEMMA FoldTyped ==
  ASSUME NEW C, IsFiniteSet(C), NEW ch, Takes(ch, C), NEW A, NEW f, f[{}] \in A,
         \A s \in SUBSET C : s # {} /\ f[s \ {ch[s]}] \in A => f[s] \in A
  PROVE  f[C] \in A
<1> DEFINE Bad == {s \in SUBSET C : f[s] \notin A}
<1>1. SUFFICES ASSUME Bad # {} PROVE FALSE
  OBVIOUS
<1>2. IsWellFoundedOn(StrictSubsetOrdering(C), FiniteSubsetsOf(C))
  BY FS_StrictSubsetOrderingWellFounded
<1>3. Bad \subseteq FiniteSubsetsOf(C)
  BY FS_Subset DEF FiniteSubsetsOf
<1>4. PICK s \in Bad : \A t \in Bad : ~(<<t, s>> \in StrictSubsetOrdering(C))
  BY <1>1, <1>2, <1>3, WFMin, Zenon
<1>5. s # {} /\ ch[s] \in s
  BY DEF Takes
<1>6. <<s \ {ch[s]}, s>> \in StrictSubsetOrdering(C)
  BY <1>5 DEF StrictSubsetOrdering
<1>7. QED
  BY <1>4, <1>5, <1>6

LEMMA MaxOf ==
  ASSUME NEW a \in Nat, NEW b \in Nat
  PROVE  Max({a, b}) \in Nat
<1>1. \E x \in {a, b} : \A y \in {a, b} : x >= y
  OBVIOUS
<1>2. Max({a, b}) \in {a, b}
  BY <1>1 DEF Max
<1>3. QED
  BY <1>2

\* Folding from left to right takes the last index first.
LEMMA LastTaken ==
  ASSUME NEW n \in Nat
  PROVE  /\ IsFiniteSet(1..n)
         /\ Takes([s \in SUBSET (1..n) |-> Max(s)], 1..n)
<1>1. IsFiniteSet(1..n)
  BY FS_Interval
<1>2. \A s \in SUBSET (1..n) : s # {} => Max(s) \in s
  BY MaxIsMember
<1>3. QED
  BY <1>1, <1>2 DEF Takes

LeftFolds(f, n, base, step) ==
  /\ f[{}] = base
  /\ \A s \in SUBSET (1..n) : s # {} => f[s] = step[<<f[s \ {Max(s)}], Max(s)>>]

LEMMA LeftFoldExists ==
  ASSUME NEW n \in Nat, NEW A, NEW base \in A, NEW step \in [A \X (1..n) -> A]
  PROVE  \E f \in [SUBSET (1..n) -> A] : LeftFolds(f, n, base, step)
<1> DEFINE ch == [s \in SUBSET (1..n) |-> Max(s)]
<1>1. IsFiniteSet(1..n) /\ Takes(ch, 1..n)
  BY LastTaken
<1>2. \A s \in SUBSET (1..n) : ch[s] = Max(s)
  OBVIOUS
<1> HIDE DEF ch
<1>3. PICK f \in [SUBSET (1..n) -> A] : Folds(f, 1..n, ch, base, step)
  BY <1>1, FoldExists
<1>4. LeftFolds(f, n, base, step)
  BY <1>2, <1>3 DEF Folds, LeftFolds
<1>5. QED
  BY <1>4

LEMMA LastIn ==
  ASSUME NEW n \in Nat, NEW s \in SUBSET (1..n), s # {}
  PROVE  Max(s) \in 1..n /\ s \ {Max(s)} \in SUBSET (1..n)
BY MaxIsMember

LEMMA Inducts ==
  ASSUME NEW n \in Nat, NEW T, 0 \in T, \A i \in 1..n : i - 1 \in T => i \in T
  PROVE  n \in T
<1> DEFINE U == {i \in 0..n : i \notin T}
<1>1. SUFFICES ASSUME U # {} PROVE FALSE
  BY DEF U
<1>2. U \in SUBSET Nat
  OBVIOUS
<1>3. PICK i \in U : \A j \in U : i <= j
  BY <1>1, <1>2, SmallestNat
<1>4. i \in 1..n /\ i - 1 \in 0..n /\ ~(i <= i - 1)
  OBVIOUS
<1>5. QED
  BY <1>3, <1>4

\* A left fold takes one element after another.
AddsIn(f, n, A, base, add) ==
  /\ f[{}] = base
  /\ \A s \in SUBSET (1..n) : s # {} /\ f[s \ {Max(s)}] \in A => f[s] = add[<<f[s \ {Max(s)}], Max(s)>>]

Steps(h, n, base, add, last) ==
  /\ h[0] = base /\ h[n] = last
  /\ \A i \in 1..n : h[i] = add[<<h[i - 1], i>>]

LEMMA LeftFoldSteps ==
  ASSUME NEW n \in Nat, NEW A, NEW f, NEW base \in A, NEW add \in [A \X (1..n) -> A],
         AddsIn(f, n, A, base, add)
  PROVE  \E h \in [0..n -> A] : Steps(h, n, base, add, f[1..n])
<1> USE DEF AddsIn, Steps
<1> DEFINE h == [i \in 0..n |-> f[1..i]]
<1>1. ASSUME NEW i \in 1..n
      PROVE  /\ (1..i) \in SUBSET (1..n) /\ 1..i # {} /\ Max(1..i) = i /\ (1..i) \ {i} = 1..(i - 1)
             /\ i - 1 \in 0..n
  <2>1. (1..i) \in SUBSET (1..n) /\ i \in 1..i /\ (1..i) \ {i} = 1..(i - 1) /\ i - 1 \in 0..n
    OBVIOUS
  <2>2. Max(1..i) \in 1..i
    <3> DEFINE S == 1..i
    <3>1. S \in SUBSET (1..n) /\ S # {}
      BY <2>1
    <3> HIDE DEF S
    <3>2. Max(S) \in S
      BY <3>1, MaxIsMember
    <3>3. QED
      BY <3>2 DEF S
  <2>3. \E x \in 1..i : \A y \in 1..i : x >= y
    BY <2>1
  <2>4. \A y \in 1..i : Max(1..i) >= y
    BY <2>3 DEF Max
  <2>5. Max(1..i) = i
    BY <2>1, <2>2, <2>4
  <2>6. QED
    BY <2>1, <2>5
<1>2. f[1..0] = base /\ 1..0 = {}
  OBVIOUS
<1>3. ASSUME NEW i \in 1..n, f[1..(i - 1)] \in A
      PROVE  f[1..i] = add[<<f[1..(i - 1)], i>>] /\ f[1..i] \in A
  <2> DEFINE S == 1..i
  <2>1. S \in SUBSET (1..n) /\ S # {} /\ Max(S) = i /\ S \ {Max(S)} = 1..(i - 1)
    BY <1>1
  <2> HIDE DEF S
  <2>2. f[S \ {Max(S)}] \in A
    BY <1>3, <2>1
  <2>3. f[S] = add[<<f[S \ {Max(S)}], Max(S)>>]
    BY <2>1, <2>2
  <2>4. f[S] = add[<<f[1..(i - 1)], i>>]
    BY <2>1, <2>3
  <2>5. f[S] \in A
    BY <1>3, <2>4
  <2>6. QED
    BY <2>4, <2>5 DEF S
<1>4. ASSUME NEW i \in 0..n PROVE f[1..i] \in A
  <2> DEFINE K == {j \in 0..i : f[1..j] \in A}
  <2>1. 0 \in K
    BY <1>2
  <2>2. ASSUME NEW j \in 1..i, j - 1 \in K PROVE j \in K
    <3>1. j \in 1..n /\ f[1..(j - 1)] \in A /\ j \in 0..i
      BY <2>2
    <3>2. f[1..j] \in A
      BY <1>3, <3>1
    <3>3. QED
      BY <3>1, <3>2
  <2> HIDE DEF K
  <2>3. i \in K
    BY <2>1, <2>2, Inducts
  <2>4. QED
    BY <2>3 DEF K
<1>5. h \in [0..n -> A]
  BY <1>4
<1>6. h[0] = base /\ h[n] = f[1..n]
  BY <1>2
<1>7. \A i \in 1..n : h[i] = add[<<h[i - 1], i>>]
  BY <1>1, <1>3, <1>4
<1>8. QED
  BY <1>5, <1>6, <1>7

-----------------------------------------------------------------------------
\* What the digest is made of: entries that are visible, and their penalties.

LEMMA PenaltyTyped ==
  ASSUME feedback \in Seq(Feedback), NEW e
  PROVE  Penalty(e) \in Nat
<1> DEFINE C == {i \in DOMAIN feedback : feedback[i].entry = e /\ feedback[i].status # "dismissed"}
           ch == [s \in SUBSET C |-> CHOOSE x \in s : TRUE]
           W(i) == Weight[feedback[i].type]
           Sum(f) == [s \in SUBSET C |->
                        IF s = {} THEN 0
                        ELSE W(CHOOSE x \in s : TRUE) + f[s \ {CHOOSE x \in s : TRUE}]]
           sum == CHOOSE f : f = Sum(f)
           step == [p \in Nat \X C |-> W(p[2]) + p[1]]
<1>1. DOMAIN feedback = 1..Len(feedback) /\ Len(feedback) \in Nat
  OBVIOUS
<1>2. IsFiniteSet(C)
  <2>1. IsFiniteSet(1..Len(feedback)) /\ C \subseteq 1..Len(feedback)
    BY <1>1, FS_Interval
  <2> HIDE DEF C
  <2>2. QED
    BY <2>1, FS_Subset
<1>3. \A i \in C : W(i) \in Nat
  <2>1. ASSUME NEW i \in DOMAIN feedback PROVE feedback[i].type \in DOMAIN Weight
    <3>1. feedback[i] \in Feedback
      BY <1>1, <2>1
    <3>2. QED
      BY <3>1 DEF Feedback
  <2>2. \A t \in DOMAIN Weight : Weight[t] \in Nat
    BY DEF Weight
  <2>3. QED
    BY <2>1, <2>2
<1> HIDE DEF C, W
<1>4. Takes(ch, C)
  BY DEF Takes
<1>5. step \in [Nat \X C -> Nat]
  BY <1>3
<1>6. \E f : f = Sum(f)
  <2>1. PICK f \in [SUBSET C -> Nat] : Folds(f, C, ch, 0, step)
    <3>1. 0 \in Nat
      OBVIOUS
    <3> HIDE DEF ch, step
    <3>2. QED
      BY <1>2, <1>4, <1>5, <3>1, FoldExists
  <2>2. ASSUME NEW s \in SUBSET C, s # {}
        PROVE  step[<<f[s \ {ch[s]}], ch[s]>>] =
                 W(CHOOSE x \in s : TRUE) + f[s \ {CHOOSE x \in s : TRUE}]
    <3>1. ch[s] = (CHOOSE x \in s : TRUE) /\ ch[s] \in C /\ f[s \ {ch[s]}] \in Nat
      BY <1>4, <2>2 DEF Takes
    <3> HIDE DEF ch
    <3>2. QED
      BY <3>1
  <2> HIDE DEF ch, step
  <2>3. f = Sum(f)
    BY <2>1, <2>2 DEF Folds
  <2>4. QED
    BY <2>3
<1>7. sum = Sum(sum)
  <2> HIDE DEF Sum
  <2>1. QED
    BY <1>6
<1> HIDE DEF sum
<1>8. sum[C] \in Nat
  <2>1. sum[{}] \in Nat
    BY <1>7
  <2>2. ASSUME NEW s \in SUBSET C, s # {}, sum[s \ {ch[s]}] \in Nat
        PROVE  sum[s] \in Nat
    <3>1. ch[s] = (CHOOSE x \in s : TRUE) /\ ch[s] \in C
      BY <1>4, <2>2 DEF Takes
    <3>2. sum[s] = W(ch[s]) + sum[s \ {ch[s]}]
      BY <1>7, <2>2, <3>1
    <3> HIDE DEF ch
    <3>3. QED
      BY <1>3, <2>2, <3>1, <3>2
  <2> HIDE DEF ch
  <2>3. QED
    BY <1>2, <1>4, <2>1, <2>2, FoldTyped
<1>9. MapThenSumSet(LAMBDA i : Weight[feedback[i].type], C) = sum[C]
  BY DEF MapThenSumSet, MapThenFoldSet, sum, W
<1>10. Penalty(e) = Min({8, sum[C]})
  BY <1>9 DEF Penalty, C
<1>11. QED
  BY <1>8, <1>10, MinOf

LEMMA VisibleEntries ==
  ASSUME EntriesOK, NEW board
  PROVE  VisibleOn(board) \subseteq Entries /\ IsFiniteSet(VisibleOn(board))
<1>1. VisibleOn(board) \subseteq Entries
  BY DEF VisibleOn, Visible, EntriesOK
<1>2. QED
  BY <1>1, FS_Subset, ReaderAssumption

-----------------------------------------------------------------------------
\* One pass over a group of a digest, and the three of them.

LEMMA RowAppended ==
  ASSUME NEW S, NEW acc \in Seq(S), NEW e \in S
  PROVE  /\ Append(acc, e) \in Seq(S)
         /\ ToSet(Append(acc, e)) = ToSet(acc) \cup {e}
         /\ Len(Append(acc, e)) = Len(acc) + 1
         /\ \A i \in 1..Len(acc) : Append(acc, e)[i] = acc[i]
         /\ Append(acc, e)[Len(acc) + 1] = e
<1>1. /\ Append(acc, e) \in Seq(S) /\ Len(Append(acc, e)) = Len(acc) + 1
      /\ \A i \in 1..Len(acc) : Append(acc, e)[i] = acc[i]
      /\ Append(acc, e)[Len(acc) + 1] = e
      /\ Len(acc) \in Nat /\ DOMAIN acc = 1..Len(acc)
      /\ DOMAIN Append(acc, e) = 1..(Len(acc) + 1)
  OBVIOUS
<1> DEFINE next == Append(acc, e)
           m == Len(acc)
<1> HIDE DEF next, m
<1>2. /\ \A i \in 1..m : next[i] = acc[i]
      /\ next[m + 1] = e /\ m \in Nat
      /\ DOMAIN acc = 1..m /\ DOMAIN next = 1..(m + 1)
  BY <1>1 DEF next, m
<1>3. ToSet(next) \subseteq ToSet(acc) \cup {e}
  <2>1. SUFFICES ASSUME NEW i \in 1..(m + 1) PROVE next[i] \in ToSet(acc) \cup {e}
    BY <1>2 DEF ToSet
  <2>2. i \in 1..m \/ i = m + 1
    BY <1>2
  <2>3. QED
    BY <1>2, <2>2 DEF ToSet
<1>4. ToSet(acc) \cup {e} \subseteq ToSet(next)
  <2>1. m + 1 \in 1..(m + 1) /\ \A i \in 1..m : i \in 1..(m + 1)
    BY <1>2
  <2>2. QED
    BY <1>2, <2>1 DEF ToSet
<1>5. QED
  BY <1>1, <1>3, <1>4 DEF next

\* What was not fit for fewer rows is not fit for more.
LEMMA FitsLess ==
  ASSUME NEW acc, NEW next, ToSet(acc) \subseteq ToSet(next), IsFiniteSet(ToSet(next)),
         NEW pass, NEW e, Fits(pass, next, e)
  PROVE  Fits(pass, acc, e)
<1> DEFINE s == SourceOf[e]
           few == Cardinality(FromSource(acc, s))
           many == Cardinality(FromSource(next, s))
<1>1. ~HasBoard(next, BoardOf[s]) => ~HasBoard(acc, BoardOf[s])
  BY DEF HasBoard
<1>2. FromSource(acc, s) \subseteq FromSource(next, s) /\ FromSource(next, s) \subseteq ToSet(next)
  BY DEF FromSource
<1>3. IsFiniteSet(FromSource(next, s))
  BY <1>2, FS_Subset
<1>4. few <= many /\ IsFiniteSet(FromSource(acc, s))
  BY <1>2, <1>3, FS_Subset
<1>5. few \in Nat /\ many \in Nat /\ SourceItemLimit \in Nat
  BY <1>3, <1>4, FS_CardinalityType, ReaderAssumption
<1>6. BelowSourceLimit(next, e) => BelowSourceLimit(acc, e)
  <2>1. (BelowSourceLimit(next, e) <=> many < SourceItemLimit)
        /\ (BelowSourceLimit(acc, e) <=> few < SourceItemLimit)
    BY DEF BelowSourceLimit
  <2> HIDE DEF few, many
  <2>2. QED
    BY <1>4, <1>5, <2>1
<1>7. QED
  BY <1>1, <1>6 DEF Fits

AtMost(T) == \A s : Cardinality({e \in T : SourceOf[e] = s}) <= SourceItemLimit

OnePerBoard(T) == \A d, e \in T : BoardOf[SourceOf[d]] = BoardOf[SourceOf[e]] => d = e

\* Of one source in G, the newest are in T.
NewestIn(G, T) == \A d, e \in G : SourceOf[d] = SourceOf[e] /\ Newer(d, e) /\ e \in T => d \in T

\* What a pass over G keeps of the rows chosen so far.
PassOK(pass, base, limit, G, acc) ==
  /\ acc \in Seq(G) /\ Len(acc) = Cardinality(ToSet(acc)) /\ Len(acc) <= limit
  /\ ToSet(base) \subseteq ToSet(acc)
  /\ Len(base) = limit => acc = base
  /\ NewestIn(G, ToSet(acc))
  /\ pass # "rest" => AtMost(ToSet(acc))
  /\ pass = "boards" => OnePerBoard(ToSet(acc))

\* Why a row that the pass has come by is not among those chosen.
PassedBy(pass, limit, acc, e) == e \in ToSet(acc) \/ Len(acc) = limit \/ ~Fits(pass, acc, e)

\* What addRow makes of a row that the pass comes by.
RowTaken(pass, limit, acc, e) ==
  IF Len(acc) < limit /\ e \notin ToSet(acc) /\ Fits(pass, acc, e) THEN Append(acc, e) ELSE acc

\* One row of a pass.
LEMMA RowOfPass ==
  ASSUME NEW G, IsFiniteSet(G), NEW limit \in Nat, NEW pass \in {"boards", "spread", "rest"},
         NEW base, NEW acc, PassOK(pass, base, limit, G, acc), NEW e \in G,
         \A d \in G : Newer(d, e) => PassedBy(pass, limit, acc, d),
         NEW next, next = RowTaken(pass, limit, acc, e)
  PROVE  /\ PassOK(pass, base, limit, G, next)
         /\ PassedBy(pass, limit, next, e)
         /\ \A d : PassedBy(pass, limit, acc, d) => PassedBy(pass, limit, next, d)
<1> USE DEF RowTaken
<1>1. acc \in Seq(G) /\ Len(acc) \in Nat /\ Len(acc) <= limit
  BY DEF PassOK
<1>2. ToSet(acc) \subseteq G
  BY <1>1 DEF ToSet
<1>3. CASE next = acc
  <2>1. PassedBy(pass, limit, acc, e)
    <3>1. CASE Len(acc) < limit /\ e \notin ToSet(acc) /\ Fits(pass, acc, e)
      <4>1. Len(Append(acc, e)) = Len(acc) + 1
        BY <1>1
      <4>2. QED
        BY <1>1, <1>3, <3>1, <4>1
    <3>2. CASE ~(Len(acc) < limit /\ e \notin ToSet(acc) /\ Fits(pass, acc, e))
      BY <1>1, <3>2 DEF PassedBy
    <3>3. QED
      BY <3>1, <3>2
  <2>2. QED
    BY <1>3, <2>1
<1>4. CASE Len(acc) < limit /\ e \notin ToSet(acc) /\ Fits(pass, acc, e) /\ next = Append(acc, e)
  <2> DEFINE T == ToSet(acc)
             U == ToSet(next)
  <2>1. next \in Seq(G) /\ U = T \cup {e} /\ Len(next) = Len(acc) + 1
    BY <1>1, <1>4, RowAppended
  <2>2. U \subseteq G /\ IsFiniteSet(T) /\ IsFiniteSet(U)
    <3>1. U \subseteq G /\ T \subseteq G
      BY <1>2, <2>1
    <3> HIDE DEF U, T
    <3>2. QED
      BY <3>1, FS_Subset
  <2>3. Cardinality(U) = Cardinality(T) + 1
    BY <1>4, <2>1, <2>2, FS_AddElement
  <2>4. Len(next) = Cardinality(U) /\ Len(next) <= limit
    BY <1>1, <1>4, <2>1, <2>3 DEF PassOK
  <2>5. ToSet(base) \subseteq U
    BY <2>1 DEF PassOK
  <2>6. Len(base) # limit
    BY <1>4 DEF PassOK
  <2>7. ASSUME NEW d \in G, NEW f \in G, SourceOf[d] = SourceOf[f], Newer(d, f), f \in U
        PROVE  d \in U
    <3>1. CASE f \in T
      <4>1. d \in T
        BY <2>7, <3>1 DEF PassOK, NewestIn
      <4>2. QED
        BY <2>1, <4>1
    <3>2. CASE f = e
      <4>1. PassedBy(pass, limit, acc, d)
        BY <2>7, <3>2
      <4>2. Fits(pass, acc, d)
        BY <1>4, <2>7, <3>2 DEF Fits, BelowSourceLimit
      <4>3. Len(acc) # limit
        BY <1>1, <1>4
      <4>4. QED
        BY <2>1, <4>1, <4>2, <4>3 DEF PassedBy
    <3>3. QED
      BY <2>1, <2>7, <3>1, <3>2
  <2>8. ASSUME pass # "rest" PROVE AtMost(U)
    <3> SUFFICES ASSUME NEW s PROVE Cardinality({d \in U : SourceOf[d] = s}) <= SourceItemLimit
      BY DEF AtMost
    <3> DEFINE few == {d \in T : SourceOf[d] = s}
               many == {d \in U : SourceOf[d] = s}
    <3>1. Cardinality(few) <= SourceItemLimit /\ IsFiniteSet(few) /\ Cardinality(few) \in Nat
      <4>1. Cardinality(few) <= SourceItemLimit
        BY <2>8 DEF PassOK, AtMost
      <4>2. few \subseteq T
        OBVIOUS
      <4>3. IsFiniteSet(few)
        <5> HIDE DEF few, T
        <5>1. QED
          BY <2>2, <4>2, FS_Subset
      <4>4. QED
        BY <4>1, <4>3, FS_CardinalityType
    <3>2. CASE SourceOf[e] # s
      <4>1. many = few
        BY <2>1, <3>2
      <4>2. QED
        BY <3>1, <4>1
    <3>3. CASE SourceOf[e] = s
      <4>1. many = few \cup {e} /\ e \notin few
        BY <1>4, <2>1, <3>3
      <4>2. few = FromSource(acc, SourceOf[e])
        BY <3>3 DEF FromSource
      <4>3. Cardinality(few) < SourceItemLimit
        BY <1>4, <2>8, <4>2 DEF Fits, BelowSourceLimit
      <4> HIDE DEF few, many
      <4>4. Cardinality(many) = Cardinality(few) + 1
        BY <3>1, <4>1, FS_AddElement
      <4>5. SourceItemLimit \in Nat
        BY ReaderAssumption
      <4>6. Cardinality(many) <= SourceItemLimit
        BY <3>1, <4>3, <4>4, <4>5
      <4>7. QED
        BY <4>6 DEF many
    <3>4. QED
      BY <3>2, <3>3
  <2>9. ASSUME pass = "boards" PROVE OnePerBoard(U)
    <3>1. OnePerBoard(T)
      BY <2>9 DEF PassOK
    <3>2. \A d \in T : BoardOf[SourceOf[d]] # BoardOf[SourceOf[e]]
      BY <1>4, <2>9 DEF Fits, HasBoard
    <3>3. QED
      BY <2>1, <3>1, <3>2 DEF OnePerBoard
  <2>10. PassOK(pass, base, limit, G, next)
    BY <2>1, <2>4, <2>5, <2>6, <2>7, <2>8, <2>9 DEF PassOK, NewestIn
  <2>11. PassedBy(pass, limit, next, e)
    BY <2>1 DEF PassedBy
  <2>12. ASSUME NEW d, PassedBy(pass, limit, acc, d) PROVE PassedBy(pass, limit, next, d)
    <3>1. Len(acc) # limit /\ T \subseteq U
      BY <1>1, <1>4, <2>1
    <3>2. Fits(pass, next, d) => Fits(pass, acc, d)
      BY <2>2, <3>1, FitsLess
    <3>3. QED
      BY <2>12, <3>1, <3>2 DEF PassedBy
  <2>13. QED
    BY <2>10, <2>11, <2>12
<1>5. QED
  BY <1>3, <1>4

\* The rows of a group, one after another.
RowSteps(h, chosen, group, limit, pass) ==
  /\ h[0] = chosen /\ h[Len(group)] = AddRows(chosen, group, limit, pass)
  /\ \A i \in 1..Len(group) : h[i] = RowTaken(pass, limit, h[i - 1], group[i])

LEMMA AddRowsSteps ==
  ASSUME NEW S, NEW chosen \in Seq(S), NEW group \in Seq(S), NEW limit, NEW pass
  PROVE  \E h \in [0..Len(group) -> Seq(S)] : RowSteps(h, chosen, group, limit, pass)
<1> DEFINE A == Seq(S)
           n == Len(group)
           Add(acc, e) == IF Len(acc) < limit /\ e \notin ToSet(acc) /\ Fits(pass, acc, e)
                          THEN Append(acc, e) ELSE acc
           Body(f) == [s \in SUBSET (1..n) |->
                         IF s = {} THEN chosen ELSE Add(f[s \ {Max(s)}], group[Max(s)])]
           fold == CHOOSE f : f = Body(f)
           step == [x \in A \X (1..n) |-> Add(x[1], group[x[2]])]
<1>1. \A acc \in A, e \in S : Add(acc, e) \in A
  OBVIOUS
<1>2. n \in Nat /\ DOMAIN group = 1..n /\ \A i \in 1..n : group[i] \in S
  OBVIOUS
<1>3. AddRows(chosen, group, limit, pass) = fold[1..n]
  <2> HIDE DEF n
  <2>1. QED
    BY <1>2 DEF AddRows, FoldLeft, MapThenFoldSet
<1>4. chosen \in A
  OBVIOUS
<1> HIDE DEF A, Add, n
<1>5. step \in [A \X (1..n) -> A]
  BY <1>1, <1>2
<1>6. \E f : f = Body(f)
  <2>1. PICK f \in [SUBSET (1..n) -> A] : LeftFolds(f, n, chosen, step)
    <3> HIDE DEF step
    <3>1. QED
      BY <1>2, <1>4, <1>5, LeftFoldExists
  <2>2. ASSUME NEW s \in SUBSET (1..n), s # {}
        PROVE  step[<<f[s \ {Max(s)}], Max(s)>>] = Add(f[s \ {Max(s)}], group[Max(s)])
    BY <1>2, <2>1, <2>2, LastIn
  <2> HIDE DEF step
  <2>3. f = Body(f)
    BY <2>1, <2>2 DEF LeftFolds
  <2>4. QED
    BY <2>3
<1>7. fold = Body(fold)
  <2> HIDE DEF Body
  <2>1. QED
    BY <1>6
<1> HIDE DEF fold
<1>8. fold[{}] = chosen
  BY <1>7
<1>9. AddsIn(fold, n, A, chosen, step)
  <2>1. ASSUME NEW s \in SUBSET (1..n), s # {}, fold[s \ {Max(s)}] \in A
        PROVE  fold[s] = step[<<fold[s \ {Max(s)}], Max(s)>>]
    BY <1>2, <1>7, <2>1, LastIn
  <2> HIDE DEF step
  <2>2. QED
    BY <1>8, <2>1 DEF AddsIn
<1>10. \A x \in A, i \in 1..n : step[<<x, i>>] = Add(x, group[i])
  OBVIOUS
<1> HIDE DEF step
<1>11. PICK h \in [0..n -> A] : Steps(h, n, chosen, step, fold[1..n])
  BY <1>2, <1>4, <1>5, <1>9, LeftFoldSteps
<1>12. \A i \in 1..n : h[i] = Add(h[i - 1], group[i])
  <2>1. ASSUME NEW i \in 1..n PROVE h[i - 1] \in A
    <3>1. i - 1 \in 0..n
      BY <1>2
    <3>2. QED
      BY <1>11, <3>1
  <2>2. QED
    BY <1>10, <1>11, <2>1 DEF Steps
<1>13. RowSteps(h, chosen, group, limit, pass)
  BY <1>3, <1>11, <1>12 DEF Steps, RowSteps, RowTaken, Add, n
<1>14. QED
  BY <1>11, <1>13 DEF A, n

LEMMA AddRowsTyped ==
  ASSUME NEW S, NEW chosen \in Seq(S), NEW group \in Seq(S), NEW limit, NEW pass
  PROVE  AddRows(chosen, group, limit, pass) \in Seq(S)
<1>1. PICK h \in [0..Len(group) -> Seq(S)] : RowSteps(h, chosen, group, limit, pass)
  BY AddRowsSteps
<1>2. Len(group) \in 0..Len(group)
  OBVIOUS
<1>3. QED
  BY <1>1, <1>2 DEF RowSteps

LEMMA SelectFromGroupTyped ==
  ASSUME NEW S, NEW group \in Seq(S), NEW limit, NEW diversify
  PROVE  SelectFromGroup(group, limit, diversify) \in Seq(S)
<1>1. <<>> \in Seq(S)
  OBVIOUS
<1>2. (IF diversify THEN AddRows(<<>>, group, limit, "boards") ELSE <<>>) \in Seq(S)
  BY <1>1, AddRowsTyped
<1>3. QED
  BY <1>2, AddRowsTyped DEF SelectFromGroup

\* The group G, its newest first.
Grouped(G, group) ==
  /\ group \in Seq(G) /\ ToSet(group) = G
  /\ \A i, j \in DOMAIN group : Newer(group[i], group[j]) => i < j

\* A pass comes by every row of its group.
LEMMA AddRowsKeep ==
  ASSUME NEW G, IsFiniteSet(G), NEW group, Grouped(G, group), NEW limit \in Nat,
         NEW pass \in {"boards", "spread", "rest"}, NEW base, PassOK(pass, base, limit, G, base),
         NEW acc, acc = AddRows(base, group, limit, pass)
  PROVE  PassOK(pass, base, limit, G, acc) /\ \A e \in G : PassedBy(pass, limit, acc, e)
<1> DEFINE n == Len(group)
<1>1. /\ group \in Seq(G) /\ n \in Nat /\ DOMAIN group = 1..n /\ base \in Seq(G)
      /\ \A i \in 1..n : group[i] \in G
      /\ \A e \in G : \E i \in 1..n : group[i] = e
      /\ \A i, j \in 1..n : Newer(group[i], group[j]) => i < j
  BY DEF Grouped, PassOK, ToSet
<1>2. PICK h \in [0..n -> Seq(G)] : RowSteps(h, base, group, limit, pass)
  BY <1>1, AddRowsSteps
<1> USE DEF RowSteps
<1> HIDE DEF n
<1> DEFINE Kept(i) == /\ PassOK(pass, base, limit, G, h[i])
                      /\ \A j \in 1..i : PassedBy(pass, limit, h[i], group[j])
           T == {i \in 0..n : Kept(i)}
<1>3. 0 \in T
  BY <1>1, <1>2
<1>4. ASSUME NEW i \in 1..n, i - 1 \in T PROVE i \in T
  <2>1. i - 1 \in 0..n /\ Kept(i - 1) /\ group[i] \in G
    BY <1>1, <1>4
  <2>2. ASSUME NEW d \in G, Newer(d, group[i]) PROVE PassedBy(pass, limit, h[i - 1], d)
    <3>1. PICK j \in 1..n : group[j] = d
      BY <1>1
    <3>2. j < i
      BY <1>1, <2>2, <3>1
    <3>3. j \in 1..(i - 1)
      BY <3>2
    <3>4. QED
      BY <2>1, <3>1, <3>3
  <2>3. /\ PassOK(pass, base, limit, G, h[i])
        /\ PassedBy(pass, limit, h[i], group[i])
        /\ \A d : PassedBy(pass, limit, h[i - 1], d) => PassedBy(pass, limit, h[i], d)
    <3> SUFFICES ASSUME NEW few, few = h[i - 1], NEW more, more = h[i]
                 PROVE  /\ PassOK(pass, base, limit, G, more)
                        /\ PassedBy(pass, limit, more, group[i])
                        /\ \A d : PassedBy(pass, limit, few, d) => PassedBy(pass, limit, more, d)
      BY Zenon
    <3>1. more = RowTaken(pass, limit, few, group[i])
      BY <1>2 DEF n
    <3>2. PassOK(pass, base, limit, G, few) /\ group[i] \in G
      BY <2>1
    <3>3. \A d \in G : Newer(d, group[i]) => PassedBy(pass, limit, few, d)
      BY <2>2
    <3>4. QED
      BY <3>1, <3>2, <3>3, RowOfPass
  <2>4. ASSUME NEW j \in 1..i PROVE PassedBy(pass, limit, h[i], group[j])
    <3>1. j = i \/ j \in 1..(i - 1)
      OBVIOUS
    <3>2. QED
      BY <2>1, <2>3, <3>1
  <2>5. QED
    BY <2>3, <2>4
<1> HIDE DEF T
<1>5. n \in T
  BY <1>1, <1>3, <1>4, Inducts
<1>6. QED
  BY <1>1, <1>2, <1>5 DEF T

SourcesSpread(G, T) ==
  \A d \in G \ T :
    Cardinality({e \in T : SourceOf[e] = SourceOf[d]}) < SourceItemLimit => AtMost(T)

BoardsSpread(G, T) ==
  \A d \in G : (\A e \in T : BoardOf[SourceOf[e]] # BoardOf[SourceOf[d]]) => OnePerBoard(T)

\* What the selection from one group is like.
SelectionOK(G, diversify, T) ==
  /\ NewestIn(G, T) /\ SourcesSpread(G, T)
  /\ diversify => BoardsSpread(G, T)

LEMMA FewerOfSource ==
  ASSUME NEW T, IsFiniteSet(T), NEW acc, ToSet(acc) \subseteq T, NEW s
  PROVE  /\ Cardinality(FromSource(acc, s)) <= Cardinality({e \in T : SourceOf[e] = s})
         /\ Cardinality(FromSource(acc, s)) \in Nat
         /\ Cardinality({e \in T : SourceOf[e] = s}) \in Nat
<1> DEFINE few == FromSource(acc, s)
           many == {e \in T : SourceOf[e] = s}
<1>1. few \subseteq many /\ many \subseteq T
  BY DEF FromSource
<1> HIDE DEF few, many
<1>2. IsFiniteSet(many)
  BY <1>1, FS_Subset
<1>3. IsFiniteSet(few) /\ Cardinality(few) <= Cardinality(many)
  BY <1>1, <1>2, FS_Subset
<1>4. Cardinality(few) \in Nat /\ Cardinality(many) \in Nat
  BY <1>2, <1>3, FS_CardinalityType
<1>5. QED
  BY <1>3, <1>4 DEF few, many

LEMMA GroupSelected ==
  ASSUME NEW G, IsFiniteSet(G), NEW group, Grouped(G, group), NEW limit \in Nat, NEW diversify \in BOOLEAN,
         NEW sel, sel = SelectFromGroup(group, limit, diversify)
  PROVE  /\ sel \in Seq(G) /\ Len(sel) = Cardinality(ToSet(sel)) /\ Len(sel) <= limit
         /\ Len(sel) = limit \/ ToSet(sel) = G
         /\ SelectionOK(G, diversify, ToSet(sel))
<1> DEFINE none == <<>>
           firsts == IF diversify THEN AddRows(none, group, limit, "boards") ELSE none
           spread == AddRows(firsts, group, limit, "spread")
<1>1. sel = AddRows(spread, group, limit, "rest")
  BY DEF SelectFromGroup
<1>2. PassOK("boards", none, limit, G, none)
  <2>1. none \in Seq(G) /\ ToSet(none) = {} /\ Len(none) = 0
    BY DEF ToSet
  <2>2. Cardinality({}) = 0 /\ SourceItemLimit \in Nat
    BY FS_EmptySet, ReaderAssumption
  <2> HIDE DEF none
  <2>3. AtMost({})
    <3>1. \A s : {e \in {} : SourceOf[e] = s} = {}
      OBVIOUS
    <3>2. QED
      BY <2>2, <3>1 DEF AtMost
  <2>4. OnePerBoard({}) /\ NewestIn(G, {})
    BY DEF OnePerBoard, NewestIn
  <2>5. QED
    BY <2>1, <2>2, <2>3, <2>4 DEF PassOK
<1> HIDE DEF none
<1>3. /\ PassOK("boards", none, limit, G, firsts)
      /\ diversify => \A e \in G : PassedBy("boards", limit, firsts, e)
  <2>1. CASE diversify
    <3>1. firsts = AddRows(none, group, limit, "boards")
      BY <2>1
    <3> HIDE DEF firsts
    <3>2. QED
      BY <1>2, <3>1, AddRowsKeep
  <2>2. CASE ~diversify
    BY <1>2, <2>2
  <2>3. QED
    BY <2>1, <2>2
<1> HIDE DEF firsts
<1>4. PassOK("spread", firsts, limit, G, firsts)
  BY <1>3 DEF PassOK
<1>5. PassOK("spread", firsts, limit, G, spread) /\ \A e \in G : PassedBy("spread", limit, spread, e)
  BY <1>4, AddRowsKeep
<1> HIDE DEF spread
<1>6. PassOK("rest", spread, limit, G, spread)
  BY <1>5 DEF PassOK
<1>7. PassOK("rest", spread, limit, G, sel) /\ \A e \in G : PassedBy("rest", limit, sel, e)
  BY <1>1, <1>6, AddRowsKeep
<1> DEFINE T == ToSet(sel)
<1>8. /\ sel \in Seq(G) /\ Len(sel) = Cardinality(T) /\ Len(sel) <= limit /\ NewestIn(G, T)
      /\ ToSet(firsts) \subseteq ToSet(spread) /\ ToSet(spread) \subseteq T
      /\ T \subseteq G
  <2>1. sel \in Seq(G)
    BY <1>7 DEF PassOK
  <2>2. T \subseteq G
    BY <2>1 DEF ToSet
  <2>3. QED
    BY <1>5, <1>7, <2>1, <2>2 DEF PassOK
<1>9. Len(sel) = limit \/ T = G
  BY <1>7, <1>8 DEF PassedBy, Fits
<1>10. ASSUME Len(spread) = limit PROVE sel = spread /\ AtMost(T)
  BY <1>5, <1>7, <1>10 DEF PassOK
<1>11. ASSUME Len(firsts) = limit PROVE sel = firsts /\ OnePerBoard(T)
  <2>1. spread = firsts
    BY <1>5, <1>11 DEF PassOK
  <2>2. QED
    BY <1>3, <1>10, <1>11, <2>1 DEF PassOK
<1>12. IsFiniteSet(T)
  BY <1>8, FS_Subset
<1>13. SourceItemLimit \in Nat \ {0}
  BY ReaderAssumption
<1>14. ASSUME NEW d \in G \ T, Cardinality({e \in T : SourceOf[e] = SourceOf[d]}) < SourceItemLimit
       PROVE  AtMost(T)
  <2> DEFINE few == Cardinality(FromSource(spread, SourceOf[d]))
             many == Cardinality({e \in T : SourceOf[e] = SourceOf[d]})
  <2>1. few \in Nat /\ many \in Nat /\ few <= many
    <3>1. ToSet(spread) \subseteq T
      BY <1>8
    <3> HIDE DEF T
    <3>2. QED
      BY <1>12, <3>1, FewerOfSource
  <2>2. many < SourceItemLimit
    BY <1>14
  <2>3. BelowSourceLimit(spread, d) <=> few < SourceItemLimit
    BY DEF BelowSourceLimit
  <2> HIDE DEF few, many
  <2>4. BelowSourceLimit(spread, d)
    BY <1>13, <2>1, <2>2, <2>3
  <2>5. Fits("spread", spread, d)
    BY <2>4 DEF Fits
  <2>6. Len(spread) = limit
    BY <1>5, <1>8, <1>14, <2>5 DEF PassedBy
  <2>7. QED
    BY <1>10, <2>6
<1>15. ASSUME diversify, NEW d \in G, \A e \in T : BoardOf[SourceOf[e]] # BoardOf[SourceOf[d]]
       PROVE  OnePerBoard(T)
  <2>1. d \notin T /\ PassedBy("boards", limit, firsts, d) /\ ToSet(firsts) \subseteq T
    BY <1>3, <1>8, <1>15
  <2>2. ~HasBoard(firsts, BoardOf[SourceOf[d]])
    BY <1>15, <2>1 DEF HasBoard
  <2>3. FromSource(firsts, SourceOf[d]) = {}
    BY <1>15, <2>1 DEF FromSource
  <2>4. BelowSourceLimit(firsts, d)
    BY <1>13, <2>3, FS_EmptySet DEF BelowSourceLimit
  <2>5. Fits("boards", firsts, d)
    BY <2>2, <2>4 DEF Fits
  <2>6. Len(firsts) = limit
    BY <2>1, <2>5 DEF PassedBy
  <2>7. QED
    BY <1>11, <2>6
<1>16. QED
  BY <1>8, <1>9, <1>14, <1>15 DEF SelectionOK, SourcesSpread, BoardsSpread

-----------------------------------------------------------------------------
\* The groups of equal penalty.

\* What digestPenaltyGroups does with a row.
RowGrouped(rows, p, acc, i) == IF rows[i].penalty = p THEN Append(acc, rows[i].id) ELSE acc

GroupSteps(h, rows, n, p) ==
  /\ h[0] = <<>> /\ h[n] = Group(rows, p)
  /\ \A i \in 1..n : h[i] = RowGrouped(rows, p, h[i - 1], i)

LEMMA GroupRuns ==
  ASSUME NEW S, NEW rows, NEW n \in Nat, DOMAIN rows = 1..n, \A i \in 1..n : rows[i].id \in S, NEW p
  PROVE  \E h \in [0..n -> Seq(S)] : GroupSteps(h, rows, n, p)
<1> DEFINE A == Seq(S)
           none == <<>>
           Add(acc, i) == IF rows[i].penalty = p THEN Append(acc, rows[i].id) ELSE acc
           Body(f) == [s \in SUBSET (1..n) |-> IF s = {} THEN none ELSE Add(f[s \ {Max(s)}], Max(s))]
           fold == CHOOSE f : f = Body(f)
           step == [x \in A \X (1..n) |-> Add(x[1], x[2])]
<1>1. \A acc \in A, i \in 1..n : Add(acc, i) \in A
  OBVIOUS
<1>2. Group(rows, p) = fold[1..n]
  BY DEF Group, FoldLeft, MapThenFoldSet
<1>3. none \in A
  OBVIOUS
<1> HIDE DEF A, Add, none
<1>4. step \in [A \X (1..n) -> A]
  BY <1>1
<1>5. \E f : f = Body(f)
  <2>1. PICK f \in [SUBSET (1..n) -> A] : LeftFolds(f, n, none, step)
    <3> HIDE DEF step
    <3>1. QED
      BY <1>3, <1>4, LeftFoldExists
  <2>2. ASSUME NEW s \in SUBSET (1..n), s # {}
        PROVE  step[<<f[s \ {Max(s)}], Max(s)>>] = Add(f[s \ {Max(s)}], Max(s))
    BY <2>1, <2>2, LastIn
  <2> HIDE DEF step
  <2>3. f = Body(f)
    BY <2>1, <2>2 DEF LeftFolds
  <2>4. QED
    BY <2>3
<1>6. fold = Body(fold)
  <2> HIDE DEF Body
  <2>1. QED
    BY <1>5
<1> HIDE DEF fold
<1>7. fold[{}] = none
  BY <1>6
<1>8. AddsIn(fold, n, A, none, step)
  <2>1. ASSUME NEW s \in SUBSET (1..n), s # {}, fold[s \ {Max(s)}] \in A
        PROVE  fold[s] = step[<<fold[s \ {Max(s)}], Max(s)>>]
    BY <1>6, <2>1, LastIn
  <2> HIDE DEF step
  <2>2. QED
    BY <1>7, <2>1 DEF AddsIn
<1>9. \A x \in A, i \in 1..n : step[<<x, i>>] = Add(x, i)
  OBVIOUS
<1> HIDE DEF step
<1>10. PICK h \in [0..n -> A] : Steps(h, n, none, step, fold[1..n])
  BY <1>3, <1>4, <1>8, LeftFoldSteps
<1>11. \A i \in 1..n : h[i] = Add(h[i - 1], i)
  <2>1. ASSUME NEW i \in 1..n PROVE h[i - 1] \in A
    <3>1. i - 1 \in 0..n
      OBVIOUS
    <3>2. QED
      BY <1>10, <3>1
  <2>2. QED
    BY <1>9, <1>10, <2>1 DEF Steps
<1>12. GroupSteps(h, rows, n, p)
  BY <1>2, <1>10, <1>11 DEF Steps, GroupSteps, RowGrouped, Add, none
<1>13. QED
  BY <1>10, <1>12 DEF A

LEMMA GroupTyped ==
  ASSUME NEW S, NEW rows, NEW n \in Nat, DOMAIN rows = 1..n, \A i \in 1..n : rows[i].id \in S, NEW p
  PROVE  Group(rows, p) \in Seq(S)
<1>1. PICK h \in [0..n -> Seq(S)] : GroupSteps(h, rows, n, p)
  BY GroupRuns
<1>2. n \in 0..n
  OBVIOUS
<1>3. QED
  BY <1>1, <1>2 DEF GroupSteps

NewestFirst(seq) == \A a, b \in 1..Len(seq) : a < b => Newer(seq[a], seq[b])

LEMMA OlderLast ==
  ASSUME NEW S, NEW acc \in Seq(S), NewestFirst(acc), NEW e \in S, \A d \in ToSet(acc) : Newer(d, e)
  PROVE  NewestFirst(Append(acc, e))
<1> DEFINE next == Append(acc, e)
           m == Len(acc)
<1>1. /\ Len(next) = m + 1 /\ next[m + 1] = e
      /\ \A a \in 1..m : next[a] = acc[a]
  BY RowAppended
<1>2. m \in Nat /\ DOMAIN acc = 1..m
  OBVIOUS
<1>3. \A a \in 1..m : Newer(acc[a], e)
  BY <1>2 DEF ToSet
<1>4. \A a, b \in 1..m : a < b => Newer(acc[a], acc[b])
  BY DEF NewestFirst
<1> HIDE DEF next, m
<1>5. ASSUME NEW a \in 1..(m + 1), NEW b \in 1..(m + 1), a < b
      PROVE  Newer(next[a], next[b])
  <2>1. a \in 1..m /\ (b \in 1..m \/ b = m + 1)
    BY <1>2, <1>5
  <2>2. QED
    BY <1>1, <1>3, <1>4, <1>5, <2>1
<1>6. QED
  BY <1>1, <1>5 DEF NewestFirst, next

\* Rows that come newest first within one penalty.
NewestWithin(rows, n) ==
  \A i, j \in 1..n : i < j /\ rows[i].penalty = rows[j].penalty => Newer(rows[i].id, rows[j].id)

\* The entries of the first n rows that have one penalty.
RowsIn(rows, n, p) == {rows[i].id : i \in {j \in 1..n : rows[j].penalty = p}}

LEMMA GroupIsGrouped ==
  ASSUME NEW V \in SUBSET Entries, NEW rows, NEW n \in Nat, DOMAIN rows = 1..n,
         \A i \in 1..n : rows[i].id \in V, NewestWithin(rows, n),
         NEW p, NEW G, G = RowsIn(rows, n, p)
  PROVE  Grouped(G, Group(rows, p))
<1> USE DEF NewestWithin, RowsIn
<1> DEFINE Till(i) == {rows[k].id : k \in {j \in 1..i : rows[j].penalty = p}}
<1>1. PICK h \in [0..n -> Seq(V)] : GroupSteps(h, rows, n, p)
  BY GroupRuns
<1> DEFINE Kept(i) == ToSet(h[i]) = Till(i) /\ NewestFirst(h[i])
           T == {i \in 0..n : Kept(i)}
<1>2. 0 \in T
  <2>1. h[0] = <<>>
    BY <1>1 DEF GroupSteps
  <2>2. Till(0) = {} /\ ToSet(<<>>) = {} /\ NewestFirst(<<>>)
    BY DEF ToSet, NewestFirst
  <2>3. QED
    BY <2>1, <2>2
<1>3. ASSUME NEW i \in 1..n, i - 1 \in T PROVE i \in T
  <2>1. i - 1 \in 0..n /\ Kept(i - 1) /\ rows[i].id \in V
    BY <1>3
  <2> SUFFICES ASSUME NEW acc, acc = h[i - 1], NEW e, e = rows[i].id
               PROVE  i \in T
    OBVIOUS
  <2>2. acc \in Seq(V) /\ ToSet(acc) = Till(i - 1) /\ NewestFirst(acc) /\ e \in V
    BY <1>1, <2>1
  <2>3. h[i] = RowGrouped(rows, p, acc, i)
    BY <1>1 DEF GroupSteps
  <2>4. CASE rows[i].penalty # p
    <3>1. h[i] = acc
      BY <2>3, <2>4 DEF RowGrouped
    <3>2. {j \in 1..i : rows[j].penalty = p} = {j \in 1..(i - 1) : rows[j].penalty = p}
      BY <2>4
    <3>3. Till(i) = Till(i - 1)
      BY <3>2
    <3> HIDE DEF Till
    <3>4. QED
      BY <2>2, <3>1, <3>3
  <2>5. CASE rows[i].penalty = p
    <3>1. h[i] = Append(acc, e)
      BY <2>3, <2>5 DEF RowGrouped
    <3>2. {j \in 1..i : rows[j].penalty = p} = {j \in 1..(i - 1) : rows[j].penalty = p} \cup {i}
      BY <2>5
    <3>3. Till(i) = Till(i - 1) \cup {e}
      BY <3>2
    <3>4. ASSUME NEW d \in Till(i - 1) PROVE Newer(d, e)
      <4>1. PICK k \in 1..(i - 1) : rows[k].penalty = p /\ d = rows[k].id
        BY <3>4
      <4>2. k \in 1..n /\ k < i
        BY <4>1
      <4>3. QED
        BY <2>5, <4>1, <4>2
    <3> HIDE DEF Till
    <3>5. ToSet(h[i]) = Till(i)
      BY <2>2, <3>1, <3>3, RowAppended
    <3>6. NewestFirst(h[i])
      BY <2>2, <3>1, <3>4, OlderLast
    <3>7. QED
      BY <3>5, <3>6
  <2>6. QED
    BY <2>4, <2>5
<1> HIDE DEF T
<1>4. n \in T
  BY <1>2, <1>3, Inducts
<1> DEFINE group == Group(rows, p)
<1>5. /\ group \in Seq(V) /\ ToSet(group) = G
      /\ \A a, b \in 1..Len(group) : a < b => Newer(group[a], group[b])
  <2>1. h[n] = group /\ h[n] \in Seq(V)
    BY <1>1 DEF GroupSteps
  <2>2. Kept(n)
    BY <1>4 DEF T, NewestFirst
  <2> USE DEF NewestFirst
  <2> HIDE DEF group
  <2>3. QED
    BY <2>1, <2>2
<1> HIDE DEF group
<1>6. Len(group) \in Nat /\ DOMAIN group = 1..Len(group) /\ \A a \in DOMAIN group : group[a] \in Entries
  BY <1>5
<1>7. group \in Seq(G)
  <2>1. \A a \in 1..Len(group) : group[a] \in G
    BY <1>5, <1>6 DEF ToSet
  <2>2. QED
    BY <1>5, <1>6, <2>1
<1>8. ASSUME NEW a \in DOMAIN group, NEW b \in DOMAIN group, Newer(group[a], group[b]) PROVE a < b
  <2>1. group[a] \in Entries /\ group[b] \in Entries /\ a \in Nat /\ b \in Nat
    BY <1>6
  <2>2. ~Newer(group[b], group[a])
    BY <1>8, <2>1, NewerOrders
  <2>3. a # b
    BY <1>8, <2>1, NewerOrders
  <2>4. ~(b < a)
    BY <1>5, <1>6, <2>2
  <2>5. QED
    BY <2>1, <2>3, <2>4
<1>9. QED
  BY <1>5, <1>7, <1>8 DEF Grouped, group

-----------------------------------------------------------------------------
\* The candidates of a digest, and their penalties.

LEMMA FunctionIsSeq ==
  ASSUME NEW S, NEW n \in Nat, NEW f \in [1..n -> S]
  PROVE  f \in Seq(S) /\ Len(f) = n
OBVIOUS

\* A sequence in the order R.
Listed(seq, R, S) ==
  seq = [i \in 1..Cardinality(S) |-> CHOOSE e \in S : Cardinality(Preceding(R, S, e)) = i - 1]

InOrder(seq, R, S) ==
  /\ Cardinality(S) \in Nat /\ seq \in Seq(S) /\ Len(seq) = Cardinality(S)
  /\ \A e \in S : \E i \in 1..Len(seq) : seq[i] = e
  /\ \A i, j \in 1..Len(seq) : i < j => <<seq[i], seq[j]>> \in R

LEMMA RankedRows ==
  ASSUME NEW S, IsFiniteSet(S), NEW R, Orders(R, S), NEW seq, Listed(seq, R, S)
  PROVE  InOrder(seq, R, S)
<1> USE DEF Listed
<1> DEFINE n == Cardinality(S)
           place == [e \in S |-> Cardinality(Preceding(R, S, e))]
<1>1. /\ n \in Nat
      /\ \A e \in S : place[e] \in 0..(n - 1)
      /\ \A d, e \in S : place[d] = place[e] => d = e
      /\ \A i \in 0..(n - 1) : \E e \in S : place[e] = i
  BY RankedOnce
<1>2. ASSUME NEW i \in 1..n PROVE seq[i] \in S /\ place[seq[i]] = i - 1
  <2>1. i - 1 \in 0..(n - 1)
    BY <1>1
  <2>2. \E e \in S : Cardinality(Preceding(R, S, e)) = i - 1
    BY <1>1, <2>1
  <2>3. seq[i] = CHOOSE e \in S : Cardinality(Preceding(R, S, e)) = i - 1
    OBVIOUS
  <2>4. seq[i] \in S /\ Cardinality(Preceding(R, S, seq[i])) = i - 1
    BY <2>2, <2>3, Zenon
  <2>5. QED
    BY <2>4
<1>3. seq \in Seq(S) /\ Len(seq) = n
  <2>1. seq \in [1..n -> S]
    BY <1>2
  <2>2. QED
    BY <1>1, <2>1, FunctionIsSeq
<1>4. \A d, e \in S : <<d, e>> \in R => place[d] < place[e]
  BY PrecedingFewer
<1> HIDE DEF n, place
<1>5. ASSUME NEW e \in S PROVE \E i \in 1..n : seq[i] = e
  <2>1. place[e] + 1 \in 1..n /\ (place[e] + 1) - 1 = place[e]
    BY <1>1
  <2>2. seq[place[e] + 1] = e
    BY <1>1, <1>2, <2>1
  <2>3. QED
    BY <2>1, <2>2
<1>6. ASSUME NEW i \in 1..n, NEW j \in 1..n, i < j PROVE <<seq[i], seq[j]>> \in R
  <2>1. seq[i] \in S /\ seq[j] \in S /\ place[seq[i]] = i - 1 /\ place[seq[j]] = j - 1
    BY <1>2
  <2>2. i \in Nat /\ j \in Nat /\ i - 1 # j - 1 /\ ~(j - 1 < i - 1)
    BY <1>6
  <2>3. seq[i] # seq[j] /\ <<seq[j], seq[i]>> \notin R
    BY <1>4, <2>1, <2>2
  <2>4. QED
    BY <2>1, <2>3 DEF Orders
<1>7. QED
  BY <1>1, <1>3, <1>5, <1>6 DEF n, InOrder

LEMMA MaxIsGreater ==
  ASSUME NEW a \in Nat, NEW b \in Nat
  PROVE  Max({a, b}) \in Nat /\ Max({a, b}) >= a
<1>1. \E x \in {a, b} : \A y \in {a, b} : x >= y
  OBVIOUS
<1>2. Max({a, b}) \in {a, b} /\ \A y \in {a, b} : Max({a, b}) >= y
  BY <1>1 DEF Max
<1>3. QED
  BY <1>2

LEMMA CandidateLimitSuffices ==
  ASSUME NEW limit \in Nat
  PROVE  CandidateLimit(limit) \in Nat /\ CandidateLimit(limit) >= limit
<1> DEFINE most == Max({limit * CandidateMultiplier, MinimumCandidates})
<1>1. limit * CandidateMultiplier \in Nat /\ MinimumCandidates \in Nat /\ MaximumCandidates \in Nat
  BY ReaderAssumption
<1>2. most \in Nat
  BY <1>1, MaxOf
<1> HIDE DEF most
<1>3. Min({most, MaximumCandidates}) \in Nat
  BY <1>1, <1>2, MinOf
<1>4. QED
  BY <1>3, MaxIsGreater DEF CandidateLimit, most

\* The order of the digest's query.
Preferred(d, e) == Penalty(d) < Penalty(e) \/ (Penalty(d) = Penalty(e) /\ Newer(d, e))

LEMMA PreferredOrders ==
  ASSUME feedback \in Seq(Feedback), NEW S \in SUBSET Entries,
         NEW R, R = {p \in S \X S : Preferred(p[1], p[2])}
  PROVE  /\ Orders(R, S)
         /\ \A d, e \in S : <<d, e>> \in R <=> Preferred(d, e)
<1>1. \A d, e \in S : <<d, e>> \in R <=> Preferred(d, e)
  OBVIOUS
<1>2. \A e : Penalty(e) \in Nat
  BY PenaltyTyped
<1>3. ASSUME NEW d \in S PROVE ~Preferred(d, d)
  <2>1. ~Newer(d, d) /\ Penalty(d) \in Nat
    BY <1>2, NewerOrders
  <2>2. QED
    BY <2>1 DEF Preferred
<1>4. ASSUME NEW d \in S, NEW e \in S, NEW f \in S, Preferred(d, e), Preferred(e, f)
      PROVE  Preferred(d, f)
  <2>1. Newer(d, e) /\ Newer(e, f) => Newer(d, f)
    BY NewerOrders
  <2>2. Penalty(d) \in Nat /\ Penalty(e) \in Nat /\ Penalty(f) \in Nat
    BY <1>2
  <2>3. QED
    BY <1>4, <2>1, <2>2 DEF Preferred
<1>5. ASSUME NEW d \in S, NEW e \in S, d # e PROVE Preferred(d, e) \/ Preferred(e, d)
  <2>1. Newer(d, e) \/ Newer(e, d)
    BY <1>5, NewerOrders
  <2>2. Penalty(d) \in Nat /\ Penalty(e) \in Nat
    BY <1>2
  <2>3. QED
    BY <2>1, <2>2 DEF Preferred
<1>6. Orders(R, S)
  BY <1>1, <1>3, <1>4, <1>5 DEF Orders
<1>7. QED
  BY <1>1, <1>6

\* The rows of the digest's query: no entry that comes before one of them is
\* left out, and if any is left out, there are enough of them.
CandidatesOK(V, limit, rows, C) ==
  /\ Len(rows) \in Nat /\ DOMAIN rows = 1..Len(rows)
  /\ C = {rows[i].id : i \in 1..Len(rows)} /\ C \subseteq V
  /\ \A i \in 1..Len(rows) : rows[i].penalty = Penalty(rows[i].id)
  /\ \A i, j \in 1..Len(rows) : i < j => Preferred(rows[i].id, rows[j].id)
  /\ \A d \in V, e \in C : Preferred(d, e) => d \in C
  /\ C = V \/ Cardinality(C) >= limit

LEMMA InjectiveCount ==
  ASSUME NEW n \in Nat, NEW f, NEW T, T = {f[i] : i \in 1..n},
         \A i, j \in 1..n : f[i] = f[j] => i = j
  PROVE  IsFiniteSet(T) /\ Cardinality(T) = n
<1> DEFINE g == [i \in 1..n |-> f[i]]
<1>1. g \in Bijection(1..n, T)
  BY DEF Bijection, Injection, IsInjective, Surjection
<1>2. ExistsBijection(1..n, T)
  BY <1>1 DEF ExistsBijection
<1>3. IsFiniteSet(1..n) /\ Cardinality(1..n) = n
  BY FS_Interval
<1>4. QED
  BY <1>2, <1>3, FS_Bijection

LEMMA CandidatesRanked ==
  ASSUME EntriesOK, feedback \in Seq(Feedback), NEW board, NEW limit \in Nat,
         NEW rows, rows = Candidates(board, limit)
  PROVE  CandidatesOK(VisibleOn(board), limit, rows, {rows[i].id : i \in 1..Len(rows)})
<1> DEFINE V == VisibleOn(board)
           n == Cardinality(V)
           most == CandidateLimit(limit)
           penalty == [e \in V |-> Penalty(e)]
           Precedes(d, e) == penalty[d] < penalty[e] \/ (penalty[d] = penalty[e] /\ Newer(d, e))
           R == {p \in V \X V : Preferred(p[1], p[2])}
           At(i) == CHOOSE e \in V : Cardinality({d \in V : Precedes(d, e)}) = i - 1
           seq == [i \in 1..n |-> At(i)]
           ids == Rows(seq, most, 0)
<1>1. V \subseteq Entries /\ IsFiniteSet(V)
  BY VisibleEntries
<1>2. rows = [i \in DOMAIN ids |-> [id |-> ids[i], penalty |-> penalty[ids[i]]]]
  BY DEF Candidates, Ordered
<1>3. most \in Nat /\ most >= limit
  BY CandidateLimitSuffices
<1>4. Orders(R, V) /\ \A d, e \in V : <<d, e>> \in R <=> Preferred(d, e)
  BY <1>1, PreferredOrders
<1>5. \A e \in V : {d \in V : Precedes(d, e)} = Preceding(R, V, e)
  BY <1>4 DEF Preceding, Preferred
<1>6. Listed(seq, R, V)
  <2>1. ASSUME NEW i
        PROVE  At(i) = CHOOSE e \in V : Cardinality(Preceding(R, V, e)) = i - 1
    <3>1. \A e \in V : Cardinality({d \in V : Precedes(d, e)}) = Cardinality(Preceding(R, V, e))
      BY <1>5
    <3> HIDE DEF V, Precedes, R
    <3>2. QED
      BY <3>1, Zenon
  <2> DEFINE Ranked(i) == CHOOSE e \in V : Cardinality(Preceding(R, V, e)) = i - 1
  <2>2. \A i \in 1..n : At(i) = Ranked(i)
    BY <2>1
  <2>3. seq = [i \in 1..n |-> Ranked(i)]
    <3> HIDE DEF At, Ranked, n, V, R
    <3>1. QED
      BY <2>2
  <2>4. QED
    BY <2>3, Zenon DEF Listed
<1>7. \A e \in V : penalty[e] = Penalty(e)
  OBVIOUS
<1> HIDE DEF V, R, At, seq, ids, penalty, Precedes, most
<1>8. /\ n \in Nat /\ seq \in Seq(V) /\ Len(seq) = n
      /\ \A e \in V : \E i \in 1..n : seq[i] = e
      /\ \A i, j \in 1..n : i < j => Preferred(seq[i], seq[j])
  <2>1. InOrder(seq, R, V)
    BY <1>1, <1>4, <1>6, RankedRows
  <2>2. /\ n \in Nat /\ seq \in Seq(V) /\ Len(seq) = n
        /\ \A e \in V : \E i \in 1..Len(seq) : seq[i] = e
        /\ \A i, j \in 1..Len(seq) : i < j => <<seq[i], seq[j]>> \in R
    BY <2>1, Zenon DEF InOrder
  <2> HIDE DEF n
  <2>3. \A i \in 1..n : seq[i] \in V
    BY <2>2
  <2>4. QED
    BY <1>4, <2>2, <2>3
<1> HIDE DEF n
<1> DEFINE m == Len(ids)
<1>9. /\ ids \in Seq(V) /\ m \in Nat /\ m <= n /\ DOMAIN ids = 1..m
      /\ m = n \/ m = most
      /\ \A i \in 1..m : i \in 1..n /\ ids[i] = seq[i]
  <2>1. PICK zero \in Nat : zero = 0
    OBVIOUS
  <2>2. Rows(seq, most, zero) \in Seq(V) /\ RowsFrom(seq, most, zero, Rows(seq, most, zero))
    BY <1>3, <1>8, <2>1, RowsAre
  <2>3. Rows(seq, most, zero) = ids
    BY <2>1 DEF ids
  <2>4. Len(ids) \in Nat /\ DOMAIN ids = 1..Len(ids) /\ ids \in Seq(V)
    BY <2>2, <2>3
  <2>5. /\ n <= most => m = n
        /\ most <= n => m = most
        /\ \A i \in 1..m : i \in 1..n /\ ids[i] = seq[i]
    <3>1. /\ zero <= n /\ n <= zero + most => m = n - zero
          /\ zero + most <= n => m = most
          /\ \A i \in 1..m : zero + i \in 1..n /\ ids[i] = seq[zero + i]
      BY <1>8, <2>2, <2>3, Zenon DEF RowsFrom
    <3>2. zero + most = most /\ n - zero = n /\ zero <= n /\ \A i \in 1..m : zero + i = i
      BY <1>3, <1>8, <2>1, <2>4
    <3>3. QED
      BY <3>1, <3>2
  <2>6. ids \in Seq(V) /\ m \in Nat /\ DOMAIN ids = 1..m
    BY <2>4
  <2> HIDE DEF m
  <2>7. m <= n /\ (m = n \/ m = most)
    BY <1>3, <1>8, <2>5, <2>6
  <2>8. QED
    BY <2>5, <2>6, <2>7
<1> HIDE DEF m
<1>10. /\ DOMAIN rows = 1..m /\ Len(rows) = m
       /\ \A i \in 1..m : rows[i].id = ids[i] /\ rows[i].penalty = Penalty(ids[i]) /\ ids[i] \in V
  <2>1. \A i \in 1..m : ids[i] \in V
    BY <1>9
  <2>2. DOMAIN rows = 1..m
    BY <1>2, <1>9
  <2>3. Len(rows) = m
    <3>1. \E k \in Nat : DOMAIN rows = 1..k
      BY <1>9, <2>2
    <3>2. QED
      BY <1>2, <1>9, <2>2
  <2>4. QED
    BY <1>2, <1>7, <1>9, <2>1, <2>2, <2>3
<1> DEFINE C == {rows[i].id : i \in 1..m}
<1>11. C \subseteq V /\ \A e \in C : \E i \in 1..m : e = seq[i]
  BY <1>9, <1>10
<1>12. \A i, j \in 1..m : i < j => Preferred(rows[i].id, rows[j].id)
  BY <1>8, <1>9, <1>10
<1>13. \A d \in V : ~Preferred(d, d)
  BY <1>4 DEF Orders
<1>14. \A d, e \in V : Preferred(d, e) => ~Preferred(e, d)
  BY <1>4 DEF Orders
<1>15. ASSUME NEW d \in V, NEW e \in C, Preferred(d, e) PROVE d \in C
  <2>1. PICK i \in 1..m : e = seq[i]
    BY <1>11
  <2>2. PICK j \in 1..n : d = seq[j]
    BY <1>8
  <2>3. i \in 1..n /\ e \in V
    BY <1>9, <1>11
  <2>4. ~(i < j)
    BY <1>8, <1>14, <1>15, <2>1, <2>2, <2>3
  <2>5. j \in 1..m
    BY <1>8, <1>9, <2>3, <2>4
  <2>6. d = rows[j].id
    BY <1>9, <1>10, <2>2, <2>5
  <2>7. QED
    BY <2>5, <2>6
<1>16. C = V \/ Cardinality(C) >= limit
  <2>1. CASE m = n
    <3>1. ASSUME NEW e \in V PROVE e \in C
      <4>1. PICK i \in 1..n : e = seq[i]
        BY <1>8
      <4>2. i \in 1..m /\ e = rows[i].id
        BY <1>9, <1>10, <2>1, <4>1
      <4>3. QED
        BY <4>2
    <3>2. QED
      BY <1>11, <3>1
  <2>2. CASE m = most
    <3> DEFINE f == [i \in 1..m |-> rows[i].id]
    <3>1. C = {f[i] : i \in 1..m}
      OBVIOUS
    <3>2. ASSUME NEW i \in 1..m, NEW j \in 1..m, f[i] = f[j] PROVE i = j
      <4>1. i < j => Preferred(f[i], f[j])
        BY <1>12
      <4>2. j < i => Preferred(f[j], f[i])
        BY <1>12
      <4>3. f[i] \in V /\ f[j] \in V
        BY <1>10
      <4>4. ~(i < j) /\ ~(j < i)
        BY <1>13, <3>2, <4>1, <4>2, <4>3
      <4>5. QED
        BY <1>9, <4>4
    <3> HIDE DEF f, C
    <3>3. Cardinality(C) = m
      BY <1>9, <3>1, <3>2, InjectiveCount
    <3>4. QED
      BY <1>3, <2>2, <3>3
  <2>3. QED
    BY <1>9, <2>1, <2>2
<1>17. CandidatesOK(V, limit, rows, C)
  <2>1. Len(rows) = m /\ m \in Nat /\ DOMAIN rows = 1..m /\ C \subseteq V
    BY <1>9, <1>10, <1>11
  <2>2. C = {rows[i].id : i \in 1..m}
    OBVIOUS
  <2>3. \A i \in 1..m : rows[i].penalty = Penalty(rows[i].id)
    BY <1>10
  <2> HIDE DEF C
  <2>4. QED
    BY <1>12, <1>15, <1>16, <2>1, <2>2, <2>3, Zenon DEF CandidatesOK
<1>18. QED
  BY <1>10, <1>17 DEF V

\* The penalties of the groups, from the least.
PenaltiesOK(rows, q) ==
  /\ q \in Seq(Nat)
  /\ \A i, j \in 1..Len(q) : i < j => q[i] < q[j]
  /\ \A i \in DOMAIN rows : \E k \in 1..Len(q) : q[k] = rows[i].penalty

PenaltiesOf(rows) == Ordered({row.penalty : row \in ToSet(rows)}, <)

LEMMA PenaltiesRanked ==
  ASSUME NEW rows, NEW n \in Nat, DOMAIN rows = 1..n, \A i \in 1..n : rows[i].penalty \in Nat
  PROVE  PenaltiesOK(rows, PenaltiesOf(rows))
<1> DEFINE P == {row.penalty : row \in ToSet(rows)}
           R == {p \in P \X P : p[1] < p[2]}
           At(i) == CHOOSE e \in P : Cardinality({d \in P : d < e}) = i - 1
           q == Ordered(P, <)
           f == [i \in 1..n |-> rows[i].penalty]
<1>1. f \in Surjection(1..n, P)
  BY DEF Surjection, ToSet
<1>2. IsFiniteSet(1..n)
  BY FS_Interval
<1>3. P \subseteq Nat /\ \A i \in 1..n : rows[i].penalty \in P
  BY DEF ToSet
<1>4. q = [i \in 1..Cardinality(P) |-> At(i)]
  BY DEF Ordered
<1>5. \A d, e \in P : <<d, e>> \in R <=> d < e
  OBVIOUS
<1> HIDE DEF f, P, q, R
<1>6. IsFiniteSet(P)
  BY <1>1, <1>2, FS_Surjection
<1>7. Orders(R, P)
  <2>1. \A d, e, g \in P : d < e /\ e < g => d < g
    BY <1>3
  <2>2. \A d, e \in P : d # e => d < e \/ e < d
    BY <1>3
  <2>3. \A d \in P : ~(d < d)
    BY <1>3
  <2>4. QED
    BY <1>5, <2>1, <2>2, <2>3 DEF Orders
<1>8. \A e \in P : {d \in P : d < e} = Preceding(R, P, e)
  BY <1>5 DEF Preceding
<1>9. Listed(q, R, P)
  <2>1. ASSUME NEW i PROVE At(i) = CHOOSE e \in P : Cardinality(Preceding(R, P, e)) = i - 1
    <3>1. \A e \in P : Cardinality({d \in P : d < e}) = Cardinality(Preceding(R, P, e))
      BY <1>8
    <3>2. QED
      BY <3>1, Zenon
  <2> HIDE DEF At
  <2>2. QED
    BY <1>4, <2>1 DEF Listed
<1>10. /\ q \in Seq(P)
       /\ \A e \in P : \E i \in 1..Len(q) : q[i] = e
       /\ \A i, j \in 1..Len(q) : i < j => <<q[i], q[j]>> \in R
  <2>1. InOrder(q, R, P)
    BY <1>6, <1>7, <1>9, RankedRows
  <2>2. QED
    BY <2>1 DEF InOrder
<1>11. \A i \in 1..Len(q) : q[i] \in P
  BY <1>10
<1>12. q \in Seq(Nat)
  <2>1. Len(q) \in Nat /\ q \in [1..Len(q) -> P]
    BY <1>10
  <2>2. q \in [1..Len(q) -> Nat]
    BY <1>3, <2>1
  <2>3. QED
    BY <2>1, <2>2, FunctionIsSeq
<1>13. \A i, j \in 1..Len(q) : i < j => q[i] < q[j]
  BY <1>5, <1>10, <1>11
<1>14. PenaltiesOK(rows, q)
  BY <1>3, <1>10, <1>12, <1>13 DEF PenaltiesOK
<1>15. QED
  BY <1>14 DEF q, P, PenaltiesOf

-----------------------------------------------------------------------------
\* The digest, group by group.

GroupAdded(rows, board, limit, acc, p) ==
  acc \o SelectFromGroup(Group(rows, p), limit - Len(acc), board = AnyBoard)

DigestSteps(h, q, rows, board, limit) ==
  /\ h[0] = <<>> /\ h[Len(q)] = Digest(board, limit)
  /\ \A i \in 1..Len(q) : h[i] = GroupAdded(rows, board, limit, h[i - 1], q[i])

LEMMA DigestRuns ==
  ASSUME NEW board, NEW limit \in Nat, NEW V, NEW n \in Nat, DOMAIN Candidates(board, limit) = 1..n,
         \A i \in 1..n : Candidates(board, limit)[i].id \in V,
         PenaltiesOf(Candidates(board, limit)) \in Seq(Nat)
  PROVE  \E h \in [0..Len(PenaltiesOf(Candidates(board, limit))) -> Seq(V)] :
           DigestSteps(h, PenaltiesOf(Candidates(board, limit)), Candidates(board, limit), board, limit)
<1> DEFINE A == Seq(V)
           rows == Candidates(board, limit)
           q == PenaltiesOf(rows)
           m == Len(q)
           none == <<>>
           Add(acc, p) == acc \o SelectFromGroup(Group(rows, p), limit - Len(acc), board = AnyBoard)
           Body(f) == [s \in SUBSET (1..m) |->
                         IF s = {} THEN none ELSE Add(f[s \ {Max(s)}], q[Max(s)])]
           fold == CHOOSE f : f = Body(f)
           step == [x \in A \X (1..m) |-> Add(x[1], q[x[2]])]
<1>1. m \in Nat /\ DOMAIN q = 1..m /\ none \in A
  <2>1. q \in Seq(Nat)
    OBVIOUS
  <2> HIDE DEF q
  <2>2. QED
    BY <2>1
<1>2. DOMAIN rows = 1..n /\ \A i \in 1..n : rows[i].id \in V
  OBVIOUS
<1>3. Digest(board, limit) = fold[1..m]
  <2>1. Digest(board, limit) = FoldLeft(Add, none, q)
    BY DEF Digest, PenaltiesOf
  <2> HIDE DEF Add, none, m, rows, q
  <2>2. FoldLeft(Add, none, q) = fold[1..m]
    BY <1>1 DEF FoldLeft, MapThenFoldSet
  <2>3. QED
    BY <2>1, <2>2
<1> HIDE DEF rows, q
<1>4. ASSUME NEW acc \in A, NEW p PROVE Add(acc, p) \in A
  <2>1. Group(rows, p) \in A
    BY <1>2, GroupTyped
  <2>2. SelectFromGroup(Group(rows, p), limit - Len(acc), board = AnyBoard) \in A
    BY <2>1, SelectFromGroupTyped
  <2>3. QED
    BY <1>4, <2>2
<1> HIDE DEF A, Add, m, none
<1>5. step \in [A \X (1..m) -> A]
  BY <1>4
<1>6. \E f : f = Body(f)
  <2>1. PICK f \in [SUBSET (1..m) -> A] : LeftFolds(f, m, none, step)
    <3> HIDE DEF step
    <3>1. QED
      BY <1>1, <1>5, LeftFoldExists
  <2>2. ASSUME NEW s \in SUBSET (1..m), s # {}
        PROVE  step[<<f[s \ {Max(s)}], Max(s)>>] = Add(f[s \ {Max(s)}], q[Max(s)])
    BY <1>1, <2>1, <2>2, LastIn
  <2> HIDE DEF step
  <2>3. f = Body(f)
    BY <2>1, <2>2 DEF LeftFolds
  <2>4. QED
    BY <2>3
<1>7. fold = Body(fold)
  <2> HIDE DEF Body
  <2>1. QED
    BY <1>6
<1> HIDE DEF fold
<1>8. fold[{}] = none
  BY <1>7
<1>9. AddsIn(fold, m, A, none, step)
  <2>1. ASSUME NEW s \in SUBSET (1..m), s # {}, fold[s \ {Max(s)}] \in A
        PROVE  fold[s] = step[<<fold[s \ {Max(s)}], Max(s)>>]
    BY <1>1, <1>7, <2>1, LastIn
  <2> HIDE DEF step
  <2>2. QED
    BY <1>8, <2>1 DEF AddsIn
<1>10. \A x \in A, i \in 1..m : step[<<x, i>>] = Add(x, q[i])
  OBVIOUS
<1> HIDE DEF step
<1>11. PICK h \in [0..m -> A] : Steps(h, m, none, step, fold[1..m])
  BY <1>1, <1>5, <1>9, LeftFoldSteps
<1>12. \A i \in 1..m : h[i] = Add(h[i - 1], q[i])
  <2>1. ASSUME NEW i \in 1..m PROVE h[i - 1] \in A
    <3>1. i - 1 \in 0..m
      BY <1>1
    <3>2. QED
      BY <1>11, <3>1
  <2>2. QED
    BY <1>10, <1>11, <2>1 DEF Steps
<1>13. DigestSteps(h, q, rows, board, limit)
  BY <1>3, <1>11, <1>12 DEF Steps, DigestSteps, GroupAdded, Add, none, m
<1>14. QED
  BY <1>11, <1>13 DEF A, m, q, rows

LEMMA Joined ==
  ASSUME NEW S, NEW acc \in Seq(S), NEW sel \in Seq(S)
  PROVE  /\ acc \o sel \in Seq(S)
         /\ ToSet(acc \o sel) = ToSet(acc) \cup ToSet(sel)
         /\ Len(acc \o sel) = Len(acc) + Len(sel)
         /\ \A i \in 1..Len(acc) : (acc \o sel)[i] = acc[i]
         /\ \A i \in (Len(acc) + 1)..(Len(acc) + Len(sel)) :
              i - Len(acc) \in 1..Len(sel) /\ (acc \o sel)[i] = sel[i - Len(acc)]
<1> DEFINE next == acc \o sel
           a == Len(acc)
           b == Len(sel)
<1>1. /\ next \in Seq(S) /\ Len(next) = a + b /\ a \in Nat /\ b \in Nat
      /\ DOMAIN acc = 1..a /\ DOMAIN sel = 1..b /\ DOMAIN next = 1..(a + b)
      /\ \A i \in 1..(a + b) : next[i] = IF i <= a THEN acc[i] ELSE sel[i - a]
  OBVIOUS
<1> HIDE DEF next, a, b
<1>2. \A i \in 1..a : i \in 1..(a + b) /\ next[i] = acc[i]
  BY <1>1
<1>3. \A i \in (a + 1)..(a + b) : i \in 1..(a + b) /\ i - a \in 1..b /\ next[i] = sel[i - a]
  BY <1>1
<1>4. ToSet(next) \subseteq ToSet(acc) \cup ToSet(sel)
  <2>1. ASSUME NEW i \in 1..(a + b) PROVE next[i] \in ToSet(acc) \cup ToSet(sel)
    <3>1. i \in 1..a \/ i \in (a + 1)..(a + b)
      BY <1>1
    <3>2. QED
      BY <1>1, <1>2, <1>3, <3>1 DEF ToSet
  <2>2. QED
    BY <1>1, <2>1 DEF ToSet
<1>5. ToSet(acc) \subseteq ToSet(next)
  BY <1>1, <1>2 DEF ToSet
<1>6. ToSet(sel) \subseteq ToSet(next)
  <2>1. ASSUME NEW j \in 1..b PROVE sel[j] \in ToSet(next)
    <3>1. j + a \in (a + 1)..(a + b) /\ (j + a) - a = j
      BY <1>1
    <3>2. next[j + a] = sel[j] /\ j + a \in 1..(a + b)
      BY <1>3, <3>1
    <3>3. QED
      BY <1>1, <3>2 DEF ToSet
  <2>2. QED
    BY <1>1, <2>1 DEF ToSet
<1>7. QED
  BY <1>1, <1>2, <1>3, <1>4, <1>5, <1>6 DEF next, a, b

LEMMA ElementsIn ==
  ASSUME NEW S, NEW seq \in Seq(S)
  PROVE  ToSet(seq) \subseteq S
BY DEF ToSet

Of(T, p) == {e \in T : Penalty(e) = p}

\* What the digest is like when the first groups have had their turn.
DigestOK(C, q, k, limit, diversify, acc) ==
  /\ acc \in Seq(C) /\ Len(acc) = Cardinality(ToSet(acc)) /\ Len(acc) <= limit
  /\ \A e \in ToSet(acc) : \E i \in 1..k : Penalty(e) = q[i]
  /\ \A i, j \in 1..Len(acc) : i < j => Penalty(acc[i]) <= Penalty(acc[j])
  /\ Len(acc) = limit \/ \A i \in 1..k : Of(C, q[i]) \subseteq ToSet(acc)
  /\ \A i \in 1..k : SelectionOK(Of(C, q[i]), diversify, Of(ToSet(acc), q[i]))
  /\ \A d \in C, e \in ToSet(acc) : Penalty(d) < Penalty(e) => d \in ToSet(acc)

LEMMA GroupAppended ==
  ASSUME NEW C, IsFiniteSet(C), \A e \in C : Penalty(e) \in Nat,
         NEW q \in Seq(Nat), \A i, j \in 1..Len(q) : i < j => q[i] < q[j],
         \A e \in C : \E i \in 1..Len(q) : q[i] = Penalty(e),
         NEW limit \in Nat, NEW diversify, NEW k \in 1..Len(q),
         NEW acc, DigestOK(C, q, k - 1, limit, diversify, acc),
         NEW G, G = Of(C, q[k]), NEW sel \in Seq(G),
         Len(sel) = Cardinality(ToSet(sel)), Len(sel) <= limit - Len(acc),
         Len(sel) = limit - Len(acc) \/ ToSet(sel) = G,
         SelectionOK(G, diversify, ToSet(sel)),
         NEW next, next = acc \o sel
  PROVE  DigestOK(C, q, k, limit, diversify, next)
<1> DEFINE T == ToSet(acc)
           X == ToSet(sel)
           U == ToSet(next)
           a == Len(acc)
           b == Len(sel)
<1>1. /\ acc \in Seq(C) /\ a = Cardinality(T) /\ a <= limit
      /\ \A e \in T : \E i \in 1..(k - 1) : Penalty(e) = q[i]
      /\ \A i, j \in 1..a : i < j => Penalty(acc[i]) <= Penalty(acc[j])
      /\ a = limit \/ \A i \in 1..(k - 1) : Of(C, q[i]) \subseteq T
      /\ \A i \in 1..(k - 1) : SelectionOK(Of(C, q[i]), diversify, Of(T, q[i]))
      /\ \A d \in C, e \in T : Penalty(d) < Penalty(e) => d \in T
  BY DEF DigestOK
<1>2. G \subseteq C /\ \A e \in G : Penalty(e) = q[k]
  BY DEF Of
<1>3. a \in Nat /\ b \in Nat /\ DOMAIN acc = 1..a /\ DOMAIN sel = 1..b /\ sel \in Seq(C)
  <2>1. a \in Nat /\ b \in Nat /\ DOMAIN acc = 1..a /\ DOMAIN sel = 1..b
    BY <1>1
  <2>2. sel \in Seq(C)
    BY <1>2
  <2>3. QED
    BY <2>1, <2>2
<1>4. /\ next \in Seq(C) /\ U = T \cup X /\ Len(next) = a + b
      /\ \A i \in 1..a : next[i] = acc[i]
      /\ \A i \in (a + 1)..(a + b) : i - a \in 1..b /\ next[i] = sel[i - a]
  <2>1. /\ acc \o sel \in Seq(C)
        /\ ToSet(acc \o sel) = ToSet(acc) \cup ToSet(sel)
        /\ Len(acc \o sel) = Len(acc) + Len(sel)
        /\ \A i \in 1..Len(acc) : (acc \o sel)[i] = acc[i]
        /\ \A i \in (Len(acc) + 1)..(Len(acc) + Len(sel)) :
              i - Len(acc) \in 1..Len(sel) /\ (acc \o sel)[i] = sel[i - Len(acc)]
    BY <1>1, <1>3, Joined
  <2>2. acc \o sel = next
    OBVIOUS
  <2>3. QED
    BY <2>1, <2>2, Zenon
<1>5. T \subseteq C /\ X \subseteq G
  BY <1>1, ElementsIn
<1>6. /\ k \in Nat /\ 1..(k - 1) \subseteq 1..Len(q) /\ \A i \in 1..k : i = k \/ i \in 1..(k - 1)
      /\ \A i \in 1..(k - 1) : i \in 1..k /\ q[i] < q[k] /\ q[i] \in Nat
      /\ q[k] \in Nat
  <2>1. \A i \in 1..(k - 1) : i \in 1..Len(q) /\ i < k
    OBVIOUS
  <2>2. \A i \in 1..Len(q) : q[i] \in Nat
    OBVIOUS
  <2>3. QED
    BY <2>1, <2>2
<1>7. \A e \in T : Penalty(e) < q[k] /\ Penalty(e) \in Nat
  BY <1>1, <1>6
<1>8. \A e \in X : Penalty(e) = q[k]
  BY <1>2, <1>5
<1>9. T \cap X = {}
  BY <1>6, <1>7, <1>8
<1> HIDE DEF T, X, U, a, b
<1>10. Len(next) = Cardinality(U) /\ Len(next) <= limit
  <2>1. IsFiniteSet(T) /\ IsFiniteSet(X)
    <3>1. T \subseteq C /\ X \subseteq C
      BY <1>2, <1>5
    <3>2. QED
      BY <3>1, FS_Subset
  <2>2. Cardinality(U) = Cardinality(T) + Cardinality(X) - Cardinality(T \cap X)
    BY <1>4, <2>1, FS_Union
  <2>3. Cardinality(T \cap X) = 0
    BY <1>9, FS_EmptySet
  <2>4. Cardinality(T) = a /\ Cardinality(X) = b
    BY <1>1 DEF X, b
  <2>5. b <= limit - a
    BY DEF a, b
  <2>6. QED
    BY <1>3, <1>4, <2>2, <2>3, <2>4, <2>5
<1>11. \A e \in U : \E i \in 1..k : Penalty(e) = q[i]
  <2>1. k \in 1..k
    BY <1>6
  <2>2. QED
    BY <1>1, <1>4, <1>6, <1>8, <2>1
<1>12. ASSUME NEW i \in 1..Len(next), NEW j \in 1..Len(next), i < j
       PROVE  Penalty(next[i]) <= Penalty(next[j])
  <2>1. (i \in 1..a \/ i \in (a + 1)..(a + b)) /\ (j \in 1..a \/ j \in (a + 1)..(a + b))
    BY <1>3, <1>4
  <2>2. \A r \in 1..a : acc[r] \in T
    BY <1>3 DEF T, ToSet
  <2>3. \A r \in 1..b : sel[r] \in X
    BY <1>3 DEF X, ToSet
  <2>4. CASE i \in 1..a /\ j \in 1..a
    BY <1>1, <1>4, <1>12, <2>4
  <2>5. CASE i \in 1..a /\ j \in (a + 1)..(a + b)
    <3>1. next[i] \in T /\ next[j] \in X
      BY <1>4, <2>2, <2>3, <2>5
    <3>2. Penalty(next[i]) < q[k] /\ Penalty(next[j]) = q[k] /\ Penalty(next[i]) \in Nat
      BY <1>7, <1>8, <3>1
    <3>3. QED
      BY <1>6, <3>2
  <2>6. CASE i \in (a + 1)..(a + b) /\ j \in (a + 1)..(a + b)
    <3>1. next[i] \in X /\ next[j] \in X
      BY <1>4, <2>3, <2>6
    <3>2. Penalty(next[i]) = q[k] /\ Penalty(next[j]) = q[k]
      BY <1>8, <3>1
    <3>3. QED
      BY <1>6, <3>2
  <2>7. ~(i \in (a + 1)..(a + b) /\ j \in 1..a)
    BY <1>3, <1>12
  <2>8. QED
    BY <2>1, <2>4, <2>5, <2>6, <2>7
<1>13. Len(next) = limit \/ \A i \in 1..k : Of(C, q[i]) \subseteq U
  <2>1. SUFFICES ASSUME Len(next) # limit PROVE \A i \in 1..k : Of(C, q[i]) \subseteq U
    OBVIOUS
  <2>2. b # limit - a
    BY <1>3, <1>4, <2>1
  <2>3. X = G
    BY <2>2 DEF X, a, b
  <2>4. a # limit
    <3>1. b <= limit - a
      BY DEF a, b
    <3>2. QED
      BY <1>3, <2>2, <3>1
  <2>5. \A i \in 1..(k - 1) : Of(C, q[i]) \subseteq T
    BY <1>1, <2>4
  <2>6. QED
    BY <1>4, <1>6, <2>3, <2>5
<1>14. ASSUME NEW i \in 1..k PROVE SelectionOK(Of(C, q[i]), diversify, Of(U, q[i]))
  <2>1. CASE i = k
    <3>1. \A e \in T : Penalty(e) # q[k]
      BY <1>6, <1>7
    <3>2. Of(U, q[k]) = X
      BY <1>4, <1>8, <3>1 DEF Of
    <3>3. SelectionOK(G, diversify, X)
      BY DEF X
    <3>4. QED
      BY <2>1, <3>2, <3>3
  <2>2. CASE i \in 1..(k - 1)
    <3>1. \A e \in X : Penalty(e) # q[i]
      BY <1>6, <1>8, <2>2
    <3>2. Of(U, q[i]) = Of(T, q[i])
      BY <1>4, <3>1 DEF Of
    <3>3. QED
      BY <1>1, <2>2, <3>2
  <2>3. QED
    BY <1>6, <2>1, <2>2
<1>15. ASSUME NEW d \in C, NEW e \in U, Penalty(d) < Penalty(e) PROVE d \in U
  <2>1. CASE e \in T
    BY <1>1, <1>4, <1>15, <2>1
  <2>2. CASE e \in X
    <3>1. a # limit
      <4>1. b # 0
        <5>1. X # {} /\ IsFiniteSet(X)
          <6>1. X \subseteq C
            BY <1>2, <1>5
          <6>2. QED
            BY <2>2, <6>1, FS_Subset
        <5>2. Cardinality(X) # 0
          BY <5>1, FS_EmptySet
        <5>3. QED
          BY <5>2 DEF X, b
      <4>2. b <= limit - a
        BY DEF a, b
      <4>3. QED
        BY <1>3, <4>1, <4>2
    <3>2. PICK i \in 1..Len(q) : q[i] = Penalty(d)
      OBVIOUS
    <3>3. q[i] < q[k]
      BY <1>8, <1>15, <2>2, <3>2
    <3>4. i \in Nat /\ q[i] \in Nat
      BY <3>2
    <3>5. ~(k < i) /\ i # k
      <4>1. k < i => q[k] < q[i]
        BY <3>2
      <4>2. QED
        BY <1>6, <3>3, <3>4, <4>1
    <3>6. i \in 1..(k - 1)
      BY <1>6, <3>2, <3>5
    <3>7. d \in Of(C, q[i])
      BY <3>2 DEF Of
    <3>8. d \in T
      BY <1>1, <3>1, <3>6, <3>7
    <3>9. QED
      BY <1>4, <3>8
  <2>3. QED
    BY <1>4, <2>1, <2>2
<1>16. QED
  BY <1>4, <1>10, <1>11, <1>12, <1>13, <1>14, <1>15 DEF DigestOK, U

DigestKept(C, board, limit) ==
  \E q \in Seq(Nat) : /\ \A e \in C : \E i \in 1..Len(q) : q[i] = Penalty(e)
                      /\ DigestOK(C, q, Len(q), limit, board = AnyBoard, Digest(board, limit))

LEMMA DigestKeeps ==
  ASSUME EntriesOK, feedback \in Seq(Feedback), NEW board, NEW limit \in Nat,
         NEW rows, rows = Candidates(board, limit), NEW C, C = {rows[i].id : i \in 1..Len(rows)}
  PROVE  DigestKept(C, board, limit)
<1> DEFINE V == VisibleOn(board)
           n == Len(rows)
           q == PenaltiesOf(rows)
           m == Len(q)
           diversify == board = AnyBoard
<1>1. V \subseteq Entries /\ IsFiniteSet(V)
  BY VisibleEntries
<1>2. CandidatesOK(V, limit, rows, C)
  BY CandidatesRanked
<1>3. /\ n \in Nat /\ DOMAIN rows = 1..n /\ C \subseteq V
      /\ \A i \in 1..n : rows[i].id \in C /\ rows[i].penalty = Penalty(rows[i].id)
      /\ \A i, j \in 1..n : i < j => Preferred(rows[i].id, rows[j].id)
  BY <1>2 DEF CandidatesOK
<1>4. \A e : Penalty(e) \in Nat
  BY PenaltyTyped
<1>5. PenaltiesOK(rows, q)
  <2>1. \A i \in 1..n : rows[i].penalty \in Nat
    BY <1>3, <1>4
  <2>2. QED
    BY <1>3, <2>1, PenaltiesRanked
<1>6. \E h \in [0..m -> Seq(C)] : DigestSteps(h, q, rows, board, limit)
  <2>1. /\ DOMAIN Candidates(board, limit) = 1..n
        /\ \A i \in 1..n : Candidates(board, limit)[i].id \in C
        /\ PenaltiesOf(Candidates(board, limit)) \in Seq(Nat)
    BY <1>3, <1>5 DEF PenaltiesOK
  <2>2. \E h \in [0..Len(PenaltiesOf(Candidates(board, limit))) -> Seq(C)] :
          DigestSteps(h, PenaltiesOf(Candidates(board, limit)), Candidates(board, limit), board, limit)
    BY <1>3, <2>1, DigestRuns
  <2>3. QED
    BY <2>2, Zenon
<1> HIDE DEF q, diversify, V
<1>7. /\ q \in Seq(Nat) /\ m \in Nat
      /\ \A i, j \in 1..m : i < j => q[i] < q[j]
      /\ \A i \in 1..n : \E k \in 1..m : q[k] = rows[i].penalty
  <2>1. /\ q \in Seq(Nat)
        /\ \A i, j \in 1..m : i < j => q[i] < q[j]
        /\ \A i \in 1..n : \E k \in 1..m : q[k] = rows[i].penalty
    BY <1>3, <1>5, Zenon DEF PenaltiesOK
  <2>2. Len(q) \in Nat
    BY <2>1
  <2>3. QED
    BY <2>1, <2>2, Zenon
<1>8. PICK h \in [0..m -> Seq(C)] : DigestSteps(h, q, rows, board, limit)
  BY <1>6
<1>9. \A e \in C : \E i \in 1..m : q[i] = Penalty(e)
  BY <1>3, <1>7
<1>10. IsFiniteSet(C)
  BY <1>1, <1>3, FS_Subset
<1> DEFINE T == {k \in 0..m : DigestOK(C, q, k, limit, diversify, h[k])}
<1> HIDE DEF m, n
<1>11. 0 \in T
  <2>1. h[0] = <<>> /\ 0 \in 0..m
    BY <1>7, <1>8 DEF DigestSteps
  <2>2. /\ <<>> \in Seq(C) /\ Len(<<>>) = 0 /\ ToSet(<<>>) = {} /\ Cardinality({}) = 0
    BY FS_EmptySet DEF ToSet
  <2>3. DigestOK(C, q, 0, limit, diversify, <<>>)
    <3> DEFINE none == <<>>
    <3>1. 1..0 = {} /\ 1..Len(none) = {} /\ 0 <= limit
      BY <2>2
    <3> HIDE DEF none
    <3>2. QED
      BY <2>2, <3>1 DEF DigestOK, none
  <2>4. QED
    BY <2>1, <2>3
<1>12. ASSUME NEW k \in 1..m, k - 1 \in T PROVE k \in T
  <2> SUFFICES ASSUME NEW acc, acc = h[k - 1], NEW next, next = h[k]
               PROVE  DigestOK(C, q, k, limit, diversify, next)
    <3>1. k \in 0..m
      BY <1>7 DEF m
    <3>2. QED
      BY <3>1, Zenon
  <2> DEFINE G == Of(C, q[k])
             room == limit - Len(acc)
             sel == SelectFromGroup(Group(rows, q[k]), room, diversify)
  <2>1. DigestOK(C, q, k - 1, limit, diversify, acc)
    BY <1>12
  <2>2. acc \in Seq(C) /\ Len(acc) <= limit
    BY <2>1 DEF DigestOK
  <2>3. room \in Nat
    BY <2>2
  <2>4. next = acc \o sel
    BY <1>8 DEF DigestSteps, GroupAdded, m, diversify
  <2>5. G = RowsIn(rows, n, q[k])
    <3>1. C = {rows[i].id : i \in 1..n}
      BY DEF n
    <3>2. QED
      BY <1>3, <3>1 DEF Of, RowsIn, n
  <2>6. Grouped(G, Group(rows, q[k]))
    <3>1. \A i, j \in 1..n : i < j /\ rows[i].penalty = rows[j].penalty => Newer(rows[i].id, rows[j].id)
      <4> SUFFICES ASSUME NEW i \in 1..n, NEW j \in 1..n, i < j, rows[i].penalty = rows[j].penalty
                   PROVE  Newer(rows[i].id, rows[j].id)
        OBVIOUS
      <4>1. Preferred(rows[i].id, rows[j].id)
        BY <1>3 DEF n
      <4>2. /\ Penalty(rows[i].id) = Penalty(rows[j].id)
            /\ Penalty(rows[i].id) \in Nat
        BY <1>3, <1>4 DEF n
      <4>3. QED
        BY <4>1, <4>2 DEF Preferred
    <3>2. C \in SUBSET Entries /\ n \in Nat /\ DOMAIN rows = 1..n /\ \A i \in 1..n : rows[i].id \in C
      BY <1>1, <1>3 DEF n
    <3>3. NewestWithin(rows, n)
      BY <3>1, Zenon DEF NewestWithin
    <3> HIDE DEF G
    <3>4. QED
      BY <2>5, <3>2, <3>3, GroupIsGrouped
  <2>7. IsFiniteSet(G)
    <3>1. G \subseteq C
      BY DEF Of
    <3> HIDE DEF G
    <3>2. QED
      BY <1>10, <3>1, FS_Subset
  <2>8. diversify \in BOOLEAN
    BY DEF diversify
  <2>9. /\ sel \in Seq(G) /\ Len(sel) = Cardinality(ToSet(sel)) /\ Len(sel) <= room
        /\ Len(sel) = room \/ ToSet(sel) = G
        /\ SelectionOK(G, diversify, ToSet(sel))
    <3> HIDE DEF G, room
    <3>1. QED
      BY <2>3, <2>6, <2>7, <2>8, GroupSelected
  <2> HIDE DEF sel
  <2>10. \A e \in C : Penalty(e) \in Nat
    BY <1>4
  <2>11. QED
    BY <1>7, <1>9, <1>10, <2>1, <2>4, <2>9, <2>10, GroupAppended DEF m
<1> HIDE DEF T
<1>13. m \in T
  BY <1>7, <1>11, <1>12, Inducts
<1>14. h[m] = Digest(board, limit)
  BY <1>8 DEF DigestSteps, m
<1>15. DigestOK(C, q, m, limit, diversify, Digest(board, limit))
  BY <1>13, <1>14 DEF T
<1>16. QED
  BY <1>7, <1>9, <1>15 DEF m, diversify, DigestKept

\* A digest lists visible entries of its board.
LEMMA DigestShows ==
  ASSUME EntriesOK, feedback \in Seq(Feedback), NEW board, NEW limit \in Nat
  PROVE  Digest(board, limit) \in Seq(VisibleOn(board))
<1> SUFFICES ASSUME NEW rows, rows = Candidates(board, limit),
                    NEW C, C = {rows[i].id : i \in 1..Len(rows)}
             PROVE  Digest(board, limit) \in Seq(VisibleOn(board))
  OBVIOUS
<1>1. CandidatesOK(VisibleOn(board), limit, rows, C)
  BY CandidatesRanked
<1>2. DigestKept(C, board, limit)
  BY DigestKeeps
<1>3. Digest(board, limit) \in Seq(C)
  BY <1>2 DEF DigestKept, DigestOK
<1>4. C \subseteq VisibleOn(board)
  BY <1>1 DEF CandidatesOK
<1>5. QED
  BY <1>3, <1>4

-----------------------------------------------------------------------------
\* What a digest promises.

Promised(items, board, limit) ==
  /\ FillsLimit(items, board, limit)
  /\ FewerComplaintsFirst(items, board)
  /\ SpreadsSources(items, board, limit)
  /\ board = AnyBoard => SpreadsBoards(items, limit)
  /\ NewestOfSource(items, board)

\* The cards are those of the digest's entries, in its order.
LEMMA CardsOfDigest ==
  ASSUME NEW board, NEW limit, NEW S, Digest(board, limit) \in Seq(S),
         NEW items, items = DigestCards(board, limit)
  PROVE  /\ Len(items) = Len(Digest(board, limit)) /\ DOMAIN items = 1..Len(Digest(board, limit))
         /\ \A i \in DOMAIN items : items[i].id = Digest(board, limit)[i]
         /\ Chosen(items) = ToSet(Digest(board, limit))
<1> DEFINE digest == Digest(board, limit)
<1>1. items = [i \in DOMAIN digest |-> Card(digest[i])]
  BY DEF DigestCards
<1>2. Len(digest) \in Nat /\ DOMAIN digest = 1..Len(digest)
  OBVIOUS
<1> HIDE DEF digest
<1>3. DOMAIN items = 1..Len(digest) /\ \A i \in DOMAIN items : items[i].id = digest[i]
  BY <1>1, <1>2 DEF Card
<1>4. Len(items) = Len(digest)
  BY <1>1, <1>2
<1>5. Chosen(items) = ToSet(digest)
  BY <1>2, <1>3 DEF Chosen, ToSet
<1>6. QED
  BY <1>3, <1>4, <1>5 DEF digest

LEMMA AtMostOne ==
  ASSUME NEW T, IsFiniteSet(T), \A d, e \in T : d = e
  PROVE  Cardinality(T) <= 1
<1>1. CASE T = {}
  BY <1>1, FS_EmptySet
<1>2. CASE T # {}
  <2>1. PICK e \in T : TRUE
    BY <1>2
  <2>2. T = {e}
    BY <2>1
  <2>3. QED
    BY <2>2, FS_Singleton
<1>3. QED
  BY <1>1, <1>2

LEMMA SelectionKeeps ==
  ASSUME EntriesOK, feedback \in Seq(Feedback), NEW board, NEW limit \in Nat,
         NEW items, items = DigestCards(board, limit)
  PROVE  Promised(items, board, limit)
<1> DEFINE V == VisibleOn(board)
           digest == Digest(board, limit)
           T == ToSet(digest)
           diversify == board = AnyBoard
<1> SUFFICES ASSUME NEW rows, rows = Candidates(board, limit),
                    NEW C, C = {rows[i].id : i \in 1..Len(rows)}
             PROVE  Promised(items, board, limit)
  OBVIOUS
<1>1. IsFiniteSet(V)
  BY VisibleEntries
<1>2. CandidatesOK(V, limit, rows, C)
  BY CandidatesRanked
<1>3. PICK q \in Seq(Nat) : /\ \A e \in C : \E i \in 1..Len(q) : q[i] = Penalty(e)
                            /\ DigestOK(C, q, Len(q), limit, diversify, digest)
  <2>1. DigestKept(C, board, limit)
    BY DigestKeeps
  <2>2. QED
    BY <2>1 DEF DigestKept
<1>4. C = {row.id : row \in ToSet(rows)}
  <2>1. DOMAIN rows = 1..Len(rows)
    BY <1>2 DEF CandidatesOK
  <2>2. QED
    BY <2>1 DEF ToSet
<1>5. C \subseteq V /\ (C = V \/ Cardinality(C) >= limit)
      /\ \A d \in V, e \in C : Preferred(d, e) => d \in C
  BY <1>2 DEF CandidatesOK
<1>6. /\ digest \in Seq(C) /\ Len(digest) = Cardinality(T) /\ Len(digest) <= limit
      /\ \A i, j \in 1..Len(digest) : i < j => Penalty(digest[i]) <= Penalty(digest[j])
      /\ Len(digest) = limit \/ \A i \in 1..Len(q) : Of(C, q[i]) \subseteq T
      /\ \A i \in 1..Len(q) : SelectionOK(Of(C, q[i]), diversify, Of(T, q[i]))
      /\ \A d \in C, e \in T : Penalty(d) < Penalty(e) => d \in T
  BY <1>3 DEF DigestOK
<1>7. /\ Len(items) = Len(digest) /\ DOMAIN items = 1..Len(digest)
      /\ \A i \in DOMAIN items : items[i].id = digest[i]
      /\ Chosen(items) = T
  BY <1>6, CardsOfDigest
<1>8. \A e : Penalty(e) \in Nat
  BY PenaltyTyped
<1>9. T \subseteq C
  BY <1>6, ElementsIn
<1>10. ASSUME NEW d \in C PROVE SelectionOK(Of(C, Penalty(d)), diversify, Of(T, Penalty(d)))
  BY <1>3, <1>6
<1> HIDE DEF T, V
<1>11. FillsLimit(items, board, limit)
  <2>1. T \subseteq V /\ IsFiniteSet(C) /\ IsFiniteSet(T)
    BY <1>1, <1>5, <1>9, FS_Subset
  <2>2. Cardinality(T) <= Cardinality(V) /\ Cardinality(T) \in Nat /\ Cardinality(V) \in Nat
    BY <1>1, <2>1, FS_Subset, FS_CardinalityType
  <2>3. Len(items) = Cardinality(T) /\ Cardinality(T) <= limit
    BY <1>6, <1>7
  <2>4. Cardinality(T) = limit \/ Cardinality(T) = Cardinality(V)
    <3>1. SUFFICES ASSUME Cardinality(T) # limit PROVE T = V
      OBVIOUS
    <3>2. \A i \in 1..Len(q) : Of(C, q[i]) \subseteq T
      BY <1>6, <3>1
    <3>3. T = C
      <4>1. ASSUME NEW e \in C PROVE e \in T
        <5>1. PICK i \in 1..Len(q) : q[i] = Penalty(e)
          BY <1>3
        <5>2. e \in Of(C, q[i])
          BY <5>1 DEF Of
        <5>3. QED
          BY <3>2, <5>2
      <4>2. QED
        BY <1>9, <4>1
    <3>4. Cardinality(C) < limit
      BY <2>2, <2>3, <3>1, <3>3
    <3>5. C = V
      BY <1>5, <2>2, <3>3, <3>4
    <3>6. QED
      BY <3>3, <3>5
  <2>5. Cardinality(T) = Min({limit, Cardinality(V)})
    <3>1. Min({limit, Cardinality(V)}) = IF limit <= Cardinality(V) THEN limit ELSE Cardinality(V)
      BY <2>2, MinOf
    <3>2. QED
      BY <2>2, <2>3, <2>4, <3>1
  <2>6. QED
    BY <1>7, <2>1, <2>3, <2>5 DEF FillsLimit, V
<1>12. FewerComplaintsFirst(items, board)
  <2> SUFFICES ASSUME NEW d \in V, NEW e \in T, Penalty(d) < Penalty(e)
               PROVE  d \in T /\ ~Before(items, e, d)
    BY <1>7 DEF FewerComplaintsFirst, V
  <2>1. d \in T
    <3>1. d \in C
      BY <1>5, <1>9 DEF Preferred
    <3>2. QED
      BY <1>6, <3>1
  <2>2. ~Before(items, e, d)
    <3>1. SUFFICES ASSUME NEW i \in DOMAIN items, NEW j \in DOMAIN items,
                          i < j, items[i].id = e, items[j].id = d
                   PROVE  FALSE
      BY DEF Before
    <3>2. Penalty(e) <= Penalty(d)
      BY <1>6, <1>7, <3>1
    <3>3. QED
      BY <1>8, <3>2
  <2>3. QED
    BY <2>1, <2>2
<1>13. SpreadsSources(items, board, limit)
  <2> SUFFICES ASSUME NEW d \in C \ T,
                      Cardinality({e \in T : SourceOf[e] = SourceOf[d] /\ Penalty(e) = Penalty(d)})
                        < SourceItemLimit,
                      NEW s \in Sources
               PROVE  Cardinality({e \in T : SourceOf[e] = s /\ Penalty(e) = Penalty(d)}) <= SourceItemLimit
    <3>1. C \ T = {row.id : row \in ToSet(Candidates(board, limit))} \ Chosen(items)
      BY <1>4, <1>7
    <3>2. QED
      BY <1>7, <3>1, Zenon DEF SpreadsSources
  <2> DEFINE p == Penalty(d)
  <2>1. \A x : {e \in T : SourceOf[e] = x /\ Penalty(e) = p} = {e \in Of(T, p) : SourceOf[e] = x}
    BY DEF Of
  <2>2. SourcesSpread(Of(C, p), Of(T, p))
    BY <1>10 DEF SelectionOK
  <2>3. d \in Of(C, p) \ Of(T, p)
    BY DEF Of
  <2>4. Cardinality({e \in Of(T, p) : SourceOf[e] = SourceOf[d]}) < SourceItemLimit
    BY <2>1
  <2>5. AtMost(Of(T, p))
    BY <2>2, <2>3, <2>4, Zenon DEF SourcesSpread
  <2>6. Cardinality({e \in Of(T, p) : SourceOf[e] = s}) <= SourceItemLimit
    BY <2>5, Zenon DEF AtMost
  <2>7. QED
    BY <2>1, <2>6
<1>14. ASSUME diversify PROVE SpreadsBoards(items, limit)
  <2> SUFFICES ASSUME NEW d \in C,
                      Cardinality({e \in T : /\ BoardOf[SourceOf[e]] = BoardOf[SourceOf[d]]
                                              /\ Penalty(e) = Penalty(d)}) = 0,
                      NEW b \in Boards
               PROVE  Cardinality({e \in T : BoardOf[SourceOf[e]] = b /\ Penalty(e) = Penalty(d)}) <= 1
    <3>1. C = {row.id : row \in ToSet(Candidates(AnyBoard, limit))}
      BY <1>4, <1>14
    <3>2. QED
      BY <1>7, <3>1, Zenon DEF SpreadsBoards
  <2> DEFINE p == Penalty(d)
             On(x) == {e \in T : BoardOf[SourceOf[e]] = x /\ Penalty(e) = p}
  <2>1. \A x : On(x) \subseteq T /\ IsFiniteSet(On(x))
    <3>1. IsFiniteSet(T)
      BY <1>1, <1>5, <1>9, FS_Subset
    <3>2. \A x : On(x) \subseteq T
      OBVIOUS
    <3> HIDE DEF On
    <3>3. QED
      BY <3>1, <3>2, FS_Subset
  <2>2. On(BoardOf[SourceOf[d]]) = {}
    <3> DEFINE mine == On(BoardOf[SourceOf[d]])
    <3>1. IsFiniteSet(mine) /\ Cardinality(mine) = 0
      BY <2>1
    <3> HIDE DEF mine
    <3>2. mine = {}
      BY <3>1, FS_EmptySet
    <3>3. QED
      BY <3>2 DEF mine
  <2>3. BoardsSpread(Of(C, p), Of(T, p))
    BY <1>10, <1>14 DEF SelectionOK
  <2>4. d \in Of(C, p)
    BY DEF Of
  <2>5. \A e \in Of(T, p) : BoardOf[SourceOf[e]] # BoardOf[SourceOf[d]]
    BY <2>2 DEF Of
  <2>6. OnePerBoard(Of(T, p))
    BY <2>3, <2>4, <2>5 DEF BoardsSpread
  <2>7. \A x, y \in On(b) : x = y
    BY <2>6 DEF Of, OnePerBoard
  <2> HIDE DEF On
  <2>8. Cardinality(On(b)) <= 1
    BY <2>1, <2>7, AtMostOne
  <2>9. QED
    BY <2>8 DEF On
<1>15. NewestOfSource(items, board)
  <2> SUFFICES ASSUME NEW d \in V, NEW e \in T,
                      SourceOf[d] = SourceOf[e], Penalty(d) = Penalty(e), Newer(d, e)
               PROVE  d \in T
    BY <1>7 DEF NewestOfSource, V
  <2>1. d \in C /\ e \in C
    BY <1>5, <1>9 DEF Preferred
  <2>2. NewestIn(Of(C, Penalty(e)), Of(T, Penalty(e)))
    BY <1>10, <2>1 DEF SelectionOK
  <2>3. d \in Of(C, Penalty(e)) /\ e \in Of(C, Penalty(e)) /\ e \in Of(T, Penalty(e))
    BY <2>1 DEF Of
  <2>4. d \in Of(T, Penalty(e))
    BY <2>2, <2>3 DEF NewestIn
  <2>5. QED
    BY <2>4 DEF Of
<1>16. QED
  BY <1>11, <1>12, <1>13, <1>14, <1>15 DEF Promised

-----------------------------------------------------------------------------
\* The reader's steps.

ReaderTypes ==
  /\ stored \cup hidden \subseteq Entries
  /\ enabled \subseteq Sources
  /\ feedback \in Seq(Feedback)
  /\ summaries \in [Entries -> Nat]

LEMMA FeedbackCreated ==
  ASSUME ReaderTypes, WalkInv, NEW e, NEW type \in FeedbackTypes, CreateFeedback(e, type)
  PROVE  ReaderTypes' /\ WalkInv'
<1>1. /\ feedback' = Append(feedback, [entry |-> e, type |-> type, status |-> "open"])
      /\ UNCHANGED <<stored, enabled, hidden, summaries>>
      /\ e \in stored /\ Edit
  BY Zenon DEF CreateFeedback, TakesFeedback
<1>2. [entry |-> e, type |-> type, status |-> "open"] \in Feedback
  BY <1>1, ReaderAssumption DEF Feedback, ReaderTypes
<1>3. feedback' \in Seq(Feedback)
  BY <1>1, <1>2 DEF ReaderTypes
<1>4. ReaderTypes'
  BY <1>1, <1>3 DEF ReaderTypes
<1>5. EntriesOK'
  BY <1>4 DEF ReaderTypes, EntriesOK
<1>6. QED
  BY <1>1, <1>4, <1>5, EditKeepsWalk

LEMMA ReaderStepKeeps ==
  ASSUME ReaderTypes, WalkInv, ReaderStep
  PROVE  ReaderTypes' /\ WalkInv'
<1>1. ASSUME ReaderTypes', Edit PROVE ReaderTypes' /\ WalkInv'
  <2>1. EntriesOK'
    BY <1>1 DEF ReaderTypes, EntriesOK
  <2>2. QED
    BY <1>1, <2>1, EditKeepsWalk
<1>2. ASSUME NEW e \in Entries, Arrive(e) PROVE ReaderTypes' /\ WalkInv'
  BY <1>1, <1>2 DEF Arrive, ReaderTypes
<1>3. ASSUME NEW e \in Entries, Summarize(e) PROVE ReaderTypes' /\ WalkInv'
  <2>1. summaries' \in [Entries -> Nat]
    BY <1>3 DEF Summarize, ReaderTypes
  <2>2. QED
    BY <1>1, <1>3, <2>1 DEF Summarize, ReaderTypes
<1>4. ASSUME NEW e \in Entries, NEW action, SetLifecycle(e, action) PROVE ReaderTypes' /\ WalkInv'
  BY <1>1, <1>4 DEF SetLifecycle, ReaderTypes
<1>5. ASSUME NEW e \in Entries, NEW type \in FeedbackTypes, CreateFeedback(e, type)
      PROVE  ReaderTypes' /\ WalkInv'
  BY <1>5, FeedbackCreated
<1>6. ASSUME NEW s \in Sources, SetEnabled(s) PROVE ReaderTypes' /\ WalkInv'
  BY <1>1, <1>6 DEF SetEnabled, ReaderTypes
<1>7. ASSUME NEW i \in DOMAIN feedback, NEW status \in {"open", "reviewed", "dismissed", "resolved"},
             ReviewFeedback(i, status)
      PROVE  ReaderTypes' /\ WalkInv'
  <2>1. /\ feedback' = [feedback EXCEPT ![i].status = status]
        /\ UNCHANGED <<stored, enabled, hidden, summaries>>
        /\ Edit
    BY <1>7 DEF ReviewFeedback
  <2>2. feedback \in Seq(Feedback) /\ DOMAIN feedback = 1..Len(feedback) /\ Len(feedback) \in Nat
    BY DEF ReaderTypes
  <2>3. [feedback[i] EXCEPT !.status = status] \in Feedback
    <3>1. feedback[i] \in Feedback
      BY <2>2
    <3>2. QED
      BY <3>1 DEF Feedback
  <2>4. feedback' \in [1..Len(feedback) -> Feedback]
    <3>1. \A j \in 1..Len(feedback) : feedback[j] \in Feedback
      BY <2>2
    <3>2. QED
      BY <2>1, <2>2, <2>3, <3>1
  <2>5. feedback' \in Seq(Feedback)
    BY <2>2, <2>4
  <2>6. QED
    BY <1>1, <2>1, <2>5 DEF ReaderTypes
<1>8. ASSUME NEW visit \in Visits, OpenList(visit) PROVE ReaderTypes' /\ WalkInv'
  <2>1. UNCHANGED <<stored, enabled, hidden, feedback, summaries, edits>>
    BY <1>8 DEF OpenList
  <2>2. QED
    BY <1>8, <2>1, OpenListKeepsWalk DEF ReaderTypes
<1>9. ASSUME LoadMore PROVE ReaderTypes' /\ WalkInv'
  <2>1. UNCHANGED <<stored, enabled, hidden, feedback, summaries, edits>>
    BY <1>9 DEF LoadMore
  <2>2. QED
    BY <1>9, <2>1, LoadMoreKeepsWalk DEF ReaderTypes
<1>10. QED
  BY <1>2, <1>3, <1>4, <1>5, <1>6, <1>7, <1>8, <1>9 DEF ReaderStep

LEMMA ReaderStays ==
  ASSUME ReaderTypes, WalkInv, UNCHANGED readerVars
  PROVE  ReaderTypes' /\ WalkInv'
<1>1. UNCHANGED <<stored, enabled, hidden, feedback, summaries, walk>>
  BY DEF readerVars
<1>2. ReaderTypes' /\ EntriesOK'
  BY <1>1 DEF ReaderTypes, EntriesOK
<1>3. ASSUME NEW v
      PROVE  \A e : (e \in Hits(v)' <=> e \in Hits(v)) /\ Place(v, e)' = Place(v, e)
  BY <1>1 DEF Place, Hits, Searched, VisibleOn, Visible, Matches, TextOf, Higher, Rank
<1>4. ASSUME NEW e, Ahead(walk, e) PROVE Ahead(walk, e)'
  <2>1. SUFFICES ASSUME NEW w, w = walk' PROVE Ahead(w, e)'
    OBVIOUS
  <2>2. QED
    BY <1>1, <1>3, <1>4, <2>1 DEF Ahead
<1>5. QED
  BY <1>1, <1>2, <1>4 DEF WalkInv

LEMMA PagesStepKeeps ==
  ASSUME ReaderTypes, WalkInv, PagesStep \/ UNCHANGED pageVars
  PROVE  ReaderTypes' /\ WalkInv'
<1>1. ASSUME NEW type \in FeedbackTypes, SubmitFeedback(type) PROVE ReaderTypes' /\ WalkInv'
  <2>1. CreateFeedback(opened.item, type)
    BY <1>1 DEF SubmitFeedback
  <2>2. QED
    BY <2>1, FeedbackCreated
<1>2. ASSUME NEW e \in Entries, OpenItem(e) PROVE ReaderTypes' /\ WalkInv'
  BY <1>2, ReaderStays DEF OpenItem
<1>3. ASSUME LoadRelated PROVE ReaderTypes' /\ WalkInv'
  BY <1>3, ReaderStays DEF LoadRelated
<1>4. ASSUME UNCHANGED pageVars PROVE ReaderTypes' /\ WalkInv'
  BY <1>4, ReaderStays DEF pageVars
<1>5. QED
  BY <1>1, <1>2, <1>3, <1>4, ReaderStepKeeps DEF PagesStep

-----------------------------------------------------------------------------
\* Editions.

Jobs ==
  [pc : {"idle", "insert", "items", "reread"}, key : Keys \cup {None}, limit : Nat,
   items : Seq(Cards), inserted : BOOLEAN, rows : Seq(Cards)]

\* A generation holds one selection; its transaction has copied the first of
\* the items, and has no edition of the key before it unless it inserted none.
Sound(j) ==
  /\ j \in Jobs
  /\ j.pc # "idle" => j.key \in Keys /\ [key |-> j.key, items |-> j.items] \in selections
  /\ Len(j.rows) <= Len(j.items)
  /\ \A i \in 1..Len(j.rows) : j.rows[i] = j.items[i]
  /\ j.inserted => j.pc \in {"items", "reread"} /\ editions[j.key] = None
  /\ ~j.inserted => j.rows = <<>> /\ j.pc # "items"
  /\ j.pc = "reread" /\ j.inserted => Len(j.rows) = Len(j.items)
  /\ j.pc = "reread" /\ ~j.inserted => editions[j.key] # None

EditionInv ==
  /\ editions \in [Keys -> Seq(Cards) \cup {None}]
  /\ job \in [Handlers -> Jobs]
  /\ \A h \in Handlers : Sound(job[h])
  /\ \A h, q \in Handlers : h # q /\ job[h].inserted /\ job[q].inserted => job[h].key # job[q].key
  /\ EditionIsOneSelection
  /\ \A a \in answers : a.key \in Keys /\ a.items = editions[a.key] /\ a.items # None

DigestInvariant == ReaderTypes /\ WalkInv /\ EditionInv

LEMMA DigestCardsTyped ==
  ASSUME ReaderTypes, NEW board, NEW limit \in Nat
  PROVE  DigestCards(board, limit) \in Seq(Cards)
<1> DEFINE digest == Digest(board, limit)
<1>1. EntriesOK /\ feedback \in Seq(Feedback)
  BY DEF ReaderTypes, EntriesOK
<1>2. VisibleOn(board) \subseteq Entries /\ digest \in Seq(VisibleOn(board))
  BY <1>1, VisibleEntries, DigestShows
<1>3. DigestCards(board, limit) = [i \in DOMAIN digest |-> Card(digest[i])]
  BY DEF DigestCards
<1> HIDE DEF digest
<1>4. DOMAIN digest = 1..Len(digest) /\ Len(digest) \in Nat /\ \A i \in 1..Len(digest) : digest[i] \in Entries
  BY <1>2
<1>5. \A i \in 1..Len(digest) : Card(digest[i]) \in Cards
  BY <1>4 DEF Card, Cards, ReaderTypes
<1>6. QED
  BY <1>3, <1>4, <1>5

LEMMA IdleSound == Sound(Idle) /\ Sound(Idle)'
<1>1. Idle \in Jobs
  BY DEF Idle, Jobs
<1>2. Len(Idle.rows) = 0 /\ Len(Idle.items) = 0 /\ Idle.rows = <<>> /\ Idle.pc = "idle" /\ Idle.inserted = FALSE
  BY DEF Idle
<1>3. QED
  BY <1>1, <1>2 DEF Sound

\* A job stays sound when its edition stays and selections are only added.
LEMMA SoundStays ==
  ASSUME NEW j, Sound(j), selections \subseteq selections',
         j.inserted \/ j.pc = "reread" => editions'[j.key] = editions[j.key]
  PROVE  Sound(j)'
BY DEF Sound

\* A step of one handler that leaves the editions and the answers.
LEMMA JobKeeps ==
  ASSUME EditionInv, NEW h \in Handlers, NEW j, job' = [job EXCEPT ![h] = j],
         Sound(j)', editions' = editions, answers' = answers, selections \subseteq selections',
         j.inserted => \A q \in Handlers \ {h} : job[q].inserted => job[q].key # j.key
  PROVE  EditionInv'
<1>1. j \in Jobs
  BY DEF Sound
<1>2. /\ job' \in [Handlers -> Jobs] /\ job'[h] = j
      /\ \A q \in Handlers \ {h} : job'[q] = job[q]
  BY <1>1 DEF EditionInv
<1>3. \A q \in Handlers : Sound(job[q])'
  <2>1. ASSUME NEW q \in Handlers, NEW k, k = job'[q] PROVE Sound(k)'
    <3>1. CASE q = h
      BY <1>2, <2>1, <3>1
    <3>2. CASE q # h
      <4>1. Sound(k)
        BY <1>2, <2>1, <3>2 DEF EditionInv
      <4>2. QED
        BY <4>1, SoundStays
    <3>3. QED
      BY <3>1, <3>2
  <2>2. QED
    BY <2>1
<1>4. \A p, q \in Handlers :
        p # q /\ job'[p].inserted /\ job'[q].inserted => job'[p].key # job'[q].key
  BY <1>2 DEF EditionInv
<1>5. QED
  BY <1>2, <1>3, <1>4 DEF EditionInv, EditionIsOneSelection

LEMMA GenerateKeeps ==
  ASSUME DigestInvariant, NEW h \in Handlers, NEW date \in AskedDates, NEW board \in AskedBoards,
         NEW limit \in Limits, Generate(h, date, board, limit)
  PROVE  EditionInv'
<1> DEFINE key == [date |-> date, board |-> board]
           items == DigestCards(board, limit)
           new == [Idle EXCEPT !.pc = "insert", !.key = key, !.limit = limit, !.items = items]
<1> SUFFICES ASSUME NEW j, j = new PROVE EditionInv'
  OBVIOUS
<1>1. /\ HasWindow(date) /\ job' = [job EXCEPT ![h] = j]
      /\ selections' = selections \cup {[key |-> key, items |-> items]}
      /\ editions' = editions /\ answers' = answers
  BY Zenon DEF Generate
<1>2. limit \in Nat
  BY EditionsAssumption
<1>3. key \in Keys
  BY <1>1 DEF HasWindow, Keys
<1>4. items \in Seq(Cards)
  BY <1>2, DigestCardsTyped DEF DigestInvariant
<1> HIDE DEF key, items
<1>5. /\ j.pc = "insert" /\ j.key = key /\ j.limit = limit /\ j.items = items /\ j.inserted = FALSE
      /\ j.rows = <<>> /\ j \in Jobs
  <2>1. j = [pc |-> "insert", key |-> key, limit |-> limit, items |-> items, inserted |-> FALSE,
             rows |-> <<>>]
    BY DEF Idle
  <2> HIDE DEF new
  <2>2. <<>> \in Seq(Cards)
    OBVIOUS
  <2>3. QED
    BY <1>2, <1>3, <1>4, <2>1, <2>2 DEF Jobs
<1> HIDE DEF new
<1>6. Sound(j)'
  <2>1. Len(j.rows) = 0 /\ Len(j.items) \in Nat
    BY <1>4, <1>5
  <2>2. [key |-> j.key, items |-> j.items] \in selections'
    BY <1>1, <1>5
  <2>3. QED
    BY <1>3, <1>5, <2>1, <2>2 DEF Sound
<1>7. EditionInv /\ selections \subseteq selections'
  BY <1>1 DEF DigestInvariant
<1>8. QED
  BY <1>1, <1>5, <1>6, <1>7, JobKeeps

LEMMA InsertEditionKeeps ==
  ASSUME EditionInv, NEW h \in Handlers, InsertEdition(h)
  PROVE  EditionInv'
<1> DEFINE old == job[h]
           inserts == editions[old.key] = None
           new == [old EXCEPT !.inserted = inserts, !.pc = IF inserts THEN "items" ELSE "reread"]
<1> SUFFICES ASSUME NEW j, j = new PROVE EditionInv'
  OBVIOUS
<1>1. /\ old.pc = "insert" /\ KeyHolders(h) = {}
      /\ job' = [job EXCEPT ![h].inserted = inserts, ![h].pc = IF inserts THEN "items" ELSE "reread"]
      /\ editions' = editions /\ answers' = answers /\ selections' = selections
  BY Zenon DEF InsertEdition
<1>2. job \in [Handlers -> Jobs] /\ Sound(old)
  BY DEF EditionInv
<1>3. job' = [job EXCEPT ![h] = j]
  BY <1>1, <1>2
<1>4. /\ old \in Jobs /\ old.key \in Keys /\ [key |-> old.key, items |-> old.items] \in selections
      /\ Len(old.rows) <= Len(old.items) /\ old.rows = <<>>
      /\ \A i \in 1..Len(old.rows) : old.rows[i] = old.items[i]
  BY <1>1, <1>2 DEF Sound
<1>5. \A q \in Handlers \ {h} : job[q].inserted => job[q].key # old.key
  BY <1>1 DEF KeyHolders
<1> HIDE DEF inserts, old
<1>6. /\ j.key = old.key /\ j.items = old.items /\ j.rows = old.rows
      /\ j.inserted = inserts /\ j.pc = (IF inserts THEN "items" ELSE "reread")
  BY <1>4 DEF Jobs
<1>7. j \in Jobs
  <2>1. inserts \in BOOLEAN /\ (IF inserts THEN "items" ELSE "reread") \in {"items", "reread"}
    BY DEF inserts
  <2>2. QED
    BY <1>4, <2>1 DEF Jobs
<1> HIDE DEF new
<1>8. (inserts => editions[old.key] = None) /\ (~inserts => editions[old.key] # None)
  BY DEF inserts
<1>9. Sound(j)
  <2>1. CASE inserts
    BY <1>4, <1>6, <1>7, <1>8, <2>1 DEF Sound
  <2>2. CASE ~inserts
    BY <1>4, <1>6, <1>7, <1>8, <2>2 DEF Sound
  <2>3. QED
    BY <2>1, <2>2
<1>10. Sound(j)'
  BY <1>1, <1>9, SoundStays
<1>11. j.inserted => \A q \in Handlers \ {h} : job[q].inserted => job[q].key # j.key
  BY <1>5, <1>6
<1>12. selections \subseteq selections'
  BY <1>1
<1>13. QED
  BY <1>1, <1>3, <1>10, <1>11, <1>12, JobKeeps

LEMMA InsertItemKeeps ==
  ASSUME EditionInv, NEW h \in Handlers, InsertItem(h)
  PROVE  EditionInv'
<1> DEFINE old == job[h]
           n == Len(old.rows)
           new == IF n < Len(old.items) THEN [old EXCEPT !.rows = Append(@, old.items[n + 1])]
                  ELSE [old EXCEPT !.pc = "reread"]
<1> SUFFICES ASSUME NEW j, j = new PROVE EditionInv'
  OBVIOUS
<1>1. /\ old.pc = "items"
      /\ IF n < Len(old.items) THEN job' = [job EXCEPT ![h].rows = Append(@, old.items[n + 1])]
         ELSE job' = [job EXCEPT ![h].pc = "reread"]
      /\ editions' = editions /\ answers' = answers /\ selections' = selections
  BY Zenon DEF InsertItem
<1>2. job \in [Handlers -> Jobs] /\ Sound(old)
  BY DEF EditionInv
<1>3. job' = [job EXCEPT ![h] = j]
  BY <1>1, <1>2
<1>4. \A q \in Handlers \ {h} : job[q].inserted => job[q].key # old.key
  BY <1>1, <1>2 DEF EditionInv, Sound
<1>5. /\ old \in Jobs /\ old.key \in Keys /\ [key |-> old.key, items |-> old.items] \in selections
      /\ n <= Len(old.items) /\ \A i \in 1..n : old.rows[i] = old.items[i]
      /\ old.inserted = TRUE /\ editions[old.key] = None
  BY <1>1, <1>2 DEF Sound, Jobs
<1> HIDE DEF old
<1>6. old.rows \in Seq(Cards) /\ old.items \in Seq(Cards) /\ n \in Nat /\ Len(old.items) \in Nat
  BY <1>5 DEF Jobs
<1>7. Sound(j) /\ j.key = old.key
  <2>1. CASE n < Len(old.items)
    <3> DEFINE card == old.items[n + 1]
    <3>1. card \in Cards
      BY <1>6, <2>1
    <3>2. /\ Append(old.rows, card) \in Seq(Cards) /\ Len(Append(old.rows, card)) = n + 1
          /\ \A i \in 1..(n + 1) : Append(old.rows, card)[i] = IF i = n + 1 THEN card ELSE old.rows[i]
      BY <1>6, <3>1
    <3> HIDE DEF n
    <3>3. \A i \in 1..(n + 1) : Append(old.rows, card)[i] = old.items[i]
      BY <1>5, <1>6, <3>2
    <3> HIDE DEF card
    <3>4. /\ j.key = old.key /\ j.items = old.items /\ j.rows = Append(old.rows, card)
          /\ j.inserted = TRUE /\ j.pc = "items" /\ j \in Jobs
      BY <1>1, <1>5, <2>1, <3>2 DEF Jobs, card, old
    <3> HIDE DEF new
    <3>5. Len(j.rows) <= Len(j.items)
      BY <1>6, <2>1, <3>2, <3>4
    <3>6. \A i \in 1..Len(j.rows) : j.rows[i] = j.items[i]
      BY <3>2, <3>3, <3>4
    <3>7. QED
      BY <1>5, <3>4, <3>5, <3>6 DEF Sound
  <2>2. CASE ~(n < Len(old.items))
    <3>1. n = Len(old.items)
      BY <1>5, <1>6, <2>2
    <3>2. /\ j.key = old.key /\ j.items = old.items /\ j.rows = old.rows
          /\ j.inserted = TRUE /\ j.pc = "reread" /\ j \in Jobs
      BY <1>5, <2>2 DEF Jobs
    <3> HIDE DEF new
    <3>3. QED
      BY <1>5, <3>1, <3>2 DEF Sound
  <2>3. QED
    BY <2>1, <2>2
<1> HIDE DEF new
<1>8. Sound(j)'
  BY <1>1, <1>7, SoundStays
<1>9. QED
  BY <1>1, <1>3, <1>4, <1>7, <1>8, JobKeeps

\* RefuseBoard and Fail: nothing of the transaction is left.
LEMMA IdleKeeps ==
  ASSUME EditionInv, NEW h \in Handlers, job' = [job EXCEPT ![h] = Idle],
         editions' = editions, answers' = answers, selections' = selections
  PROVE  EditionInv'
<1>1. Sound(Idle)' /\ selections \subseteq selections'
  BY IdleSound
<1>2. Idle.inserted = FALSE
  BY DEF Idle
<1>3. QED
  BY <1>1, <1>2, JobKeeps

\* A transaction that inserted an edition commits its whole selection, and
\* whoever commits answers with the edition that is then stored, or is lost.
LEMMA CommitKeeps ==
  ASSUME EditionInv, NEW h \in Handlers,
         job[h].pc = "reread", editions' = Committed(h), job' = [job EXCEPT ![h] = Idle],
         answers' \subseteq answers \cup {[key |-> job[h].key, items |-> Reread(h)]},
         selections' = selections
  PROVE  EditionInv'
<1> SUFFICES ASSUME NEW j, j = job[h] PROVE EditionInv'
  OBVIOUS
<1>1. /\ j.pc = "reread" /\ editions' = Committed(h)
      /\ answers' \subseteq answers \cup {[key |-> j.key, items |-> Reread(h)]}
      /\ job' = [job EXCEPT ![h] = Idle] /\ selections' = selections
  BY Zenon
<1>2. /\ job \in [Handlers -> Jobs] /\ editions \in [Keys -> Seq(Cards) \cup {None}]
      /\ Sound(j) /\ None \notin Seq(Cards)
  BY EditionsAssumption DEF EditionInv
<1>3. j \in Jobs /\ j.key \in Keys /\ [key |-> j.key, items |-> j.items] \in selections
  BY <1>1, <1>2 DEF Sound
<1>4. ASSUME j.inserted
      PROVE  /\ editions' = [editions EXCEPT ![j.key] = j.items] /\ editions[j.key] = None
             /\ Reread(h) = j.items /\ j.items \in Seq(Cards)
  <2>1. /\ Len(j.rows) = Len(j.items) /\ editions[j.key] = None
        /\ \A i \in 1..Len(j.rows) : j.rows[i] = j.items[i]
    BY <1>1, <1>2, <1>4 DEF Sound
  <2>2. j.rows \in Seq(Cards) /\ j.items \in Seq(Cards)
    BY <1>3 DEF Jobs
  <2>3. j.rows = j.items
    BY <2>1, <2>2
  <2>4. editions' = [editions EXCEPT ![j.key] = j.rows] /\ Reread(h) = j.rows
    BY <1>1, <1>4 DEF Committed, Reread
  <2>5. QED
    BY <2>1, <2>2, <2>3, <2>4
<1>5. ASSUME ~j.inserted
      PROVE  editions' = editions /\ Reread(h) = editions[j.key] /\ editions[j.key] # None
  BY <1>1, <1>2, <1>5 DEF Committed, Reread, Stored, Sound
<1>6. editions' \in [Keys -> Seq(Cards) \cup {None}]
  BY <1>2, <1>4, <1>5
<1>7. \A k \in Keys : editions[k] # None => editions'[k] = editions[k]
  BY <1>2, <1>4, <1>5
<1>8. Reread(h) = editions'[j.key] /\ Reread(h) # None
  BY <1>2, <1>3, <1>4, <1>5
<1>9. /\ job' \in [Handlers -> Jobs] /\ job'[h] = Idle
      /\ \A q \in Handlers \ {h} : job'[q] = job[q]
  BY <1>1, <1>2 DEF Idle, Jobs
<1>10. \A q \in Handlers : Sound(job[q])'
  <2>1. ASSUME NEW q \in Handlers, NEW k, k = job'[q] PROVE Sound(k)'
    <3>1. CASE q = h
      BY <1>9, <2>1, <3>1, IdleSound
    <3>2. CASE q # h
      <4>1. k = job[q] /\ Sound(k)
        BY <1>9, <2>1, <3>2 DEF EditionInv
      <4>2. ASSUME k.inserted PROVE editions'[k.key] = editions[k.key]
        <5>1. k.key \in Keys
          BY <4>1, <4>2 DEF Sound
        <5>2. j.inserted => k.key # j.key
          BY <3>2, <4>1, <4>2 DEF EditionInv
        <5>3. QED
          BY <1>2, <1>4, <1>5, <5>1, <5>2
      <4>3. ASSUME k.pc = "reread", ~k.inserted PROVE editions'[k.key] = editions[k.key]
        BY <1>7, <4>1, <4>3 DEF Sound
      <4>4. selections \subseteq selections'
        BY <1>1
      <4>5. QED
        BY <4>1, <4>2, <4>3, <4>4, SoundStays
    <3>3. QED
      BY <3>1, <3>2
  <2>2. QED
    BY <2>1
<1>11. \A p, q \in Handlers :
         p # q /\ job'[p].inserted /\ job'[q].inserted => job'[p].key # job'[q].key
  <2>1. Idle.inserted = FALSE
    BY DEF Idle
  <2>2. QED
    BY <1>9, <2>1 DEF EditionInv
<1>12. EditionIsOneSelection'
  <2>1. SUFFICES ASSUME NEW k \in Keys, editions'[k] # None
                 PROVE  [key |-> k, items |-> editions'[k]] \in selections'
    BY DEF EditionIsOneSelection
  <2>2. CASE editions[k] # None
    BY <1>1, <1>7, <2>2 DEF EditionInv, EditionIsOneSelection
  <2>3. CASE editions[k] = None
    <3>1. j.inserted /\ k = j.key
      BY <1>2, <1>4, <1>5, <2>1, <2>3
    <3>2. editions'[k] = j.items
      BY <1>2, <1>4, <3>1
    <3>3. QED
      BY <1>1, <1>3, <3>1, <3>2
  <2>4. QED
    BY <2>2, <2>3
<1>13. \A a \in answers' : a.key \in Keys /\ a.items = editions'[a.key] /\ a.items # None
  BY <1>1, <1>3, <1>7, <1>8 DEF EditionInv
<1>14. QED
  BY <1>6, <1>9, <1>10, <1>11, <1>12, <1>13 DEF EditionInv

LEMMA EditionsStay ==
  ASSUME EditionInv, UNCHANGED <<editions, job, selections>>,
         \A a \in answers' : a.key \in Keys /\ a.items = editions[a.key] /\ a.items # None
  PROVE  EditionInv'
<1>1. \A h \in Handlers : Sound(job[h])'
  BY DEF EditionInv, Sound
<1>2. QED
  BY <1>1 DEF EditionInv, EditionIsOneSelection

LEMMA DigestStarts == Init => DigestInvariant
<1> SUFFICES ASSUME Init PROVE DigestInvariant
  OBVIOUS
<1>1. ReaderInit
  BY DEF Init, PagesInit
<1>2. ReaderTypes
  BY <1>1, ReaderAssumption DEF ReaderInit, ReaderTypes
<1>3. WalkInv
  <2>1. walk = [visit |-> None, offset |-> 0, due |-> {}, seen |-> {}, moved |-> FALSE, done |-> FALSE]
    BY <1>1 DEF ReaderInit
  <2>2. walk \in Walks
    BY <2>1 DEF Walks
  <2>3. QED
    BY <1>2, <2>1, <2>2 DEF WalkInv, ReaderTypes, EntriesOK
<1>4. EditionInv
  <2>1. /\ editions = [k \in Keys |-> None] /\ job = [h \in Handlers |-> Idle] /\ answers = {}
    BY DEF Init
  <2>2. Idle \in Jobs /\ Idle.inserted = FALSE
    BY DEF Idle, Jobs
  <2>3. \A h \in Handlers : Sound(job[h])
    BY <2>1, IdleSound
  <2>4. QED
    BY <2>1, <2>2, <2>3 DEF EditionInv, EditionIsOneSelection
<1>5. QED
  BY <1>2, <1>3, <1>4 DEF DigestInvariant

LEMMA DigestStepKeeps == DigestInvariant /\ [Next]_vars => DigestInvariant'
<1> SUFFICES ASSUME DigestInvariant, [Next]_vars PROVE DigestInvariant'
  OBVIOUS
<1>1. ReaderTypes /\ WalkInv /\ EditionInv
  BY DEF DigestInvariant
<1>2. ASSUME UNCHANGED editionVars PROVE EditionInv'
  BY <1>1, <1>2, EditionsStay DEF editionVars, EditionInv
<1>3. ASSUME UNCHANGED pageVars, EditionInv' PROVE DigestInvariant'
  BY <1>1, <1>3, PagesStepKeeps DEF DigestInvariant
<1>4. ASSUME PagesStep, UNCHANGED editionVars PROVE DigestInvariant'
  BY <1>1, <1>2, <1>4, PagesStepKeeps DEF DigestInvariant
<1>5. ASSUME NEW h \in Handlers, NEW date \in AskedDates, NEW board \in AskedBoards,
             NEW limit \in Limits, Generate(h, date, board, limit)
      PROVE  DigestInvariant'
  <2>1. UNCHANGED pageVars
    BY <1>5 DEF Generate
  <2>2. QED
    BY <1>3, <1>5, <2>1, GenerateKeeps
<1>6. ASSUME NEW h \in Handlers, RefuseBoard(h) PROVE DigestInvariant'
  BY <1>1, <1>3, <1>6, IdleKeeps DEF RefuseBoard
<1>7. ASSUME NEW h \in Handlers, InsertEdition(h) PROVE DigestInvariant'
  <2>1. UNCHANGED pageVars
    BY <1>7 DEF InsertEdition
  <2>2. QED
    BY <1>1, <1>3, <1>7, <2>1, InsertEditionKeeps
<1>8. ASSUME NEW h \in Handlers, InsertItem(h) PROVE DigestInvariant'
  <2>1. UNCHANGED pageVars
    BY <1>8 DEF InsertItem
  <2>2. QED
    BY <1>1, <1>3, <1>8, <2>1, InsertItemKeeps
<1>9. ASSUME NEW h \in Handlers, Commit(h) PROVE DigestInvariant'
  <2>1. UNCHANGED pageVars
    BY <1>9 DEF Commit
  <2>2. /\ job[h].pc = "reread" /\ editions' = Committed(h) /\ selections' = selections
        /\ job' = [job EXCEPT ![h] = Idle]
        /\ answers' \subseteq answers \cup {[key |-> job[h].key, items |-> Reread(h)]}
    BY <1>9, Zenon DEF Commit
  <2>3. QED
    BY <1>1, <1>3, <2>1, <2>2, CommitKeeps
<1>10. ASSUME NEW h \in Handlers, Fail(h) PROVE DigestInvariant'
  <2>1. UNCHANGED pageVars
    BY <1>10 DEF Fail
  <2>2. /\ job' = [job EXCEPT ![h] = Idle] /\ answers' = answers /\ selections' = selections
        /\ editions' = editions \/ (job[h].pc = "reread" /\ editions' = Committed(h))
    BY <1>10, Zenon DEF Fail
  <2>3. CASE editions' = editions
    BY <1>1, <1>3, <2>1, <2>2, <2>3, IdleKeeps
  <2>4. CASE job[h].pc = "reread" /\ editions' = Committed(h)
    <3>1. answers' \subseteq answers \cup {[key |-> job[h].key, items |-> Reread(h)]}
      BY <2>2
    <3>2. QED
      BY <1>1, <1>3, <2>1, <2>2, <2>4, <3>1, CommitKeeps
  <2>5. QED
    BY <2>2, <2>3, <2>4
<1>11. ASSUME NEW key \in Keys, Replay(key) PROVE DigestInvariant'
  <2>1. /\ editions[key] # None /\ answers' = answers \cup {[key |-> key, items |-> editions[key]]}
        /\ UNCHANGED <<editions, job, selections>> /\ UNCHANGED pageVars
    BY <1>11 DEF Replay, Stored
  <2>2. \A a \in answers' : a.key \in Keys /\ a.items = editions[a.key] /\ a.items # None
    BY <1>1, <2>1 DEF EditionInv
  <2>3. QED
    BY <1>1, <1>3, <2>1, <2>2, EditionsStay
<1>12. ASSUME UNCHANGED vars PROVE DigestInvariant'
  <2>1. UNCHANGED editionVars /\ UNCHANGED pageVars
    BY <1>12 DEF vars
  <2>2. QED
    BY <1>2, <1>3, <2>1
<1>13. QED
  BY <1>4, <1>5, <1>6, <1>7, <1>8, <1>9, <1>10, <1>11, <1>12 DEF Next

-----------------------------------------------------------------------------
\* Theorems.

\* Entries keep their types, unseen entries of a walk are still ahead of it,
\* and generations hold whole selections (listReaderItemsPage,
\* searchReaderItemsPage, createDigestEdition).
THEOREM DigestInvariantHolds == Spec => []DigestInvariant
<1>1. QED
  BY DigestStarts, DigestStepKeeps, PTL DEF Spec

\* Cards, jobs and editions keep their types, and two open transactions never
\* hold one edition key (createDigestEdition).
THEOREM DigestTypes == Spec => []TypeOK
<1>1. DigestInvariant => TypeOK
  <2> SUFFICES ASSUME DigestInvariant PROVE TypeOK
    OBVIOUS
  <2>1. ReaderTypes /\ EditionInv
    BY DEF DigestInvariant
  <2>2. ASSUME NEW h \in Handlers, job[h].inserted
        PROVE  KeyHolders(h) = {} /\ editions[job[h].key] = None
    BY <2>1, <2>2 DEF EditionInv, KeyHolders, Sound
  <2>3. QED
    BY <2>1, <2>2 DEF TypeOK, ReaderTypes, EditionInv, Jobs
<1>2. QED
  BY <1>1, DigestInvariantHolds, PTL

\* An edition that is stored is one request's whole selection, for any number
\* of generations at once that fail anywhere (createDigestEdition).
THEOREM EditionsAreWhole == Spec => []EditionIsOneSelection
<1>1. DigestInvariant => EditionIsOneSelection
  BY DEF DigestInvariant, EditionInv
<1>2. QED
  BY <1>1, DigestInvariantHolds, PTL

\* Generations and replays of one key answer the same items, whatever changes
\* in between (createDigestEdition, getDigestEditionByKey).
THEOREM EditionsAreImmutable == Spec => []AnswersAgree
<1>1. DigestInvariant => AnswersAgree
  BY DEF DigestInvariant, EditionInv, AnswersAgree
<1>2. QED
  BY <1>1, DigestInvariantHolds, PTL

\* Whoever follows the links to the last page has seen all that was found at
\* the start, unless some of it went out of sight or changed places; for any
\* entries, page size and changes (listReaderItemsPage, searchReaderItemsPage).
THEOREM PagesMissNothing == Spec => []WalksMissNothing
<1>1. DigestInvariant => WalksMissNothing
  BY DEF DigestInvariant, WalkInv, WalksMissNothing, Ahead
<1>2. QED
  BY <1>1, DigestInvariantHolds, PTL

\* A generation starts with the digest of the moment.
LEMMA GenerateSelects ==
  ASSUME ReaderTypes, EditionInv, [Next]_vars, NEW h \in Handlers, job[h].pc = "idle", job'[h].pc = "insert"
  PROVE  \E board \in AskedBoards, limit \in Nat :
           /\ job'[h].key.board = board /\ job'[h].limit = limit
           /\ job'[h].items = DigestCards(board, limit)
<1>1. job \in [Handlers -> Jobs]
  BY DEF EditionInv
<1>2. job' # job
  OBVIOUS
<1>3. ASSUME NEW g \in Handlers, NEW k, job' = [job EXCEPT ![g] = k] PROVE g = h /\ k = job'[h]
  <2>1. g # h => job'[h] = job[h]
    BY <1>1, <1>3
  <2>2. job'[g] = k
    BY <1>1, <1>3
  <2>3. QED
    BY <2>1, <2>2
<1>4. ASSUME NEW g \in Handlers, NEW date \in AskedDates, NEW board \in AskedBoards, NEW limit \in Limits,
             Generate(g, date, board, limit)
      PROVE  /\ job'[h].key.board = board /\ job'[h].limit = limit
             /\ job'[h].items = DigestCards(board, limit)
  <2> DEFINE key == [date |-> date, board |-> board]
             items == DigestCards(board, limit)
             new == [Idle EXCEPT !.pc = "insert", !.key = key, !.limit = limit, !.items = items]
  <2>1. job' = [job EXCEPT ![g] = new]
    BY <1>4, Zenon DEF Generate
  <2>2. new.key = key /\ new.limit = limit /\ new.items = items /\ key.board = board
    BY DEF Idle
  <2> HIDE DEF new
  <2>3. job'[h] = new
    BY <1>3, <2>1
  <2> HIDE DEF key, items
  <2>4. job'[h].key = key /\ job'[h].limit = limit /\ job'[h].items = items
    BY <2>2, <2>3
  <2>5. QED
    BY <2>2, <2>4, Zenon DEF items
<1>5. ASSUME NEW g \in Handlers, Fail(g) \/ RefuseBoard(g) \/ Commit(g) PROVE FALSE
  <2>1. job' = [job EXCEPT ![g] = Idle]
    BY <1>5, Zenon DEF Fail, RefuseBoard, Commit
  <2>2. job'[h] = Idle
    BY <1>3, <2>1
  <2>3. QED
    BY <2>2 DEF Idle
<1>6. ASSUME NEW g \in Handlers, InsertEdition(g) PROVE FALSE
  <2>1. job[g].pc = "insert" /\ \E k : job' = [job EXCEPT ![g] = k]
    BY <1>6, Zenon DEF InsertEdition
  <2>2. QED
    BY <1>3, <2>1
<1>7. ASSUME NEW g \in Handlers, InsertItem(g) PROVE FALSE
  <2>1. job[g].pc = "items" /\ \E k : job' = [job EXCEPT ![g] = k]
    BY <1>7, Zenon DEF InsertItem
  <2>2. QED
    BY <1>3, <2>1
<1>8. ASSUME UNCHANGED editionVars \/ UNCHANGED vars \/ \E key \in Keys : Replay(key) PROVE FALSE
  BY <1>2, <1>8 DEF editionVars, vars, Replay
<1>9. PICK g \in Handlers, date \in AskedDates, board \in AskedBoards, limit \in Limits :
        Generate(g, date, board, limit)
  BY <1>5, <1>6, <1>7, <1>8 DEF Next
<1>10. limit \in Nat
  BY EditionsAssumption
<1>11. QED
  BY <1>4, <1>9, <1>10

\* Every selection has as many entries as there are, up to the limit, those
\* with fewer complaints first, spread over sources and boards, and the newest
\* of each source; for any entries, feedback and limits (listReaderDigestItems).
THEOREM SelectionsKeep == Spec => SelectionsKeepPromises
<1>1. ASSUME DigestInvariant, [Next]_vars, NEW h \in Handlers, job[h].pc = "idle", job'[h].pc = "insert"
      PROVE  Promised(job'[h].items, job'[h].key.board, job'[h].limit)
  <2>1. ReaderTypes /\ EditionInv
    BY <1>1 DEF DigestInvariant
  <2>2. EntriesOK /\ feedback \in Seq(Feedback)
    BY <2>1 DEF ReaderTypes, EntriesOK
  <2>3. PICK board \in AskedBoards, limit \in Nat :
          /\ job'[h].key.board = board /\ job'[h].limit = limit
          /\ job'[h].items = DigestCards(board, limit)
    BY <1>1, <2>1, GenerateSelects
  <2>4. Promised(DigestCards(board, limit), board, limit)
    BY <2>2, SelectionKeeps
  <2>5. QED
    BY <2>3, <2>4, Zenon
<1>2. DigestInvariant /\ [Next]_vars =>
        [\A h \in Handlers : job[h].pc = "idle" /\ job'[h].pc = "insert" =>
           LET items == job'[h].items
               board == job'[h].key.board
               limit == job'[h].limit
           IN  /\ FillsLimit(items, board, limit)
               /\ FewerComplaintsFirst(items, board)
               /\ SpreadsSources(items, board, limit)
               /\ board = AnyBoard => SpreadsBoards(items, limit)
               /\ NewestOfSource(items, board)]_vars
  BY <1>1, Zenon DEF Promised
<1>3. QED
  BY <1>2, DigestInvariantHolds, PTL DEF Spec, SelectionsKeepPromises

-----------------------------------------------------------------------------
\* Orders of tuples of numbers.

LEMMA SameFunction ==
  ASSUME NEW D, NEW V, NEW a \in [D -> V], NEW b \in [D -> V], \A x \in D : a[x] = b[x]
  PROVE  a = b
OBVIOUS

LEMMA ExceedsOrders ==
  ASSUME NEW n \in Nat, NEW a \in [1..n -> Nat], NEW b \in [1..n -> Nat], NEW c \in [1..n -> Nat]
  PROVE  /\ ~Exceeds(a, a)
         /\ Exceeds(a, b) /\ Exceeds(b, c) => Exceeds(a, c)
         /\ a # b => Exceeds(a, b) \/ Exceeds(b, a)
<1>1. ~Exceeds(a, a)
  BY DEF Exceeds
<1>2. ASSUME Exceeds(a, b), Exceeds(b, c) PROVE Exceeds(a, c)
  <2>1. PICK i \in 1..n : a[i] > b[i] /\ \A j \in 1..(i - 1) : a[j] = b[j]
    BY <1>2 DEF Exceeds
  <2>2. PICK k \in 1..n : b[k] > c[k] /\ \A j \in 1..(k - 1) : b[j] = c[j]
    BY <1>2 DEF Exceeds
  <2>3. CASE i < k
    <3>1. i \in 1..(k - 1) /\ \A j \in 1..(i - 1) : j \in 1..(k - 1)
      BY <2>3
    <3>2. a[i] > c[i] /\ \A j \in 1..(i - 1) : a[j] = c[j]
      BY <2>1, <2>2, <3>1
    <3>3. QED
      BY <3>2 DEF Exceeds
  <2>4. CASE i >= k
    <3>1. \A j \in 1..(k - 1) : j \in 1..(i - 1)
      BY <2>4
    <3>2. a[k] >= b[k]
      <4>1. CASE i = k
        BY <2>1, <4>1
      <4>2. CASE k < i
        <5>1. k \in 1..(i - 1)
          BY <4>2
        <5>2. a[k] = b[k] /\ a[k] \in Nat
          BY <2>1, <5>1
        <5>3. QED
          BY <5>2
      <4>3. QED
        BY <2>4, <4>1, <4>2
    <3>3. a[k] \in Nat /\ b[k] \in Nat /\ c[k] \in Nat
      OBVIOUS
    <3>4. a[k] > c[k]
      BY <2>2, <3>2, <3>3
    <3>5. \A j \in 1..(k - 1) : a[j] = c[j]
      BY <2>1, <2>2, <3>1
    <3>6. QED
      BY <3>4, <3>5 DEF Exceeds
  <2>5. QED
    BY <2>3, <2>4
<1>3. ASSUME a # b PROVE Exceeds(a, b) \/ Exceeds(b, a)
  <2> DEFINE T == {i \in 1..n : a[i] # b[i]}
  <2>1. T # {} /\ T \in SUBSET Nat
    <3>1. PICK i \in 1..n : a[i] # b[i]
      BY <1>3, SameFunction
    <3>2. i \in T
      BY <3>1
    <3>3. \A j \in T : j \in Nat
      OBVIOUS
    <3> HIDE DEF T
    <3>4. QED
      BY <3>2, <3>3
  <2>2. PICK i \in T : \A j \in T : i <= j
    <3> HIDE DEF T
    <3>1. QED
      BY <2>1, SmallestNat
  <2>3. \A j \in 1..(i - 1) : a[j] = b[j]
    <3>1. ASSUME NEW j \in 1..(i - 1) PROVE j \in 1..n /\ j \notin T
      <4>1. i \in 1..n
        OBVIOUS
      <4>2. j \in 1..n /\ ~(i <= j)
        BY <4>1
      <4>3. QED
        BY <2>2, <4>2
    <3>2. QED
      BY <3>1
  <2>4. a[i] > b[i] \/ b[i] > a[i]
    <3>1. a[i] \in Nat /\ b[i] \in Nat /\ a[i] # b[i]
      OBVIOUS
    <3>2. QED
      BY <3>1
  <2>5. QED
    BY <2>2, <2>3, <2>4 DEF Exceeds
<1>4. QED
  BY <1>1, <1>2, <1>3

LEMMA RelatedKeyTyped ==
  ASSUME NEW t \in Entries, NEW e \in Entries
  PROVE  /\ RelatedKey(t, e) \in [1..8 -> Nat] /\ RelatedKey(t, e)[8] = e
         /\ Score(t, e) \in Nat /\ Trigram[<<t, e>>] \in Nat
         /\ One(SameSource(t, e)) \in Nat /\ One(SameBoard(t, e)) \in Nat
         /\ FoldKey(t, e) \in [1..5 -> Nat] /\ FoldKey(t, e)[5] = e
<1>1. Score(t, e) \in Nat /\ Trigram[<<t, e>>] \in Nat /\ TextRank[<<t, e>>] \in Nat
  BY PagesAssumption DEF Score
<1>2. \A x : One(x) \in Nat
  BY DEF One
<1>3. PublishedAt[e] \in Nat /\ e \in Nat
  BY ReaderAssumption
<1>4. \A a, b, c, d \in Nat, f, g, h, k \in Nat :
        <<a, b, c, d, f, g, h, k>> \in [1..8 -> Nat]
  OBVIOUS
<1>5. \A a, b, c, d, f \in Nat : <<a, b, c, d, f>> \in [1..5 -> Nat]
  OBVIOUS
<1> DEFINE tier == IF Score(t, e) > 0 THEN 2 ELSE One(Trigram[<<t, e>>] >= TrigramThreshold)
<1>6. tier \in Nat
  BY <1>2
<1> HIDE DEF tier
<1>7. RelatedKey(t, e) =
        <<tier, Score(t, e), Trigram[<<t, e>>], One(SameSource(t, e)), One(SameBoard(t, e)),
          TextRank[<<t, e>>], PublishedAt[e], e>>
  BY DEF RelatedKey, tier
<1>8. RelatedKey(t, e) \in [1..8 -> Nat] /\ RelatedKey(t, e)[8] = e
  <2> DEFINE x == <<tier, Score(t, e), Trigram[<<t, e>>], One(SameSource(t, e)), One(SameBoard(t, e)),
                    TextRank[<<t, e>>], PublishedAt[e], e>>
  <2>1. x \in [1..8 -> Nat]
    BY <1>1, <1>2, <1>3, <1>4, <1>6
  <2>2. x[8] = e
    OBVIOUS
  <2>3. QED
    BY <1>7, <2>1, <2>2
<1>9. FoldKey(t, e) \in [1..5 -> Nat] /\ FoldKey(t, e)[5] = e
  BY <1>1, <1>2, <1>3, <1>5 DEF FoldKey
<1>10. QED
  BY <1>1, <1>2, <1>8, <1>9

-----------------------------------------------------------------------------
\* The candidates of a page, those folded into their groups, and their rows.

LEMMA CandidatesRelated ==
  ASSUME EntriesOK, NEW t
  PROVE  /\ RelatedCandidates(t) \subseteq Entries \ {t} /\ IsFiniteSet(RelatedCandidates(t))
         /\ Folded(t) \subseteq RelatedCandidates(t) /\ IsFiniteSet(Folded(t))
         /\ \A e \in RelatedCandidates(t) : GroupOf[t] = None \/ GroupOf[e] # GroupOf[t]
<1>1. RelatedCandidates(t) \subseteq Entries \ {t}
  BY DEF RelatedCandidates, EntriesOK
<1>2. IsFiniteSet(RelatedCandidates(t))
  <2>1. RelatedCandidates(t) \subseteq Entries
    BY <1>1
  <2>2. QED
    BY <2>1, FS_Subset, ReaderAssumption
<1>3. Folded(t) \subseteq RelatedCandidates(t)
  BY DEF Folded
<1>4. IsFiniteSet(Folded(t))
  BY <1>2, <1>3, FS_Subset
<1>5. QED
  BY <1>1, <1>2, <1>3, <1>4 DEF RelatedCandidates

OneGroup(d, e) == GroupOf[d] # None /\ GroupOf[d] = GroupOf[e]

\* Of every group that has a candidate one is shown first.
LEMMA GroupsFold ==
  ASSUME EntriesOK, NEW t \in Entries, NEW d \in RelatedCandidates(t), d \notin Folded(t)
  PROVE  \E e \in Folded(t) : OneGroup(d, e)
<1> DEFINE G == {e \in RelatedCandidates(t) : OneGroup(d, e)}
           R == {p \in G \X G : Exceeds(FoldKey(t, p[1]), FoldKey(t, p[2]))}
<1>1. RelatedCandidates(t) \subseteq Entries /\ IsFiniteSet(RelatedCandidates(t))
  BY CandidatesRelated
<1>2. IsFiniteSet(G) /\ G \subseteq Entries
  <2>1. G \subseteq RelatedCandidates(t)
    OBVIOUS
  <2> HIDE DEF G
  <2>2. QED
    BY <1>1, <2>1, FS_Subset
<1>3. d \in G
  BY DEF Folded, OneGroup
<1>4. \A e, f \in G : <<e, f>> \in R <=> Exceeds(FoldKey(t, e), FoldKey(t, f))
  OBVIOUS
<1>5. \A e, f \in G : OneGroup(e, f)
  BY DEF OneGroup
<1>6. \A e \in G, f \in RelatedCandidates(t) : OneGroup(e, f) => f \in G
  BY DEF OneGroup
<1>7. \A e \in G : e \in RelatedCandidates(t) /\ OneGroup(d, e)
  OBVIOUS
<1> HIDE DEF G, R
<1>8. \A e \in G : FoldKey(t, e) \in [1..5 -> Nat] /\ FoldKey(t, e)[5] = e
  BY <1>2, RelatedKeyTyped
<1>9. Orders(R, G)
  <2>1. ASSUME NEW e \in G PROVE <<e, e>> \notin R
    <3>1. FoldKey(t, e) \in [1..5 -> Nat]
      BY <1>8
    <3>2. ~Exceeds(FoldKey(t, e), FoldKey(t, e))
      BY <3>1, ExceedsOrders
    <3>3. QED
      BY <1>4, <3>2
  <2>2. ASSUME NEW e \in G, NEW f \in G, NEW g \in G, <<e, f>> \in R, <<f, g>> \in R
        PROVE  <<e, g>> \in R
    BY <1>4, <1>8, <2>2, ExceedsOrders
  <2>3. ASSUME NEW e \in G, NEW f \in G, e # f PROVE <<e, f>> \in R \/ <<f, e>> \in R
    BY <1>4, <1>8, <2>3, ExceedsOrders
  <2>4. QED
    BY <2>1, <2>2, <2>3 DEF Orders
<1>10. PICK e \in G : \A f \in G : <<f, e>> \notin R
  <2>1. /\ Cardinality(G) \in Nat
        /\ \A e \in G : Cardinality(Preceding(R, G, e)) \in 0..(Cardinality(G) - 1)
        /\ \A i \in 0..(Cardinality(G) - 1) : \E e \in G : Cardinality(Preceding(R, G, e)) = i
    BY <1>2, <1>9, RankedOnce
  <2>2. 0 \in 0..(Cardinality(G) - 1)
    BY <1>3, <2>1
  <2>3. PICK e \in G : Cardinality(Preceding(R, G, e)) = 0
    BY <2>1, <2>2
  <2>4. IsFiniteSet(Preceding(R, G, e))
    BY <1>2, FS_Subset DEF Preceding
  <2>5. Preceding(R, G, e) = {}
    BY <2>3, <2>4, FS_EmptySet
  <2>6. QED
    BY <2>5 DEF Preceding
<1>11. ASSUME NEW f \in RelatedCandidates(t) \ {e}, OneGroup(e, f)
       PROVE  Exceeds(FoldKey(t, e), FoldKey(t, f))
  <2>1. f \in G /\ f # e
    BY <1>6, <1>11
  <2>2. QED
    BY <1>9, <1>10, <1>4, <2>1 DEF Orders
<1>12. e \in Folded(t)
  BY <1>7, <1>11 DEF Folded, OneGroup
<1>13. QED
  BY <1>7, <1>12

\* The order in which a page lists what is related.
Beyond(t) ==
  {p \in Folded(t) \X Folded(t) : Exceeds(RelatedKey(t, p[1]), RelatedKey(t, p[2]))}

RelatedPlace(t, e) == Cardinality(Preceding(Beyond(t), Folded(t), e))

LEMMA RelatedAt ==
  ASSUME EntriesOK, NEW t \in Entries
  PROVE  /\ Related(t, RelatedLimit) \in Seq(Folded(t))
         /\ Len(Related(t, RelatedLimit)) <= RelatedLimit
         /\ \A e \in Folded(t) : RelatedPlace(t, e) \in Nat
         /\ \A e \in Folded(t) :
              e \in ToSet(Related(t, RelatedLimit)) <=> RelatedPlace(t, e) < Len(Related(t, RelatedLimit))
         /\ \A i \in 1..Len(Related(t, RelatedLimit)) :
              RelatedPlace(t, Related(t, RelatedLimit)[i]) = i - 1
         /\ \A e \in Folded(t) :
              e \notin ToSet(Related(t, RelatedLimit)) => Len(Related(t, RelatedLimit)) = RelatedLimit
         /\ \A d, e \in Folded(t) :
              Exceeds(RelatedKey(t, d), RelatedKey(t, e)) => RelatedPlace(t, d) < RelatedPlace(t, e)
<1> DEFINE S == Folded(t)
           R == Beyond(t)
           n == Cardinality(S)
           seq == Ordered(S, LAMBDA d, e : Exceeds(RelatedKey(t, d), RelatedKey(t, e)))
           rows == Rows(seq, RelatedLimit, 0)
<1>1. S \subseteq Entries /\ IsFiniteSet(S)
  BY CandidatesRelated
<1>2. \A d, e \in S : <<d, e>> \in R <=> Exceeds(RelatedKey(t, d), RelatedKey(t, e))
  BY DEF Beyond
<1>3. seq = [i \in 1..n |-> CHOOSE e \in S :
               Cardinality({d \in S : Exceeds(RelatedKey(t, d), RelatedKey(t, e))}) = i - 1]
  BY DEF Ordered
<1>4. Related(t, RelatedLimit) = rows
  BY DEF Related
<1>5. RelatedLimit \in Nat \ {0}
  BY PagesAssumption
<1>6. \A e : RelatedPlace(t, e) = Cardinality(Preceding(R, S, e))
  BY DEF RelatedPlace
<1> HIDE DEF S, R, seq, rows
<1>7. \A e \in S : RelatedKey(t, e) \in [1..8 -> Nat] /\ RelatedKey(t, e)[8] = e
  BY <1>1, RelatedKeyTyped
<1>8. Orders(R, S)
  <2>1. ASSUME NEW e \in S PROVE <<e, e>> \notin R
    <3>1. ~Exceeds(RelatedKey(t, e), RelatedKey(t, e))
      BY <1>7, ExceedsOrders
    <3>2. QED
      BY <1>2, <3>1
  <2>2. ASSUME NEW e \in S, NEW f \in S, NEW g \in S, <<e, f>> \in R, <<f, g>> \in R
        PROVE  <<e, g>> \in R
    <3>1. Exceeds(RelatedKey(t, e), RelatedKey(t, f)) /\ Exceeds(RelatedKey(t, f), RelatedKey(t, g))
      BY <1>2, <2>2
    <3>2. Exceeds(RelatedKey(t, e), RelatedKey(t, g))
      BY <1>7, <3>1, ExceedsOrders
    <3>3. QED
      BY <1>2, <3>2
  <2>3. ASSUME NEW e \in S, NEW f \in S, e # f PROVE <<e, f>> \in R \/ <<f, e>> \in R
    <3>1. RelatedKey(t, e)[8] # RelatedKey(t, f)[8]
      BY <1>7, <2>3
    <3>2. Exceeds(RelatedKey(t, e), RelatedKey(t, f)) \/ Exceeds(RelatedKey(t, f), RelatedKey(t, e))
      BY <1>7, <3>1, ExceedsOrders
    <3>3. QED
      BY <1>2, <3>2
  <2>4. QED
    BY <2>1, <2>2, <2>3 DEF Orders
<1>9. /\ n \in Nat
      /\ \A e \in S : RelatedPlace(t, e) \in 0..(n - 1)
      /\ \A d, e \in S : RelatedPlace(t, d) = RelatedPlace(t, e) => d = e
      /\ \A i \in 0..(n - 1) : \E e \in S : RelatedPlace(t, e) = i
  <2>1. /\ Cardinality(S) \in Nat
        /\ \A e \in S : Cardinality(Preceding(R, S, e)) \in 0..(Cardinality(S) - 1)
        /\ \A d, e \in S :
             Cardinality(Preceding(R, S, d)) = Cardinality(Preceding(R, S, e)) => d = e
        /\ \A i \in 0..(Cardinality(S) - 1) :
             \E e \in S : Cardinality(Preceding(R, S, e)) = i
    BY <1>1, <1>8, RankedOnce
  <2>2. QED
    BY <1>6, <2>1
<1> HIDE DEF n
<1>10. \A e \in S : {d \in S : Exceeds(RelatedKey(t, d), RelatedKey(t, e))} = Preceding(R, S, e)
  BY <1>2 DEF Preceding
<1>11. \A i \in 1..n : seq[i] \in S /\ RelatedPlace(t, seq[i]) = i - 1
  <2>1. SUFFICES ASSUME NEW i \in 1..n PROVE seq[i] \in S /\ RelatedPlace(t, seq[i]) = i - 1
    OBVIOUS
  <2>2. i - 1 \in 0..(n - 1)
    BY <1>9
  <2>3. PICK e \in S : RelatedPlace(t, e) = i - 1
    BY <1>9, <2>2
  <2>4. Cardinality({d \in S : Exceeds(RelatedKey(t, d), RelatedKey(t, e))}) = i - 1
    BY <1>6, <1>10, <2>3
  <2>5. seq[i] = CHOOSE f \in S :
                   Cardinality({d \in S : Exceeds(RelatedKey(t, d), RelatedKey(t, f))}) = i - 1
    BY <1>3
  <2>6. /\ seq[i] \in S
        /\ Cardinality({d \in S : Exceeds(RelatedKey(t, d), RelatedKey(t, seq[i]))}) = i - 1
    BY <2>4, <2>5, Zenon
  <2>7. QED
    BY <1>6, <1>10, <2>6
<1>12. seq \in Seq(S) /\ Len(seq) = n
  <2>1. n \in Nat /\ \A i \in 1..n : seq[i] \in S
    BY <1>9, <1>11
  <2>2. DOMAIN seq = 1..n /\ seq \in [1..n -> S]
    BY <1>3, <2>1
  <2>3. QED
    BY <2>1, <2>2
<1>13. /\ rows \in Seq(S)
       /\ n <= RelatedLimit => Len(rows) = n
       /\ RelatedLimit <= n => Len(rows) = RelatedLimit
       /\ \A i \in 1..Len(rows) : i \in 1..n /\ rows[i] = seq[i]
  <2>1. PICK zero \in Nat : zero = 0
    OBVIOUS
  <2>2. /\ Rows(seq, RelatedLimit, zero) \in Seq(S)
        /\ zero <= Len(seq) /\ Len(seq) <= zero + RelatedLimit =>
             Len(Rows(seq, RelatedLimit, zero)) = Len(seq) - zero
        /\ zero + RelatedLimit <= Len(seq) => Len(Rows(seq, RelatedLimit, zero)) = RelatedLimit
        /\ \A i \in 1..Len(Rows(seq, RelatedLimit, zero)) :
              zero + i \in 1..Len(seq) /\ Rows(seq, RelatedLimit, zero)[i] = seq[zero + i]
    <3>1. seq \in Seq(S) /\ RelatedLimit \in Nat
      BY <1>5, <1>12
    <3>2. /\ Rows(seq, RelatedLimit, zero) \in Seq(S)
          /\ RowsFrom(seq, RelatedLimit, zero, Rows(seq, RelatedLimit, zero))
      BY <2>1, <3>1, RowsAre
    <3>3. QED
      BY <3>2, Zenon DEF RowsFrom
  <2>3. Rows(seq, RelatedLimit, zero) = rows
    BY <2>1 DEF rows
  <2>4. QED
    BY <1>5, <1>9, <1>12, <2>1, <2>2, <2>3
<1>14. Len(rows) \in Nat /\ Len(rows) <= n /\ Len(rows) <= RelatedLimit /\ DOMAIN rows = 1..Len(rows)
  BY <1>5, <1>9, <1>13
<1>15. \A i \in 1..Len(rows) : rows[i] \in S /\ RelatedPlace(t, rows[i]) = i - 1
  BY <1>11, <1>13
<1>16. ASSUME NEW e \in S
       PROVE  /\ RelatedPlace(t, e) \in Nat
              /\ e \in ToSet(rows) <=> RelatedPlace(t, e) < Len(rows)
              /\ e \notin ToSet(rows) => Len(rows) = RelatedLimit
  <2>1. RelatedPlace(t, e) \in Nat /\ RelatedPlace(t, e) < n
    BY <1>9
  <2>2. ASSUME e \in ToSet(rows) PROVE RelatedPlace(t, e) < Len(rows)
    <3>1. PICK i \in 1..Len(rows) : rows[i] = e
      BY <1>14, <2>2 DEF ToSet
    <3>2. QED
      BY <1>14, <1>15, <3>1
  <2>3. ASSUME RelatedPlace(t, e) < Len(rows) PROVE e \in ToSet(rows)
    <3>1. RelatedPlace(t, e) + 1 \in 1..Len(rows) /\ RelatedPlace(t, e) + 1 - 1 = RelatedPlace(t, e)
      BY <1>14, <2>1, <2>3
    <3>2. rows[RelatedPlace(t, e) + 1] = e
      BY <1>9, <1>15, <3>1
    <3>3. QED
      BY <1>14, <3>1, <3>2 DEF ToSet
  <2>4. ASSUME ~(RelatedPlace(t, e) < Len(rows)) PROVE Len(rows) = RelatedLimit
    <3>1. n \in Nat /\ (n <= RelatedLimit => Len(rows) = n) /\ (RelatedLimit <= n => Len(rows) = RelatedLimit)
      BY <1>9, <1>13
    <3>2. RelatedLimit \in Nat /\ Len(rows) \in Nat
      BY <1>5, <1>14
    <3>3. ~(n <= RelatedLimit)
      BY <2>1, <2>4, <3>1
    <3>4. QED
      BY <3>1, <3>2, <3>3
  <2>5. QED
    BY <2>1, <2>2, <2>3, <2>4
<1>17. ASSUME NEW d \in S, NEW e \in S, Exceeds(RelatedKey(t, d), RelatedKey(t, e))
       PROVE  RelatedPlace(t, d) < RelatedPlace(t, e)
  BY <1>1, <1>2, <1>6, <1>8, <1>17, PrecedingFewer
<1>18. QED
  BY <1>4, <1>13, <1>14, <1>15, <1>16, <1>17 DEF S

\* What the code's order puts before everything but the tier, the text's rank
\* and the date.
Evidence(t, e) == <<Score(t, e), Trigram[<<t, e>>], One(SameSource(t, e)), One(SameBoard(t, e))>>

Tier(score, trigram) == IF score > 0 THEN 2 ELSE One(trigram >= TrigramThreshold)

LEMMA EvidenceInKey ==
  ASSUME NEW t \in Entries, NEW e \in Entries
  PROVE  /\ Evidence(t, e) \in [1..4 -> Nat]
         /\ RelatedKey(t, e)[1] = Tier(Evidence(t, e)[1], Evidence(t, e)[2])
         /\ \A i \in 1..4 : RelatedKey(t, e)[i + 1] = Evidence(t, e)[i]
<1> DEFINE tier == IF Score(t, e) > 0 THEN 2 ELSE One(Trigram[<<t, e>>] >= TrigramThreshold)
           a == Score(t, e)
           b == Trigram[<<t, e>>]
           c == One(SameSource(t, e))
           d == One(SameBoard(t, e))
<1>1. a \in Nat /\ b \in Nat /\ c \in Nat /\ d \in Nat
  BY RelatedKeyTyped
<1>2. tier = Tier(a, b)
  BY DEF Tier
<1>3. Evidence(t, e) = <<a, b, c, d>>
  BY DEF Evidence
<1>4. RelatedKey(t, e) = <<tier, a, b, c, d, TextRank[<<t, e>>], PublishedAt[e], e>>
  BY DEF RelatedKey
<1> HIDE DEF a, b, c, d, tier
<1>5. \A i \in 1..4 : i = 1 \/ i = 2 \/ i = 3 \/ i = 4
  OBVIOUS
<1>6. Evidence(t, e) \in [1..4 -> Nat]
  BY <1>1, <1>3
<1>7. /\ Evidence(t, e)[1] = a /\ Evidence(t, e)[2] = b /\ Evidence(t, e)[3] = c /\ Evidence(t, e)[4] = d
      /\ RelatedKey(t, e)[1] = tier /\ RelatedKey(t, e)[2] = a /\ RelatedKey(t, e)[3] = b
      /\ RelatedKey(t, e)[4] = c /\ RelatedKey(t, e)[5] = d
  BY <1>3, <1>4
<1>8. QED
  BY <1>2, <1>5, <1>6, <1>7

LEMMA StrongerFirst ==
  ASSUME NEW t \in Entries, NEW d \in Entries, NEW e \in Entries, Exceeds(Evidence(t, d), Evidence(t, e))
  PROVE  Exceeds(RelatedKey(t, d), RelatedKey(t, e))
<1> DEFINE x == Evidence(t, d)
           y == Evidence(t, e)
           k == RelatedKey(t, d)
           l == RelatedKey(t, e)
<1>1. /\ x \in [1..4 -> Nat] /\ y \in [1..4 -> Nat] /\ k \in [1..8 -> Nat] /\ l \in [1..8 -> Nat]
      /\ k[1] = Tier(x[1], x[2]) /\ l[1] = Tier(y[1], y[2])
      /\ \A i \in 1..4 : k[i + 1] = x[i] /\ l[i + 1] = y[i]
  <2>1. k \in [1..8 -> Nat] /\ l \in [1..8 -> Nat]
    BY RelatedKeyTyped
  <2>2. /\ x \in [1..4 -> Nat] /\ k[1] = Tier(x[1], x[2])
        /\ \A i \in 1..4 : k[i + 1] = x[i]
    BY EvidenceInKey
  <2>3. /\ y \in [1..4 -> Nat] /\ l[1] = Tier(y[1], y[2])
        /\ \A i \in 1..4 : l[i + 1] = y[i]
    BY EvidenceInKey
  <2> HIDE DEF x, y, k, l
  <2>4. QED
    BY <2>1, <2>2, <2>3
<1>2. Exceeds(x, y)
  OBVIOUS
<1> SUFFICES Exceeds(k, l)
  OBVIOUS
<1> HIDE DEF x, y, k, l
<1>3. PICK i \in 1..4 : x[i] > y[i] /\ \A j \in 1..(i - 1) : x[j] = y[j]
  BY <1>1, <1>2 DEF Exceeds
<1>4. k[1] >= l[1] /\ k[1] \in Nat /\ l[1] \in Nat
  <2>1. x[1] \in Nat /\ y[1] \in Nat /\ x[2] \in Nat /\ y[2] \in Nat /\ k[1] \in Nat /\ l[1] \in Nat
    BY <1>1
  <2>2. \/ x[1] > y[1]
        \/ x[1] = y[1] /\ x[2] > y[2]
        \/ x[1] = y[1] /\ x[2] = y[2]
    <3>1. CASE i = 1
      BY <1>3, <3>1
    <3>2. CASE i = 2
      BY <1>3, <3>2
    <3>3. CASE i > 2
      <4>1. 1 \in 1..(i - 1) /\ 2 \in 1..(i - 1)
        BY <3>3
      <4>2. QED
        BY <1>3, <4>1
    <3>4. QED
      BY <3>1, <3>2, <3>3
  <2>3. QED
    BY <1>1, <2>1, <2>2 DEF Tier, One, TrigramThreshold
<1>5. CASE k[1] > l[1]
  <2>1. 1 \in DOMAIN k /\ \A j \in 1..(1 - 1) : k[j] = l[j]
    BY <1>1
  <2>2. QED
    BY <1>5, <2>1 DEF Exceeds
<1>6. CASE k[1] = l[1]
  <2>1. i + 1 \in DOMAIN k /\ k[i + 1] > l[i + 1]
    BY <1>1, <1>3
  <2>2. ASSUME NEW j \in 1..((i + 1) - 1) PROVE k[j] = l[j]
    <3>1. CASE j = 1
      BY <1>6, <3>1
    <3>2. CASE j # 1
      <4>1. j - 1 \in 1..(i - 1) /\ j - 1 \in 1..4 /\ (j - 1) + 1 = j
        BY <3>2
      <4>2. k[(j - 1) + 1] = x[j - 1] /\ l[(j - 1) + 1] = y[j - 1] /\ x[j - 1] = y[j - 1]
        BY <1>1, <1>3, <4>1
      <4>3. QED
        BY <4>1, <4>2
    <3>3. QED
      BY <3>1, <3>2
  <2>3. QED
    BY <2>1, <2>2 DEF Exceeds
<1>7. QED
  BY <1>4, <1>5, <1>6

\* Who represents a group is before the rest of it.
LEMMA RepresentativeFirst ==
  ASSUME EntriesOK, NEW t \in Entries, NEW e \in Folded(t), NEW d \in RelatedCandidates(t),
         d # e, OneGroup(d, e)
  PROVE  Exceeds(FoldKey(t, e), FoldKey(t, d)) /\ Representative[GroupOf[d]] # d
<1>1. d \in Entries /\ e \in Entries
  BY CandidatesRelated
<1>2. Exceeds(FoldKey(t, e), FoldKey(t, d))
  BY DEF Folded, OneGroup
<1>3. ASSUME Representative[GroupOf[d]] = d PROVE FALSE
  <2> DEFINE a == FoldKey(t, e)
             b == FoldKey(t, d)
  <2>1. a \in [1..5 -> Nat] /\ b \in [1..5 -> Nat]
    BY <1>1, RelatedKeyTyped
  <2>2. a[1] = One(GroupOf[e] # None /\ Representative[GroupOf[e]] = e)
    BY DEF FoldKey
  <2>3. b[1] = One(GroupOf[d] # None /\ Representative[GroupOf[d]] = d)
    BY DEF FoldKey
  <2>4. a[1] = 0 /\ b[1] = 1
    BY <1>3, <2>2, <2>3 DEF One, OneGroup
  <2> HIDE DEF a, b
  <2>5. PICK i \in 1..5 : a[i] > b[i] /\ \A j \in 1..(i - 1) : a[j] = b[j]
    BY <1>2, <2>1 DEF Exceeds, a, b
  <2>6. i # 1
    BY <2>4, <2>5
  <2>7. 1 \in 1..(i - 1)
    BY <2>6
  <2>8. QED
    BY <2>4, <2>5, <2>7
<1>4. QED
  BY <1>2, <1>3

LEMMA FoldedOnce ==
  ASSUME EntriesOK, NEW t \in Entries, NEW d \in Folded(t), NEW e \in Folded(t), d # e
  PROVE  ~OneGroup(d, e)
<1> SUFFICES ASSUME OneGroup(d, e) PROVE FALSE
  OBVIOUS
<1>1. d \in RelatedCandidates(t) /\ e \in RelatedCandidates(t) /\ OneGroup(e, d)
  BY CandidatesRelated DEF OneGroup
<1>2. Exceeds(FoldKey(t, e), FoldKey(t, d)) /\ Exceeds(FoldKey(t, d), FoldKey(t, e))
  BY <1>1, RepresentativeFirst
<1>3. FoldKey(t, d) \in [1..5 -> Nat] /\ FoldKey(t, e) \in [1..5 -> Nat]
  BY <1>1, CandidatesRelated, RelatedKeyTyped
<1>4. Exceeds(FoldKey(t, d), FoldKey(t, d))
  BY <1>2, <1>3, ExceedsOrders
<1>5. QED
  BY <1>3, <1>4, ExceedsOrders

LEMMA RelatedKeeps ==
  ASSUME EntriesOK, NEW t \in Entries
  PROVE  RelatedPromised(t, Related(t, RelatedLimit))
<1> DEFINE items == Related(t, RelatedLimit)
           F == Folded(t)
           shown == ToSet(items)
           At(e) == CHOOSE i \in DOMAIN items : items[i] = e
<1>1. /\ F \subseteq RelatedCandidates(t) /\ RelatedCandidates(t) \subseteq Entries \ {t}
      /\ \A e \in RelatedCandidates(t) : ~OneGroup(t, e)
  BY CandidatesRelated DEF OneGroup
<1>2. /\ items \in Seq(F) /\ Len(items) <= RelatedLimit
      /\ \A e \in F : RelatedPlace(t, e) \in Nat
      /\ \A e \in F : e \in shown <=> RelatedPlace(t, e) < Len(items)
      /\ \A i \in 1..Len(items) : RelatedPlace(t, items[i]) = i - 1
      /\ \A e \in F : e \notin shown => Len(items) = RelatedLimit
      /\ \A d, e \in F :
           Exceeds(RelatedKey(t, d), RelatedKey(t, e)) => RelatedPlace(t, d) < RelatedPlace(t, e)
  BY RelatedAt
<1> HIDE DEF items, F
<1>3. DOMAIN items = 1..Len(items) /\ Len(items) \in Nat
  BY <1>2
<1>4. shown \subseteq F
  BY <1>2 DEF ToSet
<1>5. ASSUME NEW e \in shown PROVE At(e) = RelatedPlace(t, e) + 1
  <2>1. PICK i \in DOMAIN items : items[i] = e
    BY DEF ToSet
  <2>2. At(e) \in DOMAIN items /\ items[At(e)] = e
    BY <2>1
  <2> HIDE DEF At
  <2>3. RelatedPlace(t, e) = At(e) - 1 /\ At(e) \in Nat
    BY <1>2, <1>3, <2>2
  <2>4. QED
    BY <2>3
<1>6. ASSUME NEW d \in F, NEW e \in F, Exceeds(Evidence(t, d), Evidence(t, e))
      PROVE  RelatedPlace(t, d) < RelatedPlace(t, e)
  <2>1. d \in Entries /\ e \in Entries
    BY <1>1
  <2>2. QED
    BY <1>2, <1>6, <2>1, StrongerFirst
<1>7. t \notin shown /\ \A e \in shown : ~OneGroup(t, e)
  BY <1>1, <1>4
<1>8. \A d, e \in shown : d # e => ~OneGroup(d, e)
  BY <1>4, FoldedOnce DEF F
<1>9. \A d \in RelatedCandidates(t), e \in shown : d # e /\ OneGroup(d, e) => Representative[GroupOf[d]] # d
  BY <1>4, RepresentativeFirst DEF F
<1>10. ASSUME NEW d \in shown, NEW e \in shown, Exceeds(Evidence(t, d), Evidence(t, e))
       PROVE  At(d) < At(e)
  <2>1. At(d) = RelatedPlace(t, d) + 1 /\ At(e) = RelatedPlace(t, e) + 1
    BY <1>5
  <2>2. RelatedPlace(t, d) < RelatedPlace(t, e)
    BY <1>4, <1>6, <1>10
  <2>3. RelatedPlace(t, d) \in Nat /\ RelatedPlace(t, e) \in Nat
    BY <1>2, <1>4
  <2> HIDE DEF At
  <2>4. QED
    BY <2>1, <2>2, <2>3
<1>11. ASSUME NEW d \in RelatedCandidates(t) \ shown
       PROVE  \/ \E e \in shown : OneGroup(d, e)
              \/ /\ Len(items) = RelatedLimit
                 /\ d \in F => \A e \in shown : ~Exceeds(Evidence(t, d), Evidence(t, e))
  <2>1. CASE d \in F
    <3>1. Len(items) = RelatedLimit /\ ~(RelatedPlace(t, d) < Len(items))
      BY <1>2, <1>11, <2>1
    <3>2. ASSUME NEW e \in shown PROVE ~Exceeds(Evidence(t, d), Evidence(t, e))
      <4>1. RelatedPlace(t, e) < Len(items) /\ RelatedPlace(t, e) \in Nat /\ RelatedPlace(t, d) \in Nat
        BY <1>2, <1>4, <2>1
      <4>2. ~(RelatedPlace(t, d) < RelatedPlace(t, e))
        BY <1>3, <3>1, <4>1
      <4>3. QED
        BY <1>4, <1>6, <2>1, <4>2
    <3>3. QED
      BY <3>1, <3>2
  <2>2. CASE d \notin F
    <3>1. PICK e \in F : OneGroup(d, e)
      BY <2>2, GroupsFold DEF F
    <3>2. e \notin shown => Len(items) = RelatedLimit
      BY <1>2
    <3>3. QED
      BY <2>2, <3>1, <3>2
  <2>3. QED
    BY <2>1, <2>2
<1>12. QED
  BY <1>7, <1>8, <1>9, <1>10, <1>11, Zenon DEF RelatedPromised, OneGroup, Evidence, items, F

-----------------------------------------------------------------------------
\* What is opened.

OpenedInv ==
  opened \in [item : Entries \cup {None}, related : Seq(Entries) \cup {None}]

\* What a page shows as related.
PagePromised(t, items) ==
  /\ ToSet(items) \subseteq Visible
  /\ t \notin Visible => ToSet(items) = {}
  /\ t \in Visible => RelatedPromised(t, items)

\* One step of a page.
PageKept ==
  opened.related = None /\ opened'.related # None => PagePromised(opened.item, opened'.related)

LEMMA PageLoaded ==
  ASSUME OpenedInv, opened.item \in Entries, NEW items \in Seq(Entries),
         PagePromised(opened.item, items), opened' = [opened EXCEPT !.related = items]
  PROVE  OpenedInv' /\ PageKept
<1>1. opened'.related = items /\ OpenedInv'
  BY DEF OpenedInv
<1>2. QED
  BY <1>1 DEF PageKept

LEMMA RelatedLoads ==
  ASSUME EntriesOK, OpenedInv, LoadRelated
  PROVE  OpenedInv' /\ PageKept
<1> SUFFICES ASSUME NEW t, t = opened.item, NEW items,
                    items = IF RelatedTarget(t) THEN Related(t, RelatedLimit) ELSE <<>>
             PROVE  OpenedInv' /\ PageKept
  OBVIOUS
<1>1. t \in Entries /\ opened' = [opened EXCEPT !.related = items]
  BY DEF OpenedInv, LoadRelated
<1>2. RelatedTarget(t) <=> t \in Visible
  BY <1>1 DEF RelatedTarget, Visible
<1>3. CASE t \in Visible
  <2>1. items = Related(t, RelatedLimit)
    BY <1>2, <1>3
  <2>2. items \in Seq(Folded(t)) /\ Folded(t) \subseteq RelatedCandidates(t)
    BY <1>1, <2>1, RelatedAt, CandidatesRelated
  <2>3. RelatedCandidates(t) \subseteq Visible /\ Visible \subseteq Entries
    BY DEF RelatedCandidates, Visible, EntriesOK
  <2>4. items \in Seq(Entries) /\ ToSet(items) \subseteq Visible
    <3>1. Folded(t) \subseteq Visible
      BY <2>2, <2>3
    <3>2. \A i \in DOMAIN items : items[i] \in Folded(t)
      BY <2>2
    <3>3. ToSet(items) \subseteq Visible
      BY <3>1, <3>2 DEF ToSet
    <3>4. Folded(t) \subseteq Entries
      BY <3>1, <2>3
    <3>5. items \in Seq(Entries)
      BY <2>2, <3>4
    <3>6. QED
      BY <3>3, <3>5
  <2>5. RelatedPromised(t, items)
    BY <1>1, <2>1, RelatedKeeps
  <2>6. PagePromised(t, items)
    BY <1>3, <2>4, <2>5, Zenon DEF PagePromised
  <2>7. QED
    BY <1>1, <2>4, <2>6, PageLoaded
<1>4. CASE t \notin Visible
  <2>1. items = <<>>
    BY <1>2, <1>4
  <2>2. DOMAIN items = {} /\ items \in Seq(Entries)
    <3>1. <<>> \in Seq(Entries) /\ Len(<<>>) = 0
      OBVIOUS
    <3>2. items \in Seq(Entries) /\ Len(items) = 0
      BY <2>1, <3>1
    <3>3. DOMAIN items = 1..Len(items)
      BY <3>2
    <3>4. QED
      BY <3>2, <3>3
  <2>3. ToSet(items) = {}
    BY <2>2 DEF ToSet
  <2>4. PagePromised(t, items)
    BY <1>4, <2>3, Zenon DEF PagePromised
  <2>5. QED
    BY <1>1, <2>2, <2>4, PageLoaded
<1>5. QED
  BY <1>3, <1>4

LEMMA PageOpens ==
  ASSUME OpenedInv, NEW e \in Entries, OpenItem(e)
  PROVE  OpenedInv' /\ PageKept
<1>1. opened' = [opened EXCEPT !.item = e]
  BY DEF OpenItem
<1>2. opened'.related = opened.related /\ OpenedInv'
  BY <1>1 DEF OpenedInv
<1>3. QED
  BY <1>2 DEF PageKept

LEMMA PageStays ==
  ASSUME OpenedInv, opened' = opened \/ opened' = Closed
  PROVE  OpenedInv' /\ PageKept
BY DEF OpenedInv, PageKept, Closed

LEMMA PageStep == DigestInvariant /\ OpenedInv /\ [Next]_vars => OpenedInv' /\ PageKept
<1> SUFFICES ASSUME DigestInvariant, OpenedInv, [Next]_vars PROVE OpenedInv' /\ PageKept
  OBVIOUS
<1>1. EntriesOK
  BY DEF DigestInvariant, WalkInv
<1>2. ASSUME UNCHANGED pageVars PROVE opened' = opened
  BY <1>2 DEF pageVars
<1>3. ASSUME PagesStep PROVE OpenedInv' /\ PageKept
  <2>1. ASSUME NEW type \in FeedbackTypes, SubmitFeedback(type) PROVE opened' = Closed
    BY <2>1 DEF SubmitFeedback
  <2>2. QED
    BY <1>1, <1>3, <2>1, RelatedLoads, PageOpens, PageStays DEF PagesStep
<1>4. PagesStep \/ UNCHANGED pageVars
  BY DEF Next, Generate, RefuseBoard, InsertEdition, InsertItem, Commit, Fail, Replay, vars
<1>5. QED
  BY <1>2, <1>3, <1>4, PageStays

\* Whatever is hidden, disabled or added between the two requests of a page,
\* what it shows as related is visible, nothing once the entry itself has
\* gone, and otherwise the strongest candidates, one of each group, in the
\* order of their evidence (page.tsx, listRelatedReaderItems).
THEOREM PagesKeep == Spec => PagesKeepPromises
<1>1. Init => OpenedInv
  BY DEF Init, PagesInit, Closed, OpenedInv
<1>2. DigestInvariant /\ OpenedInv /\ [Next]_vars =>
        OpenedInv' /\
        [opened.related = None /\ opened'.related # None =>
           LET shown == ToSet(opened'.related)
           IN  /\ shown \subseteq Visible
               /\ opened.item \notin Visible => shown = {}
               /\ opened.item \in Visible => RelatedPromised(opened.item, opened'.related)]_pageVars
  BY PageStep, Zenon DEF PageKept, PagePromised
<1>3. QED
  BY <1>1, <1>2, DigestInvariantHolds, PTL DEF Spec, PagesKeepPromises
=============================================================================
