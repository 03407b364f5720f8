--------------------------- MODULE PersonalProofs ---------------------------
(***************************************************************************)
(* Proofs about PersonalSync, for any browsers, controls and accounts: the *)
(* types, what a migration marker promises, that marks stay with their     *)
(* account as long as a browser is used with one account only, and that    *)
(* the storage of a browser that is its account's only one, and is used    *)
(* for one thing at a time, agrees with the account when nothing is under  *)
(* way (Tidy).                                                             *)
(***************************************************************************)
EXTENDS PersonalSync, TLAPS

-----------------------------------------------------------------------------
\* Operators.

LEMMA HydrateLoses ==
  ASSUME NEW got, NEW known
  PROVE  Hydrate(got, known) \subseteq got
BY DEF Hydrate

LEMMA SetItemType ==
  ASSUME TypeOK, NEW u \in Users, NEW m \in Marks, NEW on \in BOOLEAN
  PROVE  SetItem(u, m, on) \in SUBSET Marks
BY DEF TypeOK, SetItem, MarksOf

LEMMA ClosedType == Closed \in Sync
BY DEF Closed, Sync

\* The user of a request that is not answered 401 is an account.
LEMMA UserType ==
  ASSUME TypeOK, NEW c \in Controls
  PROVE  /\ BrowserOf[c] \in Browsers
         /\ User(c) \in Users \cup {NoUser}
BY PersonalSyncAssumption DEF TypeOK, User

\* Replacing one request by another keeps the sequence a sequence.
LEMMA PutReplaced ==
  ASSUME puts \in Seq(Put), NEW i \in DOMAIN puts, NEW p \in Put,
         puts' = [puts EXCEPT ![i] = p]
  PROVE  /\ puts' \in Seq(Put)
         /\ Len(puts') = Len(puts)
BY SMTT(30)

-----------------------------------------------------------------------------
\* Types.

LEMMA InitTypes == Init => TypeOK
BY PersonalSyncAssumption, ClosedType DEF Init, TypeOK, Closed

LEMMA ChangeSessionTypes ==
  ASSUME TypeOK, NEW b \in Browsers, ChangeSession(b)
  PROVE  TypeOK'
<1>1. PICK u \in LoginsOf[b] \cup {NoUser} : session' = [session EXCEPT ![b] = u]
  BY DEF ChangeSession
<1>2. u \in Users \cup {NoUser}
  BY <1>1, PersonalSyncAssumption
<1>3. session' \in [Browsers -> Users \cup {NoUser}]
  BY <1>1, <1>2 DEF TypeOK
<1>4. UNCHANGED <<account, local, marker, shown, sync, puts, accepted, clickedOn>>
  BY DEF ChangeSession, clickHistory
<1> QED
  BY <1>3, <1>4 DEF TypeOK

\* A control's sync moves on.
LEMMA SyncReplaced ==
  ASSUME TypeOK, NEW c \in Controls, NEW s \in Sync, s.step = "migrate" <=> s.todo # {},
         sync' = [sync EXCEPT ![c] = s]
  PROVE  sync' \in [Controls -> Sync] /\ \A d \in Controls : sync'[d].step = "migrate" <=> sync'[d].todo # {}
BY DEF TypeOK

LEMMA OpenTypes ==
  ASSUME TypeOK, NEW c \in Controls, Open(c)
  PROVE  TypeOK'
<1> DEFINE b == BrowserOf[c]
           load == [Closed EXCEPT !.step = "load", !.base = local[b]]
           upload == [Closed EXCEPT !.step = "migrate", !.base = local[b], !.todo = local[b]]
<1>1. b \in Browsers /\ local[b] \in SUBSET Marks
  BY UserType DEF TypeOK
<1>2. load \in Sync /\ load.step = "load" /\ load.todo = {}
  BY <1>1 DEF Closed, Sync
<1>3. upload \in Sync /\ upload.step = "migrate" /\ upload.todo = local[b]
  BY <1>1 DEF Closed, Sync
<1>4. \/ sync' = [sync EXCEPT ![c] = load] /\ marker' = [marker EXCEPT ![b] = {local[b]}]
      \/ sync' = [sync EXCEPT ![c] = upload] /\ local[b] # {} /\ marker' = marker
  BY DEF Open
<1>5. sync' \in [Controls -> Sync] /\ \A d \in Controls : sync'[d].step = "migrate" <=> sync'[d].todo # {}
  <2> HIDE DEF load, upload
  <2> QED
    BY <1>2, <1>3, <1>4 DEF TypeOK
<1>6. {local[b]} \in SUBSET SUBSET Marks
  BY <1>1
<1>7. marker' \in [Browsers -> SUBSET SUBSET Marks]
  <2> HIDE DEF load, upload
  <2> QED
    BY <1>1, <1>4, <1>6 DEF TypeOK
<1>8. shown' \in [Controls -> SUBSET Marks]
  BY <1>1 DEF Open, TypeOK
<1> QED
  BY <1>5, <1>7, <1>8 DEF Open, TypeOK, clickHistory

LEMMA UnmountTypes ==
  ASSUME TypeOK, NEW c \in Controls, Unmount(c)
  PROVE  TypeOK'
<1>1. sync' = [sync EXCEPT ![c] = Closed] /\ shown' = [shown EXCEPT ![c] = {}]
  BY DEF Unmount
<1>2. Closed.step = "closed" /\ Closed.todo = {}
  BY DEF Closed
<1>3. sync' \in [Controls -> Sync] /\ \A d \in Controls : sync'[d].step = "migrate" <=> sync'[d].todo # {}
  BY <1>1, <1>2, ClosedType DEF TypeOK
<1>4. shown' \in [Controls -> SUBSET Marks]
  BY <1>1 DEF TypeOK
<1>5. accepted' \in [Controls -> SUBSET Marks]
  BY DEF Unmount, TypeOK
<1> QED
  BY <1>3, <1>4, <1>5 DEF Unmount, TypeOK

LEMMA MigrateRefusedTypes ==
  ASSUME TypeOK, NEW c \in Controls, MigrateRefused(c)
  PROVE  TypeOK'
<1> DEFINE s == [sync[c] EXCEPT !.todo = {}, !.step = "load"]
<1>1. sync[c] \in Sync
  BY DEF TypeOK
<1>2. s \in Sync /\ s.step = "load" /\ s.todo = {}
  BY <1>1 DEF Sync
<1>3. sync' = [sync EXCEPT ![c] = s]
  BY <1>1 DEF MigrateRefused, TypeOK, Sync
<1>4. sync' \in [Controls -> Sync] /\ \A d \in Controls : sync'[d].step = "migrate" <=> sync'[d].todo # {}
  <2> HIDE DEF s
  <2> QED
    BY <1>2, <1>3, SyncReplaced
<1> QED
  BY <1>4 DEF MigrateRefused, TypeOK, history, clickHistory

LEMMA UploadedTypes ==
  ASSUME TypeOK, NEW c \in Controls, NEW m \in Marks, User(c) # NoUser, Uploaded(c, m)
  PROVE  /\ account' \in [Users -> SUBSET Marks]
         /\ accepted' \in [Controls -> SUBSET Marks]
         /\ clickedOn' = clickedOn
<1>1. User(c) \in Users /\ BrowserOf[c] \in Browsers
  BY UserType
<1>2. SetItem(User(c), m, TRUE) \in SUBSET Marks
  BY <1>1, SetItemType
<1>3. account' \in [Users -> SUBSET Marks]
  BY <1>1, <1>2 DEF Uploaded, TypeOK
<1>4. accepted' \in [Controls -> SUBSET Marks]
  BY <1>1 DEF Uploaded, TypeOK
<1> QED
  BY <1>3, <1>4 DEF Uploaded

LEMMA MigrateTypes ==
  ASSUME TypeOK, NEW c \in Controls, Migrate(c)
  PROVE  TypeOK'
<1> DEFINE b == BrowserOf[c]
<1>1. PICK m \in sync[c].todo :
        /\ Uploaded(c, m)
        /\ \/ /\ sync[c].todo # {m}
              /\ sync' = [sync EXCEPT ![c].todo = @ \ {m}]
              /\ marker' = marker
           \/ /\ sync' = [sync EXCEPT ![c].todo = {}, ![c].step = "load"]
              /\ marker' = [marker EXCEPT ![b] = {sync[c].base}]
  BY DEF Migrate
<1>2. b \in Browsers /\ m \in Marks /\ User(c) # NoUser /\ sync[c].base \in SUBSET Marks /\ sync[c] \in Sync
      /\ sync[c].step = "migrate"
  BY <1>1, UserType DEF TypeOK, Sync, Migrate
<1>3. sync' \in [Controls -> Sync] /\ \A d \in Controls : sync'[d].step = "migrate" <=> sync'[d].todo # {}
  <2>1. CASE sync[c].todo # {m} /\ sync' = [sync EXCEPT ![c].todo = @ \ {m}]
    <3> DEFINE s == [sync[c] EXCEPT !.todo = @ \ {m}]
    <3>1. s \in Sync /\ s.step = "migrate" /\ s.todo # {}
      BY <1>1, <1>2, <2>1 DEF Sync
    <3> QED
      BY <2>1, <3>1, SyncReplaced
  <2>2. CASE sync' = [sync EXCEPT ![c].todo = {}, ![c].step = "load"]
    <3> DEFINE s == [sync[c] EXCEPT !.todo = {}, !.step = "load"]
    <3>1. s \in Sync /\ s.step = "load" /\ s.todo = {}
      BY <1>2 DEF Sync
    <3>2. sync' = [sync EXCEPT ![c] = s]
      BY <1>2, <2>2 DEF TypeOK, Sync
    <3> QED
      BY <3>1, <3>2, SyncReplaced
  <2> QED
    BY <1>1, <2>1, <2>2
<1>4. {sync[c].base} \in SUBSET SUBSET Marks
  BY <1>2
<1>5. marker' \in [Browsers -> SUBSET SUBSET Marks]
  BY <1>1, <1>2, <1>4 DEF TypeOK
<1>6. /\ account' \in [Users -> SUBSET Marks]
      /\ accepted' \in [Controls -> SUBSET Marks]
      /\ clickedOn' = clickedOn
  BY <1>1, <1>2, UploadedTypes
<1> QED
  BY <1>3, <1>5, <1>6 DEF Migrate, TypeOK

LEMMA LoadTypes ==
  ASSUME TypeOK, NEW c \in Controls, Load(c)
  PROVE  TypeOK'
<1> DEFINE s == [sync[c] EXCEPT !.step = "hydrate", !.got = MarksOf(User(c))]
<1>1. sync[c] \in Sync /\ sync[c].step = "load" /\ sync[c].todo = {} /\ MarksOf(User(c)) \in SUBSET Marks
  BY UserType DEF Load, MarksOf, TypeOK
<1>2. s \in Sync /\ s.step = "hydrate" /\ s.todo = {}
  BY <1>1 DEF Sync
<1>3. sync' = [sync EXCEPT ![c] = s]
  BY <1>1 DEF Load, TypeOK, Sync
<1>4. sync' \in [Controls -> Sync] /\ \A d \in Controls : sync'[d].step = "migrate" <=> sync'[d].todo # {}
  <2> HIDE DEF s
  <2> QED
    BY <1>2, <1>3, SyncReplaced
<1> QED
  BY <1>4 DEF Load, TypeOK, history, clickHistory

\* The sync ends: with the marks it began with, with the account's, or in vain.
LEMMA DoneTypes ==
  ASSUME TypeOK, NEW c \in Controls, sync' = [sync EXCEPT ![c] = [Closed EXCEPT !.step = "done"]]
  PROVE  sync' \in [Controls -> Sync] /\ \A d \in Controls : sync'[d].step = "migrate" <=> sync'[d].todo # {}
<1>1. /\ [Closed EXCEPT !.step = "done"] \in Sync
      /\ [Closed EXCEPT !.step = "done"].step = "done"
      /\ [Closed EXCEPT !.step = "done"].todo = {}
  BY DEF Closed, Sync
<1> QED
  BY <1>1 DEF TypeOK

LEMMA LoadRefusedTypes ==
  ASSUME TypeOK, NEW c \in Controls, LoadRefused(c)
  PROVE  TypeOK'
<1>1. sync[c].base \in SUBSET Marks
  BY DEF TypeOK, Sync
<1>2. shown' \in [Controls -> SUBSET Marks]
  BY <1>1 DEF LoadRefused, TypeOK
<1> QED
  BY <1>2, DoneTypes DEF LoadRefused, TypeOK, history, clickHistory

LEMMA FinishTypes ==
  ASSUME TypeOK, NEW c \in Controls, Finish(c)
  PROVE  TypeOK'
<1> DEFINE marks == Hydrate(sync[c].got, Known(c, sync[c].base))
<1>1. marks \in SUBSET Marks /\ BrowserOf[c] \in Browsers
  BY HydrateLoses, UserType DEF TypeOK, Sync
<1>2. /\ local' = [local EXCEPT ![BrowserOf[c]] = marks]
      /\ shown' = [shown EXCEPT ![c] = marks]
  BY DEF Finish
<1> HIDE DEF marks
<1>3. local' \in [Browsers -> SUBSET Marks] /\ shown' \in [Controls -> SUBSET Marks]
  BY <1>1, <1>2 DEF TypeOK
<1> QED
  BY <1>3, DoneTypes DEF Finish, TypeOK, history, clickHistory

LEMMA SyncFailsTypes ==
  ASSUME TypeOK, NEW c \in Controls, SyncFails(c)
  PROVE  TypeOK'
<1>1. \/ UNCHANGED <<account, accepted, clickedOn>>
      \/ /\ User(c) # NoUser
         /\ \E m \in sync[c].todo : Uploaded(c, m)
  BY DEF SyncFails, clickHistory
<1>2. sync[c].todo \subseteq Marks
  BY DEF TypeOK, Sync
<1>3. /\ account' \in [Users -> SUBSET Marks]
      /\ accepted' \in [Controls -> SUBSET Marks]
      /\ clickedOn' = clickedOn
  BY <1>1, <1>2, UploadedTypes DEF TypeOK
<1> QED
  BY <1>3, DoneTypes DEF SyncFails, TypeOK

LEMMA UpdateTypes ==
  ASSUME TypeOK, NEW c \in Controls, NEW m \in Marks, NEW next \in SUBSET Marks, Update(c, m, next)
  PROVE  TypeOK'
<1> DEFINE b == BrowserOf[c]
           put == [control |-> c, user |-> session[b], mark |-> m, on |-> m \in next,
                   base |-> next, step |-> "sent", got |-> {}]
<1>1. b \in Browsers /\ session[b] \in Users \cup {NoUser}
  BY UserType DEF TypeOK
<1>2. (m \in next) \in BOOLEAN
  OBVIOUS
<1>3. put \in Put
  BY <1>1, <1>2 DEF Put
<1>4. puts' = Append(puts, put)
  BY DEF Update
<1>5. puts' \in Seq(Put)
  <2> HIDE DEF put
  <2> QED
    BY <1>3, <1>4 DEF TypeOK
<1>6. shown' \in [Controls -> SUBSET Marks] /\ local' \in [Browsers -> SUBSET Marks]
  BY <1>1 DEF Update, TypeOK
<1>7. clickedOn' \in [Marks -> SUBSET (Users \cup {NoUser})]
  BY <1>1 DEF Update, TypeOK
<1> QED
  BY <1>5, <1>6, <1>7 DEF Update, TypeOK

LEMMA RefusePutTypes ==
  ASSUME TypeOK, NEW i \in DOMAIN puts, RefusePut(i)
  PROVE  TypeOK'
<1>1. puts[i] \in Put
  BY DEF TypeOK
<1>2. [puts[i] EXCEPT !.step = "over", !.base = {}] \in Put
  BY <1>1 DEF Put
<1>3. puts' = [puts EXCEPT ![i] = [puts[i] EXCEPT !.step = "over", !.base = {}]]
  BY DEF RefusePut
<1>4. puts' \in Seq(Put)
  BY <1>2, <1>3, PutReplaced DEF TypeOK
<1> QED
  BY <1>4 DEF RefusePut, TypeOK, history, clickHistory

LEMMA ServePutTypes ==
  ASSUME TypeOK, NEW i \in DOMAIN puts, ServePut(i)
  PROVE  TypeOK'
<1> DEFINE marks == SetItem(puts[i].user, puts[i].mark, puts[i].on)
<1>1. puts[i] \in Put
  BY DEF TypeOK
<1>2. puts[i].user \in Users
  BY <1>1 DEF ServePut, Put
<1>3. marks \in SUBSET Marks
  BY <1>2, <1>1, SetItemType DEF Put
<1>4. /\ account' = [account EXCEPT ![puts[i].user] = marks]
      /\ puts' = [puts EXCEPT ![i] = [puts[i] EXCEPT !.step = "served", !.got = marks]]
  BY DEF ServePut
<1> HIDE DEF marks
<1>5. [puts[i] EXCEPT !.step = "served", !.got = marks] \in Put
  BY <1>1, <1>3 DEF Put
<1>6. puts' \in Seq(Put)
  BY <1>4, <1>5, PutReplaced DEF TypeOK
<1>7. account' \in [Users -> SUBSET Marks]
  BY <1>2, <1>3, <1>4 DEF TypeOK
<1> QED
  BY <1>6, <1>7 DEF ServePut, TypeOK, history, clickHistory

\* A request that is over.
LEMMA OverTypes ==
  ASSUME TypeOK, NEW i \in DOMAIN puts,
         puts' = [puts EXCEPT ![i] = [puts[i] EXCEPT !.step = "over", !.base = {}, !.got = {}]]
  PROVE  puts' \in Seq(Put)
<1>1. puts[i] \in Put
  BY DEF TypeOK
<1>2. [puts[i] EXCEPT !.step = "over", !.base = {}, !.got = {}] \in Put
  BY <1>1 DEF Put
<1> QED
  BY <1>2, PutReplaced DEF TypeOK

LEMMA ApplyResponseTypes ==
  ASSUME TypeOK, NEW i \in DOMAIN puts, ApplyResponse(i)
  PROVE  TypeOK'
<1> DEFINE c == puts[i].control
           marks == Hydrate(puts[i].got, Known(c, puts[i].base))
<1>1. puts[i] \in Put
  BY DEF TypeOK
<1>2. c \in Controls /\ puts[i].got \in SUBSET Marks
  BY <1>1 DEF Put
<1>3. marks \in SUBSET Marks /\ BrowserOf[c] \in Browsers
  BY <1>2, HydrateLoses, UserType
<1>4. /\ local' = [local EXCEPT ![BrowserOf[c]] = marks]
      /\ shown' = [shown EXCEPT ![c] = marks]
      /\ puts' = [puts EXCEPT ![i] = [puts[i] EXCEPT !.step = "over", !.base = {}, !.got = {}]]
  BY DEF ApplyResponse
<1> HIDE DEF marks, c
<1>5. local' \in [Browsers -> SUBSET Marks] /\ shown' \in [Controls -> SUBSET Marks]
  BY <1>2, <1>3, <1>4 DEF TypeOK
<1>6. puts' \in Seq(Put)
  BY <1>4, OverTypes
<1> QED
  BY <1>5, <1>6 DEF ApplyResponse, TypeOK, history, clickHistory

LEMMA LosePutTypes ==
  ASSUME TypeOK, NEW i \in DOMAIN puts, LosePut(i)
  PROVE  TypeOK'
<1>1. puts' \in Seq(Put)
  BY OverTypes DEF LosePut
<1> QED
  BY <1>1 DEF LosePut, TypeOK, clickHistory

LEMMA NextTypes ==
  ASSUME TypeOK, [Next]_vars
  PROVE  TypeOK'
<1>1. CASE UNCHANGED vars
  BY <1>1 DEF TypeOK, vars, history, clickHistory
<1>2. CASE \E b \in Browsers : ChangeSession(b)
  BY <1>2, ChangeSessionTypes
<1>3. CASE \E c \in Controls : Open(c) \/ SyncStep(c) \/ SyncFails(c) \/ Unmount(c)
  BY <1>3, OpenTypes, MigrateRefusedTypes, MigrateTypes, LoadRefusedTypes, LoadTypes, FinishTypes,
     SyncFailsTypes, UnmountTypes
     DEF SyncStep
<1>4. CASE \E c \in Controls, m \in Marks : Toggle(c, m) \/ Remove(c, m)
  <2>1. PICK c \in Controls, m \in Marks : Toggle(c, m) \/ Remove(c, m)
    BY <1>4
  <2>2. shown[c] \in SUBSET Marks
    BY DEF TypeOK
  <2>3. Toggled(shown[c], m) \in SUBSET Marks /\ shown[c] \ {m} \in SUBSET Marks
    BY <2>2 DEF Toggled
  <2> QED
    BY <2>1, <2>3, UpdateTypes DEF Toggle, Remove
<1>5. CASE \E i \in DOMAIN puts : RefusePut(i) \/ ServePut(i) \/ ApplyResponse(i) \/ LosePut(i)
  BY <1>5, RefusePutTypes, ServePutTypes, ApplyResponseTypes, LosePutTypes
<1> QED
  BY <1>1, <1>2, <1>3, <1>4, <1>5 DEF Next

\* Storage, copies, requests and accounts hold marks in every reachable state,
\* and a sync that uploads has something to upload (personalState.ts).
THEOREM PersonalTypes == Spec => []TypeOK
BY InitTypes, NextTypes, PTL DEF Spec

-----------------------------------------------------------------------------
\* The marker.

\* What a migration has already uploaded has been accepted.
UploadsAccepted ==
  \A c \in Controls : sync[c].step = "migrate" => sync[c].base \ sync[c].todo \subseteq accepted[c]

MarkerInv == TypeOK /\ UploadsAccepted

\* What a step may do to the markers.
MarkerMoves ==
  \A b \in Browsers : marker'[b] # marker[b] =>
    \E c \in ControlsOf(b) :
      /\ marker'[b] = {sync'[c].base}
      /\ sync'[c].step = "load" /\ sync'[c].base \subseteq accepted'[c]

\* An upload adds to what its sync has got accepted, and to nothing else.
LEMMA UploadedAccepts ==
  ASSUME TypeOK, NEW c \in Controls, NEW m \in Marks, Uploaded(c, m)
  PROVE  /\ \A d \in Controls : accepted[d] \subseteq accepted'[d]
         /\ m \in accepted'[c]
BY DEF Uploaded, TypeOK

\* A step that leaves the markers alone, no sync further than it was, and
\* what an open migration has got accepted.
LEMMA MarkerKept ==
  ASSUME MarkerInv, TypeOK',
         marker' = marker,
         \A c \in Controls : sync'[c].step = "migrate" =>
           sync'[c] = sync[c] /\ accepted[c] \subseteq accepted'[c]
  PROVE  MarkerInv' /\ MarkerMoves
BY DEF MarkerInv, UploadsAccepted, MarkerMoves

\* Nothing but an empty storage is marked at once.
LEMMA OpenMarker ==
  ASSUME MarkerInv, TypeOK', NEW c \in Controls, Open(c)
  PROVE  MarkerInv' /\ MarkerMoves
<1> DEFINE b == BrowserOf[c]
           load == [Closed EXCEPT !.step = "load", !.base = local[b]]
           upload == [Closed EXCEPT !.step = "migrate", !.base = local[b], !.todo = local[b]]
<1>1. b \in Browsers /\ accepted' = accepted /\ c \in ControlsOf(b)
  BY UserType DEF MarkerInv, Open, clickHistory, ControlsOf
<1>2. load.step = "load" /\ load.base = local[b] /\ upload.step = "migrate" /\ upload.base = upload.todo
  BY DEF Closed
<1>3. \/ /\ Signed(b) \/ local[b] = {}
         /\ sync' = [sync EXCEPT ![c] = load] /\ marker' = [marker EXCEPT ![b] = {local[b]}]
      \/ sync' = [sync EXCEPT ![c] = upload] /\ marker' = marker
  BY DEF Open
<1> HIDE DEF load, upload
<1>4. UploadsAccepted'
  BY <1>1, <1>2, <1>3 DEF MarkerInv, UploadsAccepted, TypeOK
<1>5. MarkerMoves
  <2> SUFFICES ASSUME NEW d \in Browsers, marker'[d] # marker[d]
               PROVE  \E e \in ControlsOf(d) :
                        /\ marker'[d] = {sync'[e].base}
                        /\ sync'[e].step = "load" /\ sync'[e].base \subseteq accepted'[e]
    BY DEF MarkerMoves
  <2>1. d = b /\ marker'[d] = {local[b]} /\ sync' = [sync EXCEPT ![c] = load] /\ ~Signed(b)
    BY <1>3 DEF MarkerInv, TypeOK, Signed
  <2>2. local[b] = {} /\ sync'[c] = load
    BY <1>3, <2>1 DEF MarkerInv, TypeOK
  <2> QED
    BY <1>1, <1>2, <2>1, <2>2
<1> QED
  BY <1>4, <1>5 DEF MarkerInv

\* The marker is written when the last mark of what the sync began with has
\* been accepted.
LEMMA MigrateMarker ==
  ASSUME MarkerInv, TypeOK', NEW c \in Controls, Migrate(c)
  PROVE  MarkerInv' /\ MarkerMoves
<1> DEFINE b == BrowserOf[c]
<1>1. PICK m \in sync[c].todo :
        /\ Uploaded(c, m)
        /\ \/ /\ sync' = [sync EXCEPT ![c].todo = @ \ {m}]
              /\ marker' = marker
           \/ /\ sync[c].todo = {m}
              /\ sync' = [sync EXCEPT ![c].todo = {}, ![c].step = "load"]
              /\ marker' = [marker EXCEPT ![b] = {sync[c].base}]
  BY DEF Migrate
<1>2. b \in Browsers /\ m \in Marks /\ sync[c] \in Sync /\ sync[c].step = "migrate" /\ c \in ControlsOf(b)
  BY <1>1, UserType DEF MarkerInv, TypeOK, Sync, Migrate, ControlsOf
<1>3. (\A d \in Controls : accepted[d] \subseteq accepted'[d]) /\ m \in accepted'[c]
  BY <1>1, <1>2, UploadedAccepts DEF MarkerInv
<1>4. sync[c].base \ sync[c].todo \subseteq accepted[c]
  BY <1>2 DEF MarkerInv, UploadsAccepted
<1>5. \A d \in Controls \ {c} : sync'[d] = sync[d]
  BY <1>1 DEF MarkerInv, TypeOK
<1>6. CASE sync' = [sync EXCEPT ![c].todo = @ \ {m}] /\ marker' = marker
  <2>1. sync'[c].base = sync[c].base /\ sync'[c].todo = sync[c].todo \ {m}
    BY <1>2, <1>6 DEF MarkerInv, TypeOK, Sync
  <2>2. UploadsAccepted'
    BY <1>2, <1>3, <1>4, <1>5, <2>1 DEF MarkerInv, UploadsAccepted
  <2> QED
    BY <1>6, <2>2 DEF MarkerInv, MarkerMoves
<1>7. CASE /\ sync[c].todo = {m}
           /\ sync' = [sync EXCEPT ![c].todo = {}, ![c].step = "load"]
           /\ marker' = [marker EXCEPT ![b] = {sync[c].base}]
  <2>1. sync'[c].step = "load" /\ sync'[c].base = sync[c].base
    BY <1>2, <1>7 DEF MarkerInv, TypeOK, Sync
  <2>2. UploadsAccepted'
    BY <1>3, <1>5, <2>1 DEF MarkerInv, UploadsAccepted
  <2>3. sync[c].base \subseteq accepted'[c]
    BY <1>2, <1>3, <1>4, <1>7
  <2>4. \A d \in Browsers : marker'[d] # marker[d] => d = b /\ marker'[d] = {sync[c].base}
    BY <1>2, <1>7 DEF MarkerInv, TypeOK
  <2>5. MarkerMoves
    BY <1>2, <2>1, <2>3, <2>4 DEF MarkerMoves
  <2> QED
    BY <2>2, <2>5 DEF MarkerInv
<1> QED
  BY <1>1, <1>6, <1>7

LEMMA NextMarker ==
  ASSUME MarkerInv, [Next]_vars
  PROVE  MarkerInv' /\ MarkerMoves
<1>t. TypeOK
  BY DEF MarkerInv
<1>0. TypeOK'
  BY <1>t, NextTypes
<1>1. CASE UNCHANGED vars \/ (\E b \in Browsers : ChangeSession(b))
  BY <1>0, <1>1, MarkerKept DEF vars, history, clickHistory, ChangeSession
<1>2. ASSUME NEW c \in Controls, Open(c) \/ Migrate(c)
      PROVE  MarkerInv' /\ MarkerMoves
  BY <1>0, <1>2, OpenMarker, MigrateMarker
<1>3. ASSUME NEW c \in Controls,
             MigrateRefused(c) \/ LoadRefused(c) \/ Load(c) \/ Finish(c) \/ Unmount(c)
      PROVE  MarkerInv' /\ MarkerMoves
  <2>1. marker' = marker /\ \A d \in Controls \ {c} : accepted'[d] = accepted[d]
    BY <1>3, <1>t DEF MigrateRefused, LoadRefused, Load, Finish, Unmount, history, clickHistory, TypeOK
  <2>2. sync'[c].step # "migrate"
    <3>1. sync[c] \in Sync /\ sync'[c] \in Sync
      BY <1>0, <1>t DEF TypeOK
    <3> QED
      BY <1>3, <1>t, <3>1 DEF MigrateRefused, LoadRefused, Load, Finish, Unmount, Closed, TypeOK, Sync
  <2>3. \A d \in Controls \ {c} : sync'[d] = sync[d]
    BY <1>3, <1>t DEF MigrateRefused, LoadRefused, Load, Finish, Unmount, TypeOK
  <2> QED
    BY <1>0, <2>1, <2>2, <2>3, MarkerKept
<1>4. ASSUME NEW c \in Controls, SyncFails(c)
      PROVE  MarkerInv' /\ MarkerMoves
  <2>1. \A d \in Controls : accepted[d] \subseteq accepted'[d]
    <3>1. CASE UNCHANGED <<account, clickHistory>>
      BY <3>1 DEF clickHistory
    <3>2. CASE \E m \in sync[c].todo : Uploaded(c, m)
      <4>1. sync[c].todo \subseteq Marks
        BY <1>t DEF TypeOK, Sync
      <4> QED
        BY <1>t, <3>2, <4>1, UploadedAccepts
    <3> QED
      BY <1>4, <3>1, <3>2 DEF SyncFails
  <2>2. \A d \in Controls : sync'[d].step = "migrate" => sync'[d] = sync[d]
    BY <1>4, <1>t DEF SyncFails, Closed, TypeOK
  <2> QED
    BY <1>0, <1>4, <2>1, <2>2, MarkerKept DEF SyncFails
<1>5. ASSUME NEW c \in Controls, NEW m \in Marks, Toggle(c, m) \/ Remove(c, m)
      PROVE  MarkerInv' /\ MarkerMoves
  BY <1>0, <1>5, MarkerKept DEF Toggle, Remove, Update
<1>6. ASSUME NEW i \in DOMAIN puts, RefusePut(i) \/ ServePut(i) \/ ApplyResponse(i) \/ LosePut(i)
      PROVE  MarkerInv' /\ MarkerMoves
  BY <1>0, <1>6, MarkerKept DEF RefusePut, ServePut, ApplyResponse, LosePut, history, clickHistory
<1> QED
  BY <1>1, <1>2, <1>3, <1>4, <1>5, <1>6 DEF Next, SyncStep

\* A migration marker is only ever set by a sync that has got accepted all the
\* marks it read, whatever is clicked, fails or is refused meanwhile
\* (migrateLocalPersonalStateToBackend).
THEOREM MarkerTells == Spec => MarkerMeansAccepted
<1>1. Init => MarkerInv
  BY InitTypes DEF Init, MarkerInv, UploadsAccepted, Closed
<1>2. MarkerInv /\ [Next]_vars => MarkerInv' /\ [MarkerMoves]_vars
  BY NextMarker
<1>3. [][MarkerMoves]_vars => MarkerMeansAccepted
  BY PTL DEF MarkerMeansAccepted, MarkerMoves
<1> QED
  BY <1>1, <1>2, <1>3, PTL DEF Spec
-----------------------------------------------------------------------------
\* Marks and their accounts.

\* Every browser is used with one account at most.
OwnBrowsers == \A b \in Browsers : \A u, v \in LoginsOf[b] : u = v

\* Marks switched on by the account of a browser, or while nobody was signed in.
Traced(b, marks) == \A m \in marks : clickedOn[m] \cap (LoginsOf[b] \cup {NoUser}) # {}

TracedSync(c) ==
  /\ Traced(BrowserOf[c], shown[c])
  /\ Traced(BrowserOf[c], sync[c].base)
  /\ Traced(BrowserOf[c], sync[c].todo)
  /\ Traced(BrowserOf[c], sync[c].got)

TracedPut(p) ==
  /\ p.user \in LoginsOf[BrowserOf[p.control]] \cup {NoUser}
  /\ Traced(BrowserOf[p.control], p.base)
  /\ Traced(BrowserOf[p.control], p.got)
  /\ p.on => p.user \in clickedOn[p.mark]

\* All that a browser may upload or store is traced, and so is all an account
\* has got.
TracedStorage == \A b \in Browsers :
  /\ session[b] \in LoginsOf[b] \cup {NoUser}
  /\ Traced(b, local[b])

TracedControls == \A c \in Controls : TracedSync(c)

TracedPuts == \A i \in DOMAIN puts : TracedPut(puts[i])

OwnInv == TypeOK /\ OwnMarks /\ TracedStorage /\ TracedControls /\ TracedPuts

\* What belongs to an account is traced for the browsers it is used in.
LEMMA AccountTraced ==
  ASSUME OwnInv, NEW b \in Browsers, NEW u \in LoginsOf[b]
  PROVE  Traced(b, MarksOf(u))
BY PersonalSyncAssumption DEF OwnInv, OwnMarks, Traced, MarksOf

\* What is traced for a browser may go to its account.
LEMMA MayUpload ==
  ASSUME OwnBrowsers, TypeOK, NEW b \in Browsers, NEW u \in LoginsOf[b], NEW S, Traced(b, S),
         NEW m \in S
  PROVE  clickedOn[m] \cap {u, NoUser} # {}
BY DEF OwnBrowsers, Traced

LEMMA TracedSubset ==
  ASSUME NEW b, NEW S, NEW T \in SUBSET S, Traced(b, S)
  PROVE  Traced(b, T)
BY DEF Traced

\* The API's answer, without the marks that have no snapshot.
LEMMA HydrateTraced ==
  ASSUME NEW b, NEW got, NEW known, Traced(b, got)
  PROVE  Traced(b, Hydrate(got, known))
BY DEF Hydrate, Traced

\* A control's sync and copy are replaced by traced ones.
LEMMA ControlReplaced ==
  ASSUME OwnInv, TypeOK', NEW c \in Controls, NEW s, NEW marks,
         sync' = [sync EXCEPT ![c] = s], shown' \in {shown, [shown EXCEPT ![c] = marks]},
         Traced(BrowserOf[c], marks), Traced(BrowserOf[c], s.base),
         Traced(BrowserOf[c], s.todo), Traced(BrowserOf[c], s.got),
         clickedOn' = clickedOn
  PROVE  TracedControls'
<1>1. \A d \in Controls \ {c} : sync'[d] = sync[d] /\ shown'[d] = shown[d]
  BY DEF OwnInv, TypeOK
<1>2. sync'[c] = s /\ shown'[c] \in {shown[c], marks}
  BY DEF OwnInv, TypeOK
<1> QED
  BY <1>1, <1>2 DEF OwnInv, TracedControls, TracedSync, Traced

\* Sync and copy change, or nothing of them does.
LEMMA StorageKept ==
  ASSUME OwnInv, session' = session, local' = local, clickedOn' = clickedOn
  PROVE  TracedStorage'
BY DEF OwnInv, TracedStorage, Traced

LEMMA StorageReplaced ==
  ASSUME OwnInv, NEW b \in Browsers, NEW marks, Traced(b, marks),
         session' = session, local' = [local EXCEPT ![b] = marks], clickedOn' = clickedOn
  PROVE  TracedStorage'
BY DEF OwnInv, TracedStorage, Traced, TypeOK

LEMMA PutsKept ==
  ASSUME OwnInv, puts' = puts, clickedOn' = clickedOn
  PROVE  TracedPuts'
BY DEF OwnInv, TracedPuts, TracedPut, Traced

LEMMA ControlsKept ==
  ASSUME OwnInv, sync' = sync, shown' = shown, clickedOn' = clickedOn
  PROVE  TracedControls'
BY DEF OwnInv, TracedControls, TracedSync, Traced

LEMMA AccountsKept ==
  ASSUME OwnInv, account' = account, clickedOn' = clickedOn
  PROVE  OwnMarks'
BY DEF OwnInv, OwnMarks

LEMMA NothingTraced == \A b : Traced(b, {})
BY DEF Traced

LEMMA ChangeSessionOwn ==
  ASSUME OwnInv, TypeOK', NEW b \in Browsers, ChangeSession(b)
  PROVE  OwnInv'
<1>1. PICK u \in LoginsOf[b] \cup {NoUser} : session' = [session EXCEPT ![b] = u]
  BY DEF ChangeSession
<1>2. UNCHANGED <<account, local, shown, sync, puts, clickedOn>>
  BY DEF ChangeSession, clickHistory
<1>3. TracedStorage'
  BY <1>1, <1>2 DEF OwnInv, TracedStorage, Traced, TypeOK
<1> QED
  BY <1>2, <1>3, PutsKept, ControlsKept, AccountsKept DEF OwnInv

LEMMA OpenOwn ==
  ASSUME OwnInv, TypeOK', NEW c \in Controls, Open(c)
  PROVE  OwnInv'
<1> DEFINE b == BrowserOf[c]
           load == [Closed EXCEPT !.step = "load", !.base = local[b]]
           upload == [Closed EXCEPT !.step = "migrate", !.base = local[b], !.todo = local[b]]
<1>1. UNCHANGED <<account, session, local, puts, clickedOn>> /\ shown' = [shown EXCEPT ![c] = local[b]]
  BY DEF Open, clickHistory
<1>2. Traced(b, local[b]) /\ Traced(b, {})
  BY UserType, NothingTraced DEF OwnInv, TracedStorage
<1>3. sync' = [sync EXCEPT ![c] = load] \/ sync' = [sync EXCEPT ![c] = upload]
  BY DEF Open
<1>4. /\ load.base = local[b] /\ load.todo = {} /\ load.got = {}
      /\ upload.base = local[b] /\ upload.todo = local[b] /\ upload.got = {}
  BY DEF Closed
<1>5. TracedControls'
  <2> HIDE DEF load, upload
  <2> QED
    BY <1>1, <1>2, <1>3, <1>4, ControlReplaced
<1> QED
  BY <1>1, <1>5, StorageKept, PutsKept, AccountsKept DEF OwnInv

\* The sync of a control ends or is over, and its copy becomes a traced one.
LEMMA DoneOwn ==
  ASSUME OwnInv, TypeOK', NEW c \in Controls, NEW marks, NEW step, Traced(BrowserOf[c], marks),
         sync' = [sync EXCEPT ![c] = [Closed EXCEPT !.step = step]],
         shown' \in {shown, [shown EXCEPT ![c] = marks]},
         clickedOn' = clickedOn
  PROVE  TracedControls'
<1> DEFINE s == [Closed EXCEPT !.step = step]
<1>1. s.base = {} /\ s.todo = {} /\ s.got = {} /\ Traced(BrowserOf[c], {})
  BY NothingTraced DEF Closed
<1>2. sync' = [sync EXCEPT ![c] = s]
  OBVIOUS
<1> HIDE DEF s
<1> QED
  BY <1>1, <1>2, ControlReplaced

LEMMA UnmountOwn ==
  ASSUME OwnInv, TypeOK', NEW c \in Controls, Unmount(c)
  PROVE  OwnInv'
<1>1. UNCHANGED <<account, session, local, puts, clickedOn>>
  BY DEF Unmount, history, clickHistory
<1>2. Closed = [Closed EXCEPT !.step = "closed"]
  BY DEF Closed
<1>3. TracedControls'
  BY <1>1, <1>2, DoneOwn, NothingTraced DEF Unmount
<1> QED
  BY <1>1, <1>3, StorageKept, PutsKept, AccountsKept DEF OwnInv

LEMMA MigrateRefusedOwn ==
  ASSUME OwnInv, TypeOK', NEW c \in Controls, MigrateRefused(c)
  PROVE  OwnInv'
<1> DEFINE s == [sync[c] EXCEPT !.todo = {}, !.step = "load"]
<1>1. UNCHANGED <<account, session, local, shown, puts, clickedOn>>
  BY DEF MigrateRefused, history, clickHistory
<1>2. sync[c] \in Sync
  BY DEF OwnInv, TypeOK
<1>3. sync' = [sync EXCEPT ![c] = s] /\ s.base = sync[c].base /\ s.todo = {} /\ s.got = sync[c].got
  BY <1>2 DEF MigrateRefused, OwnInv, TypeOK, Sync
<1> HIDE DEF s
<1>4. TracedControls'
  BY <1>1, <1>3, NothingTraced, ControlReplaced DEF OwnInv, TracedControls, TracedSync
<1> QED
  BY <1>1, <1>4, StorageKept, PutsKept, AccountsKept DEF OwnInv

\* An upload goes to the account of the browser, if it has one.
LEMMA UploadedOwn ==
  ASSUME OwnBrowsers, OwnInv, NEW c \in Controls, User(c) # NoUser, NEW m \in sync[c].todo,
         Uploaded(c, m)
  PROVE  OwnMarks' /\ clickedOn' = clickedOn
<1> DEFINE b == BrowserOf[c]
           u == session[b]
<1>1. b \in Browsers /\ u \in LoginsOf[b] /\ u \in Users
  BY UserType, PersonalSyncAssumption DEF OwnInv, TracedStorage, User
<1>2. clickedOn[m] \cap {u, NoUser} # {}
  BY <1>1, MayUpload DEF OwnInv, TracedControls, TracedSync
<1>3. account' = [account EXCEPT ![u] = account[u] \cup {m}] /\ clickedOn' = clickedOn
  BY DEF Uploaded, SetItem, MarksOf, User
<1> HIDE DEF u
<1> QED
  BY <1>1, <1>2, <1>3 DEF OwnInv, OwnMarks, TypeOK

LEMMA MigrateOwn ==
  ASSUME OwnBrowsers, OwnInv, TypeOK', NEW c \in Controls, Migrate(c)
  PROVE  OwnInv'
<1>1. PICK m \in sync[c].todo :
        /\ Uploaded(c, m)
        /\ \/ sync' = [sync EXCEPT ![c].todo = @ \ {m}]
           \/ sync' = [sync EXCEPT ![c].todo = {}, ![c].step = "load"]
  BY DEF Migrate
<1>2. User(c) # NoUser /\ UNCHANGED <<session, local, shown, puts>> /\ sync[c] \in Sync
  BY DEF Migrate, OwnInv, TypeOK
<1>3. OwnMarks' /\ clickedOn' = clickedOn
  BY <1>1, <1>2, UploadedOwn
<1>4. PICK s : /\ sync' = [sync EXCEPT ![c] = s]
               /\ s.base = sync[c].base /\ s.todo \in SUBSET sync[c].todo /\ s.got = sync[c].got
  <2>1. CASE sync' = [sync EXCEPT ![c].todo = @ \ {m}]
    <3> DEFINE s == [sync[c] EXCEPT !.todo = @ \ {m}]
    <3>1. sync' = [sync EXCEPT ![c] = s] /\ s.base = sync[c].base /\ s.todo \in SUBSET sync[c].todo
          /\ s.got = sync[c].got
      BY <1>2, <2>1 DEF Sync
    <3> QED
      BY <3>1
  <2>2. CASE sync' = [sync EXCEPT ![c].todo = {}, ![c].step = "load"]
    <3> DEFINE s == [sync[c] EXCEPT !.todo = {}, !.step = "load"]
    <3>1. sync' = [sync EXCEPT ![c] = s] /\ s.base = sync[c].base /\ s.todo \in SUBSET sync[c].todo
          /\ s.got = sync[c].got
      BY <1>2, <2>2 DEF OwnInv, TypeOK, Sync
    <3> QED
      BY <3>1
  <2> QED
    BY <1>1, <2>1, <2>2
<1>5. TracedControls'
  BY <1>2, <1>3, <1>4, TracedSubset, ControlReplaced DEF OwnInv, TracedControls, TracedSync
<1> QED
  BY <1>2, <1>3, <1>5, StorageKept, PutsKept DEF OwnInv

LEMMA LoadOwn ==
  ASSUME OwnInv, TypeOK', NEW c \in Controls, Load(c)
  PROVE  OwnInv'
<1> DEFINE b == BrowserOf[c]
           s == [sync[c] EXCEPT !.step = "hydrate", !.got = MarksOf(User(c))]
<1>1. UNCHANGED <<account, session, local, shown, puts, clickedOn>>
  BY DEF Load, history, clickHistory
<1>2. b \in Browsers /\ User(c) \in LoginsOf[b] /\ sync[c] \in Sync
  BY UserType DEF Load, OwnInv, TracedStorage, User, TypeOK
<1>3. /\ sync' = [sync EXCEPT ![c] = s]
      /\ s.base = sync[c].base /\ s.todo = sync[c].todo /\ s.got = MarksOf(User(c))
  BY <1>2 DEF Load, OwnInv, TypeOK, Sync
<1>4. Traced(b, MarksOf(User(c)))
  BY <1>2, AccountTraced
<1> HIDE DEF s
<1>5. TracedControls'
  BY <1>1, <1>3, <1>4, ControlReplaced DEF OwnInv, TracedControls, TracedSync
<1> QED
  BY <1>1, <1>5, StorageKept, PutsKept, AccountsKept DEF OwnInv

LEMMA LoadRefusedOwn ==
  ASSUME OwnInv, TypeOK', NEW c \in Controls, LoadRefused(c)
  PROVE  OwnInv'
<1>1. UNCHANGED <<account, session, local, puts, clickedOn>>
  BY DEF LoadRefused, history, clickHistory
<1>2. TracedControls'
  BY <1>1, DoneOwn DEF LoadRefused, OwnInv, TracedControls, TracedSync
<1> QED
  BY <1>1, <1>2, StorageKept, PutsKept, AccountsKept DEF OwnInv

LEMMA FinishOwn ==
  ASSUME OwnInv, TypeOK', NEW c \in Controls, Finish(c)
  PROVE  OwnInv'
<1> DEFINE marks == Hydrate(sync[c].got, Known(c, sync[c].base))
<1>1. UNCHANGED <<account, session, puts, clickedOn>>
  BY DEF Finish, history, clickHistory
<1>2. Traced(BrowserOf[c], marks) /\ BrowserOf[c] \in Browsers
  BY HydrateTraced, UserType DEF OwnInv, TracedControls, TracedSync
<1>3. /\ local' = [local EXCEPT ![BrowserOf[c]] = marks]
      /\ shown' = [shown EXCEPT ![c] = marks]
      /\ sync' = [sync EXCEPT ![c] = [Closed EXCEPT !.step = "done"]]
  BY DEF Finish
<1> HIDE DEF marks
<1>4. TracedControls'
  BY <1>1, <1>2, <1>3, DoneOwn
<1>5. TracedStorage'
  BY <1>1, <1>2, <1>3, StorageReplaced
<1> QED
  BY <1>1, <1>4, <1>5, PutsKept, AccountsKept DEF OwnInv

LEMMA SyncFailsOwn ==
  ASSUME OwnBrowsers, OwnInv, TypeOK', NEW c \in Controls, SyncFails(c)
  PROVE  OwnInv'
<1>1. OwnMarks' /\ clickedOn' = clickedOn
  <2>1. CASE UNCHANGED <<account, clickHistory>>
    BY <2>1, AccountsKept DEF clickHistory
  <2>2. CASE User(c) # NoUser /\ \E m \in sync[c].todo : Uploaded(c, m)
    BY <2>2, UploadedOwn
  <2> QED
    BY <2>1, <2>2 DEF SyncFails
<1>2. UNCHANGED <<session, local, shown, puts>>
  BY DEF SyncFails
<1>3. TracedControls'
  BY <1>1, <1>2, DoneOwn, NothingTraced DEF SyncFails
<1> QED
  BY <1>1, <1>2, <1>3, StorageKept, PutsKept DEF OwnInv

\* A click adds to the sessions under which its mark was switched on.
LEMMA TracedGrows ==
  ASSUME NEW b, NEW S \in SUBSET Marks, Traced(b, S),
         \A m \in Marks : clickedOn[m] \subseteq clickedOn'[m]
  PROVE  Traced(b, S)'
BY DEF Traced

LEMMA UpdateOwn ==
  ASSUME OwnInv, TypeOK', NEW c \in Controls, NEW m \in Marks, NEW next \in SUBSET Marks,
         next \ {m} \subseteq shown[c], Update(c, m, next)
  PROVE  OwnInv'
<1> DEFINE b == BrowserOf[c]
           put == [control |-> c, user |-> session[b], mark |-> m, on |-> m \in next,
                   base |-> next, step |-> "sent", got |-> {}]
<1>1. b \in Browsers /\ UNCHANGED <<account, session, sync>>
  BY UserType DEF Update, OwnInv
<1>2. /\ shown' = [shown EXCEPT ![c] = next]
      /\ local' = [local EXCEPT ![b] = next]
      /\ puts' = Append(puts, put)
      /\ clickedOn' = [clickedOn EXCEPT ![m] = IF m \in next THEN @ \cup {session[b]} ELSE @]
  BY DEF Update
<1>3. \A n \in Marks : clickedOn[n] \subseteq clickedOn'[n]
  BY <1>2 DEF OwnInv, TypeOK
<1>4. m \in next => session[b] \in clickedOn'[m]
  BY <1>2 DEF OwnInv, TypeOK
<1>5. session[b] \in LoginsOf[b] \cup {NoUser}
  BY <1>1 DEF OwnInv, TracedStorage
<1>6. Traced(b, next)'
  <2>1. Traced(b, shown[c])
    BY DEF OwnInv, TracedControls, TracedSync
  <2>2. ASSUME NEW n \in next
        PROVE  clickedOn'[n] \cap (LoginsOf[b] \cup {NoUser}) # {}
    <3>1. CASE n = m
      BY <1>4, <1>5, <2>2, <3>1
    <3>2. CASE n # m
      BY <1>3, <2>1, <2>2, <3>2 DEF Traced
    <3> QED
      BY <3>1, <3>2
  <2> QED
    BY <2>2 DEF Traced
<1>7. OwnMarks'
  BY <1>1, <1>3 DEF OwnInv, OwnMarks, TypeOK
<1>8. TracedStorage'
  <2>1. ASSUME NEW d \in Browsers
        PROVE  Traced(d, local[d])'
    <3>1. CASE d = b
      <4>1. local'[d] = next
        BY <1>1, <1>2, <3>1 DEF OwnInv, TypeOK
      <4> QED
        BY <1>6, <3>1, <4>1 DEF Traced
    <3>2. CASE d # b
      <4>1. local'[d] = local[d] /\ local[d] \in SUBSET Marks /\ Traced(d, local[d])
        BY <1>1, <1>2, <3>2 DEF OwnInv, TypeOK, TracedStorage
      <4> QED
        BY <1>3, <4>1 DEF Traced
    <3> QED
      BY <3>1, <3>2
  <2> QED
    BY <1>1, <2>1 DEF OwnInv, TracedStorage
<1>9. TracedControls'
  <2>1. ASSUME NEW d \in Controls
        PROVE  TracedSync(d)'
    <3> DEFINE e == BrowserOf[d]
    <3>1. sync'[d] = sync[d] /\ sync[d] \in Sync /\ TracedSync(d)
      BY <1>1, <2>1 DEF OwnInv, TypeOK, TracedControls
    <3>2. Traced(e, sync[d].base)' /\ Traced(e, sync[d].todo)' /\ Traced(e, sync[d].got)'
      BY <1>1, <1>3, <3>1 DEF Sync, TracedSync, Traced
    <3>3. Traced(e, shown[d])'
      <4>1. CASE d = c
        BY <1>2, <1>6, <4>1 DEF OwnInv, TypeOK, Traced
      <4>2. CASE d # c
        <5>1. shown'[d] = shown[d] /\ shown[d] \in SUBSET Marks /\ Traced(e, shown[d])
          BY <1>2, <2>1, <4>2, <3>1 DEF OwnInv, TypeOK, TracedSync
        <5> QED
          BY <1>3, <5>1 DEF Traced
      <4> QED
        BY <4>1, <4>2
    <3> QED
      BY <3>2, <3>3 DEF TracedSync
  <2> QED
    BY <2>1 DEF TracedControls
<1>10. TracedPuts'
  <2>1. TracedPut(put)'
    <3>1. Traced(b, {})'
      BY DEF Traced
    <3>2. put' = put
      BY <1>1
    <3> QED
      BY <1>4, <1>5, <1>6, <3>1, <3>2 DEF TracedPut
  <2>2. ASSUME NEW i \in DOMAIN puts
        PROVE  TracedPut(puts[i])'
    <3>1. puts'[i] = puts[i] /\ puts[i] \in Put /\ TracedPut(puts[i])
      <4> HIDE DEF put
      <4> QED
        BY <1>2, <2>2 DEF OwnInv, TypeOK, TracedPuts
    <3> DEFINE p == puts[i]
    <3>2. /\ Traced(BrowserOf[p.control], p.base) /\ Traced(BrowserOf[p.control], p.got)
          /\ p.base \in SUBSET Marks /\ p.got \in SUBSET Marks /\ p.mark \in Marks
      BY <3>1 DEF TracedPut, Put
    <3> QED
      BY <1>3, <3>1, <3>2 DEF TracedPut, Traced
  <2>3. Len(puts) \in Nat /\ DOMAIN puts = 1..Len(puts)
    BY DEF OwnInv, TypeOK
  <2>4. DOMAIN puts' = DOMAIN puts \cup {Len(puts) + 1} /\ puts'[Len(puts) + 1] = put
    <3> HIDE DEF put
    <3> QED
      BY <1>2, <2>3 DEF OwnInv, TypeOK
  <2>5. put' = put
    BY <1>1
  <2> QED
    BY <2>1, <2>2, <2>4, <2>5 DEF TracedPuts
<1> QED
  BY <1>7, <1>8, <1>9, <1>10 DEF OwnInv

\* One request is replaced by another that is traced.
LEMMA PutReplacedOwn ==
  ASSUME OwnInv, TypeOK', NEW i \in DOMAIN puts, NEW p,
         puts' = [puts EXCEPT ![i] = p], clickedOn' = clickedOn, TracedPut(p)
  PROVE  TracedPuts'
<1>1. DOMAIN puts' = DOMAIN puts /\ puts'[i] = p /\ \A j \in DOMAIN puts \ {i} : puts'[j] = puts[j]
  BY DEF OwnInv, TypeOK
<1> QED
  BY <1>1 DEF OwnInv, TracedPuts, TracedPut, Traced

LEMMA RefusePutOwn ==
  ASSUME OwnInv, TypeOK', NEW i \in DOMAIN puts, RefusePut(i)
  PROVE  OwnInv'
<1> DEFINE p == [puts[i] EXCEPT !.step = "over", !.base = {}]
<1>1. UNCHANGED <<account, session, local, shown, sync, clickedOn>> /\ puts' = [puts EXCEPT ![i] = p]
  BY DEF RefusePut, history, clickHistory
<1>2. puts[i] \in Put /\ TracedPut(puts[i])
  BY DEF OwnInv, TypeOK, TracedPuts
<1>3. TracedPut(p)
  BY <1>2, NothingTraced DEF Put, TracedPut
<1> HIDE DEF p
<1> QED
  BY <1>1, <1>3, PutReplacedOwn, StorageKept, ControlsKept, AccountsKept DEF OwnInv

\* The session that a click was sent with is the account that it changes.
LEMMA ServePutOwn ==
  ASSUME OwnInv, TypeOK', NEW i \in DOMAIN puts, ServePut(i)
  PROVE  OwnInv'
<1> DEFINE b == BrowserOf[puts[i].control]
           u == puts[i].user
           marks == SetItem(u, puts[i].mark, puts[i].on)
           p == [puts[i] EXCEPT !.step = "served", !.got = marks]
<1>1. UNCHANGED <<session, local, shown, sync, clickedOn>>
  BY DEF ServePut, history, clickHistory
<1>2. account' = [account EXCEPT ![u] = marks] /\ puts' = [puts EXCEPT ![i] = p]
  BY DEF ServePut
<1>3. puts[i] \in Put /\ TracedPut(puts[i])
  BY DEF OwnInv, TypeOK, TracedPuts
<1>4. b \in Browsers /\ u \in LoginsOf[b] /\ u \in Users
  BY <1>3, PersonalSyncAssumption DEF ServePut, TracedPut, Put
<1>5. \A m \in marks : clickedOn[m] \cap {u, NoUser} # {}
  BY <1>3, <1>4 DEF OwnInv, OwnMarks, TracedPut, SetItem, MarksOf
<1>6. Traced(b, marks)
  BY <1>4, <1>5 DEF Traced
<1> HIDE DEF marks
<1>7. OwnMarks'
  BY <1>1, <1>2, <1>4, <1>5 DEF OwnInv, OwnMarks, TypeOK
<1>8. TracedPut(p)
  BY <1>3, <1>6 DEF Put, TracedPut
<1> HIDE DEF p
<1> QED
  BY <1>1, <1>2, <1>7, <1>8, PutReplacedOwn, StorageKept, ControlsKept DEF OwnInv

LEMMA OverOwn ==
  ASSUME OwnInv, TypeOK', NEW i \in DOMAIN puts, clickedOn' = clickedOn,
         puts' = [puts EXCEPT ![i] = [puts[i] EXCEPT !.step = "over", !.base = {}, !.got = {}]]
  PROVE  TracedPuts'
<1> DEFINE p == [puts[i] EXCEPT !.step = "over", !.base = {}, !.got = {}]
<1>1. puts[i] \in Put /\ TracedPut(puts[i])
  BY DEF OwnInv, TypeOK, TracedPuts
<1>2. TracedPut(p)
  BY <1>1, NothingTraced DEF Put, TracedPut
<1>3. puts' = [puts EXCEPT ![i] = p]
  OBVIOUS
<1> HIDE DEF p
<1> QED
  BY <1>2, <1>3, PutReplacedOwn

LEMMA ApplyResponseOwn ==
  ASSUME OwnInv, TypeOK', NEW i \in DOMAIN puts, ApplyResponse(i)
  PROVE  OwnInv'
<1> DEFINE c == puts[i].control
           marks == Hydrate(puts[i].got, Known(c, puts[i].base))
<1>1. UNCHANGED <<account, session, sync, clickedOn>>
  BY DEF ApplyResponse, history, clickHistory
<1>2. /\ local' = [local EXCEPT ![BrowserOf[c]] = marks]
      /\ shown' = [shown EXCEPT ![c] = marks]
      /\ puts' = [puts EXCEPT ![i] = [puts[i] EXCEPT !.step = "over", !.base = {}, !.got = {}]]
  BY DEF ApplyResponse
<1>3. puts[i] \in Put /\ TracedPut(puts[i])
  BY DEF OwnInv, TypeOK, TracedPuts
<1>4. c \in Controls /\ BrowserOf[c] \in Browsers /\ Traced(BrowserOf[c], marks)
  BY <1>3, HydrateTraced, PersonalSyncAssumption DEF TracedPut, Put
<1> HIDE DEF marks, c
<1>5. TracedStorage'
  BY <1>1, <1>2, <1>4, StorageReplaced
<1>6. TracedControls'
  <2>1. \A d \in Controls : shown'[d] = shown[d] \/ (d = c /\ shown'[d] = marks)
    BY <1>2, <1>4 DEF OwnInv, TypeOK
  <2> QED
    BY <1>1, <1>4, <2>1 DEF OwnInv, TracedControls, TracedSync, Traced
<1> QED
  BY <1>1, <1>2, <1>5, <1>6, OverOwn, AccountsKept DEF OwnInv

LEMMA LosePutOwn ==
  ASSUME OwnInv, TypeOK', NEW i \in DOMAIN puts, LosePut(i)
  PROVE  OwnInv'
<1>1. UNCHANGED <<account, session, local, shown, sync, clickedOn>>
  BY DEF LosePut, clickHistory
<1>2. TracedPuts'
  BY <1>1, OverOwn DEF LosePut
<1> QED
  BY <1>1, <1>2, StorageKept, ControlsKept, AccountsKept DEF OwnInv

LEMMA NextOwn ==
  ASSUME OwnBrowsers, OwnInv, [Next]_vars
  PROVE  OwnInv'
<1> USE DEF OwnInv
<1>0. TypeOK'
  BY NextTypes
<1>1. CASE UNCHANGED vars
  BY <1>0, <1>1, StorageKept, ControlsKept, PutsKept, AccountsKept DEF vars, history, clickHistory
<1>2. CASE \E b \in Browsers : ChangeSession(b)
  BY <1>0, <1>2, ChangeSessionOwn
<1>3. CASE \E c \in Controls : Open(c) \/ SyncStep(c) \/ SyncFails(c) \/ Unmount(c)
  BY <1>0, <1>3, OpenOwn, MigrateRefusedOwn, MigrateOwn, LoadRefusedOwn, LoadOwn, FinishOwn,
     SyncFailsOwn, UnmountOwn
     DEF SyncStep
<1>4. CASE \E c \in Controls, m \in Marks : Toggle(c, m) \/ Remove(c, m)
  <2>1. PICK c \in Controls, m \in Marks : Toggle(c, m) \/ Remove(c, m)
    BY <1>4
  <2>2. shown[c] \in SUBSET Marks
    BY DEF TypeOK
  <2>3. /\ Toggled(shown[c], m) \in SUBSET Marks /\ Toggled(shown[c], m) \ {m} \subseteq shown[c]
        /\ shown[c] \ {m} \in SUBSET Marks
    BY <2>2 DEF Toggled
  <2> QED
    BY <1>0, <2>1, <2>3, UpdateOwn DEF Toggle, Remove
<1>5. CASE \E i \in DOMAIN puts : RefusePut(i) \/ ServePut(i) \/ ApplyResponse(i) \/ LosePut(i)
  BY <1>0, <1>5, RefusePutOwn, ServePutOwn, ApplyResponseOwn, LosePutOwn
<1> QED
  BY <1>1, <1>2, <1>3, <1>4, <1>5 DEF Next

\* Marks stay with their account: where every browser is used with one account
\* at most, an account holds only marks that were switched on under its own
\* session or while nobody was signed in (ADR 0036).  Without the condition the
\* local storage, which logout leaves as it is, carries them over.
THEOREM OwnBrowsersKeepMarks ==
  ASSUME OwnBrowsers
  PROVE  Spec => []OwnMarks
<1>1. Init => OwnInv
  <2>1. SUFFICES ASSUME Init PROVE OwnInv
    OBVIOUS
  <2>2. OwnMarks
    BY <2>1 DEF Init, OwnMarks
  <2>3. TracedStorage
    BY <2>1, NothingTraced DEF Init, TracedStorage
  <2>4. TracedControls
    BY <2>1, NothingTraced DEF Init, TracedControls, TracedSync, Closed
  <2>5. TracedPuts
    BY <2>1 DEF Init, TracedPuts
  <2> QED
    BY <2>1, <2>2, <2>3, <2>4, <2>5, InitTypes DEF OwnInv
<1>2. OwnInv /\ [Next]_vars => OwnInv'
  BY NextOwn
<1>3. OwnInv => OwnMarks
  BY DEF OwnInv
<1> QED
  BY <1>1, <1>2, <1>3, PTL DEF Spec

-----------------------------------------------------------------------------
\* Storage and account of an orderly reader.
\*
\* A browser whose account is used nowhere else is in one of three situations
\* while no click is under way.  Covered: what is stored and what is still to
\* be uploaded is in the account already.  Uploading: every control is still
\* migrating the marks that are stored.  SignedOn: the marker names the marks
\* stored (some account took them, perhaps another one), so nobody uploads.
\* The answers under way are what the account holds now.

Pending(b) == {i \in DOMAIN puts : BrowserOf[puts[i].control] = b /\ puts[i].step # "over"}

Own(b) == session[b] # NoUser /\ \A d \in Browsers \ {b} : session[b] \notin LoginsOf[d]

Mine(b) == account[session[b]]

SessionsFit ==
  /\ \A b \in Browsers : session[b] \in LoginsOf[b] \cup {NoUser}
  /\ \A i \in DOMAIN puts : puts[i].user \in LoginsOf[BrowserOf[puts[i].control]] \cup {NoUser}

PutsHeld == \A i \in DOMAIN puts : puts[i].step # "over" => sync[puts[i].control].step # "closed"

OneAtATime(b) ==
  /\ \A i, j \in Pending(b) : i = j
  /\ \A i \in Pending(b) : puts[i].user = session[b]
  /\ Pending(b) # {} => ~Syncing(b)

Loaded(b) == \A c \in ControlsOf(b) : sync[c].step = "hydrate" => sync[c].got = Mine(b)

Current(b) == Loaded(b) /\ \A i \in Pending(b) : puts[i].step = "served" => puts[i].got = Mine(b)

Agrees(b) == local[b] \subseteq Mine(b) /\ \A m \in Mine(b) \ local[b] : ItemOf[m] \in HiddenItems

Covered(b) ==
  /\ local[b] \subseteq Mine(b)
  /\ \A c \in ControlsOf(b) : sync[c].todo \subseteq Mine(b)
  /\ \A c \in ControlsOf(b) : sync[c].step = "done" => Agrees(b)

Uploading(b) ==
  \A c \in ControlsOf(b) : sync[c].step # "closed" =>
    /\ sync[c].step = "migrate"
    /\ sync[c].base = local[b]
    /\ local[b] \subseteq Mine(b) \cup sync[c].todo
    /\ sync[c].todo \subseteq local[b]
    /\ ~Signed(b)

SignedOn(b) ==
  /\ Signed(b)
  /\ \A c \in ControlsOf(b) : sync[c].step # "migrate" /\ sync[c].step # "done"

InOrder(b) == Covered(b) \/ Uploading(b) \/ SignedOn(b)

Tidy(b) ==
  orderly[b] => /\ OneAtATime(b)
                /\ Own(b) => Current(b) /\ (Pending(b) = {} => InOrder(b))

TidyInv ==
  /\ TypeOK /\ DOMAIN orderly = Browsers
  /\ SessionsFit /\ PutsHeld
  /\ \A b \in Browsers : Tidy(b)

LEMMA PutTyped ==
  ASSUME TypeOK, NEW i \in DOMAIN puts
  PROVE  /\ puts[i] \in Put
         /\ puts[i].control \in Controls
         /\ BrowserOf[puts[i].control] \in Browsers
<1>1. puts[i] \in Put
  BY DEF TypeOK
<1>2. puts[i].control \in Controls
  BY <1>1 DEF Put
<1>3. QED
  BY <1>1, <1>2, PersonalSyncAssumption

\* A step of another browser.
Untouched(b) ==
  /\ session'[b] = session[b] /\ local'[b] = local[b] /\ marker'[b] = marker[b]
  /\ orderly'[b] = orderly[b]
  /\ \A c \in ControlsOf(b) : sync'[c] = sync[c]
  /\ Pending(b)' = Pending(b)
  /\ \A i \in Pending(b) : puts'[i] = puts[i]
  /\ Own(b) => account'[session[b]] = account[session[b]]

LEMMA UntouchedTidy ==
  ASSUME NEW b \in Browsers, Tidy(b), Untouched(b)
  PROVE  Tidy(b)'
<1> SUFFICES ASSUME orderly'[b]
             PROVE  /\ OneAtATime(b)'
                    /\ Own(b)' => Current(b)' /\ (Pending(b)' = {} => InOrder(b)')
  BY DEF Tidy
<1>1. OneAtATime(b) /\ (Own(b) => Current(b) /\ (Pending(b) = {} => InOrder(b)))
  BY DEF Tidy, Untouched
<1>2. Own(b)' <=> Own(b)
  BY DEF Own, Untouched
<1>3. Syncing(b)' <=> Syncing(b)
  BY DEF Syncing, Untouched
<1>4. OneAtATime(b)'
  BY <1>1, <1>3 DEF OneAtATime, Untouched
<1>5. ASSUME Own(b) PROVE Mine(b)' = Mine(b)
  BY <1>5 DEF Mine, Untouched
<1>6. ASSUME Own(b) PROVE Current(b)'
  <2>1. Current(b) /\ Mine(b)' = Mine(b)
    BY <1>1, <1>5, <1>6
  <2>2. QED
    BY <2>1 DEF Current, Loaded, Untouched
<1>7. Signed(b)' <=> Signed(b)
  BY DEF Signed, Untouched
<1>8. ASSUME Own(b), Pending(b) = {} PROVE InOrder(b)'
  <2>1. InOrder(b) /\ Mine(b)' = Mine(b)
    BY <1>1, <1>5, <1>8
  <2>2. local'[b] = local[b] /\ \A c \in ControlsOf(b) : sync'[c] = sync[c]
    BY DEF Untouched
  <2>3. Covered(b) => Covered(b)'
    BY <2>1, <2>2 DEF Covered, Agrees
  <2>4. Uploading(b) => Uploading(b)'
    BY <1>7, <2>1, <2>2 DEF Uploading
  <2>5. SignedOn(b) => SignedOn(b)'
    BY <1>7, <2>2 DEF SignedOn
  <2>6. QED
    BY <2>1, <2>3, <2>4, <2>5 DEF InOrder
<1>9. Pending(b)' = Pending(b)
  BY DEF Untouched
<1>10. QED
  BY <1>2, <1>4, <1>6, <1>8, <1>9

\* An account that is used in b only is not the one of another browser's session.
LEMMA OwnAccounts ==
  ASSUME TidyInv, NEW b \in Browsers, NEW d \in Browsers, b # d, Own(b)
  PROVE  /\ session[b] # session[d]
         /\ \A i \in DOMAIN puts : BrowserOf[puts[i].control] = d => puts[i].user # session[b]
BY DEF TidyInv, SessionsFit, Own

\* A step of one control of another browser, which may add to its account.
LEMMA ElsewhereTidy ==
  ASSUME TidyInv, NEW c \in Controls, NEW b \in Browsers, b # BrowserOf[c],
         session' = session, puts' = puts,
         local'[b] = local[b], marker'[b] = marker[b], orderly'[b] = orderly[b],
         \A e \in Controls \ {c} : sync'[e] = sync[e],
         \A u \in Users \ {User(c)} : account'[u] = account[u]
  PROVE  Tidy(b)'
<1>1. Pending(b)' = Pending(b)
  BY DEF Pending
<1>2. \A e \in ControlsOf(b) : sync'[e] = sync[e]
  BY DEF ControlsOf
<1>3. ASSUME Own(b) PROVE account'[session[b]] = account[session[b]]
  <2>1. BrowserOf[c] \in Browsers /\ session[b] \in Users
    BY <1>3, PersonalSyncAssumption DEF Own, TidyInv, TypeOK
  <2>2. QED
    BY <1>3, <2>1, OwnAccounts DEF User
<1>4. Untouched(b)
  BY <1>1, <1>2, <1>3 DEF Untouched
<1>5. QED
  BY <1>4, UntouchedTidy DEF TidyInv

\* Nothing is under way in an orderly browser but one click, or syncs.
LEMMA SyncsAlone ==
  ASSUME TidyInv, NEW c \in Controls, orderly[BrowserOf[c]], sync[c].step # "closed", sync[c].step # "done"
  PROVE  Pending(BrowserOf[c]) = {}
<1>1. BrowserOf[c] \in Browsers /\ c \in ControlsOf(BrowserOf[c])
  BY PersonalSyncAssumption DEF ControlsOf
<1>2. Syncing(BrowserOf[c])
  BY <1>1 DEF Syncing
<1>3. QED
  BY <1>1, <1>2 DEF TidyInv, Tidy, OneAtATime

\* Syncs do not touch requests or sessions.
LEMMA ControlsHold ==
  ASSUME TidyInv, NEW c \in Controls, session' = session, puts' = puts,
         \A e \in Controls \ {c} : sync'[e] = sync[e],
         sync'[c].step = "closed" => \A i \in DOMAIN puts : puts[i].control = c => puts[i].step = "over"
  PROVE  SessionsFit' /\ PutsHeld'
<1>1. SessionsFit'
  BY DEF TidyInv, SessionsFit
<1>2. \A i \in DOMAIN puts : puts[i].control \in Controls
  BY PutTyped DEF TidyInv
<1>3. PutsHeld'
  BY <1>2 DEF TidyInv, PutsHeld
<1>4. QED
  BY <1>1, <1>3

LEMMA InitTidy == Init => TidyInv
<1> SUFFICES ASSUME Init PROVE TidyInv
  OBVIOUS
<1>1. TypeOK
  BY InitTypes
<1>2. SessionsFit /\ PutsHeld
  BY DEF Init, SessionsFit, PutsHeld
<1>3. ASSUME NEW b \in Browsers PROVE Tidy(b)
  <2>1. Pending(b) = {} /\ \A c \in ControlsOf(b) : sync[c].step = "closed"
    BY DEF Init, Pending, ControlsOf, Closed
  <2>2. OneAtATime(b) /\ Current(b) /\ Uploading(b)
    BY <2>1 DEF OneAtATime, Current, Loaded, Uploading
  <2>3. QED
    BY <2>2 DEF Tidy, InOrder
<1>4. DOMAIN orderly = Browsers
  BY DEF Init
<1>5. QED
  BY <1>1, <1>2, <1>3, <1>4 DEF TidyInv

LEMMA ChangeSessionTidy ==
  ASSUME TidyInv, TypeOK', NEW d \in Browsers, ChangeSession(d)
  PROVE  TidyInv'
<1>1. PICK u \in LoginsOf[d] \cup {NoUser} : session' = [session EXCEPT ![d] = u]
  BY DEF ChangeSession
<1>2. /\ local' = local /\ marker' = marker /\ sync' = sync /\ puts' = puts /\ account' = account
      /\ orderly' = [orderly EXCEPT ![d] = @ /\ ~(\E c \in ControlsOf(d) : sync[c].step # "closed")]
  BY DEF ChangeSession, Disorder
<1>3. session'[d] = u /\ \A b \in Browsers \ {d} : session'[b] = session[b]
  BY <1>1 DEF TidyInv, TypeOK
<1>4. SessionsFit' /\ PutsHeld'
  BY <1>2, <1>3 DEF TidyInv, SessionsFit, PutsHeld
<1>5. ASSUME NEW b \in Browsers, b # d PROVE Tidy(b)'
  <2>1. Pending(b)' = Pending(b)
    BY <1>2 DEF Pending
  <2>2. Untouched(b)
    BY <1>2, <1>3, <1>5, <2>1 DEF Untouched, TidyInv
  <2>3. QED
    BY <2>2, UntouchedTidy DEF TidyInv
<1>6. ASSUME orderly'[d]
      PROVE  OneAtATime(d)' /\ Current(d)' /\ InOrder(d)'
  <2>1. \A c \in ControlsOf(d) : sync[c].step = "closed"
    BY <1>2, <1>6 DEF TidyInv
  <2>2. \A i \in DOMAIN puts : puts[i].control \in Controls
    BY PutTyped DEF TidyInv
  <2>3. Pending(d) = {}
    BY <2>1, <2>2 DEF TidyInv, PutsHeld, Pending, ControlsOf
  <2>4. Pending(d)' = {} /\ \A c \in ControlsOf(d) : sync'[c].step = "closed"
    BY <1>2, <2>1, <2>3 DEF Pending
  <2>5. OneAtATime(d)' /\ Current(d)' /\ Uploading(d)'
    BY <2>4 DEF OneAtATime, Current, Loaded, Uploading
  <2>6. QED
    BY <2>5 DEF InOrder
<1>7. Tidy(d)'
  BY <1>6 DEF Tidy
<1>8. DOMAIN orderly' = Browsers
  BY <1>2 DEF TidyInv
<1>9. QED
  BY <1>4, <1>5, <1>7, <1>8 DEF TidyInv

\* A step of a control while its browser has no request of a click under way.
KeepsOrder(b) == Own(b) /\ Loaded(b) /\ InOrder(b) => Loaded(b)' /\ InOrder(b)'

LEMMA QuietTidy ==
  ASSUME TidyInv, NEW b \in Browsers, session' = session, puts' = puts,
         orderly'[b] => orderly[b] /\ Pending(b) = {},
         KeepsOrder(b)
  PROVE  Tidy(b)'
<1> SUFFICES ASSUME orderly'[b]
             PROVE  OneAtATime(b)' /\ (Own(b)' => Current(b)' /\ InOrder(b)')
  BY DEF Tidy
<1>1. Pending(b) = {} /\ (Own(b) => Loaded(b) /\ InOrder(b))
  BY DEF TidyInv, Tidy, Current
<1>2. Pending(b)' = {} /\ (Own(b)' <=> Own(b))
  BY <1>1 DEF Pending, Own
<1>3. OneAtATime(b)'
  BY <1>2 DEF OneAtATime
<1>4. ASSUME Own(b) PROVE Current(b)' /\ InOrder(b)'
  BY <1>1, <1>2, <1>4 DEF KeepsOrder, Current
<1>5. QED
  BY <1>2, <1>3, <1>4

LEMMA ControlTidy ==
  ASSUME TidyInv, TypeOK', NEW c \in Controls, session' = session, puts' = puts,
         \A e \in Controls \ {c} : sync'[e] = sync[e],
         sync'[c].step = "closed" => \A i \in DOMAIN puts : puts[i].control = c => puts[i].step = "over",
         \A b \in Browsers \ {BrowserOf[c]} : local'[b] = local[b] /\ marker'[b] = marker[b],
         \A b \in Browsers \ {BrowserOf[c]} : orderly'[b] = orderly[b],
         \A u \in Users \ {User(c)} : account'[u] = account[u],
         DOMAIN orderly' = Browsers,
         Tidy(BrowserOf[c])'
  PROVE  TidyInv'
<1>1. SessionsFit' /\ PutsHeld'
  BY ControlsHold
<1>2. ASSUME NEW b \in Browsers, b # BrowserOf[c] PROVE Tidy(b)'
  BY <1>2, ElsewhereTidy
<1>3. QED
  BY <1>1, <1>2 DEF TidyInv

LEMMA AloneTidy ==
  ASSUME TidyInv, TypeOK', NEW c \in Controls, session' = session, puts' = puts,
         \A e \in Controls \ {c} : sync'[e] = sync[e],
         sync'[c].step = "closed" => \A i \in DOMAIN puts : puts[i].control = c => puts[i].step = "over",
         \A b \in Browsers \ {BrowserOf[c]} : local'[b] = local[b] /\ marker'[b] = marker[b],
         \A b \in Browsers \ {BrowserOf[c]} : orderly'[b] = orderly[b],
         \A u \in Users \ {User(c)} : account'[u] = account[u],
         DOMAIN orderly' = Browsers,
         orderly'[BrowserOf[c]] => orderly[BrowserOf[c]] /\ Pending(BrowserOf[c]) = {},
         KeepsOrder(BrowserOf[c])
  PROVE  TidyInv'
<1>1. BrowserOf[c] \in Browsers
  BY PersonalSyncAssumption
<1>2. Tidy(BrowserOf[c])'
  BY <1>1, QuietTidy
<1>3. QED
  BY <1>2, ControlTidy

\* The other controls of a browser.
LEMMA Others ==
  ASSUME NEW c \in Controls
  PROVE  /\ c \in ControlsOf(BrowserOf[c])
         /\ \A e \in ControlsOf(BrowserOf[c]) : e \in Controls
BY DEF ControlsOf

\* A control that neither uploads, waits for items nor is done.
LEMMA NothingTodo ==
  ASSUME TypeOK, NEW c \in Controls, sync[c].step # "migrate"
  PROVE  sync[c].todo = {}
BY DEF TypeOK

LEMMA OpenTidy ==
  ASSUME TidyInv, TypeOK', NEW c \in Controls, Open(c)
  PROVE  TidyInv'
<1> DEFINE d == BrowserOf[c]
           loading == [Closed EXCEPT !.step = "load", !.base = local[d]]
           migrating == [Closed EXCEPT !.step = "migrate", !.base = local[d], !.todo = local[d]]
<1>1. /\ session' = session /\ puts' = puts /\ local' = local /\ account' = account
      /\ orderly' = [orderly EXCEPT ![d] = @ /\ ~Clicking(d)]
      /\ sync[c].step = "closed"
  BY DEF Open, Disorder
<1>2. d \in Browsers /\ c \in ControlsOf(d) /\ \A e \in ControlsOf(d) : e \in Controls
  BY Others, PersonalSyncAssumption
<1>3. orderly'[d] => orderly[d] /\ Pending(d) = {}
  BY <1>1, <1>2 DEF TidyInv, Clicking, Pending
<1>4. /\ loading.step = "load" /\ loading.base = local[d] /\ loading.todo = {}
      /\ migrating.step = "migrate" /\ migrating.base = local[d] /\ migrating.todo = local[d]
  BY DEF Closed
<1>5. TypeOK
  BY DEF TidyInv
<1> HIDE DEF loading, migrating
<1>6. \/ /\ Signed(d) \/ local[d] = {}
         /\ marker' = [marker EXCEPT ![d] = {local[d]}]
         /\ sync' = [sync EXCEPT ![c] = loading]
      \/ /\ ~Signed(d) /\ local[d] # {}
         /\ sync' = [sync EXCEPT ![c] = migrating]
         /\ marker' = marker
  BY DEF Open, loading, migrating
<1>7. /\ \A e \in Controls \ {c} : sync'[e] = sync[e]
      /\ sync'[c] = loading \/ sync'[c] = migrating
      /\ \A b \in Browsers \ {d} : marker'[b] = marker[b]
  BY <1>5, <1>6 DEF TypeOK
<1>8. ASSUME Own(d), Loaded(d), InOrder(d) PROVE Loaded(d)' /\ InOrder(d)'
  <2>1. Mine(d)' = Mine(d)
    BY <1>1 DEF Mine
  <2>2. Loaded(d)'
    BY <1>2, <1>4, <1>7, <1>8, <2>1 DEF Loaded, ControlsOf
  <2>3. CASE Covered(d)
    <3>1. Covered(d)'
      BY <1>1, <1>2, <1>4, <1>7, <2>1, <2>3 DEF Covered, Agrees, ControlsOf
    <3>2. QED
      BY <2>2, <3>1 DEF InOrder
  <2>4. CASE (Uploading(d) \/ SignedOn(d)) /\ (Signed(d) \/ local[d] = {})
    <3>1. sync'[c] = loading /\ marker'[d] = {local[d]}
      BY <1>2, <1>5, <1>6, <2>4 DEF TypeOK
    <3>2. Signed(d)'
      BY <1>1, <3>1 DEF Signed
    <3>3. \A e \in ControlsOf(d) : sync[e].step # "migrate" /\ sync[e].step # "done"
      BY <1>2, <1>5, <2>4 DEF Uploading, SignedOn, TypeOK
    <3>4. SignedOn(d)'
      BY <1>2, <1>4, <1>7, <3>1, <3>2, <3>3 DEF SignedOn, ControlsOf
    <3>5. QED
      BY <2>2, <3>4 DEF InOrder
  <2>5. CASE Uploading(d) /\ ~(Signed(d) \/ local[d] = {})
    <3>1. sync'[c] = migrating /\ marker' = marker
      BY <1>5, <1>6, <2>5 DEF TypeOK
    <3>2. ~Signed(d)'
      BY <1>1, <2>5, <3>1 DEF Signed
    <3>3. Uploading(d)'
      BY <1>1, <1>2, <1>4, <1>7, <2>1, <2>5, <3>1, <3>2 DEF Uploading, ControlsOf
    <3>4. QED
      BY <2>2, <3>3 DEF InOrder
  <2>6. QED
    BY <1>8, <2>3, <2>4, <2>5 DEF InOrder, SignedOn
<1>9. KeepsOrder(d)
  BY <1>8 DEF KeepsOrder
<1>10. sync'[c].step # "closed"
  BY <1>4, <1>7
<1>11. /\ \A b \in Browsers \ {d} : orderly'[b] = orderly[b]
       /\ DOMAIN orderly' = Browsers
  BY <1>1 DEF TidyInv
<1>12. QED
  BY <1>1, <1>3, <1>7, <1>9, <1>10, <1>11, AloneTidy

\* Steps of a control that change no storage, account or marker.
LEMMA UnmountTidy ==
  ASSUME TidyInv, TypeOK', NEW c \in Controls, Unmount(c)
  PROVE  TidyInv'
<1> DEFINE d == BrowserOf[c]
<1>1. /\ session' = session /\ puts' = puts /\ local' = local /\ account' = account
      /\ marker' = marker /\ orderly' = orderly
      /\ sync[c].step = "done" /\ sync' = [sync EXCEPT ![c] = Closed]
      /\ \A i \in DOMAIN puts : puts[i].control = c => puts[i].step = "over"
  BY DEF Unmount, history
<1>2. d \in Browsers /\ c \in ControlsOf(d) /\ \A e \in ControlsOf(d) : e \in Controls
  BY Others, PersonalSyncAssumption
<1>3. /\ \A e \in Controls \ {c} : sync'[e] = sync[e]
      /\ sync'[c].step = "closed" /\ sync'[c].todo = {}
  BY <1>1 DEF TidyInv, TypeOK, Closed
<1>4. ASSUME Own(d), Pending(d) = {}, Loaded(d), InOrder(d) PROVE Loaded(d)' /\ InOrder(d)'
  <2>1. Mine(d)' = Mine(d)
    BY <1>1 DEF Mine
  <2>2. Loaded(d)'
    BY <1>2, <1>3, <1>4, <2>1 DEF Loaded, ControlsOf
  <2>3. Covered(d)
    BY <1>1, <1>2, <1>4 DEF InOrder, Uploading, SignedOn
  <2>4. Covered(d)'
    BY <1>1, <1>2, <1>3, <2>1, <2>3 DEF Covered, Agrees, ControlsOf
  <2>5. QED
    BY <2>2, <2>4 DEF InOrder
<1>5. ASSUME orderly[d], OneAtATime(d) PROVE OneAtATime(d)'
  <2>1. Pending(d)' = Pending(d)
    BY <1>1 DEF Pending
  <2>2. ~Syncing(d) => ~Syncing(d)'
    BY <1>2, <1>3 DEF Syncing, ControlsOf
  <2>3. QED
    BY <1>1, <1>5, <2>1, <2>2 DEF OneAtATime
<1>6. ASSUME Own(d), Current(d) PROVE Current(d)'
  <2>1. Mine(d)' = Mine(d) /\ Pending(d)' = Pending(d)
    BY <1>1 DEF Mine, Pending
  <2>2. Loaded(d)'
    BY <1>2, <1>3, <1>6, <2>1 DEF Current, Loaded, ControlsOf
  <2>3. QED
    BY <1>1, <1>6, <2>1, <2>2 DEF Current
<1>7. Pending(d)' = Pending(d) /\ (Own(d)' <=> Own(d))
  BY <1>1 DEF Pending, Own
<1>8. Tidy(d)'
  BY <1>1, <1>2, <1>4, <1>5, <1>6, <1>7 DEF Tidy, TidyInv, Current
<1>9. QED
  BY <1>1, <1>3, <1>8, ControlTidy DEF TidyInv

LEMMA MigrateRefusedTidy ==
  ASSUME TidyInv, TypeOK', NEW c \in Controls, MigrateRefused(c)
  PROVE  TidyInv'
<1> DEFINE d == BrowserOf[c]
<1>1. /\ session' = session /\ puts' = puts /\ local' = local /\ account' = account
      /\ marker' = marker /\ orderly' = orderly
      /\ sync[c].step = "migrate" /\ User(c) = NoUser
      /\ sync' = [sync EXCEPT ![c].todo = {}, ![c].step = "load"]
  BY DEF MigrateRefused, history
<1>2. /\ \A e \in Controls \ {c} : sync'[e] = sync[e]
      /\ sync'[c].step = "load"
  BY <1>1 DEF TidyInv, TypeOK, Sync
<1>3. KeepsOrder(d)
  BY <1>1 DEF KeepsOrder, Own, User
<1>4. orderly[d] => Pending(d) = {}
  BY <1>1, SyncsAlone
<1>5. QED
  BY <1>1, <1>2, <1>3, <1>4, AloneTidy DEF TidyInv

LEMMA MigrateTidy ==
  ASSUME TidyInv, TypeOK', NEW c \in Controls, Migrate(c)
  PROVE  TidyInv'
<1> DEFINE d == BrowserOf[c]
           last == [sync EXCEPT ![c].todo = {}, ![c].step = "load"]
<1>1. /\ session' = session /\ puts' = puts /\ local' = local /\ orderly' = orderly
      /\ sync[c].step = "migrate" /\ User(c) # NoUser
  BY DEF Migrate
<1>2. PICK m \in sync[c].todo :
        /\ Uploaded(c, m)
        /\ \/ /\ sync[c].todo # {m}
              /\ sync' = [sync EXCEPT ![c].todo = @ \ {m}]
              /\ marker' = marker
           \/ /\ sync[c].todo = {m}
              /\ sync' = last
              /\ marker' = [marker EXCEPT ![d] = {sync[c].base}]
  BY DEF Migrate
<1> HIDE DEF last
<1>3. d \in Browsers /\ c \in ControlsOf(d) /\ \A e \in ControlsOf(d) : e \in Controls
  BY Others, PersonalSyncAssumption
<1>4. TypeOK /\ User(c) \in Users /\ sync[c].todo \subseteq Marks
  BY <1>1, UserType DEF TidyInv, TypeOK, Sync
<1>5. account' = [account EXCEPT ![session[d]] = @ \cup {m}]
  BY <1>2 DEF Uploaded, SetItem, MarksOf, User
<1>6. Mine(d)' = Mine(d) \cup {m} /\ \A u \in Users \ {User(c)} : account'[u] = account[u]
  BY <1>1, <1>4, <1>5 DEF Mine, User, TypeOK
<1>7. \A e \in Controls \ {c} : sync'[e] = sync[e]
  BY <1>2, <1>4 DEF TypeOK, last
<1>8. /\ sync'[c].todo = sync[c].todo \ {m} /\ sync'[c].base = sync[c].base
      /\ sync'[c].step \in {"migrate", "load"}
      /\ sync'[c].step = "migrate" => marker' = marker
      /\ sync'[c].step = "load" => sync[c].todo = {m}
  <2>1. CASE sync' = [sync EXCEPT ![c].todo = @ \ {m}] /\ marker' = marker
    BY <1>1, <1>4, <2>1 DEF TypeOK, Sync
  <2>2. CASE sync' = last /\ sync[c].todo = {m}
    BY <1>1, <1>4, <2>2 DEF TypeOK, Sync, last
  <2>3. QED
    BY <1>2, <2>1, <2>2
<1>9. \A b \in Browsers \ {d} : marker'[b] = marker[b]
  BY <1>2, <1>4 DEF TypeOK
<1>10. ASSUME Own(d), Loaded(d), InOrder(d) PROVE Loaded(d)' /\ InOrder(d)'
  <2>1. CASE Covered(d)
    <3>1. Mine(d)' = Mine(d)
      BY <1>2, <1>3, <1>6, <2>1 DEF Covered
    <3>2. Loaded(d)'
      BY <1>3, <1>7, <1>8, <1>10, <3>1 DEF Loaded, ControlsOf
    <3>3. Covered(d)'
      BY <1>1, <1>3, <1>7, <1>8, <2>1, <3>1 DEF Covered, Agrees, ControlsOf
    <3>4. QED
      BY <3>2, <3>3 DEF InOrder
  <2>2. CASE Uploading(d)
    <3>1. Loaded(d)'
      BY <1>3, <1>7, <1>8, <2>2 DEF Loaded, Uploading, ControlsOf
    <3>2. CASE sync'[c].step = "migrate"
      <4>1. Signed(d)' <=> Signed(d)
        BY <1>1, <1>8, <3>2 DEF Signed
      <4>2. Uploading(d)'
        BY <1>1, <1>3, <1>6, <1>7, <1>8, <2>2, <3>2, <4>1 DEF Uploading, ControlsOf
      <4>3. QED
        BY <3>1, <4>2 DEF InOrder
    <3>3. CASE sync'[c].step = "load"
      <4>1. local[d] \subseteq Mine(d)'
        BY <1>1, <1>3, <1>6, <1>8, <2>2, <3>3 DEF Uploading
      <4>2. \A e \in ControlsOf(d) : sync'[e].todo \subseteq local[d]
        <5>1. SUFFICES ASSUME NEW e \in ControlsOf(d) PROVE sync'[e].todo \subseteq local[d]
          OBVIOUS
        <5>2. sync'[e].todo \subseteq sync[e].todo
          BY <1>3, <1>7, <1>8
        <5>3. sync[e].step # "migrate" => sync[e].todo = {}
          BY <1>3, <1>4 DEF TypeOK
        <5>4. QED
          BY <2>2, <5>2, <5>3 DEF Uploading
      <4>3. \A e \in ControlsOf(d) : sync'[e].step # "done"
        BY <1>3, <1>7, <1>8, <2>2 DEF Uploading
      <4>4. Covered(d)'
        BY <1>1, <4>1, <4>2, <4>3 DEF Covered, ControlsOf
      <4>5. QED
        BY <3>1, <4>4 DEF InOrder
    <3>4. QED
      BY <1>8, <3>2, <3>3
  <2>3. QED
    BY <1>1, <1>3, <1>10, <2>1, <2>2 DEF InOrder, SignedOn
<1>11. KeepsOrder(d)
  BY <1>10 DEF KeepsOrder
<1>12. orderly[d] => Pending(d) = {}
  BY <1>1, SyncsAlone
<1>13. QED
  BY <1>1, <1>6, <1>7, <1>8, <1>9, <1>11, <1>12, AloneTidy DEF TidyInv

LEMMA LoadTidy ==
  ASSUME TidyInv, TypeOK', NEW c \in Controls, Load(c)
  PROVE  TidyInv'
<1> DEFINE d == BrowserOf[c]
<1>1. /\ session' = session /\ puts' = puts /\ local' = local /\ account' = account
      /\ marker' = marker /\ orderly' = orderly
      /\ sync[c].step = "load"
      /\ sync' = [sync EXCEPT ![c].step = "hydrate", ![c].got = Mine(d)]
  BY DEF Load, history, MarksOf, Mine, User
<1>2. d \in Browsers /\ c \in ControlsOf(d) /\ \A e \in ControlsOf(d) : e \in Controls
  BY Others, PersonalSyncAssumption
<1>3. /\ \A e \in Controls \ {c} : sync'[e] = sync[e]
      /\ sync'[c].step = "hydrate" /\ sync'[c].got = Mine(d) /\ sync'[c].todo = sync[c].todo
  BY <1>1 DEF TidyInv, TypeOK, Sync
<1>4. ASSUME Own(d), Loaded(d), InOrder(d) PROVE Loaded(d)' /\ InOrder(d)'
  <2>1. Mine(d)' = Mine(d)
    BY <1>1 DEF Mine
  <2>2. Loaded(d)'
    BY <1>2, <1>3, <1>4, <2>1 DEF Loaded, ControlsOf
  <2>3. CASE Covered(d)
    <3>1. Covered(d)'
      BY <1>1, <1>2, <1>3, <2>1, <2>3 DEF Covered, Agrees, ControlsOf
    <3>2. QED
      BY <2>2, <3>1 DEF InOrder
  <2>4. CASE SignedOn(d)
    <3>1. Signed(d)'
      BY <1>1, <2>4 DEF SignedOn, Signed
    <3>2. SignedOn(d)'
      BY <1>2, <1>3, <2>4, <3>1 DEF SignedOn, ControlsOf
    <3>3. QED
      BY <2>2, <3>2 DEF InOrder
  <2>5. QED
    BY <1>1, <1>2, <1>4, <2>3, <2>4 DEF InOrder, Uploading
<1>5. KeepsOrder(d)
  BY <1>4 DEF KeepsOrder
<1>6. orderly[d] => Pending(d) = {}
  BY <1>1, SyncsAlone
<1>7. QED
  BY <1>1, <1>3, <1>5, <1>6, AloneTidy DEF TidyInv

LEMMA LoadRefusedTidy ==
  ASSUME TidyInv, TypeOK', NEW c \in Controls, LoadRefused(c)
  PROVE  TidyInv'
<1> DEFINE d == BrowserOf[c]
<1>1. /\ session' = session /\ puts' = puts /\ local' = local /\ account' = account
      /\ marker' = marker /\ orderly' = orderly
      /\ sync[c].step = "load" /\ User(c) = NoUser
      /\ sync' = [sync EXCEPT ![c] = [Closed EXCEPT !.step = "done"]]
  BY DEF LoadRefused, history
<1>2. /\ \A e \in Controls \ {c} : sync'[e] = sync[e]
      /\ sync'[c].step = "done"
  BY <1>1 DEF TidyInv, TypeOK, Closed
<1>3. KeepsOrder(d)
  BY <1>1 DEF KeepsOrder, Own, User
<1>4. orderly[d] => Pending(d) = {}
  BY <1>1, SyncsAlone
<1>5. QED
  BY <1>1, <1>2, <1>3, <1>4, AloneTidy DEF TidyInv

\* Only the marks of items without a detail page are lost.
LEMMA HydrateHides ==
  ASSUME NEW got, NEW known, NEW m \in got, m \notin Hydrate(got, known)
  PROVE  ItemOf[m] \in HiddenItems
BY DEF Hydrate, Fetched, Items

LEMMA FinishTidy ==
  ASSUME TidyInv, TypeOK', NEW c \in Controls, Finish(c)
  PROVE  TidyInv'
<1> DEFINE d == BrowserOf[c]
           known == Known(c, sync[c].base)
<1> HIDE DEF known
<1>1. /\ session' = session /\ puts' = puts /\ account' = account
      /\ local' = [local EXCEPT ![d] = Hydrate(sync[c].got, known)]
      /\ marker' = marker /\ orderly' = orderly
      /\ sync[c].step = "hydrate"
      /\ sync' = [sync EXCEPT ![c] = [Closed EXCEPT !.step = "done"]]
  BY DEF Finish, history, known
<1>2. d \in Browsers /\ c \in ControlsOf(d) /\ \A e \in ControlsOf(d) : e \in Controls
  BY Others, PersonalSyncAssumption
<1>3. /\ \A e \in Controls \ {c} : sync'[e] = sync[e]
      /\ sync'[c].step = "done" /\ sync'[c].todo = {}
  BY <1>1 DEF TidyInv, TypeOK, Closed
<1>4. /\ local'[d] = Hydrate(sync[c].got, known)
      /\ \A b \in Browsers \ {d} : local'[b] = local[b]
  BY <1>1, <1>2 DEF TidyInv, TypeOK
<1>5. ASSUME Own(d), Loaded(d), InOrder(d) PROVE Loaded(d)' /\ InOrder(d)'
  <2>1. Mine(d)' = Mine(d)
    BY <1>1 DEF Mine
  <2>2. Loaded(d)'
    BY <1>2, <1>3, <1>5, <2>1 DEF Loaded, ControlsOf
  <2>3. sync[c].got = Mine(d)
    BY <1>1, <1>2, <1>5 DEF Loaded
  <2>4. Agrees(d)'
    BY <1>4, <2>1, <2>3, HydrateLoses, HydrateHides DEF Agrees
  <2>5. \A e \in ControlsOf(d) : sync[e].todo \subseteq Mine(d)
    BY <1>1, <1>2, <1>5, NothingTodo DEF InOrder, Covered, Uploading, SignedOn, TidyInv
  <2>6. \A e \in ControlsOf(d) : sync'[e].todo \subseteq Mine(d)'
    BY <1>2, <1>3, <2>1, <2>5
  <2>7. Covered(d)'
    BY <2>4, <2>6 DEF Covered, Agrees, ControlsOf
  <2>8. QED
    BY <2>2, <2>7 DEF InOrder
<1>6. KeepsOrder(d)
  BY <1>5 DEF KeepsOrder
<1>7. orderly[d] => Pending(d) = {}
  BY <1>1, SyncsAlone
<1>8. QED
  BY <1>1, <1>3, <1>4, <1>6, <1>7, AloneTidy DEF TidyInv

\* After a lost answer nothing is promised to this reader.
LEMMA SyncFailsTidy ==
  ASSUME TidyInv, TypeOK', NEW c \in Controls, SyncFails(c)
  PROVE  TidyInv'
<1> DEFINE d == BrowserOf[c]
<1>1. /\ session' = session /\ puts' = puts /\ local' = local
      /\ marker' = marker /\ orderly' = [orderly EXCEPT ![d] = @ /\ ~TRUE]
      /\ sync' = [sync EXCEPT ![c] = [Closed EXCEPT !.step = "done"]]
      /\ \/ account' = account
         \/ User(c) # NoUser /\ \E m \in sync[c].todo : Uploaded(c, m)
  BY DEF SyncFails, Disorder
<1>2. /\ \A e \in Controls \ {c} : sync'[e] = sync[e]
      /\ sync'[c].step = "done"
  BY <1>1 DEF TidyInv, TypeOK, Closed
<1>3. \A u \in Users \ {User(c)} : account'[u] = account[u]
  BY <1>1 DEF TidyInv, TypeOK, Uploaded
<1>4. /\ ~orderly'[d] /\ DOMAIN orderly' = Browsers
      /\ \A b \in Browsers \ {d} : orderly'[b] = orderly[b]
  BY <1>1, PersonalSyncAssumption DEF TidyInv
<1>5. Tidy(d)'
  BY <1>4 DEF Tidy
<1>6. QED
  BY <1>1, <1>2, <1>3, <1>4, <1>5, ControlTidy

\* A click of an orderly reader is the only request of its browser.
LEMMA UpdateTidy ==
  ASSUME TidyInv, TypeOK', NEW c \in Controls, NEW m, NEW next, Update(c, m, next)
  PROVE  TidyInv'
<1> DEFINE d == BrowserOf[c]
           n == Len(puts) + 1
           put == [control |-> c, user |-> session[d], mark |-> m, on |-> m \in next, base |-> next,
                   step |-> "sent", got |-> {}]
<1>1. put.control = c /\ put.user = session[d] /\ put.step = "sent"
  OBVIOUS
<1>2. puts' = Append(puts, put)
  BY DEF Update
<1> HIDE DEF put
<1>3. /\ session' = session /\ sync' = sync /\ marker' = marker /\ account' = account
      /\ local' = [local EXCEPT ![d] = next]
      /\ orderly' = [orderly EXCEPT ![d] = @ /\ ~(Clicking(d) \/ Syncing(d))]
      /\ sync[c].step # "closed"
  BY DEF Update, Disorder
<1>4. d \in Browsers /\ c \in ControlsOf(d)
  BY Others, PersonalSyncAssumption
<1>5. /\ DOMAIN puts' = DOMAIN puts \cup {n} /\ n \notin DOMAIN puts
      /\ puts'[n] = put /\ \A i \in DOMAIN puts : puts'[i] = puts[i]
  <2>1. puts \in Seq(Put) /\ puts' \in Seq(Put)
    BY DEF TidyInv, TypeOK
  <2>2. Len(puts) \in Nat /\ DOMAIN puts = 1..Len(puts) /\ DOMAIN puts' = 1..Len(puts')
    BY <2>1
  <2>3. Len(puts') = Len(puts) + 1 /\ puts'[n] = put /\ \A i \in 1..Len(puts) : puts'[i] = puts[i]
    BY <1>2, <2>1
  <2>4. QED
    BY <2>2, <2>3
<1>6. SessionsFit'
  BY <1>1, <1>3, <1>4, <1>5 DEF TidyInv, SessionsFit
<1>7. PutsHeld'
  BY <1>1, <1>3, <1>5 DEF TidyInv, PutsHeld
<1>8. /\ DOMAIN orderly' = Browsers
      /\ \A b \in Browsers \ {d} : orderly'[b] = orderly[b] /\ local'[b] = local[b]
  BY <1>3 DEF TidyInv, TypeOK
<1>9. ASSUME NEW b \in Browsers, b # d PROVE Tidy(b)'
  <2>1. Pending(b)' = Pending(b)
    BY <1>1, <1>5, <1>9 DEF Pending
  <2>2. Untouched(b)
    BY <1>3, <1>5, <1>8, <1>9, <2>1 DEF Untouched, Pending
  <2>3. QED
    BY <2>2, UntouchedTidy DEF TidyInv
<1>10. ASSUME orderly'[d] PROVE OneAtATime(d)' /\ Pending(d)' # {} /\ (Own(d)' => Current(d)')
  <2>1. orderly[d] /\ ~Clicking(d) /\ ~Syncing(d)
    BY <1>3, <1>4, <1>10 DEF TidyInv
  <2>2. Pending(d)' = {n}
    BY <1>1, <1>5, <2>1 DEF Pending, Clicking
  <2>3. ~Syncing(d)'
    BY <1>3, <2>1 DEF Syncing
  <2>4. OneAtATime(d)'
    BY <1>1, <1>3, <1>5, <2>2, <2>3 DEF OneAtATime
  <2>5. Loaded(d)'
    BY <2>3 DEF Syncing, Loaded
  <2>6. Current(d)'
    BY <1>1, <1>5, <2>2, <2>5 DEF Current
  <2>7. QED
    BY <2>2, <2>4, <2>6
<1>11. Tidy(d)'
  BY <1>10 DEF Tidy
<1>12. QED
  BY <1>6, <1>7, <1>8, <1>9, <1>11 DEF TidyInv

-----------------------------------------------------------------------------
\* Answers to clicks.

\* A step of one request, which may change the account of its user and the
\* storage of its browser.
LEMMA PutTidy ==
  ASSUME TidyInv, TypeOK', NEW i \in DOMAIN puts, NEW d, d = BrowserOf[puts[i].control], puts[i].step # "over",
         session' = session, marker' = marker, sync' = sync, DOMAIN puts' = DOMAIN puts,
         \A j \in DOMAIN puts \ {i} : puts'[j] = puts[j],
         puts'[i].control = puts[i].control, puts'[i].user = puts[i].user,
         \A b \in Browsers \ {d} :
           local'[b] = local[b] /\ orderly'[b] = orderly[b],
         \A u \in Users \ {puts[i].user} : account'[u] = account[u],
         DOMAIN orderly' = Browsers,
         Tidy(d)'
  PROVE  TidyInv'
<1>1. SessionsFit'
  BY DEF TidyInv, SessionsFit
<1>2. PutsHeld'
  BY DEF TidyInv, PutsHeld
<1>3. ASSUME NEW b \in Browsers, b # d PROVE Tidy(b)'
  <2>1. Pending(b)' = Pending(b) /\ \A j \in Pending(b) : puts'[j] = puts[j]
    BY <1>3 DEF Pending
  <2>2. ASSUME Own(b) PROVE account'[session[b]] = account[session[b]]
    <3>1. d \in Browsers /\ session[b] \in Users
      BY <2>2, PutTyped DEF Own, TidyInv, TypeOK
    <3>2. puts[i].user # session[b]
      BY <1>3, <2>2, <3>1, OwnAccounts
    <3>3. QED
      BY <3>1, <3>2
  <2>3. Untouched(b)
    BY <1>3, <2>1, <2>2 DEF Untouched
  <2>4. QED
    BY <2>3, UntouchedTidy DEF TidyInv
<1>4. QED
  BY <1>1, <1>2, <1>3 DEF TidyInv

\* What an orderly browser's only request leaves when it is over.
LEMMA OnlyRequest ==
  ASSUME TidyInv, NEW i \in DOMAIN puts, NEW d, d = BrowserOf[puts[i].control], puts[i].step # "over", orderly[d]
  PROVE  /\ Pending(d) = {i}
         /\ puts[i].user = session[d]
         /\ ~Syncing(d)
<1>1. d \in Browsers /\ i \in Pending(d)
  BY PutTyped DEF TidyInv, Pending
<1>2. OneAtATime(d)
  BY <1>1 DEF TidyInv, Tidy
<1>3. QED
  BY <1>1, <1>2 DEF OneAtATime

LEMMA RequestOver ==
  ASSUME TidyInv, NEW i \in DOMAIN puts, NEW d, d = BrowserOf[puts[i].control], puts[i].step # "over", orderly[d],
         DOMAIN puts' = DOMAIN puts, \A j \in DOMAIN puts \ {i} : puts'[j] = puts[j],
         puts'[i].step = "over"
  PROVE  Pending(d)' = {} /\ OneAtATime(d)'
<1>1. d \in Browsers /\ Pending(d) = {i}
  BY PutTyped, OnlyRequest DEF TidyInv
<1>2. \A j \in DOMAIN puts' : ~(BrowserOf[puts'[j].control] = d /\ puts'[j].step # "over")
  BY <1>1 DEF Pending
<1>3. Pending(d)' = {}
  BY <1>2 DEF Pending
<1>4. OneAtATime(d)'
  BY <1>3 DEF OneAtATime
<1>5. QED
  BY <1>3, <1>4

LEMMA RefusePutTidy ==
  ASSUME TidyInv, TypeOK', NEW i \in DOMAIN puts, RefusePut(i)
  PROVE  TidyInv'
<1> SUFFICES ASSUME NEW d, d = BrowserOf[puts[i].control] PROVE TidyInv'
  OBVIOUS
<1>1. /\ session' = session /\ marker' = marker /\ sync' = sync /\ local' = local
      /\ account' = account /\ orderly' = orderly
      /\ puts[i].step = "sent" /\ (puts[i].user = NoUser \/ puts[i].user # User(puts[i].control))
      /\ puts' = [puts EXCEPT ![i].step = "over", ![i].base = {}]
  BY DEF RefusePut, history
<1>2. puts[i] \in Put /\ d \in Browsers
  BY PutTyped DEF TidyInv
<1>3. /\ DOMAIN puts' = DOMAIN puts /\ \A j \in DOMAIN puts \ {i} : puts'[j] = puts[j]
      /\ puts'[i].control = puts[i].control /\ puts'[i].user = puts[i].user /\ puts'[i].step = "over"
  BY <1>1, <1>2 DEF Put
<1>4. ASSUME orderly'[d] PROVE OneAtATime(d)' /\ ~Own(d)'
  <2>1. puts[i].user = session[d]
    BY <1>1, <1>4, OnlyRequest
  <2>2. session[d] = NoUser
    BY <1>1, <2>1 DEF User
  <2>3. QED
    BY <1>1, <1>3, <1>4, <2>2, RequestOver DEF Own
<1>5. Tidy(d)'
  BY <1>4 DEF Tidy
<1>6. QED
  BY <1>1, <1>3, <1>5, PutTidy DEF TidyInv

LEMMA ServePutTidy ==
  ASSUME TidyInv, TypeOK', NEW i \in DOMAIN puts, ServePut(i)
  PROVE  TidyInv'
<1> SUFFICES ASSUME NEW d, d = BrowserOf[puts[i].control] PROVE TidyInv'
  OBVIOUS
<1> DEFINE marks == SetItem(puts[i].user, puts[i].mark, puts[i].on)
<1> HIDE DEF marks
<1>1. /\ session' = session /\ marker' = marker /\ sync' = sync /\ local' = local
      /\ orderly' = orderly /\ puts[i].step = "sent"
      /\ account' = [account EXCEPT ![puts[i].user] = marks]
      /\ puts' = [puts EXCEPT ![i].step = "served", ![i].got = marks]
  BY DEF ServePut, history, marks
<1>2. puts[i] \in Put /\ d \in Browsers
  BY PutTyped DEF TidyInv
<1>3. /\ DOMAIN puts' = DOMAIN puts /\ \A j \in DOMAIN puts \ {i} : puts'[j] = puts[j]
      /\ puts'[i].control = puts[i].control /\ puts'[i].user = puts[i].user
      /\ puts'[i].step = "served" /\ puts'[i].got = marks
  BY <1>1, <1>2 DEF Put
<1>4. Pending(d)' = Pending(d)
  BY <1>1, <1>3 DEF Pending
<1>5. \A u \in Users \ {puts[i].user} : account'[u] = account[u]
  BY <1>1 DEF TidyInv, TypeOK
<1>6. ASSUME orderly[d]
      PROVE  OneAtATime(d)' /\ Pending(d)' # {} /\ (Own(d)' => Current(d)')
  <2>1. Pending(d) = {i} /\ puts[i].user = session[d] /\ ~Syncing(d)
    BY <1>1, <1>6, OnlyRequest
  <2>2. ~Syncing(d)'
    BY <1>1, <2>1 DEF Syncing
  <2>3. OneAtATime(d)'
    BY <1>1, <1>3, <1>4, <2>1, <2>2 DEF OneAtATime
  <2>4. ASSUME Own(d)' PROVE Mine(d)' = marks
    BY <1>1, <1>2, <2>1, <2>4 DEF Mine, Own, TidyInv, TypeOK
  <2>5. Loaded(d)'
    BY <2>2 DEF Syncing, Loaded
  <2>6. Own(d)' => Current(d)'
    BY <1>3, <1>4, <2>1, <2>4, <2>5 DEF Current
  <2>7. QED
    BY <1>4, <2>1, <2>3, <2>6
<1>7. Tidy(d)'
  BY <1>1, <1>6 DEF Tidy
<1>8. QED
  BY <1>1, <1>3, <1>5, <1>7, PutTidy DEF TidyInv

LEMMA ApplyResponseTidy ==
  ASSUME TidyInv, TypeOK', NEW i \in DOMAIN puts, ApplyResponse(i)
  PROVE  TidyInv'
<1> SUFFICES ASSUME NEW d, d = BrowserOf[puts[i].control] PROVE TidyInv'
  OBVIOUS
<1> DEFINE known == Known(puts[i].control, puts[i].base)
<1> HIDE DEF known
<1>1. /\ session' = session /\ marker' = marker /\ sync' = sync /\ account' = account
      /\ orderly' = orderly /\ puts[i].step = "served"
      /\ local' = [local EXCEPT ![d] = Hydrate(puts[i].got, known)]
      /\ puts' = [puts EXCEPT ![i].step = "over", ![i].base = {}, ![i].got = {}]
  BY DEF ApplyResponse, history, known
<1>2. puts[i] \in Put /\ d \in Browsers
  BY PutTyped DEF TidyInv
<1>3. /\ DOMAIN puts' = DOMAIN puts /\ \A j \in DOMAIN puts \ {i} : puts'[j] = puts[j]
      /\ puts'[i].control = puts[i].control /\ puts'[i].user = puts[i].user /\ puts'[i].step = "over"
  BY <1>1, <1>2 DEF Put
<1>4. /\ local'[d] = Hydrate(puts[i].got, known)
      /\ \A b \in Browsers \ {d} : local'[b] = local[b]
  BY <1>1, <1>2 DEF TidyInv, TypeOK
<1>5. ASSUME orderly[d]
      PROVE  OneAtATime(d)' /\ (Own(d)' => Current(d)' /\ InOrder(d)')
  <2>1. Pending(d) = {i} /\ ~Syncing(d)
    BY <1>1, <1>5, OnlyRequest
  <2>2. OneAtATime(d)' /\ Pending(d)' = {}
    BY <1>1, <1>3, <1>5, RequestOver
  <2>3. ~Syncing(d)'
    BY <1>1, <2>1 DEF Syncing
  <2>4. ASSUME Own(d)' PROVE Current(d)' /\ InOrder(d)'
    <3>1. Own(d) /\ Mine(d)' = Mine(d)
      BY <1>1, <2>4 DEF Own, Mine
    <3>2. Current(d)
      BY <1>2, <1>5, <3>1 DEF TidyInv, Tidy
    <3>3. puts[i].got = Mine(d)
      BY <1>1, <2>1, <3>2 DEF Current
    <3>4. Agrees(d)'
      BY <1>4, <3>1, <3>3, HydrateLoses, HydrateHides DEF Agrees
    <3>5. \A e \in ControlsOf(d) : sync'[e].todo = {}
      BY <1>1, <2>1, NothingTodo DEF Syncing, ControlsOf, TidyInv
    <3>6. Covered(d)'
      BY <3>4, <3>5 DEF Covered, Agrees, ControlsOf
    <3>7. Loaded(d)'
      BY <2>3 DEF Syncing, Loaded
    <3>8. QED
      BY <2>2, <3>6, <3>7 DEF Current, InOrder
  <2>5. QED
    BY <2>2, <2>4
<1>6. Tidy(d)'
  BY <1>1, <1>5 DEF Tidy
<1>7. QED
  BY <1>1, <1>3, <1>4, <1>6, PutTidy DEF TidyInv

LEMMA LosePutTidy ==
  ASSUME TidyInv, TypeOK', NEW i \in DOMAIN puts, LosePut(i)
  PROVE  TidyInv'
<1> SUFFICES ASSUME NEW d, d = BrowserOf[puts[i].control] PROVE TidyInv'
  OBVIOUS
<1>1. /\ session' = session /\ marker' = marker /\ sync' = sync /\ local' = local
      /\ account' = account /\ orderly' = [orderly EXCEPT ![d] = @ /\ ~TRUE]
      /\ puts[i].step # "over"
      /\ puts' = [puts EXCEPT ![i].step = "over", ![i].base = {}, ![i].got = {}]
  BY DEF LosePut, Disorder
<1>2. puts[i] \in Put /\ d \in Browsers
  BY PutTyped DEF TidyInv
<1>3. /\ DOMAIN puts' = DOMAIN puts /\ \A j \in DOMAIN puts \ {i} : puts'[j] = puts[j]
      /\ puts'[i].control = puts[i].control /\ puts'[i].user = puts[i].user
  BY <1>1, <1>2 DEF Put
<1>4. /\ ~orderly'[d] /\ DOMAIN orderly' = Browsers
      /\ \A b \in Browsers \ {d} : orderly'[b] = orderly[b]
  BY <1>1, <1>2 DEF TidyInv
<1>5. Tidy(d)'
  BY <1>4 DEF Tidy
<1>6. QED
  BY <1>1, <1>3, <1>4, <1>5, PutTidy

LEMMA NextTidy ==
  ASSUME TidyInv, [Next]_vars
  PROVE  TidyInv'
<1>1. TypeOK'
  BY NextTypes DEF TidyInv
<1>2. CASE UNCHANGED vars
  <2>1. /\ account' = account /\ session' = session /\ local' = local /\ marker' = marker
        /\ sync' = sync /\ puts' = puts /\ orderly' = orderly
    BY <1>2 DEF vars, history
  <2>2. SessionsFit' /\ PutsHeld' /\ DOMAIN orderly' = Browsers
    BY <2>1 DEF TidyInv, SessionsFit, PutsHeld
  <2>3. ASSUME NEW b \in Browsers PROVE Tidy(b)'
    <3>1. Untouched(b)
      BY <2>1 DEF Untouched, Pending
    <3>2. QED
      BY <3>1, UntouchedTidy DEF TidyInv
  <2>4. QED
    BY <1>1, <2>2, <2>3 DEF TidyInv
<1>3. ASSUME NEW b \in Browsers, ChangeSession(b) PROVE TidyInv'
  BY <1>1, <1>3, ChangeSessionTidy
<1>4. ASSUME NEW c \in Controls, Open(c) \/ SyncStep(c) \/ SyncFails(c) \/ Unmount(c)
      PROVE  TidyInv'
  BY <1>1, <1>4, OpenTidy, MigrateRefusedTidy, MigrateTidy, LoadRefusedTidy, LoadTidy, FinishTidy,
     SyncFailsTidy, UnmountTidy DEF SyncStep
<1>5. ASSUME NEW c \in Controls, NEW m \in Marks, Toggle(c, m) \/ Remove(c, m)
      PROVE  TidyInv'
  BY <1>1, <1>5, UpdateTidy DEF Toggle, Remove
<1>6. ASSUME NEW i \in DOMAIN puts, RefusePut(i) \/ ServePut(i) \/ ApplyResponse(i) \/ LosePut(i)
      PROVE  TidyInv'
  BY <1>1, <1>6, RefusePutTidy, ServePutTidy, ApplyResponseTidy, LosePutTidy
<1>7. QED
  BY <1>2, <1>3, <1>4, <1>5, <1>6 DEF Next

\* The storage of a reader who waits for answers is the account's marks, but
\* for items that are 404, whenever nothing is under way, for any number of
\* controls, clicks, syncs and changes of session.
THEOREM StorageFollowsAccount == Spec => []CacheAgreesWhenQuiet
<1>1. TidyInv => CacheAgreesWhenQuiet
  <2> SUFFICES ASSUME TidyInv, NEW b \in Browsers, orderly[b], Own(b), ~Clicking(b),
                      NEW c \in ControlsOf(b), sync[c].step = "done"
               PROVE  Agrees(b)
    BY DEF CacheAgreesWhenQuiet, Own, Agrees, Mine
  <2>1. Pending(b) = {}
    BY DEF Pending, Clicking
  <2>2. InOrder(b)
    BY <2>1 DEF TidyInv, Tidy
  <2>3. QED
    BY <2>2 DEF InOrder, Covered, Uploading, SignedOn
<1>2. Spec => []TidyInv
  BY InitTidy, NextTidy, PTL DEF Spec
<1>3. QED
  BY <1>1, <1>2, PTL
=============================================================================
