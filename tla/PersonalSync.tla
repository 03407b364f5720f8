---------------------------- MODULE PersonalSync ----------------------------
(***************************************************************************)
(* Saved and read-later marks between browsers and accounts.               *)
(*                                                                         *)
(* A browser keeps its marks in local storage, next to a marker naming the *)
(* set of marks it last migrated.  Every mounted control (the buttons of   *)
(* an item card, the personal page) holds its own copy of the marks in     *)
(* React state.  When it mounts it syncs: it uploads the stored marks      *)
(* unless the marker names them, loads the account's marks, fetches the    *)
(* items it does not know, and replaces storage and copy.  A click changes *)
(* the copy, stores the whole copy, and sends one PUT, whose response      *)
(* again replaces storage and copy.                                        *)
(*                                                                         *)
(* Controls of one browser share its storage and cookie; requests and      *)
(* responses interleave in every order.  A response carries all marks of   *)
(* the account, read at one time.  Marks are sets: the order within the    *)
(* two lists is not modelled, nor is read status, which nothing reads.     *)
(***************************************************************************)
EXTENDS Integers, Sequences, FiniteSets

CONSTANTS
  Users,           \* accounts
  Browsers,        \* browsers, each with one local storage and one cookie
  Controls,        \* mounted React components
  BrowserOf,       \* the browser a control is mounted in
  Marks,           \* pairs of a list and an item
  ItemOf,          \* the item of a mark
  ButtonsOf,       \* the marks of the item a control shows buttons for
  PersonalPages,   \* the controls that list every mark, each with a remove button
  HiddenItems,     \* items whose detail page is 404
  LoginsOf,        \* the accounts used on a browser
  NoUser,          \* the session of an anonymous reader
  MaxClicks,       \* bound: clicks
  MaxLogins,       \* bound: logins, logouts and expired sessions
  MaxFaults        \* bound: requests or responses lost

ASSUME PersonalSyncAssumption ==
  /\ BrowserOf \in [Controls -> Browsers]
  /\ ButtonsOf \in [Controls -> SUBSET Marks]
  /\ LoginsOf \in [Browsers -> SUBSET Users]
  /\ PersonalPages \subseteq Controls
  /\ NoUser \notin Users
  /\ {MaxClicks, MaxLogins, MaxFaults} \subseteq Nat

VARIABLES
  account,         \* user_saved_items and user_read_later_items of each user
  session,         \* the user a browser's cookie authenticates
  local,           \* the marks in a browser's local storage
  marker,          \* its migration marker: a set of at most one signature
  shown,           \* a control's React state
  sync,            \* a control's run of syncPersonalStateFromBackend
  puts,            \* the clicks' PUT requests, in click order
  accepted,        \* history: marks the sync of a mounted control has got accepted
  clickedOn,       \* history: the sessions under which a mark was switched on
  wanted,          \* history: marks whose last click in a browser switched on
  orderly,         \* history: a browser's reader waited for answers, and got them
  used             \* how much of each bound is spent

clickHistory == <<accepted, clickedOn, wanted>>
history == <<clickHistory, orderly>>
vars == <<account, session, local, marker, shown, sync, puts, history, used>>

Closed == [step |-> "closed", base |-> {}, todo |-> {}, got |-> {}]

Init ==
  /\ account = [u \in Users |-> {}]
  /\ session = [b \in Browsers |-> NoUser]
  /\ local = [b \in Browsers |-> {}]
  /\ marker = [b \in Browsers |-> {}]
  /\ shown = [c \in Controls |-> {}]
  /\ sync = [c \in Controls |-> Closed]
  /\ puts = <<>>
  /\ accepted = [c \in Controls |-> {}]
  /\ clickedOn = [m \in Marks |-> {}]
  /\ wanted = [b \in Browsers |-> {}]
  /\ orderly = [b \in Browsers |-> TRUE]
  /\ used = [logins |-> 0, faults |-> 0]

User(c) == session[BrowserOf[c]]

ControlsOf(b) == {c \in Controls : BrowserOf[c] = b}

Clicking(b) ==
  \E i \in DOMAIN puts : BrowserOf[puts[i].control] = b /\ puts[i].step # "over"

Syncing(b) == \E c \in ControlsOf(b) : sync[c].step \notin {"closed", "done"}

\* The reader of b did something that leaves storage and account apart for now.
Disorder(b, happened) == orderly' = [orderly EXCEPT ![b] = @ /\ ~happened]

Items(marks) == {ItemOf[m] : m \in marks}

\* The items a control has snapshots of: those of its buttons and of its marks.
Known(c, marks) == Items(marks \cup ButtonsOf[c])

\* The snapshots asked of the API one by one; an item that is 404 has none.
Fetched(items) == items \ HiddenItems

\* The marks the API answered, but for those no snapshot is found for.
Hydrate(got, known) ==
  LET snapshots == known \cup Fetched(Items(got) \ known)
  IN  {m \in got : ItemOf[m] \in snapshots}

\* The marks of a user, and how a change of one leaves them.
MarksOf(u) == account[u]

SetItem(u, m, on) == IF on THEN MarksOf(u) \cup {m} ELSE MarksOf(u) \ {m}

\* What a card's button does to the marks.
Toggled(marks, m) == IF m \in marks THEN marks \ {m} ELSE marks \cup {m}

-----------------------------------------------------------------------------
\* The reader's session.  Nothing clears local storage.

\* Login, logout, expiry, and login as another user.
ChangeSession(b) ==
  /\ used.logins < MaxLogins
  /\ \E u \in (LoginsOf[b] \cup {NoUser}) \ {session[b]} :
       session' = [session EXCEPT ![b] = u]
  /\ used' = [used EXCEPT !.logins = @ + 1]
  /\ Disorder(b, \E c \in ControlsOf(b) : sync[c].step # "closed")
  /\ UNCHANGED <<account, local, marker, shown, sync, puts, clickHistory>>

-----------------------------------------------------------------------------
\* syncPersonalStateFromBackend

Signed(b) == marker[b] = {local[b]}

\* The effect of a mount runs up to its first request: it reads the storage,
\* and migrates unless the marker names what it read.  Nothing to upload is
\* migrated at once.
Open(c) ==
  LET b == BrowserOf[c] IN
  /\ sync[c].step = "closed"
  /\ shown' = [shown EXCEPT ![c] = local[b]]
  /\ \/ /\ Signed(b) \/ local[b] = {}
        /\ marker' = [marker EXCEPT ![b] = {local[b]}]
        /\ sync' = [sync EXCEPT ![c] = [Closed EXCEPT !.step = "load", !.base = local[b]]]
     \/ /\ ~Signed(b) /\ local[b] # {}
        /\ sync' = [sync EXCEPT ![c] =
             [Closed EXCEPT !.step = "migrate", !.base = local[b], !.todo = local[b]]]
        /\ UNCHANGED marker
  /\ Disorder(b, Clicking(b))
  /\ UNCHANGED <<account, session, local, puts, clickHistory, used>>

\* The control unmounts; nothing it asked for is outstanding.
Unmount(c) ==
  /\ sync[c].step = "done"
  /\ \A i \in DOMAIN puts : puts[i].control = c => puts[i].step = "over"
  /\ sync' = [sync EXCEPT ![c] = Closed]
  /\ shown' = [shown EXCEPT ![c] = {}]
  /\ accepted' = [accepted EXCEPT ![c] = {}]
  /\ UNCHANGED <<account, session, local, marker, puts, clickedOn, wanted, orderly, used>>

\* The response to one upload, and the request it answers.
Uploaded(c, m) ==
  /\ account' = [account EXCEPT ![User(c)] = SetItem(User(c), m, TRUE)]
  /\ accepted' = [accepted EXCEPT ![c] = @ \cup {m}]
  /\ UNCHANGED <<clickedOn, wanted>>

\* Mutant: a 401 counts as an upload.
MarkAnyway(c) ==
  /\ sync[c].step = "migrate"
  /\ User(c) = NoUser
  /\ sync' = [sync EXCEPT ![c].todo = {}, ![c].step = "load"]
  /\ marker' = [marker EXCEPT ![BrowserOf[c]] = {sync[c].base}]
  /\ UNCHANGED <<account, session, local, shown, puts, history, used>>

\* A 401 ends the migration; the marker stays as it was.
MigrateRefused(c) ==
  /\ sync[c].step = "migrate"
  /\ User(c) = NoUser
  /\ sync' = [sync EXCEPT ![c].todo = {}, ![c].step = "load"]
  /\ UNCHANGED <<account, session, local, marker, shown, puts, history, used>>

\* One upload.  After the last one the marker names the marks read when the
\* sync began.
Migrate(c) ==
  /\ sync[c].step = "migrate"
  /\ User(c) # NoUser
  /\ \E m \in sync[c].todo :
       /\ Uploaded(c, m)
       /\ \/ /\ sync[c].todo # {m}
             /\ sync' = [sync EXCEPT ![c].todo = @ \ {m}]
             /\ UNCHANGED marker
          \/ /\ sync[c].todo = {m}
             /\ sync' = [sync EXCEPT ![c].todo = {}, ![c].step = "load"]
             /\ marker' = [marker EXCEPT ![BrowserOf[c]] = {sync[c].base}]
  /\ UNCHANGED <<session, local, shown, puts, orderly, used>>

\* Mutant: the query has no `where user_id`.
LoadEveryone(c) ==
  /\ sync[c].step = "load"
  /\ User(c) # NoUser
  /\ sync' = [sync EXCEPT ![c].step = "hydrate",
                         ![c].got = UNION {MarksOf(u) : u \in Users}]
  /\ UNCHANGED <<account, session, local, marker, shown, puts, history, used>>

\* The server answers GET /reader/personal-state with all marks of the user.
Load(c) ==
  /\ sync[c].step = "load"
  /\ User(c) # NoUser
  /\ sync' = [sync EXCEPT ![c].step = "hydrate", ![c].got = MarksOf(User(c))]
  /\ UNCHANGED <<account, session, local, marker, shown, puts, history, used>>

\* A 401 ends the sync with the marks it began with.
LoadRefused(c) ==
  /\ sync[c].step = "load"
  /\ User(c) = NoUser
  /\ shown' = [shown EXCEPT ![c] = sync[c].base]
  /\ sync' = [sync EXCEPT ![c] = [Closed EXCEPT !.step = "done"]]
  /\ UNCHANGED <<account, session, local, marker, puts, history, used>>

Finish(c) ==
  LET marks == Hydrate(sync[c].got, Known(c, sync[c].base)) IN
  /\ sync[c].step = "hydrate"
  /\ local' = [local EXCEPT ![BrowserOf[c]] = marks]
  /\ shown' = [shown EXCEPT ![c] = marks]
  /\ sync' = [sync EXCEPT ![c] = [Closed EXCEPT !.step = "done"]]
  /\ UNCHANGED <<account, session, marker, puts, history, used>>

\* A failed request ends the sync; an upload may have reached the server.
SyncFails(c) ==
  /\ sync[c].step \in {"migrate", "load", "hydrate"}
  /\ used.faults < MaxFaults
  /\ \/ UNCHANGED <<account, clickHistory>>
     \/ /\ sync[c].step = "migrate"
        /\ User(c) # NoUser
        /\ \E m \in sync[c].todo : Uploaded(c, m)
  /\ sync' = [sync EXCEPT ![c] = [Closed EXCEPT !.step = "done"]]
  /\ used' = [used EXCEPT !.faults = @ + 1]
  /\ Disorder(BrowserOf[c], TRUE)
  /\ UNCHANGED <<session, local, marker, shown, puts>>

-----------------------------------------------------------------------------
\* Clicks.

\* updateState: the copy becomes `next`, is stored whole, and the PUT is sent.
Update(c, m, next) ==
  LET b == BrowserOf[c]
      on == m \in next
  IN
  /\ sync[c].step # "closed"
  /\ Len(puts) < MaxClicks
  /\ shown' = [shown EXCEPT ![c] = next]
  /\ local' = [local EXCEPT ![b] = next]
  /\ puts' = Append(puts,
       [control |-> c, user |-> session[b], mark |-> m, on |-> on, base |-> next,
        step |-> "sent", got |-> {}])
  /\ clickedOn' = [clickedOn EXCEPT ![m] = IF on THEN @ \cup {session[b]} ELSE @]
  /\ wanted' = [wanted EXCEPT ![b] = IF on THEN @ \cup {m} ELSE @ \ {m}]
  /\ Disorder(b, Clicking(b) \/ Syncing(b))
  /\ UNCHANGED <<account, session, marker, sync, accepted, used>>

\* A button of a card.
Toggle(c, m) == m \in ButtonsOf[c] /\ Update(c, m, Toggled(shown[c], m))

\* A remove button of the personal page, which lists the marks it shows.
Remove(c, m) == c \in PersonalPages /\ m \in shown[c] /\ Update(c, m, shown[c] \ {m})

\* A 401 changes nothing more.  A session that is no longer the browser's may
\* have been revoked or not.
RefusePut(i) ==
  /\ puts[i].step = "sent"
  /\ puts[i].user = NoUser \/ puts[i].user # User(puts[i].control)
  /\ puts' = [puts EXCEPT ![i].step = "over", ![i].base = {}]
  /\ UNCHANGED <<account, session, local, marker, shown, sync, history, used>>

\* The server applies the change under the session the request was sent with
\* and reads all marks of the user.
ServePut(i) ==
  LET marks == SetItem(puts[i].user, puts[i].mark, puts[i].on) IN
  /\ puts[i].step = "sent"
  /\ puts[i].user # NoUser
  /\ account' = [account EXCEPT ![puts[i].user] = marks]
  /\ puts' = [puts EXCEPT ![i].step = "served", ![i].got = marks]
  /\ UNCHANGED <<session, local, marker, shown, sync, history, used>>

\* Mutant: the marks in the response are shown, not stored.
ShowResponse(i) ==
  LET p == puts[i]
      marks == Hydrate(p.got, Known(p.control, p.base))
  IN
  /\ p.step = "served"
  /\ shown' = [shown EXCEPT ![p.control] = marks]
  /\ puts' = [puts EXCEPT ![i].step = "over", ![i].base = {}, ![i].got = {}]
  /\ UNCHANGED <<account, session, local, marker, sync, history, used>>

\* applyBackendState, whenever the response and the missing items arrive.
ApplyResponse(i) ==
  LET p == puts[i]
      marks == Hydrate(p.got, Known(p.control, p.base))
  IN
  /\ p.step = "served"
  /\ local' = [local EXCEPT ![BrowserOf[p.control]] = marks]
  /\ shown' = [shown EXCEPT ![p.control] = marks]
  /\ puts' = [puts EXCEPT ![i].step = "over", ![i].base = {}, ![i].got = {}]
  /\ UNCHANGED <<account, session, marker, sync, history, used>>

\* A lost request, or a lost response.
LosePut(i) ==
  /\ puts[i].step # "over"
  /\ used.faults < MaxFaults
  /\ puts' = [puts EXCEPT ![i].step = "over", ![i].base = {}, ![i].got = {}]
  /\ used' = [used EXCEPT !.faults = @ + 1]
  /\ Disorder(BrowserOf[puts[i].control], TRUE)
  /\ UNCHANGED <<account, session, local, marker, shown, sync, clickHistory>>

-----------------------------------------------------------------------------
SyncStep(c) ==
  MigrateRefused(c) \/ Migrate(c) \/ LoadRefused(c) \/ Load(c) \/ Finish(c)

Next ==
  \/ \E b \in Browsers : ChangeSession(b)
  \/ \E c \in Controls : Open(c) \/ SyncStep(c) \/ SyncFails(c) \/ Unmount(c)
  \/ \E c \in Controls, m \in Marks : Toggle(c, m) \/ Remove(c, m)
  \/ \E i \in DOMAIN puts : RefusePut(i) \/ ServePut(i) \/ ApplyResponse(i) \/ LosePut(i)

Spec == Init /\ [][Next]_vars

-----------------------------------------------------------------------------
\* Properties.

Put == [control : Controls, user : Users \cup {NoUser}, mark : Marks, on : BOOLEAN,
        base : SUBSET Marks, step : {"sent", "served", "over"}, got : SUBSET Marks]

Sync == [step : {"closed", "migrate", "load", "hydrate", "done"},
         base : SUBSET Marks, todo : SUBSET Marks, got : SUBSET Marks]

\* Sets of marks everywhere; an upload in progress has something to upload.
TypeOK ==
  /\ account \in [Users -> SUBSET Marks]
  /\ session \in [Browsers -> Users \cup {NoUser}]
  /\ local \in [Browsers -> SUBSET Marks]
  /\ marker \in [Browsers -> SUBSET SUBSET Marks]
  /\ shown \in [Controls -> SUBSET Marks]
  /\ sync \in [Controls -> Sync]
  /\ \A c \in Controls : sync[c].step = "migrate" <=> sync[c].todo # {}
  /\ puts \in Seq(Put)
  /\ accepted \in [Controls -> SUBSET Marks]
  /\ clickedOn \in [Marks -> SUBSET (Users \cup {NoUser})]

\* A marker is set only by a sync that has got accepted, since it read the
\* storage, every mark it names: when the session ends between two uploads, or
\* one fails, or a click changes the storage meanwhile, nothing is marked
\* migrated that was not (migrateLocalPersonalStateToBackend).  What a marker
\* says later is another matter: marks that leave the account afterwards and
\* are stored again match it.
MarkerMeansAccepted ==
  [][\A b \in Browsers : marker'[b] # marker[b] =>
       \E c \in ControlsOf(b) :
         /\ marker'[b] = {sync'[c].base}
         /\ sync'[c].step = "load" /\ sync'[c].base \subseteq accepted'[c]]_vars

\* An account holds only marks switched on under its own session, or while
\* nobody was signed in: what a user stored never reaches another account by
\* way of a shared storage (the storage is never cleared).
OwnMarks ==
  \A u \in Users : \A m \in account[u] : clickedOn[m] \cap {u, NoUser} # {}

\* In a browser of its own, a reader who waits for every answer before the next
\* click finds the storage equal to the account whenever nothing is under way,
\* but for items that are 404 (syncPersonalStateFromBackend, applyBackendState).
CacheAgreesWhenQuiet ==
  \A b \in Browsers :
    LET u == session[b] IN
      (/\ orderly[b]
       /\ u # NoUser
       /\ \A d \in Browsers \ {b} : u \notin LoginsOf[d]
       /\ ~Clicking(b) /\ ~Syncing(b)
       /\ \E c \in ControlsOf(b) : sync[c].step = "done")
      => /\ local[b] \subseteq account[u]
         /\ \A m \in account[u] \ local[b] : ItemOf[m] \in HiddenItems

\* personal-state.md: anonymous local state is preserved for a later login.
\* Each control stores its own, possibly outdated, copy of all marks.
AnonymousMarksSurvive ==
  \A b \in Browsers : LoginsOf[b] = {} => local[b] = wanted[b]
=============================================================================
