------------------------------ MODULE AdminApi ------------------------------
(***************************************************************************)
(* The API's requests that change something for administrators: POST       *)
(* /sources, PATCH /sources/:id, /raw-entries/:id and /admin/feedback/:id. *)
(* A request is checked against its session, makes its change in one       *)
(* transaction, and records an audit event in another.  Some come straight *)
(* from a browser, some from the admin pages' forms: the web server asks   *)
(* who is signed in, then sends the request with the browser's cookie.     *)
(*                                                                         *)
(* Requests interleave at every database statement that may wait or that   *)
(* others can see.  PATCH reads the source without a lock and writes every *)
(* column back; writing locks the row, and a new url waits for an open     *)
(* transaction that takes or gives up that url.  Two requests that swap    *)
(* urls wait for each other until PostgreSQL aborts one.                   *)
(***************************************************************************)
EXTENDS SourceConfigs, AdminSessions, FiniteSetsExt, SequencesExt

CONSTANTS
  Handlers,        \* requests the API works on at once
  Registered,      \* the configurations of the sources there are at first
  RawEntryIds,     \* the raw entries and the feedback there are
  FeedbackIds,
  Named,           \* the objects of both types that requests name
  ReviewBodies,    \* bodies of PATCH /admin/feedback/:id
  FormBodies,      \* bodies that come from the forms of the admin pages
  MaxRequests,     \* bound: requests received
  MaxFaults        \* bound: connections lost and statements that fail

\* What the forms of the admin pages carry: one of their whole sets of fields.
FormFields == {{"enabled"}, {"crawl", "rights"}, {"action"}, {"status"}, {"status", "note"}}

ASSUME AdminAssumption ==
  /\ \A body \in FormBodies : DOMAIN body \in FormFields
  /\ {MaxRequests, MaxFaults} \subseteq Nat
  /\ IsFiniteSet(Handlers)
  /\ RawEntryIds \cup FeedbackIds \subseteq Nat
  /\ Named \subseteq [type : {"raw_entry", "reader_feedback"}, id : Nat]
  /\ \A body \in ReviewBodies :
       /\ DOMAIN body \subseteq {"status", "note"} /\ "status" \in DOMAIN body
       /\ body.status \in {"open", "reviewed", "dismissed", "resolved"}
  /\ Registered \in Seq(Config)
  /\ Len(Registered) <= MaxSources
  /\ \A i, j \in DOMAIN Registered : Registered[i].url = Registered[j].url => i = j

VARIABLES
  configs,         \* sources joined with source_policies, as committed
  lastId,          \* the last id drawn for a source
  lifecycle,       \* lifecycle_status of the raw entries
  reviews,         \* review_status and review_note of the feedback
  pc,              \* where each request is
  req,             \* the request each handler works on
  tx,              \* its open transaction
  audits,          \* audit_events of changes, in id order
  log,             \* history: the configurations each id has had, in order
  changes,         \* history: the requests behind every change
  used             \* how much of each bound is spent

moderated == <<lifecycle, reviews>>
tableVars == <<configs, lastId, moderated, audits, log, changes>>
requestVars == <<pc, req, tx>>
vars == <<tableVars, requestVars, sessionVars, used>>

\* What a request is about.  The id of a source is 0 until it is drawn.
Objects ==
  [type : {"source"}, id : Sources]
    \cup [type : {"raw_entry"}, id : RawEntryIds] \cup [type : {"reader_feedback"}, id : FeedbackIds]

\* rawEntryLifecycleBodySchema.
LifecycleBodies == [action : {"hide", "restore"}]

\* late and since are history: the session was over, and so many
\* configurations were stored, when the request came in.
NoRequest ==
  [browser |-> 0, token |-> 0, type |-> "none", id |-> 0, body |-> <<>>, actor |-> NoUser,
   late |-> FALSE, since |-> 0]

Object(h) == [type |-> req[h].type, id |-> req[h].id]

\* A transaction locks the row of its source, then writes its target to it.
NoTx == [source |-> 0, target |-> Absent, locked |-> FALSE, wrote |-> FALSE]

Init ==
  /\ SessionInit
  /\ configs = [s \in Sources |-> IF s \in DOMAIN Registered THEN Registered[s] ELSE Absent]
  /\ lastId = Len(Registered)
  /\ pc = [h \in Handlers |-> "idle"]
  /\ req = [h \in Handlers |-> NoRequest]
  /\ tx = [h \in Handlers |-> NoTx]
  /\ lifecycle = [e \in RawEntryIds |-> "candidate"]
  /\ reviews = [f \in FeedbackIds |-> [status |-> "open"]]
  /\ audits = <<>>
  /\ log = [s \in Sources |-> IF s \in DOMAIN Registered THEN <<Registered[s]>> ELSE <<>>]
  /\ changes = <<>>
  /\ used = [requests |-> 0, faults |-> 0]

\* The request has been answered; its transaction, if any, is gone.
Answer(h) ==
  /\ pc' = [pc EXCEPT ![h] = "idle"]
  /\ req' = [req EXCEPT ![h] = NoRequest]
  /\ tx' = [tx EXCEPT ![h] = NoTx]

-----------------------------------------------------------------------------
\* The request and requireAdmin.

\* The requests that may still draw an id.
Drawing == {h \in Handlers : req[h].type = "source" /\ req[h].id = 0
                             /\ pc[h] \in {"page", "authorize", "insert"}}

\* What each route accepts: POST /sources has no id yet, and draws one.
Accepts(type, id, body) ==
  CASE type = "source" /\ id = 0 -> body \in CreateBodies
    [] type = "source" /\ id # 0 -> body \in PatchBodies /\ id \in Sources
    [] type = "raw_entry" -> body \in LifecycleBodies
    [] type = "reader_feedback" -> body \in ReviewBodies

IsOver(token) == token \notin Live \/ sessions[token].user \in disabled

Take(h, b, type, id, body, label) ==
  /\ pc[h] = "idle"
  /\ used.requests < MaxRequests
  /\ Accepts(type, id, body)
  /\ type = "source" /\ id = 0 => lastId + Cardinality(Drawing) < MaxSources
  /\ req' = [req EXCEPT ![h] =
       [browser |-> b, token |-> cookie[b], type |-> type, id |-> id, body |-> body,
        actor |-> NoUser, late |-> IsOver(cookie[b]),
        since |-> IF type = "source" /\ id # 0 THEN Len(log[id]) ELSE 0]]
  /\ pc' = [pc EXCEPT ![h] = label]
  /\ used' = [used EXCEPT !.requests = @ + 1]
  /\ UNCHANGED <<tableVars, tx, sessionVars>>

\* A browser posts a form of the admin pages to the web server, or the request
\* itself to the API.
PostForm(h, b, type, id, body) ==
  body \in FormBodies /\ Take(h, b, type, id, body, "page")

Receive(h, b, type, id, body) ==
  body \notin FormBodies /\ Take(h, b, type, id, body, "authorize")

AdminUsers(token) == CurrentUser(token) \cap Admins

\* requireAdminSession: without an administrator's session the web server
\* redirects to a page that says so, and leaves the browser its cookie.
RequireAdminSession(h) ==
  /\ pc[h] = "page"
  /\ IF AdminUsers(req[h].token) = {}
     THEN Answer(h)
     ELSE pc' = [pc EXCEPT ![h] = "authorize"] /\ UNCHANGED <<req, tx>>
  /\ UNCHANGED <<tableVars, sessionVars, used>>

\* Where the handler begins once the request is let through.
FirstStep(h) ==
  CASE req[h].type # "source" -> "moderate"
    [] req[h].type = "source" /\ req[h].id = 0 -> "insert"
    [] OTHER -> "read"

\* The request that the web server makes for a form; only its status is read,
\* and the answer's cookie does not reach the browser.
OfWebServer(h) == req[h].body \in FormBodies

\* A 401 clears the cookie of the browser, whichever session it names by then.
Unauthenticated(h) ==
  /\ CurrentUser(req[h].token) = {}
  /\ Answer(h)
  /\ cookie' = [cookie EXCEPT ![req[h].browser] =
                  IF req[h].token = 0 \/ OfWebServer(h) THEN @ ELSE 0]

\* 403.
NoAdmin(h) ==
  /\ CurrentUser(req[h].token) # {}
  /\ AdminUsers(req[h].token) = {}
  /\ Answer(h)
  /\ UNCHANGED cookie

LetThrough(h) ==
  /\ \E u \in AdminUsers(req[h].token) : req' = [req EXCEPT ![h].actor = u]
  /\ pc' = [pc EXCEPT ![h] = FirstStep(h)]
  /\ UNCHANGED <<tx, cookie>>

\* requireAdmin.
Authorize(h) ==
  /\ pc[h] = "authorize"
  /\ Unauthenticated(h) \/ NoAdmin(h) \/ LetThrough(h)
  /\ UNCHANGED <<tableVars, sessions, disabled, used>>

-----------------------------------------------------------------------------
\* PATCH /raw-entries/:id and /admin/feedback/:id: one statement each.

\* No row has the id: 404, and no audit event.
NothingToModerate(h) ==
  /\ Object(h) \notin Objects
  /\ Answer(h)
  /\ UNCHANGED <<moderated, changes>>

Moderated(h) ==
  /\ Object(h) \in Objects
  /\ changes' = Append(changes, req[h])
  /\ pc' = [pc EXCEPT ![h] = "audit"]
  /\ UNCHANGED <<req, tx>>

UpdateRawEntryLifecycle(h) ==
  /\ req[h].type = "raw_entry"
  /\ Moderated(h)
  /\ lifecycle' = [lifecycle EXCEPT ![req[h].id] =
                     IF req[h].body.action = "hide" THEN "hidden" ELSE "candidate"]
  /\ UNCHANGED reviews

\* The whole review is replaced: a body without a note leaves none.
UpdateFeedbackReview(h) ==
  /\ req[h].type = "reader_feedback"
  /\ Moderated(h)
  /\ reviews' = [reviews EXCEPT ![req[h].id] = req[h].body]
  /\ UNCHANGED lifecycle

Moderate(h) ==
  /\ pc[h] = "moderate"
  /\ NothingToModerate(h) \/ UpdateRawEntryLifecycle(h) \/ UpdateFeedbackReview(h)
  /\ UNCHANGED <<configs, lastId, audits, log, sessionVars, used>>

-----------------------------------------------------------------------------
\* The transaction of createSource and updateSource.

\* Other open transactions that have entered the url u in the index, or whose
\* new row version, there as soon as the row is locked, gives u up.
UrlHolders(h, u) ==
  {q \in Handlers \ {h} :
     /\ tx[q].locked
     /\ LET had  == configs[tx[q].source] # Absent /\ configs[tx[q].source].url = u
            want == tx[q].target.url = u
        IN  \/ had /\ ~want
            \/ want /\ ~had /\ tx[q].wrote}

\* The update writes no new index entry when the url is the row's own.
KeepsUrl(h) ==
  LET old == configs[tx[h].source] IN old # Absent /\ old.url = tx[h].target.url

\* The transactions that h's next statement waits for.
BlockedBy(h) ==
  CASE pc[h] = "lock" ->
         {q \in Handlers \ {h} : tx[q].locked /\ tx[q].source = tx[h].source}
    [] pc[h] = "write" /\ ~KeepsUrl(h) -> UrlHolders(h, tx[h].target.url)
    [] OTHER -> {}

\* Mutant of Merged: an absent policy field becomes the default.
MergedWithDefaults(h) ==
  [f \in Fields |->
     IF f \in {"crawl", "rights"} THEN Merge(req[h].body, DefaultConfig)[f]
     ELSE Merge(req[h].body, configs[req[h].id])[f]]

\* Mutant of Merged: the source is read from a cache filled at the start.
MergedWithCached(h) == Merge(req[h].body, log[req[h].id][1])

\* The row that updateSource is going to write, from the one it has just read.
Merged(h) == Merge(req[h].body, configs[req[h].id])

\* getSourceById, without a lock.
ReadCurrent(h) ==
  /\ pc[h] = "read"
  /\ \/ /\ configs[req[h].id] = Absent
        /\ Answer(h)
     \/ /\ configs[req[h].id] # Absent
        /\ tx' = [tx EXCEPT ![h].source = req[h].id, ![h].target = Merged(h)]
        /\ pc' = [pc EXCEPT ![h] = "lock"]
        /\ UNCHANGED req
  /\ UNCHANGED <<tableVars, sessionVars, used>>

\* update sources: waits for the row.
LockRow(h) ==
  /\ pc[h] = "lock"
  /\ BlockedBy(h) = {}
  /\ tx' = [tx EXCEPT ![h].locked = TRUE]
  /\ pc' = [pc EXCEPT ![h] = "write"]
  /\ UNCHANGED <<tableVars, req, sessionVars, used>>

\* insert into sources draws an id, which a failed insert does not give back.
DrawId(h) ==
  /\ pc[h] = "insert"
  /\ lastId' = lastId + 1
  /\ req' = [req EXCEPT ![h].id = lastId + 1]
  /\ tx' = [tx EXCEPT ![h].source = lastId + 1,
                      ![h].target = Merge(req[h].body, DefaultConfig),
                      ![h].locked = TRUE]
  /\ pc' = [pc EXCEPT ![h] = "write"]
  /\ UNCHANGED <<configs, moderated, audits, log, changes, sessionVars, used>>

\* Mutant of Conflict: the transaction is not rolled back.
ConflictWithoutRollback(h) ==
  /\ pc' = [pc EXCEPT ![h] = "idle"]
  /\ req' = [req EXCEPT ![h] = NoRequest]
  /\ UNCHANGED tx

\* The unique violation: rollback, and 409.
Conflict(h) == Answer(h)

\* Another source has the url.
UrlClash(h) == ~KeepsUrl(h) /\ ~UrlFree(configs, tx[h].source, tx[h].target)

\* The row's new version and its index entries; a url that an open
\* transaction has taken or given up is waited for.
WriteRow(h) ==
  /\ pc[h] = "write"
  /\ BlockedBy(h) = {}
  /\ \/ UrlClash(h) /\ Conflict(h)
     \/ /\ ~UrlClash(h)
        /\ tx' = [tx EXCEPT ![h].wrote = TRUE]
        /\ pc' = [pc EXCEPT ![h] = "policy"]
        /\ UNCHANGED req
  /\ UNCHANGED <<tableVars, sessionVars, used>>

\* upsertPolicy, the read that makes the answer, and commit.
Commit(h) ==
  /\ pc[h] = "policy"
  /\ LET s == tx[h].source IN
       /\ configs' = [configs EXCEPT ![s] = tx[h].target]
       /\ log' = [log EXCEPT ![s] = Append(@, tx[h].target)]
  /\ changes' = Append(changes, req[h])
  /\ tx' = [tx EXCEPT ![h] = NoTx]
  /\ pc' = [pc EXCEPT ![h] = "audit"]
  /\ UNCHANGED <<lastId, moderated, audits, req, sessionVars, used>>

AuditEvent(h) == [actor |-> req[h].actor, object |-> Object(h)]

\* Mutant of RecordAuditEvent: an insert that may have failed is repeated.
RepeatAuditEvent(h) ==
  /\ pc[h] = "audit"
  /\ audits' = Append(audits, AuditEvent(h))
  /\ \/ Answer(h)
     \/ /\ Len(audits) < MaxRequests
        /\ UNCHANGED requestVars
  /\ UNCHANGED <<configs, lastId, moderated, log, changes, sessionVars, used>>

\* recordAuditEvent, and the answer.
RecordAuditEvent(h) ==
  /\ pc[h] = "audit"
  /\ audits' = Append(audits, AuditEvent(h))
  /\ Answer(h)
  /\ UNCHANGED <<configs, lastId, moderated, log, changes, sessionVars, used>>

-----------------------------------------------------------------------------
\* What goes wrong around a request.

\* A statement fails or the connection is lost: rollback, and 500.  After the
\* commit it is the audit event that is lost.
Fail(h) ==
  /\ pc[h] # "idle"
  /\ used.faults < MaxFaults
  /\ Answer(h)
  /\ used' = [used EXCEPT !.faults = @ + 1]
  /\ UNCHANGED <<tableVars, sessionVars>>

InWaitCycle(h) ==
  \E S \in SUBSET Handlers :
    /\ h \in S
    /\ \A x \in S : /\ BlockedBy(x) \cap S # {}
                    /\ \E y \in S : x \in BlockedBy(y)

\* PostgreSQL aborts a transaction of the cycle.
DeadlockAbort(h) ==
  /\ InWaitCycle(h)
  /\ Answer(h)
  /\ UNCHANGED <<tableVars, sessionVars, used>>

-----------------------------------------------------------------------------
RequestStep(h) ==
  \/ RequireAdminSession(h)
  \/ Authorize(h)
  \/ Moderate(h)
  \/ ReadCurrent(h)
  \/ LockRow(h)
  \/ DrawId(h)
  \/ WriteRow(h)
  \/ Commit(h)
  \/ RecordAuditEvent(h)
  \/ DeadlockAbort(h)

Next ==
  \/ SessionStep /\ UNCHANGED <<tableVars, requestVars, used>>
  \/ \E h \in Handlers, b \in Browsers :
       \/ \E s \in 0..MaxSources, body \in CreateBodies \cup PatchBodies :
            PostForm(h, b, "source", s, body) \/ Receive(h, b, "source", s, body)
       \/ \E x \in Named, body \in LifecycleBodies \cup ReviewBodies :
            PostForm(h, b, x.type, x.id, body) \/ Receive(h, b, x.type, x.id, body)
  \/ \E h \in Handlers : RequestStep(h) \/ Fail(h)

Spec == Init /\ [][Next]_vars

\* Node and PostgreSQL go on with every statement that does not wait, and
\* deadlock_timeout expires.
FairSpec == Spec /\ \A h \in Handlers : WF_requestVars(RequestStep(h))

-----------------------------------------------------------------------------
\* Properties.

Request ==
  [browser : Browsers \cup {0}, token : Tokens,
   type : {"none", "source", "raw_entry", "reader_feedback"}, id : Nat,
   body : CreateBodies \cup PatchBodies \cup LifecycleBodies \cup ReviewBodies \cup {<<>>},
   actor : Users \cup {NoUser}, late : BOOLEAN, since : Nat]

\* Sessions, requests, transactions and tables keep their types, and only a
\* request inside its transaction holds a row.
TypeOK ==
  /\ sessions \in Seq(Session)
  /\ disabled \subseteq Users
  /\ cookie \in [Browsers -> Tokens]
  /\ configs \in [Sources -> Config \cup {Absent}]
  /\ lastId \in 0..MaxSources
  /\ lifecycle \in [RawEntryIds -> {"candidate", "hidden"}]
  /\ reviews \in [FeedbackIds -> ReviewBodies \cup {[status |-> "open"]}]
  /\ pc \in [Handlers -> {"idle", "page", "authorize", "moderate", "read", "lock", "insert",
                          "write", "policy", "audit"}]
  /\ req \in [Handlers -> Request]
  /\ tx \in [Handlers -> [source : 0..MaxSources, target : Config \cup {Absent},
                           locked : BOOLEAN, wrote : BOOLEAN]]
  /\ \A h \in Handlers : tx[h].locked => pc[h] \in {"write", "policy"}
  /\ audits \in Seq([actor : Users, object : Objects])
  /\ changes \in Seq(Request)

\* The registry changes whole sources, never takes a url twice, and stores only
\* one request's fields over a configuration the source has had: concurrent
\* requests never mix in the two tables (updateSource, createSource).
Versions == INSTANCE SourceVersions WITH versions <- [s \in Sources |-> Range(log[s])]
ImplementsVersions == Versions!Spec

\* A change starts from a configuration the source had at some time after its
\* request came in: what was replaced before that is never brought back by a
\* PATCH (updateSource reads inside the request).
ChangesSeeTheirPast ==
  [][\A h \in Handlers : pc[h] = "policy" /\ pc'[h] = "audit" /\ req[h].since > 0 =>
       LET s == req[h].id IN
         \E i \in req[h].since..Len(log[s]) :
           configs'[s] = Merge(req[h].body, log[s][i])]_vars

\* Sources, raw entries and reviews are only changed by an administrator whose
\* session was alive when the request came in, from the browser or through the
\* web server: not after a logout, an expiry or a disablement that came first
\* (requireAdmin, requireAdminSession).
OnlyAdminsChange ==
  \A i \in DOMAIN changes :
    /\ ~changes[i].late
    /\ changes[i].actor \in Admins
    /\ sessions[changes[i].token].user = changes[i].actor

\* Every audit event is of a committed change of that very object by that very
\* administrator, and every change has its event, or is about to, or lost it to
\* a fault: the two are separate transactions.
AuditAccountsForChanges ==
  \A u \in Users, x \in Objects :
    LET recorded == {i \in DOMAIN audits : audits[i] = [actor |-> u, object |-> x]}
        changed  == {i \in DOMAIN changes :
                       changes[i].actor = u /\ [type |-> changes[i].type, id |-> changes[i].id] = x}
        pending  == {h \in Handlers : pc[h] = "audit" /\ req[h].actor = u /\ Object(h) = x}
    IN  /\ Cardinality(recorded) + Cardinality(pending) <= Cardinality(changed)
        /\ Cardinality(changed) <=
             Cardinality(recorded) + Cardinality(pending) + used.faults

\* Every request is answered, whatever rows and urls the others hold.
RequestsEnd == \A h \in Handlers : pc[h] # "idle" ~> pc[h] = "idle"
=============================================================================
