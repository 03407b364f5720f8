---------------------------- MODULE AdminProofs ----------------------------
(***************************************************************************)
(* Proofs about AdminApi, for any sources, sessions, requests at once and  *)
(* faults: who can be behind a change, what the audit log accounts for,    *)
(* and that the registry is the one SourceVersions promises, with unique   *)
(* urls and no two requests mixed in one source.                           *)
(*                                                                         *)
(* The inductive invariant says what a request may rely on at each of its  *)
(* statements (RequestOK), that two transactions never hold one row, and   *)
(* that rows written but not committed keep the urls apart (UrlsApart):    *)
(* PATCH reads the source before it holds the row, so what it is going to  *)
(* write is a merge with some configuration the source has had since the   *)
(* request came in, not with the one it replaces.                          *)
(***************************************************************************)
EXTENDS AdminApi, TLAPS, FiniteSetTheorems

\* A token names a session, or none.
Known(token) == token = 0 \/ token \in DOMAIN sessions

Authorized(q) ==
  /\ ~q.late
  /\ q.actor \in Admins
  /\ q.token \in DOMAIN sessions
  /\ sessions[q.token].user = q.actor

\* A request with the body its route accepts.
Asked(q) ==
  \/ q.type = "source" /\ q.id = 0 /\ q.body \in CreateBodies /\ q.since = 0
  \/ q.type = "source" /\ q.id \in Sources /\ q.body \in PatchBodies /\ q.since <= Len(log[q.id])
  \/ q.type = "raw_entry" /\ q.body \in LifecycleBodies
  \/ q.type = "reader_feedback" /\ q.body \in ReviewBodies

\* What a transaction is going to write: a new source, or the request's fields
\* over a configuration the source has had since the request came in.
Creating(q, t) ==
  /\ configs[t.source] = Absent
  /\ q.body \in CreateBodies
  /\ q.since = 0
  /\ t.target = Merge(q.body, DefaultConfig)

Updating(q, t) ==
  /\ configs[t.source] # Absent
  /\ q.body \in PatchBodies
  /\ \E i \in 1..Len(log[t.source]) :
       i >= q.since /\ t.target = Merge(q.body, log[t.source][i])

InTransaction(q, label, t) ==
  /\ q.type = "source" /\ q.id = t.source
  /\ t.source \in Sources /\ t.source <= lastId
  /\ t.target \in Config
  /\ t.locked <=> label # "lock"
  /\ t.wrote <=> label = "policy"
  /\ Updating(q, t) \/ (label # "lock" /\ Creating(q, t))

RequestOK(q, label, t) ==
  /\ label = "idle" => q = NoRequest
  /\ label # "idle" => q.browser \in Browsers /\ Known(q.token) /\ (q.late => IsOver(q.token))
  /\ label \in {"page", "authorize", "moderate", "read", "insert"} => Asked(q)
  /\ label = "moderate" => q.type # "source"
  /\ label = "insert" => q.type = "source" /\ q.id = 0
  /\ label = "read" => q.type = "source" /\ q.id # 0
  /\ IF label \in {"lock", "write", "policy"} THEN InTransaction(q, label, t) ELSE t = NoTx
  /\ label = "audit" => [type |-> q.type, id |-> q.id] \in Objects
  /\ label \notin {"idle", "page", "authorize"} => Authorized(q)

RequestsOK == \A h \in Handlers : RequestOK(req[h], pc[h], tx[h])

SessionsOK ==
  /\ Len(sessions) <= MaxSessions
  /\ \A b \in Browsers : Known(cookie[b])

\* Ids are drawn within the bound; the configuration of a source is the last of
\* those it has had, and urls are unique.
TablesOK ==
  /\ log \in [Sources -> Seq(Config)]
  /\ \A s \in Sources :
       IF configs[s] = Absent THEN log[s] = <<>>
       ELSE /\ s <= lastId /\ log[s] # <<>>
            /\ configs[s] = log[s][Len(log[s])]
            /\ UrlFree(configs, s, configs[s])

DrawsBounded == lastId + Cardinality(Drawing) <= MaxSources

\* Two transactions hold different rows, and the rows they have written differ
\* in their urls, from each other and from those of other sources.
LocksApart ==
  \A h, q \in Handlers : tx[h].locked /\ tx[q].locked /\ tx[h].source = tx[q].source => h = q

UrlsApart ==
  \A h \in Handlers : tx[h].wrote =>
    /\ UrlFree(configs, tx[h].source, tx[h].target)
    /\ \A q \in Handlers : tx[q].wrote /\ tx[q].target.url = tx[h].target.url => q = h

ChangesOK == \A i \in DOMAIN changes : Authorized(changes[i])

RegistryInv ==
  /\ TypeOK /\ RequestsOK /\ SessionsOK /\ TablesOK
  /\ DrawsBounded /\ LocksApart /\ UrlsApart /\ ChangesOK

\* The counts of AuditAccountsForChanges.
RecordedBy(u, x) == Cardinality({i \in DOMAIN audits : audits[i] = [actor |-> u, object |-> x]})
ChangedBy(u, x) ==
  Cardinality({i \in DOMAIN changes :
                 changes[i].actor = u /\ [type |-> changes[i].type, id |-> changes[i].id] = x})
PendingBy(u, x) == Cardinality({h \in Handlers : pc[h] = "audit" /\ req[h].actor = u /\ Object(h) = x})

Accounted(u, x) ==
  /\ RecordedBy(u, x) + PendingBy(u, x) <= ChangedBy(u, x)
  /\ ChangedBy(u, x) <= RecordedBy(u, x) + PendingBy(u, x) + used.faults

UsedOK == used \in [requests : Nat, faults : Nat]

IInv == RegistryInv /\ UsedOK /\ \A u \in Users, x \in Objects : Accounted(u, x)

-----------------------------------------------------------------------------
\* Sets that types are stated with.

Labels ==
  {"idle", "page", "authorize", "moderate", "read", "lock", "insert", "write", "policy", "audit"}

Transaction ==
  [source : 0..MaxSources, target : Config \cup {Absent}, locked : BOOLEAN, wrote : BOOLEAN]

AuditEvents == [actor : Users, object : Objects]

\* Fields of a body over a configuration make a configuration.
LEMMA MergeTyped ==
  ASSUME NEW body \in CreateBodies \cup PatchBodies, NEW c \in Config
  PROVE  Merge(body, c) \in Config
<1>1. PICK d \in Config : \A f \in DOMAIN body : body[f] = d[f]
  BY ConfigAssumption
<1>2. \A f \in Fields : Merge(body, c)[f] = d[f] \/ Merge(body, c)[f] = c[f]
  BY <1>1 DEF Merge
<1>3. Merge(body, c) = [url |-> Merge(body, c).url, enabled |-> Merge(body, c).enabled,
                        crawl |-> Merge(body, c).crawl, rights |-> Merge(body, c).rights]
  BY DEF Merge, Fields
<1>4. /\ Merge(body, c).url \in Urls /\ Merge(body, c).enabled \in BOOLEAN
      /\ Merge(body, c).crawl \in BOOLEAN /\ Merge(body, c).rights \in RightsPolicies
  BY <1>2 DEF Fields, Config
<1>5. QED
  BY <1>3, <1>4 DEF Config

LEMMA NoRequestTyped == NoRequest \in Request /\ NoTx \in Transaction
<1>1. 0 \in Tokens /\ 0 \in 0..MaxSources
  BY SessionsAssumption, ConfigAssumption DEF Tokens
<1>2. QED
  BY <1>1 DEF NoRequest, NoTx, Request, Transaction

-----------------------------------------------------------------------------
\* What survives when others change the sessions and the sources.

RegistryAdvance ==
  /\ disabled \subseteq disabled'
  /\ \A t \in DOMAIN sessions :
       /\ t \in DOMAIN sessions'
       /\ sessions'[t].user = sessions[t].user
       /\ sessions'[t].live => sessions[t].live
  /\ lastId <= lastId'
  /\ \A s \in Sources :
       /\ configs[s] # Absent => configs'[s] # Absent
       /\ Len(log[s]) <= Len(log'[s])
       /\ \A i \in 1..Len(log[s]) : log'[s][i] = log[s][i]

LEMMA OverStays ==
  ASSUME RegistryAdvance, sessions' \in Seq(Session), NEW token, Known(token), IsOver(token)
  PROVE  IsOver(token)'
BY DEF RegistryAdvance, Known, IsOver, Live

LEMMA AuthorizedStays ==
  ASSUME RegistryAdvance, NEW q, Authorized(q)
  PROVE  Authorized(q)'
BY DEF RegistryAdvance, Authorized

LEMMA TransactionStays ==
  ASSUME RegistryAdvance, lastId \in Nat, lastId' \in Nat,
         log \in [Sources -> Seq(Config)], log' \in [Sources -> Seq(Config)],
         NEW q, NEW label, NEW t, InTransaction(q, label, t),
         t.locked /\ configs[t.source] = Absent => configs'[t.source] = Absent
  PROVE  InTransaction(q, label, t)'
<1>1. t.source \in Sources /\ t.source <= lastId /\ Sources \subseteq Nat
  BY DEF InTransaction, Sources
<1>2. t.source <= lastId'
  <2>1. lastId <= lastId'
    BY DEF RegistryAdvance
  <2>2. QED
    BY <1>1, <2>1
<1>3. CASE Updating(q, t)
  <2>1. PICK i \in 1..Len(log[t.source]) : i >= q.since /\ t.target = Merge(q.body, log[t.source][i])
    BY <1>3 DEF Updating
  <2>2. i \in 1..Len(log'[t.source]) /\ log'[t.source][i] = log[t.source][i]
    <3>1. /\ Len(log[t.source]) <= Len(log'[t.source])
          /\ \A j \in 1..Len(log[t.source]) : log'[t.source][j] = log[t.source][j]
      BY <1>1 DEF RegistryAdvance
    <3>2. Len(log[t.source]) \in Nat /\ Len(log'[t.source]) \in Nat
      BY <1>1
    <3>3. QED
      BY <2>1, <3>1, <3>2
  <2>3. configs'[t.source] # Absent
    BY <1>1, <1>3 DEF RegistryAdvance, Updating
  <2>4. Updating(q, t)'
    BY <1>3, <2>1, <2>2, <2>3 DEF Updating
  <2>5. QED
    BY <1>2, <2>4 DEF InTransaction
<1>4. CASE label # "lock" /\ Creating(q, t)
  <2>1. Creating(q, t)'
    BY <1>4 DEF Creating, InTransaction
  <2>2. QED
    BY <1>2, <1>4, <2>1 DEF InTransaction
<1>5. QED
  BY <1>3, <1>4 DEF InTransaction

LEMMA AskedStays ==
  ASSUME RegistryAdvance, NEW q \in Request, Asked(q),
         log \in [Sources -> Seq(Config)], log' \in [Sources -> Seq(Config)]
  PROVE  Asked(q)'
<1>1. q.id \in Sources => Len(log[q.id]) <= Len(log'[q.id]) /\ Len(log[q.id]) \in Nat /\ Len(log'[q.id]) \in Nat
  BY DEF RegistryAdvance
<1>2. q.since \in Nat
  BY DEF Request
<1>3. QED
  BY <1>1, <1>2 DEF Asked

LEMMA RequestStays ==
  ASSUME RegistryAdvance, sessions' \in Seq(Session), lastId \in Nat, lastId' \in Nat,
         log \in [Sources -> Seq(Config)], log' \in [Sources -> Seq(Config)],
         NEW q \in Request, NEW label, NEW t, RequestOK(q, label, t),
         t.locked /\ configs[t.source] = Absent => configs'[t.source] = Absent
  PROVE  RequestOK(q, label, t)'
<1>1. Known(q.token) => Known(q.token)'
  BY DEF Known, RegistryAdvance
<1>2. Asked(q) => Asked(q)'
  BY AskedStays
<1>3. InTransaction(q, label, t) => InTransaction(q, label, t)'
  BY TransactionStays
<1>4. Authorized(q) => Authorized(q)'
  BY AuthorizedStays
<1>5. Known(q.token) /\ IsOver(q.token) => IsOver(q.token)'
  BY OverStays
<1>6. QED
  BY <1>1, <1>2, <1>3, <1>4, <1>5 DEF RequestOK

-----------------------------------------------------------------------------
\* Steps of one handler.

\* The requests of the others stay sound.
LEMMA RequestsStay ==
  ASSUME RegistryInv, RegistryAdvance, TypeOK', log' \in [Sources -> Seq(Config)],
         \A p \in Handlers :
           \/ RequestOK(req[p], pc[p], tx[p])'
           \/ /\ req'[p] = req[p] /\ pc'[p] = pc[p] /\ tx'[p] = tx[p]
              /\ tx[p].locked /\ configs[tx[p].source] = Absent => configs'[tx[p].source] = Absent
  PROVE  RequestsOK'
<1>1. SUFFICES ASSUME NEW p \in Handlers PROVE RequestOK(req[p], pc[p], tx[p])'
  BY DEF RequestsOK
<1>2. CASE /\ req'[p] = req[p] /\ pc'[p] = pc[p] /\ tx'[p] = tx[p]
           /\ tx[p].locked /\ configs[tx[p].source] = Absent => configs'[tx[p].source] = Absent
  <2>1. SUFFICES ASSUME NEW q, NEW label, NEW t, q = req[p], label = pc[p], t = tx[p]
                 PROVE  RequestOK(q, label, t)'
    BY <1>2
  <2>2. q \in Request /\ RequestOK(q, label, t)
    BY <2>1 DEF RegistryInv, RequestsOK, TypeOK
  <2>3. t.locked /\ configs[t.source] = Absent => configs'[t.source] = Absent
    BY <1>2, <2>1
  <2>4. /\ sessions' \in Seq(Session) /\ lastId \in Nat /\ lastId' \in Nat
        /\ log \in [Sources -> Seq(Config)]
    BY ConfigAssumption DEF RegistryInv, TypeOK, TablesOK
  <2>5. QED
    BY <2>2, <2>3, <2>4, RequestStays
<1>3. QED
  BY <1>2

\* Fewer requests to draw an id for.
LEMMA FewerDraws ==
  ASSUME DrawsBounded, lastId \in Nat, lastId' = lastId, Drawing' \subseteq Drawing
  PROVE  DrawsBounded'
<1>1. IsFiniteSet(Drawing)
  BY AdminAssumption, FS_Subset DEF Drawing
<1>2. Cardinality(Drawing') <= Cardinality(Drawing) /\ Cardinality(Drawing') \in Nat /\ Cardinality(Drawing) \in Nat
  BY <1>1, FS_Subset, FS_CardinalityType
<1>3. MaxSources \in Nat
  BY ConfigAssumption
<1>4. QED
  BY <1>2, <1>3 DEF DrawsBounded

\* A handler goes to a label with a request and a transaction.
Goes(h, q, label, t) ==
  /\ req' = [req EXCEPT ![h] = q]
  /\ pc' = [pc EXCEPT ![h] = label]
  /\ tx' = [tx EXCEPT ![h] = t]

LEMMA GoesEffect ==
  ASSUME TypeOK, NEW h \in Handlers, NEW q, NEW label, NEW t, Goes(h, q, label, t)
  PROVE  /\ req'[h] = q /\ pc'[h] = label /\ tx'[h] = t
         /\ \A p \in Handlers \ {h} : req'[p] = req[p] /\ pc'[p] = pc[p] /\ tx'[p] = tx[p]
BY DEF Goes, TypeOK

LEMMA DrawingShrinks ==
  ASSUME TypeOK, NEW h \in Handlers, NEW q, NEW label, NEW t, Goes(h, q, label, t),
         q.type = "source" /\ q.id = 0 /\ label \in {"page", "authorize", "insert"} => h \in Drawing
  PROVE  Drawing' \subseteq Drawing
BY GoesEffect DEF Drawing

\* A step of one handler that changes no source and no session.
LEMMA QuietStep ==
  ASSUME RegistryInv, NEW h \in Handlers,
         NEW q \in Request, NEW label \in Labels, NEW t \in Transaction, Goes(h, q, label, t),
         UNCHANGED <<configs, lastId, log, sessions, disabled>>,
         RequestOK(q, label, t), DrawsBounded',
         t.locked => \A p \in Handlers \ {h} : tx[p].locked => tx[p].source # t.source,
         t.wrote => /\ UrlFree(configs, t.source, t.target)
                    /\ \A p \in Handlers \ {h} : tx[p].wrote => tx[p].target.url # t.target.url,
         cookie' \in [Browsers -> Tokens], \A b \in Browsers : Known(cookie'[b]),
         lifecycle' \in [RawEntryIds -> {"candidate", "hidden"}],
         reviews' \in [FeedbackIds -> ReviewBodies \cup {[status |-> "open"]}],
         audits' \in Seq(AuditEvents),
         changes' \in Seq(Request), \A i \in DOMAIN changes' : Authorized(changes'[i])
  PROVE  RegistryInv'
<1>1. /\ req'[h] = q /\ pc'[h] = label /\ tx'[h] = t
      /\ \A p \in Handlers \ {h} : req'[p] = req[p] /\ pc'[p] = pc[p] /\ tx'[p] = tx[p]
  BY GoesEffect DEF RegistryInv
<1>2. t.locked => label \in {"write", "policy"}
  BY DEF RequestOK, InTransaction, NoTx
<1>3. TypeOK'
  <2>1. /\ req' \in [Handlers -> Request] /\ pc' \in [Handlers -> Labels]
        /\ tx' \in [Handlers -> Transaction]
    BY DEF Goes, RegistryInv, TypeOK, Labels, Transaction
  <2>2. \A p \in Handlers : tx'[p].locked => pc'[p] \in {"write", "policy"}
    BY <1>1, <1>2 DEF RegistryInv, TypeOK
  <2>3. sessions' \in Seq(Session) /\ disabled' \subseteq Users
    BY DEF RegistryInv, TypeOK
  <2>4. configs' \in [Sources -> Config \cup {Absent}] /\ lastId' \in 0..MaxSources
    BY DEF RegistryInv, TypeOK
  <2>5. audits' \in Seq([actor : Users, object : Objects])'
    BY DEF AuditEvents, Objects
  <2>6. QED
    BY <2>1, <2>2, <2>3, <2>4, <2>5 DEF TypeOK, Labels, Transaction
<1>4. RegistryAdvance
  <2>1. /\ lastId \in Nat /\ \A s \in Sources : Len(log[s]) \in Nat
    BY ConfigAssumption DEF RegistryInv, TypeOK, TablesOK
  <2>2. QED
    BY <2>1 DEF RegistryAdvance
<1>5. TablesOK' /\ log' \in [Sources -> Seq(Config)]
  BY DEF RegistryInv, TablesOK
<1>6. RequestsOK'
  <2>1. RequestOK(req[h], pc[h], tx[h])'
    <3>1. SUFFICES ASSUME NEW r, NEW l, NEW x, r = q, l = label, x = t PROVE RequestOK(r, l, x)'
      BY <1>1
    <3>2. RequestOK(r, l, x) /\ r \in Request
      BY <3>1
    <3>3. /\ sessions' \in Seq(Session) /\ lastId \in Nat /\ lastId' \in Nat
          /\ log \in [Sources -> Seq(Config)]
      BY ConfigAssumption DEF RegistryInv, TypeOK, TablesOK
    <3>4. QED
      BY <1>4, <1>5, <3>2, <3>3, RequestStays
  <2>2. QED
    BY <1>1, <1>3, <1>4, <1>5, <2>1, RequestsStay
<1>7. SessionsOK'
  BY DEF RegistryInv, SessionsOK, Known
<1>8. LocksApart'
  BY <1>1 DEF RegistryInv, LocksApart
<1>9. UrlsApart'
  <2>1. UrlsApart
    BY DEF RegistryInv
  <2>2. QED
    BY <1>1, <2>1 DEF UrlsApart, UrlFree
<1>10. ChangesOK'
  BY DEF ChangesOK, Authorized
<1>11. QED
  BY <1>3, <1>5, <1>6, <1>7, <1>8, <1>9, <1>10 DEF RegistryInv

\* A request is answered: its handler holds nothing any more.
LEMMA AnsweredStep ==
  ASSUME RegistryInv, NEW h \in Handlers, Answer(h),
         UNCHANGED <<configs, lastId, log, sessions, disabled, lifecycle, reviews, changes>>,
         cookie' \in [Browsers -> Tokens], \A b \in Browsers : Known(cookie'[b]),
         audits' \in Seq(AuditEvents)
  PROVE  RegistryInv'
<1>1. Goes(h, NoRequest, "idle", NoTx)
  BY DEF Answer, Goes
<1>2. RequestOK(NoRequest, "idle", NoTx) /\ NoRequest.type = "none" /\ ~NoTx.locked /\ ~NoTx.wrote
  BY DEF RequestOK, NoRequest, NoTx
<1>3. DrawsBounded'
  <2>1. Drawing' \subseteq Drawing
    BY <1>1, <1>2, DrawingShrinks DEF RegistryInv
  <2>2. QED
    BY <2>1, FewerDraws, ConfigAssumption DEF RegistryInv, TypeOK
<1>4. /\ lifecycle' \in [RawEntryIds -> {"candidate", "hidden"}]
      /\ reviews' \in [FeedbackIds -> ReviewBodies \cup {[status |-> "open"]}]
      /\ changes' \in Seq(Request)
  BY DEF RegistryInv, TypeOK
<1>5. \A i \in DOMAIN changes' : Authorized(changes'[i])
  BY DEF RegistryInv, ChangesOK
<1> HIDE DEF NoRequest, NoTx
<1>6. QED
  BY <1>1, <1>2, <1>3, <1>4, <1>5, NoRequestTyped, QuietStep DEF Labels

\* The cookies and the audit log stay.
LEMMA AnsweredQuietly ==
  ASSUME RegistryInv, NEW h \in Handlers, Answer(h),
         UNCHANGED <<configs, lastId, log, sessions, disabled, lifecycle, reviews, changes, cookie, audits>>
  PROVE  RegistryInv'
<1>1. cookie' \in [Browsers -> Tokens] /\ \A b \in Browsers : Known(cookie'[b])
  BY DEF RegistryInv, TypeOK, SessionsOK
<1>2. audits' \in Seq(AuditEvents)
  BY DEF RegistryInv, TypeOK, AuditEvents
<1>3. QED
  BY <1>1, <1>2, AnsweredStep

-----------------------------------------------------------------------------
\* Each action keeps the registry's invariant.

LEMMA RequestOf ==
  ASSUME RegistryInv, NEW h \in Handlers
  PROVE  /\ req[h] \in Request /\ pc[h] \in Labels /\ tx[h] \in Transaction
         /\ RequestOK(req[h], pc[h], tx[h])
BY DEF RegistryInv, TypeOK, RequestsOK, Labels, Transaction

LEMMA TablesTyped ==
  ASSUME RegistryInv
  PROVE  /\ sessions \in Seq(Session) /\ disabled \subseteq Users
         /\ cookie \in [Browsers -> Tokens] /\ (\A b \in Browsers : Known(cookie[b]))
         /\ configs \in [Sources -> Config \cup {Absent}] /\ log \in [Sources -> Seq(Config)]
         /\ lastId \in 0..MaxSources /\ lastId \in Nat /\ MaxSources \in Nat
         /\ lifecycle \in [RawEntryIds -> {"candidate", "hidden"}]
         /\ reviews \in [FeedbackIds -> ReviewBodies \cup {[status |-> "open"]}]
         /\ audits \in Seq(AuditEvents)
         /\ changes \in Seq(Request) /\ (\A i \in DOMAIN changes : Authorized(changes[i]))
BY ConfigAssumption DEF RegistryInv, TypeOK, SessionsOK, TablesOK, ChangesOK, AuditEvents

LEMMA AcceptsAsked ==
  ASSUME NEW type, NEW id \in Nat, NEW body, Accepts(type, id, body),
         type \in {"source", "raw_entry", "reader_feedback"}
  PROVE  \/ type = "source" /\ id = 0 /\ body \in CreateBodies
         \/ type = "source" /\ id \in Sources /\ id # 0 /\ body \in PatchBodies
         \/ type = "raw_entry" /\ body \in LifecycleBodies
         \/ type = "reader_feedback" /\ body \in ReviewBodies
BY DEF Accepts

\* A handler more that may draw an id.
LEMMA OneMoreDraws ==
  ASSUME DrawsBounded, lastId \in Nat, lastId' = lastId, NEW h, Drawing' \subseteq Drawing \cup {h},
         lastId + Cardinality(Drawing) < MaxSources
  PROVE  DrawsBounded'
<1>1. IsFiniteSet(Drawing)
  BY AdminAssumption, FS_Subset DEF Drawing
<1>2. /\ IsFiniteSet(Drawing \cup {h})
      /\ Cardinality(Drawing \cup {h}) <= Cardinality(Drawing) + 1
      /\ Cardinality(Drawing) \in Nat /\ Cardinality(Drawing \cup {h}) \in Nat
  <2>1. Cardinality(Drawing) \in Nat
    BY <1>1, FS_CardinalityType
  <2>2. /\ IsFiniteSet(Drawing \cup {h})
        /\ Cardinality(Drawing \cup {h}) =
             IF h \in Drawing THEN Cardinality(Drawing) ELSE Cardinality(Drawing) + 1
    BY <1>1, FS_AddElement
  <2>3. QED
    BY <2>1, <2>2
<1>3. Cardinality(Drawing') <= Cardinality(Drawing \cup {h}) /\ Cardinality(Drawing') \in Nat
  BY <1>2, FS_Subset, FS_CardinalityType
<1>4. MaxSources \in Nat
  BY ConfigAssumption
<1>5. QED
  BY <1>2, <1>3, <1>4 DEF DrawsBounded

LEMMA TakeSound ==
  ASSUME RegistryInv, NEW h \in Handlers, NEW b \in Browsers, NEW id \in Nat, NEW body,
         NEW type \in {"source", "raw_entry", "reader_feedback"},
         NEW label \in {"page", "authorize"}, Take(h, b, type, id, body, label)
  PROVE  RegistryInv'
<1> DEFINE since == IF type = "source" /\ id # 0 THEN Len(log[id]) ELSE 0
           q == [browser |-> b, token |-> cookie[b], type |-> type, id |-> id, body |-> body,
                 actor |-> NoUser, late |-> IsOver(cookie[b]), since |-> since]
<1>1. /\ pc[h] = "idle" /\ Accepts(type, id, body)
      /\ type = "source" /\ id = 0 => lastId + Cardinality(Drawing) < MaxSources
      /\ req' = [req EXCEPT ![h] = q] /\ pc' = [pc EXCEPT ![h] = label]
      /\ UNCHANGED <<tableVars, tx, sessionVars>>
  BY Zenon DEF Take
<1>2. /\ q.browser = b /\ q.token = cookie[b] /\ q.type = type /\ q.id = id /\ q.body = body
      /\ q.actor = NoUser /\ (q.late <=> IsOver(cookie[b])) /\ q.since = since
  OBVIOUS
<1>3. tx[h] = NoTx /\ tx \in [Handlers -> Transaction]
  BY <1>1, RequestOf DEF RequestOK, RegistryInv, TypeOK, Transaction
<1>4. /\ configs' = configs /\ lastId' = lastId /\ log' = log /\ sessions' = sessions
      /\ disabled' = disabled /\ cookie' = cookie /\ lifecycle' = lifecycle /\ reviews' = reviews
      /\ audits' = audits /\ changes' = changes
  BY <1>1 DEF tableVars, sessionVars, moderated
<1>5. \/ type = "source" /\ id = 0 /\ body \in CreateBodies
      \/ type = "source" /\ id \in Sources /\ id # 0 /\ body \in PatchBodies
      \/ type = "raw_entry" /\ body \in LifecycleBodies
      \/ type = "reader_feedback" /\ body \in ReviewBodies
  BY <1>1, AcceptsAsked
<1>6. since \in Nat /\ (id \in Sources /\ id # 0 /\ type = "source" => since = Len(log[id]))
      /\ (type = "source" /\ id = 0 => since = 0)
  BY <1>5, TablesTyped
<1>7. q \in Request
  <2>1. cookie[b] \in Tokens /\ IsOver(cookie[b]) \in BOOLEAN
    BY TablesTyped DEF IsOver
  <2>2. body \in CreateBodies \cup PatchBodies \cup LifecycleBodies \cup ReviewBodies \cup {<<>>}
    BY <1>5
  <2> HIDE DEF since
  <2>3. QED
    BY <1>6, <2>1, <2>2 DEF Request
<1>8. Goes(h, q, label, NoTx)
  <2>1. tx' = [tx EXCEPT ![h] = NoTx]
    BY <1>1, <1>3
  <2> HIDE DEF q
  <2>2. QED
    BY <1>1, <2>1 DEF Goes
<1> HIDE DEF q
<1>9. RequestOK(q, label, NoTx)
  <2>1. Known(cookie[b])
    BY TablesTyped
  <2>2. Asked(q)
    <3> HIDE DEF since
    <3> QED
      BY <1>2, <1>5, <1>6 DEF Asked
  <2>3. QED
    BY <1>2, <2>1, <2>2 DEF RequestOK
<1>10. DrawsBounded'
  <2>1. CASE type = "source" /\ id = 0
    <3>1. Drawing' \subseteq Drawing \cup {h}
      BY <1>8, GoesEffect DEF Drawing, RegistryInv
    <3>2. QED
      BY <1>1, <1>4, <2>1, <3>1, OneMoreDraws, TablesTyped DEF RegistryInv
  <2>2. CASE ~(type = "source" /\ id = 0)
    <3>1. Drawing' \subseteq Drawing
      BY <1>2, <1>8, <2>2, DrawingShrinks DEF RegistryInv
    <3>2. QED
      BY <1>4, <3>1, FewerDraws, TablesTyped DEF RegistryInv
  <2>3. QED
    BY <2>1, <2>2
<1>11. ~NoTx.locked /\ ~NoTx.wrote /\ NoTx \in Transaction /\ label \in Labels
  BY NoRequestTyped DEF NoTx, Labels
<1>12. QED
  BY <1>4, <1>7, <1>8, <1>9, <1>10, <1>11, TablesTyped, QuietStep

LEMMA PageSound ==
  ASSUME RegistryInv, NEW h \in Handlers, RequireAdminSession(h)
  PROVE  RegistryInv' /\ UNCHANGED <<audits, changes, used>> /\ pc[h] = "page" /\ pc'[h] # "audit"
<1>1. pc[h] = "page" /\ UNCHANGED <<tableVars, sessionVars, used>>
  BY DEF RequireAdminSession
<1>2. /\ configs' = configs /\ lastId' = lastId /\ log' = log /\ sessions' = sessions
      /\ disabled' = disabled /\ cookie' = cookie /\ lifecycle' = lifecycle /\ reviews' = reviews
      /\ audits' = audits /\ changes' = changes /\ used' = used
  BY <1>1 DEF tableVars, sessionVars, moderated
<1>3. CASE Answer(h)
  BY <1>1, <1>2, <1>3, AnsweredQuietly DEF Answer, RegistryInv, TypeOK
<1>4. CASE pc' = [pc EXCEPT ![h] = "authorize"] /\ UNCHANGED <<req, tx>>
  <2>1. Goes(h, req[h], "authorize", tx[h])
    BY <1>4 DEF Goes, RegistryInv, TypeOK
  <2>2. RequestOK(req[h], "authorize", tx[h]) /\ tx[h] = NoTx
    BY <1>1, RequestOf DEF RequestOK
  <2>3. ~tx[h].locked /\ ~tx[h].wrote
    BY <2>2 DEF NoTx
  <2>4. DrawsBounded'
    <3>1. Drawing' \subseteq Drawing
      BY <1>1, <2>1, DrawingShrinks DEF RegistryInv, Drawing
    <3>2. QED
      BY <1>2, <3>1, FewerDraws, TablesTyped DEF RegistryInv
  <2>5. RegistryInv'
    BY <1>2, <2>1, <2>2, <2>3, <2>4, RequestOf, TablesTyped, QuietStep DEF Labels
  <2>6. QED
    BY <1>1, <1>2, <1>4, <2>5 DEF RegistryInv, TypeOK
<1>5. QED
  BY <1>3, <1>4 DEF RequireAdminSession

\* What the guard finds behind a token.
LEMMA AdministratorOf ==
  ASSUME RegistryInv, NEW token, NEW u \in AdminUsers(token)
  PROVE  u \in Admins /\ token \in DOMAIN sessions /\ sessions[token].user = u /\ ~IsOver(token)
BY DEF AdminUsers, CurrentUser, Live, IsOver

LEMMA AuthorizeSound ==
  ASSUME RegistryInv, NEW h \in Handlers, Authorize(h)
  PROVE  RegistryInv' /\ UNCHANGED <<audits, changes, used>> /\ pc[h] = "authorize" /\ pc'[h] # "audit"
<1>1. pc[h] = "authorize" /\ UNCHANGED <<tableVars, sessions, disabled, used>>
  BY DEF Authorize
<1>2. /\ configs' = configs /\ lastId' = lastId /\ log' = log /\ sessions' = sessions
      /\ disabled' = disabled /\ lifecycle' = lifecycle /\ reviews' = reviews
      /\ audits' = audits /\ changes' = changes /\ used' = used
  BY <1>1 DEF tableVars, moderated
<1>3. /\ req[h] \in Request /\ RequestOK(req[h], "authorize", tx[h]) /\ tx[h] = NoTx /\ tx[h] \in Transaction
      /\ Asked(req[h]) /\ req[h].browser \in Browsers
  BY <1>1, RequestOf DEF RequestOK
<1>4. CASE Unauthenticated(h) \/ NoAdmin(h)
  <2>1. Answer(h)
    BY <1>4 DEF Unauthenticated, NoAdmin
  <2>2. cookie' \in [Browsers -> Tokens] /\ \A b \in Browsers : Known(cookie'[b])
    <3>1. 0 \in Tokens /\ Known(0)
      BY SessionsAssumption DEF Tokens, Known
    <3>2. CASE Unauthenticated(h)
      BY <1>3, <3>1, <3>2, TablesTyped DEF Unauthenticated
    <3>3. CASE NoAdmin(h)
      BY <3>3, TablesTyped DEF NoAdmin
    <3>4. QED
      BY <1>4, <3>2, <3>3
  <2>3. RegistryInv'
    BY <1>2, <2>1, <2>2, TablesTyped, AnsweredStep
  <2>4. QED
    BY <1>1, <1>2, <2>1, <2>3 DEF Answer, RegistryInv, TypeOK
<1>5. CASE LetThrough(h)
  <2>1. PICK u \in AdminUsers(req[h].token) : req' = [req EXCEPT ![h].actor = u]
    BY <1>5 DEF LetThrough
  <2> DEFINE q == [req[h] EXCEPT !.actor = u]
             label == FirstStep(h)
  <2>2. pc' = [pc EXCEPT ![h] = label] /\ UNCHANGED <<tx, cookie>>
    BY <1>5 DEF LetThrough
  <2>3. /\ u \in Admins /\ req[h].token \in DOMAIN sessions
        /\ sessions[req[h].token].user = u /\ ~IsOver(req[h].token) /\ u \in Users
    BY <2>1, AdministratorOf, SessionsAssumption
  <2>4. /\ q \in Request /\ q.browser = req[h].browser /\ q.token = req[h].token /\ q.type = req[h].type
        /\ q.id = req[h].id /\ q.body = req[h].body /\ (q.late <=> req[h].late)
        /\ q.since = req[h].since /\ q.actor = u
    BY <1>3, <2>3 DEF Request
  <2>5. /\ label \in {"moderate", "insert", "read"} /\ label \in Labels
        /\ label = "moderate" => q.type # "source"
        /\ label = "insert" => q.type = "source" /\ q.id = 0
        /\ label = "read" => q.type = "source" /\ q.id # 0
    BY <2>4 DEF FirstStep, Labels
  <2>6. Goes(h, q, label, tx[h])
    BY <2>1, <2>2 DEF Goes, RegistryInv, TypeOK
  <2> HIDE DEF q, label
  <2>7. Asked(q) /\ Known(q.token) /\ ~IsOver(q.token) /\ ~q.late /\ Authorized(q)
    BY <1>3, <2>3, <2>4 DEF Asked, Known, Authorized, RequestOK
  <2>8. RequestOK(q, label, tx[h])
    BY <1>3, <2>4, <2>5, <2>7 DEF RequestOK
  <2>9. ~tx[h].locked /\ ~tx[h].wrote
    BY <1>3 DEF NoTx
  <2>10. DrawsBounded'
    <3>1. Drawing' \subseteq Drawing
      BY <1>1, <2>4, <2>6, DrawingShrinks DEF RegistryInv, Drawing
    <3>2. QED
      BY <1>2, <3>1, FewerDraws, TablesTyped DEF RegistryInv
  <2>11. cookie' = cookie
    BY <2>2
  <2>12. RegistryInv'
    BY <1>2, <1>3, <2>4, <2>5, <2>6, <2>8, <2>9, <2>10, <2>11, TablesTyped, QuietStep
  <2>13. QED
    BY <1>1, <1>2, <2>2, <2>5, <2>12 DEF RegistryInv, TypeOK
<1>6. QED
  BY <1>4, <1>5 DEF Authorize

\* The rows that a moderating request names.
LEMMA ObjectRows ==
  ASSUME NEW h, Object(h) \in Objects
  PROVE  /\ req[h].type = "raw_entry" => req[h].id \in RawEntryIds
         /\ req[h].type = "reader_feedback" => req[h].id \in FeedbackIds
BY DEF Object, Objects

LEMMA ChangeLogged ==
  ASSUME RegistryInv, NEW q \in Request, Authorized(q), changes' = Append(changes, q)
  PROVE  changes' \in Seq(Request) /\ \A i \in DOMAIN changes' : Authorized(changes'[i])
<1>1. changes \in Seq(Request) /\ \A i \in DOMAIN changes : Authorized(changes[i])
  BY TablesTyped
<1>2. /\ changes' \in Seq(Request) /\ DOMAIN changes' = 1..Len(changes) + 1 /\ DOMAIN changes = 1..Len(changes)
      /\ Len(changes) \in Nat /\ changes'[Len(changes) + 1] = q
      /\ \A i \in 1..Len(changes) : changes'[i] = changes[i]
  BY <1>1
<1>3. QED
  BY <1>1, <1>2

LEMMA ModeratedSound ==
  ASSUME RegistryInv, NEW h \in Handlers, pc[h] = "moderate", Moderated(h),
         UNCHANGED <<configs, lastId, audits, log, sessionVars, used>>,
         lifecycle' \in [RawEntryIds -> {"candidate", "hidden"}],
         reviews' \in [FeedbackIds -> ReviewBodies \cup {[status |-> "open"]}]
  PROVE  RegistryInv' /\ Goes(h, req[h], "audit", NoTx) /\ changes' = Append(changes, req[h])
<1>1. /\ req[h] \in Request /\ RequestOK(req[h], "moderate", tx[h]) /\ tx[h] = NoTx /\ NoTx \in Transaction
  BY RequestOf, NoRequestTyped DEF RequestOK
<1>2. /\ Object(h) \in Objects /\ changes' = Append(changes, req[h])
      /\ pc' = [pc EXCEPT ![h] = "audit"] /\ UNCHANGED <<req, tx>>
  BY DEF Moderated
<1>3. Goes(h, req[h], "audit", NoTx)
  BY <1>1, <1>2 DEF Goes, RegistryInv, TypeOK
<1>4. Authorized(req[h])
  BY <1>1 DEF RequestOK
<1>5. RequestOK(req[h], "audit", NoTx)
  BY <1>1, <1>2 DEF RequestOK, Object
<1>6. changes' \in Seq(Request) /\ \A i \in DOMAIN changes' : Authorized(changes'[i])
  BY <1>1, <1>2, <1>4, ChangeLogged
<1>7. ~NoTx.locked /\ ~NoTx.wrote
  BY DEF NoTx
<1>8. DrawsBounded'
  <2>1. Drawing' \subseteq Drawing
    BY <1>3, DrawingShrinks DEF RegistryInv
  <2>2. QED
    BY <2>1, FewerDraws, TablesTyped DEF RegistryInv
<1>9. sessions' = sessions /\ disabled' = disabled /\ cookie' = cookie
  BY DEF sessionVars
<1>10. RegistryInv'
  BY <1>1, <1>3, <1>5, <1>6, <1>7, <1>8, <1>9, TablesTyped, QuietStep DEF Labels
<1>11. QED
  BY <1>2, <1>3, <1>10

LEMMA ModerateSound ==
  ASSUME RegistryInv, NEW h \in Handlers, Moderate(h)
  PROVE  /\ RegistryInv' /\ UNCHANGED <<audits, used>> /\ pc[h] = "moderate"
         /\ \/ Answer(h) /\ UNCHANGED changes
            \/ Goes(h, req[h], "audit", NoTx) /\ changes' = Append(changes, req[h])
<1>1. pc[h] = "moderate" /\ UNCHANGED <<configs, lastId, audits, log, sessionVars, used>>
  BY DEF Moderate
<1>2. sessions' = sessions /\ disabled' = disabled /\ cookie' = cookie
  BY <1>1 DEF sessionVars
<1>3. CASE NothingToModerate(h)
  <2>1. Answer(h) /\ lifecycle' = lifecycle /\ reviews' = reviews /\ changes' = changes
    BY <1>3 DEF NothingToModerate, moderated
  <2>2. QED
    BY <1>1, <1>2, <2>1, AnsweredQuietly
<1>4. CASE UpdateRawEntryLifecycle(h)
  <2>1. /\ Moderated(h) /\ req[h].type = "raw_entry" /\ reviews' = reviews
        /\ lifecycle' = [lifecycle EXCEPT ![req[h].id] =
                            IF req[h].body.action = "hide" THEN "hidden" ELSE "candidate"]
    BY <1>4 DEF UpdateRawEntryLifecycle
  <2>2. QED
    BY <1>1, <2>1, ModeratedSound, TablesTyped
<1>5. CASE UpdateFeedbackReview(h)
  <2>1. /\ Moderated(h) /\ req[h].type = "reader_feedback" /\ lifecycle' = lifecycle
        /\ reviews' = [reviews EXCEPT ![req[h].id] = req[h].body]
    BY <1>5 DEF UpdateFeedbackReview
  <2>2. req[h].body \in ReviewBodies
    BY <1>1, <2>1, RequestOf DEF RequestOK, Asked
  <2>3. QED
    BY <1>1, <2>1, <2>2, ModeratedSound, TablesTyped
<1>6. QED
  BY <1>3, <1>4, <1>5 DEF Moderate

LEMMA RecordAuditEventSound ==
  ASSUME RegistryInv, NEW h \in Handlers, RecordAuditEvent(h)
  PROVE  /\ RegistryInv' /\ UNCHANGED <<changes, used>> /\ pc[h] = "audit" /\ Answer(h)
         /\ audits' = Append(audits, AuditEvent(h)) /\ AuditEvent(h) \in AuditEvents
<1>1. /\ pc[h] = "audit" /\ audits' = Append(audits, AuditEvent(h)) /\ Answer(h)
      /\ UNCHANGED <<configs, lastId, moderated, log, changes, sessionVars, used>>
  BY DEF RecordAuditEvent
<1>2. /\ sessions' = sessions /\ disabled' = disabled /\ cookie' = cookie
      /\ lifecycle' = lifecycle /\ reviews' = reviews
  BY <1>1 DEF sessionVars, moderated
<1>3. Authorized(req[h]) /\ Object(h) \in Objects
  BY <1>1, RequestOf DEF RequestOK, Object
<1>4. AuditEvent(h) \in AuditEvents
  BY <1>3, SessionsAssumption DEF AuditEvent, AuditEvents, Authorized
<1>5. audits' \in Seq(AuditEvents)
  <2> HIDE DEF AuditEvents
  <2> QED
    BY <1>1, <1>4, TablesTyped
<1>6. RegistryInv'
  BY <1>1, <1>2, <1>5, TablesTyped, AnsweredStep
<1>7. QED
  BY <1>1, <1>4, <1>6

\* Faults, aborts, and conflicts.
LEMMA GivesUpSound ==
  ASSUME RegistryInv, NEW h \in Handlers, Answer(h), UNCHANGED <<tableVars, sessionVars>>
  PROVE  RegistryInv' /\ UNCHANGED <<audits, changes>>
BY AnsweredQuietly DEF tableVars, sessionVars, moderated

LEMMA ReadCurrentSound ==
  ASSUME RegistryInv, NEW h \in Handlers, ReadCurrent(h)
  PROVE  RegistryInv' /\ UNCHANGED <<audits, changes, used>> /\ pc[h] = "read" /\ pc'[h] # "audit"
<1> DEFINE s == req[h].id
<1>1. pc[h] = "read" /\ UNCHANGED <<tableVars, sessionVars, used>>
  BY DEF ReadCurrent
<1>2. /\ configs' = configs /\ lastId' = lastId /\ log' = log /\ sessions' = sessions
      /\ disabled' = disabled /\ cookie' = cookie /\ lifecycle' = lifecycle /\ reviews' = reviews
      /\ audits' = audits /\ changes' = changes /\ used' = used
  BY <1>1 DEF tableVars, sessionVars, moderated
<1>3. CASE Answer(h)
  BY <1>1, <1>2, <1>3, AnsweredQuietly DEF Answer, RegistryInv, TypeOK
<1>4. CASE /\ configs[s] # Absent
           /\ tx' = [tx EXCEPT ![h].source = s, ![h].target = Merged(h)]
           /\ pc' = [pc EXCEPT ![h] = "lock"] /\ UNCHANGED req
  <2> DEFINE t == [tx[h] EXCEPT !.source = s, !.target = Merged(h)]
  <2>1. /\ req[h] \in Request /\ RequestOK(req[h], "read", tx[h]) /\ tx[h] = NoTx
        /\ Asked(req[h]) /\ tx[h] \in Transaction
    BY <1>1, RequestOf DEF RequestOK
  <2>2. s \in Sources /\ req[h].type = "source" /\ req[h].body \in PatchBodies
        /\ req[h].since <= Len(log[s]) /\ req[h].since \in Nat
    BY <2>1 DEF RequestOK, Asked, Request
  <2>3. /\ s <= lastId /\ log[s] # <<>> /\ configs[s] = log[s][Len(log[s])] /\ log[s] \in Seq(Config)
        /\ configs[s] \in Config
    BY <1>4, <2>2, TablesTyped DEF RegistryInv, TablesOK
  <2>4. Merged(h) \in Config /\ Merged(h) = Merge(req[h].body, log[s][Len(log[s])])
    BY <2>2, <2>3, MergeTyped DEF Merged
  <2>5. /\ t \in Transaction /\ t.source = s /\ t.target = Merged(h)
        /\ ~t.locked /\ ~t.wrote
    <3>1. tx[h] \in Transaction /\ ~tx[h].locked /\ ~tx[h].wrote
      BY <2>1 DEF NoTx
    <3>2. s \in 0..MaxSources /\ Merged(h) \in Config \cup {Absent}
      BY <2>2, <2>4 DEF Sources
    <3>3. QED
      BY <3>1, <3>2 DEF Transaction
  <2>6. Goes(h, req[h], "lock", t)
    BY <1>4 DEF Goes, RegistryInv, TypeOK
  <2> HIDE DEF t
  <2>7. Updating(req[h], t)
    <3>1. Len(log[s]) \in 1..Len(log[s])
      BY <2>3
    <3>2. QED
      BY <1>4, <2>2, <2>4, <2>5, <3>1 DEF Updating
  <2>8. InTransaction(req[h], "lock", t)
    BY <2>2, <2>3, <2>4, <2>5, <2>7 DEF InTransaction
  <2>9. RequestOK(req[h], "lock", t)
    BY <2>1, <2>8 DEF RequestOK
  <2>10. DrawsBounded'
    <3>1. Drawing' \subseteq Drawing
      BY <2>6, DrawingShrinks DEF RegistryInv
    <3>2. QED
      BY <1>2, <3>1, FewerDraws, TablesTyped DEF RegistryInv
  <2>11. RegistryInv'
    BY <1>2, <2>1, <2>5, <2>6, <2>9, <2>10, TablesTyped, QuietStep DEF Labels
  <2>12. QED
    BY <1>1, <1>2, <1>4, <2>11 DEF RegistryInv, TypeOK
<1>5. QED
  BY <1>3, <1>4 DEF ReadCurrent

LEMMA LockRowSound ==
  ASSUME RegistryInv, NEW h \in Handlers, LockRow(h)
  PROVE  RegistryInv' /\ UNCHANGED <<audits, changes, used>> /\ pc[h] = "lock" /\ pc'[h] # "audit"
<1> DEFINE t == [tx[h] EXCEPT !.locked = TRUE]
<1>1. /\ pc[h] = "lock" /\ BlockedBy(h) = {} /\ UNCHANGED <<tableVars, req, sessionVars, used>>
      /\ tx' = [tx EXCEPT ![h].locked = TRUE] /\ pc' = [pc EXCEPT ![h] = "write"]
  BY DEF LockRow
<1>2. /\ configs' = configs /\ lastId' = lastId /\ log' = log /\ sessions' = sessions
      /\ disabled' = disabled /\ cookie' = cookie /\ lifecycle' = lifecycle /\ reviews' = reviews
      /\ audits' = audits /\ changes' = changes /\ used' = used
  BY <1>1 DEF tableVars, sessionVars, moderated
<1>3. req[h] \in Request /\ RequestOK(req[h], "lock", tx[h]) /\ tx[h] \in Transaction
  BY <1>1, RequestOf
<1>4. InTransaction(req[h], "lock", tx[h]) /\ Authorized(req[h])
  BY <1>3 DEF RequestOK
<1>5. /\ t \in Transaction /\ t.source = tx[h].source /\ t.target = tx[h].target
      /\ t.locked /\ ~t.wrote
  BY <1>3, <1>4 DEF Transaction, InTransaction
<1>6. Goes(h, req[h], "write", t)
  BY <1>1 DEF Goes, RegistryInv, TypeOK
<1> HIDE DEF t
<1>7. InTransaction(req[h], "write", t)
  BY <1>4, <1>5 DEF InTransaction, Updating
<1>8. RequestOK(req[h], "write", t)
  BY <1>3, <1>4, <1>7 DEF RequestOK
<1>9. \A p \in Handlers \ {h} : tx[p].locked => tx[p].source # t.source
  BY <1>1, <1>5 DEF BlockedBy
<1>10. DrawsBounded'
  <2>1. Drawing' \subseteq Drawing
    BY <1>6, DrawingShrinks DEF RegistryInv
  <2>2. QED
    BY <1>2, <2>1, FewerDraws, TablesTyped DEF RegistryInv
<1>11. RegistryInv'
  BY <1>2, <1>3, <1>5, <1>6, <1>8, <1>9, <1>10, TablesTyped, QuietStep DEF Labels
<1>12. QED
  BY <1>1, <1>2, <1>11 DEF RegistryInv, TypeOK

\* A transaction that PostgreSQL lets write has its url to itself: against what
\* is committed, and against the rows the open transactions have written.
LEMMA UrlToItself ==
  ASSUME RegistryInv, NEW h \in Handlers, pc[h] = "write", BlockedBy(h) = {}, ~UrlClash(h)
  PROVE  /\ UrlFree(configs, tx[h].source, tx[h].target)
         /\ \A p \in Handlers \ {h} : tx[p].wrote => tx[p].target.url # tx[h].target.url
<1> DEFINE s == tx[h].source
           u == tx[h].target.url
<1>1. s \in Sources /\ tx[h].locked
  BY RequestOf DEF RequestOK, InTransaction
<1>2. UrlFree(configs, s, tx[h].target)
  <2>1. CASE KeepsUrl(h)
    <3>1. configs[s] # Absent /\ configs[s].url = u
      BY <2>1 DEF KeepsUrl
    <3>2. UrlFree(configs, s, configs[s])
      BY <1>1, <3>1 DEF RegistryInv, TablesOK
    <3>3. QED
      BY <3>1, <3>2 DEF UrlFree
  <2>2. CASE ~KeepsUrl(h)
    BY <2>2 DEF UrlClash
  <2>3. QED
    BY <2>1, <2>2
<1>3. ASSUME NEW p \in Handlers \ {h}, tx[p].wrote, tx[p].target.url = u
      PROVE  FALSE
  <2> DEFINE z == tx[p].source
  <2>1. z \in Sources /\ tx[p].locked
    <3>1. RequestOK(req[p], pc[p], tx[p])
      BY RequestOf
    <3>2. pc[p] \in {"lock", "write", "policy"}
      BY <1>3, <3>1 DEF RequestOK, NoTx
    <3>3. InTransaction(req[p], pc[p], tx[p])
      BY <3>1, <3>2 DEF RequestOK
    <3>4. QED
      BY <1>3, <3>3 DEF InTransaction
  <2>2. z # s
    BY <1>1, <2>1 DEF RegistryInv, LocksApart
  <2>3. UrlFree(configs, z, tx[p].target)
    BY <1>3 DEF RegistryInv, UrlsApart
  <2>4. CASE KeepsUrl(h)
    BY <1>1, <1>3, <2>2, <2>3, <2>4 DEF KeepsUrl, UrlFree
  <2>5. CASE ~KeepsUrl(h)
    <3>1. UrlHolders(h, u) = {}
      BY <2>5 DEF BlockedBy
    <3>2. configs[z] # Absent /\ configs[z].url = u
      BY <1>3, <2>1, <3>1 DEF UrlHolders
    <3>3. QED
      BY <1>2, <2>1, <2>2, <3>2 DEF UrlFree
  <2>6. QED
    BY <2>4, <2>5
<1>4. QED
  BY <1>2, <1>3

LEMMA WriteRowSound ==
  ASSUME RegistryInv, NEW h \in Handlers, WriteRow(h)
  PROVE  RegistryInv' /\ UNCHANGED <<audits, changes, used>> /\ pc[h] = "write" /\ pc'[h] # "audit"
<1> DEFINE t == [tx[h] EXCEPT !.wrote = TRUE]
<1>1. pc[h] = "write" /\ BlockedBy(h) = {} /\ UNCHANGED <<tableVars, sessionVars, used>>
  BY DEF WriteRow
<1>2. /\ configs' = configs /\ lastId' = lastId /\ log' = log /\ sessions' = sessions
      /\ disabled' = disabled /\ cookie' = cookie /\ lifecycle' = lifecycle /\ reviews' = reviews
      /\ audits' = audits /\ changes' = changes /\ used' = used
  BY <1>1 DEF tableVars, sessionVars, moderated
<1>3. CASE Answer(h)
  BY <1>1, <1>2, <1>3, AnsweredQuietly DEF Answer, RegistryInv, TypeOK
<1>4. CASE /\ ~UrlClash(h) /\ tx' = [tx EXCEPT ![h].wrote = TRUE]
           /\ pc' = [pc EXCEPT ![h] = "policy"] /\ UNCHANGED req
  <2>1. req[h] \in Request /\ RequestOK(req[h], "write", tx[h]) /\ tx[h] \in Transaction
    BY <1>1, RequestOf
  <2>2. InTransaction(req[h], "write", tx[h]) /\ Authorized(req[h])
    BY <2>1 DEF RequestOK
  <2>3. /\ t \in Transaction /\ t.source = tx[h].source /\ t.target = tx[h].target
        /\ t.locked /\ t.wrote
    BY <2>1, <2>2 DEF Transaction, InTransaction
  <2>4. Goes(h, req[h], "policy", t)
    BY <1>4 DEF Goes, RegistryInv, TypeOK
  <2> HIDE DEF t
  <2>5. InTransaction(req[h], "policy", t)
    BY <2>2, <2>3 DEF InTransaction, Updating, Creating
  <2>6. RequestOK(req[h], "policy", t)
    BY <2>1, <2>2, <2>5 DEF RequestOK
  <2>7. \A p \in Handlers \ {h} : tx[p].locked => tx[p].source # t.source
    BY <2>2, <2>3 DEF RegistryInv, LocksApart, InTransaction
  <2>8. /\ UrlFree(configs, t.source, t.target)
        /\ \A p \in Handlers \ {h} : tx[p].wrote => tx[p].target.url # t.target.url
    BY <1>1, <1>4, <2>3, UrlToItself
  <2>9. DrawsBounded'
    <3>1. Drawing' \subseteq Drawing
      BY <2>4, DrawingShrinks DEF RegistryInv
    <3>2. QED
      BY <1>2, <3>1, FewerDraws, TablesTyped DEF RegistryInv
  <2>10. RegistryInv'
    BY <1>2, <2>1, <2>3, <2>4, <2>6, <2>7, <2>8, <2>9, TablesTyped, QuietStep DEF Labels
  <2>11. QED
    BY <1>1, <1>2, <1>4, <2>10 DEF RegistryInv, TypeOK
<1>5. QED
  BY <1>1, <1>3, <1>4 DEF WriteRow, Conflict

\* A transaction that holds its row.
LEMMA LockedOf ==
  ASSUME RegistryInv, NEW p \in Handlers, tx[p].locked
  PROVE  pc[p] \in {"write", "policy"} /\ InTransaction(req[p], pc[p], tx[p])
<1>1. RequestOK(req[p], pc[p], tx[p])
  BY RequestOf
<1>2. pc[p] \in {"lock", "write", "policy"}
  BY <1>1 DEF RequestOK, NoTx
<1>3. QED
  BY <1>1, <1>2 DEF RequestOK, InTransaction

LEMMA DrawIdSound ==
  ASSUME RegistryInv, NEW h \in Handlers, DrawId(h)
  PROVE  RegistryInv' /\ UNCHANGED <<audits, changes, used>> /\ pc[h] = "insert" /\ pc'[h] # "audit"
<1> DEFINE s == lastId + 1
           c == Merge(req[h].body, DefaultConfig)
           q == [req[h] EXCEPT !.id = s]
           t == [tx[h] EXCEPT !.source = s, !.target = c, !.locked = TRUE]
<1>1. /\ pc[h] = "insert" /\ lastId' = s
      /\ req' = [req EXCEPT ![h].id = s]
      /\ tx' = [tx EXCEPT ![h].source = s, ![h].target = c, ![h].locked = TRUE]
      /\ pc' = [pc EXCEPT ![h] = "write"]
      /\ UNCHANGED <<configs, moderated, audits, log, changes, sessionVars, used>>
  BY DEF DrawId
<1>2. /\ configs' = configs /\ log' = log /\ sessions' = sessions
      /\ disabled' = disabled /\ cookie' = cookie /\ lifecycle' = lifecycle /\ reviews' = reviews
      /\ audits' = audits /\ changes' = changes /\ used' = used
  BY <1>1 DEF sessionVars, moderated
<1>3. /\ req[h] \in Request /\ tx[h] \in Transaction /\ RequestOK(req[h], "insert", tx[h]) /\ tx[h] = NoTx
      /\ req[h].type = "source" /\ req[h].id = 0 /\ Asked(req[h]) /\ Authorized(req[h])
  BY <1>1, RequestOf DEF RequestOK
<1>4. req[h].body \in CreateBodies /\ req[h].since = 0
  BY <1>3 DEF Asked, Sources
<1>5. lastId \in Nat /\ MaxSources \in Nat /\ DefaultConfig \in Config
  BY TablesTyped, ConfigAssumption
<1>6. c \in Config
  BY <1>4, <1>5, MergeTyped
<1>7. s \in Sources /\ DrawsBounded'
  <2>1. h \in Drawing /\ IsFiniteSet(Drawing)
    BY <1>1, <1>3, AdminAssumption, FS_Subset DEF Drawing
  <2>2. Drawing' \subseteq Drawing \ {h}
    <3>1. req'[h].id = s /\ \A p \in Handlers \ {h} : req'[p] = req[p] /\ pc'[p] = pc[p]
      BY <1>1, <1>3 DEF RegistryInv, TypeOK, Request
    <3>2. s # 0
      BY <1>5
    <3>3. QED
      BY <3>1, <3>2 DEF Drawing
  <2>3. /\ Cardinality(Drawing \ {h}) = Cardinality(Drawing) - 1 /\ IsFiniteSet(Drawing \ {h})
        /\ Cardinality(Drawing) \in Nat
    BY <2>1, FS_RemoveElement, FS_CardinalityType
  <2>4. /\ Cardinality(Drawing') <= Cardinality(Drawing \ {h}) /\ Cardinality(Drawing') \in Nat
        /\ Cardinality(Drawing \ {h}) \in Nat
    BY <2>2, <2>3, FS_Subset, FS_CardinalityType
  <2>5. lastId + Cardinality(Drawing) <= MaxSources
    BY DEF RegistryInv, DrawsBounded
  <2>6. QED
    BY <1>1, <1>5, <2>3, <2>4, <2>5 DEF DrawsBounded, Sources
<1>8. /\ q \in Request /\ q.id = s /\ q.browser = req[h].browser /\ q.token = req[h].token
      /\ q.type = "source" /\ q.body = req[h].body /\ q.since = 0 /\ q.actor = req[h].actor
      /\ (q.late <=> req[h].late)
  BY <1>3, <1>4, <1>5 DEF Request
<1>9. t \in Transaction /\ t.source = s /\ t.target = c /\ t.locked /\ ~t.wrote
  <2>1. ~tx[h].wrote /\ s \in 0..MaxSources /\ c \in Config \cup {Absent}
    BY <1>3, <1>6, <1>7 DEF NoTx, Sources
  <2> HIDE DEF c
  <2>2. QED
    BY <1>3, <2>1 DEF Transaction
<1>10. Goes(h, q, "write", t)
  BY <1>1 DEF Goes, RegistryInv, TypeOK
<1> HIDE DEF q, t
<1>11. /\ req'[h] = q /\ pc'[h] = "write" /\ tx'[h] = t
       /\ \A p \in Handlers \ {h} : req'[p] = req[p] /\ pc'[p] = pc[p] /\ tx'[p] = tx[p]
  BY <1>10, GoesEffect DEF RegistryInv
<1>12. configs[s] = Absent
  BY <1>5, <1>7 DEF RegistryInv, TablesOK
<1>13. RegistryAdvance
  <2>1. \A z \in Sources : Len(log[z]) \in Nat
    BY TablesTyped
  <2>2. QED
    BY <1>1, <1>2, <1>5, <2>1 DEF RegistryAdvance
<1>14. TypeOK'
  <2>1. /\ req' \in [Handlers -> Request] /\ pc' \in [Handlers -> Labels]
        /\ tx' \in [Handlers -> Transaction]
    BY <1>8, <1>9, <1>10 DEF Goes, RegistryInv, TypeOK, Labels, Transaction
  <2>2. \A p \in Handlers : tx'[p].locked => pc'[p] \in {"write", "policy"}
    BY <1>11 DEF RegistryInv, TypeOK
  <2>3. lastId' \in 0..MaxSources
    BY <1>1, <1>7 DEF Sources
  <2>4. audits' \in Seq([actor : Users, object : Objects])' /\ changes' \in Seq(Request)'
    BY <1>2 DEF RegistryInv, TypeOK, Objects, Request
  <2>5. QED
    BY <1>2, <2>1, <2>2, <2>3, <2>4 DEF RegistryInv, TypeOK, Labels, Transaction
<1>15. RequestOK(req[h], pc[h], tx[h])'
  <2>1. SUFFICES ASSUME NEW r, NEW x, r = q, x = t PROVE RequestOK(r, "write", x)'
    BY <1>11
  <2>2. Creating(r, x)'
    BY <1>2, <1>4, <1>8, <1>9, <1>12, <2>1 DEF Creating
  <2>3. InTransaction(r, "write", x)'
    BY <1>1, <1>5, <1>6, <1>7, <1>8, <1>9, <2>1, <2>2 DEF InTransaction
  <2>4. Authorized(r)'
    BY <1>2, <1>3, <1>8, <2>1 DEF Authorized
  <2>5. r.browser \in Browsers /\ Known(r.token)' /\ ~r.late
    BY <1>2, <1>3, <1>8, <2>1 DEF RequestOK, Known, Authorized
  <2>6. QED
    BY <2>3, <2>4, <2>5 DEF RequestOK
<1>16. RequestsOK'
  <2>1. log' \in [Sources -> Seq(Config)]
    BY <1>2, TablesTyped
  <2>2. QED
    BY <1>2, <1>11, <1>13, <1>14, <1>15, <2>1, RequestsStay
<1>17. SessionsOK' /\ ChangesOK'
  BY <1>2 DEF RegistryInv, SessionsOK, Known, ChangesOK, Authorized
<1>18. TablesOK'
  <2>1. TablesOK
    BY DEF RegistryInv
  <2>2. \A z \in Sources : z <= lastId => z <= lastId'
    BY <1>1, <1>5 DEF Sources
  <2>3. QED
    BY <1>2, <2>1, <2>2 DEF TablesOK
<1>19. LocksApart'
  <2>1. \A p \in Handlers \ {h} : tx[p].locked => tx[p].source # s
    BY <1>5, LockedOf DEF InTransaction, Sources
  <2>2. QED
    BY <1>9, <1>11, <2>1 DEF RegistryInv, LocksApart
<1>20. UrlsApart'
  <2>1. UrlsApart
    BY DEF RegistryInv
  <2>2. QED
    BY <1>2, <1>9, <1>11, <2>1 DEF UrlsApart, UrlFree
<1>21. RegistryInv'
  BY <1>7, <1>14, <1>16, <1>17, <1>18, <1>19, <1>20 DEF RegistryInv
<1>22. QED
  BY <1>1, <1>2, <1>11, <1>21

\* What a transaction that commits has been holding.
LEMMA CommitOf ==
  ASSUME RegistryInv, NEW h \in Handlers, Commit(h)
  PROVE  /\ pc[h] = "policy" /\ tx[h].locked /\ tx[h].wrote
         /\ InTransaction(req[h], "policy", tx[h]) /\ Authorized(req[h])
         /\ tx[h].source \in Sources /\ tx[h].target \in Config
         /\ UrlFree(configs, tx[h].source, tx[h].target)
         /\ \A p \in Handlers \ {h} : tx[p].locked => tx[p].source # tx[h].source
         /\ configs' = [configs EXCEPT ![tx[h].source] = tx[h].target]
         /\ log' = [log EXCEPT ![tx[h].source] = Append(log[tx[h].source], tx[h].target)]
         /\ changes' = Append(changes, req[h]) /\ Goes(h, req[h], "audit", NoTx)
         /\ lastId' = lastId /\ audits' = audits /\ used' = used
         /\ sessions' = sessions /\ disabled' = disabled /\ cookie' = cookie
         /\ lifecycle' = lifecycle /\ reviews' = reviews
<1>1. /\ pc[h] = "policy"
      /\ configs' = [configs EXCEPT ![tx[h].source] = tx[h].target]
      /\ log' = [log EXCEPT ![tx[h].source] = Append(log[tx[h].source], tx[h].target)]
      /\ changes' = Append(changes, req[h])
      /\ tx' = [tx EXCEPT ![h] = NoTx] /\ pc' = [pc EXCEPT ![h] = "audit"]
      /\ UNCHANGED <<lastId, moderated, audits, req, sessionVars, used>>
  BY DEF Commit
<1>2. InTransaction(req[h], "policy", tx[h]) /\ Authorized(req[h])
  BY <1>1, RequestOf DEF RequestOK
<1>3. tx[h].source \in Sources /\ tx[h].target \in Config /\ tx[h].locked /\ tx[h].wrote
  BY <1>2 DEF InTransaction
<1>4. Goes(h, req[h], "audit", NoTx)
  BY <1>1 DEF Goes, RegistryInv, TypeOK
<1>5. UrlFree(configs, tx[h].source, tx[h].target)
  BY <1>3 DEF RegistryInv, UrlsApart
<1>6. \A p \in Handlers \ {h} : tx[p].locked => tx[p].source # tx[h].source
  BY <1>3 DEF RegistryInv, LocksApart
<1>7. QED
  BY <1>1, <1>2, <1>3, <1>4, <1>5, <1>6 DEF moderated, sessionVars

\* The tables after a commit.
LEMMA CommitTables ==
  ASSUME RegistryInv, NEW h \in Handlers, Commit(h)
  PROVE  TablesOK' /\ RegistryAdvance /\ configs' \in [Sources -> Config \cup {Absent}]
<1> DEFINE s == tx[h].source
           c == tx[h].target
<1>1. /\ s \in Sources /\ c \in Config /\ UrlFree(configs, s, c) /\ s <= lastId
      /\ configs' = [configs EXCEPT ![s] = c] /\ log' = [log EXCEPT ![s] = Append(log[s], c)]
      /\ lastId' = lastId /\ sessions' = sessions /\ disabled' = disabled
  BY CommitOf DEF InTransaction
<1> HIDE DEF s, c
<1>2. /\ configs \in [Sources -> Config \cup {Absent}] /\ log \in [Sources -> Seq(Config)]
      /\ lastId \in Nat /\ c # Absent
  BY <1>1, TablesTyped, ConfigAssumption
<1>3. /\ configs'[s] = c /\ \A z \in Sources \ {s} : configs'[z] = configs[z] /\ log'[z] = log[z]
      /\ configs' \in [Sources -> Config \cup {Absent}]
  BY <1>1, <1>2
<1>4. /\ log'[s] = Append(log[s], c) /\ log[s] \in Seq(Config)
      /\ log' \in [Sources -> Seq(Config)]
  <2>1. log[s] \in Seq(Config)
    BY <1>1, <1>2
  <2>2. Append(log[s], c) \in Seq(Config)
    BY <1>1, <2>1
  <2>3. QED
    BY <1>1, <1>2, <2>1, <2>2
<1>5. /\ Len(log'[s]) = Len(log[s]) + 1 /\ log'[s][Len(log'[s])] = c /\ Len(log[s]) \in Nat
      /\ \A i \in 1..Len(log[s]) : log'[s][i] = log[s][i]
      /\ log'[s] # <<>>
  BY <1>1, <1>4
<1>6. UrlFree(configs', s, c)
  BY <1>1, <1>3 DEF UrlFree
<1>7. ASSUME NEW z \in Sources \ {s}, configs[z] # Absent
      PROVE  UrlFree(configs', z, configs[z])
  <2>1. configs[z].url # c.url
    BY <1>1, <1>7 DEF UrlFree
  <2>2. UrlFree(configs, z, configs[z])
    BY <1>7 DEF RegistryInv, TablesOK
  <2>3. QED
    BY <1>3, <2>1, <2>2 DEF UrlFree
<1>8. TablesOK'
  <2>1. ASSUME NEW z \in Sources
        PROVE  IF configs'[z] = Absent THEN log'[z] = <<>>
               ELSE /\ z <= lastId' /\ log'[z] # <<>>
                    /\ configs'[z] = log'[z][Len(log'[z])]
                    /\ UrlFree(configs', z, configs'[z])
    <3>1. CASE z = s
      BY <1>1, <1>2, <1>3, <1>5, <1>6, <3>1
    <3>2. CASE z # s
      BY <1>1, <1>3, <1>7, <3>2 DEF RegistryInv, TablesOK
    <3>3. QED
      BY <3>1, <3>2
  <2>2. QED
    BY <1>4, <2>1 DEF TablesOK
<1>9. RegistryAdvance
  <2>1. \A z \in Sources :
          /\ configs[z] # Absent => configs'[z] # Absent
          /\ Len(log[z]) <= Len(log'[z])
          /\ \A i \in 1..Len(log[z]) : log'[z][i] = log[z][i]
    BY <1>2, <1>3, <1>5
  <2>2. QED
    BY <1>1, <1>2, <2>1 DEF RegistryAdvance
<1>10. QED
  BY <1>3, <1>8, <1>9

LEMMA CommitSound ==
  ASSUME RegistryInv, NEW h \in Handlers, Commit(h)
  PROVE  RegistryInv'
<1> DEFINE s == tx[h].source
           c == tx[h].target
<1>1. /\ pc[h] = "policy" /\ Authorized(req[h]) /\ InTransaction(req[h], "policy", tx[h])
      /\ tx[h].wrote /\ s \in Sources
      /\ \A p \in Handlers \ {h} : tx[p].locked => tx[p].source # s
      /\ configs' = [configs EXCEPT ![s] = c]
      /\ changes' = Append(changes, req[h]) /\ Goes(h, req[h], "audit", NoTx)
      /\ lastId' = lastId /\ audits' = audits
      /\ sessions' = sessions /\ disabled' = disabled /\ cookie' = cookie
      /\ lifecycle' = lifecycle /\ reviews' = reviews
  BY CommitOf
<1>2. TablesOK' /\ RegistryAdvance /\ configs' \in [Sources -> Config \cup {Absent}]
  BY CommitTables
<1>3. /\ req[h] \in Request /\ RequestOK(req[h], "policy", tx[h]) /\ NoTx \in Transaction
  BY <1>1, RequestOf, NoRequestTyped
<1>4. /\ req'[h] = req[h] /\ pc'[h] = "audit" /\ tx'[h] = NoTx
      /\ \A p \in Handlers \ {h} : req'[p] = req[p] /\ pc'[p] = pc[p] /\ tx'[p] = tx[p]
  BY <1>1, GoesEffect DEF RegistryInv
<1>5. ~NoTx.locked /\ ~NoTx.wrote
  BY DEF NoTx
<1>6. changes' \in Seq(Request) /\ \A i \in DOMAIN changes' : Authorized(changes'[i])
  BY <1>1, <1>3, ChangeLogged
<1>7. TypeOK'
  <2>1. /\ req' \in [Handlers -> Request] /\ pc' \in [Handlers -> Labels]
        /\ tx' \in [Handlers -> Transaction]
    BY <1>1, <1>3 DEF Goes, RegistryInv, TypeOK, Labels, Transaction
  <2>2. \A p \in Handlers : tx'[p].locked => pc'[p] \in {"write", "policy"}
    BY <1>4, <1>5 DEF RegistryInv, TypeOK
  <2>3. audits' \in Seq([actor : Users, object : Objects])' /\ changes' \in Seq(Request)'
    BY <1>1, <1>6 DEF RegistryInv, TypeOK, Objects, Request
  <2>4. QED
    BY <1>1, <1>2, <2>1, <2>2, <2>3 DEF RegistryInv, TypeOK, Labels, Transaction
<1>8. RequestOK(req[h], pc[h], tx[h])'
  <2>1. SUFFICES ASSUME NEW r, NEW x, r = req[h], x = NoTx PROVE RequestOK(r, "audit", x)'
    BY <1>4
  <2>2. Authorized(r)'
    BY <1>1, <2>1 DEF Authorized
  <2>3. r.browser \in Browsers /\ Known(r.token)' /\ ~r.late
    BY <1>1, <1>3, <2>1 DEF RequestOK, Known, Authorized
  <2>4. ([type |-> r.type, id |-> r.id] \in Objects)'
    BY <1>1, <2>1 DEF InTransaction, Objects
  <2>5. QED
    BY <2>1, <2>2, <2>3, <2>4 DEF RequestOK
<1>9. \A p \in Handlers \ {h} :
        tx[p].locked /\ configs[tx[p].source] = Absent => configs'[tx[p].source] = Absent
  BY <1>1, LockedOf, TablesTyped DEF InTransaction
<1>10. RequestsOK'
  BY <1>2, <1>4, <1>7, <1>8, <1>9, RequestsStay DEF TablesOK
<1>11. SessionsOK' /\ ChangesOK'
  BY <1>1, <1>6 DEF RegistryInv, SessionsOK, Known, ChangesOK, Authorized
<1>12. DrawsBounded'
  <2>1. Drawing' \subseteq Drawing
    BY <1>1, DrawingShrinks DEF RegistryInv
  <2>2. QED
    BY <1>1, <2>1, FewerDraws, TablesTyped DEF RegistryInv
<1>13. LocksApart'
  BY <1>4, <1>5 DEF RegistryInv, LocksApart
<1>14. UrlsApart'
  <2>1. SUFFICES ASSUME NEW p \in Handlers \ {h}, tx[p].wrote
                 PROVE  UrlFree(configs', tx[p].source, tx[p].target)
    BY <1>4, <1>5 DEF RegistryInv, UrlsApart
  <2>2. /\ UrlFree(configs, tx[p].source, tx[p].target) /\ tx[p].target.url # c.url
    BY <1>1, <2>1 DEF RegistryInv, UrlsApart
  <2>3. \A z \in Sources : configs'[z] = IF z = s THEN c ELSE configs[z]
    BY <1>1, TablesTyped
  <2>4. QED
    BY <2>2, <2>3 DEF UrlFree
<1>15. QED
  BY <1>2, <1>7, <1>10, <1>11, <1>12, <1>13, <1>14 DEF RegistryInv

-----------------------------------------------------------------------------
\* Steps of the sessions.

\* Sessions and users only end, cookies name sessions.
SessionsAdvance ==
  /\ sessions' \in Seq(Session) /\ Len(sessions') <= MaxSessions
  /\ disabled' \subseteq Users /\ disabled \subseteq disabled'
  /\ cookie' \in [Browsers -> Tokens]
  /\ \A b \in Browsers : cookie'[b] = 0 \/ cookie'[b] \in DOMAIN sessions'
  /\ \A t \in DOMAIN sessions :
       /\ t \in DOMAIN sessions'
       /\ sessions'[t].user = sessions[t].user
       /\ sessions'[t].live => sessions[t].live

\* One session changes in a field that is not its user, and does not come back.
LEMMA SessionChanges ==
  ASSUME sessions \in Seq(Session), NEW t \in DOMAIN sessions, NEW n \in Session,
         n.user = sessions[t].user, n.live => sessions[t].live,
         sessions' = [sessions EXCEPT ![t] = n]
  PROVE  /\ sessions' \in Seq(Session) /\ Len(sessions') = Len(sessions) /\ DOMAIN sessions' = DOMAIN sessions
         /\ \A i \in DOMAIN sessions :
              sessions'[i].user = sessions[i].user /\ (sessions'[i].live => sessions[i].live)
OBVIOUS

LEMMA SessionStepAdvances ==
  ASSUME RegistryInv, SessionStep
  PROVE  SessionsAdvance
<1>1. /\ sessions \in Seq(Session) /\ disabled \subseteq Users /\ cookie \in [Browsers -> Tokens]
      /\ Len(sessions) <= MaxSessions /\ Len(sessions) \in Nat /\ DOMAIN sessions = 1..Len(sessions)
      /\ \A b \in Browsers : cookie[b] = 0 \/ cookie[b] \in DOMAIN sessions
  BY TablesTyped DEF RegistryInv, SessionsOK, Known
<1>2. /\ MaxSessions \in Nat /\ 0 \in Tokens /\ 1..Len(sessions) \subseteq Tokens
      /\ \A t \in DOMAIN sessions : sessions[t] \in Session
  BY <1>1, SessionsAssumption DEF Tokens
<1>3. ASSUME NEW b \in Browsers, NEW u \in Users, OpenSession(b, u) PROVE SessionsAdvance
  <2> DEFINE n == [user |-> u, browser |-> b, live |-> TRUE, handed |-> FALSE]
  <2>1. sessions' = Append(sessions, n) /\ Len(sessions) < MaxSessions /\ UNCHANGED <<disabled, cookie>>
    BY <1>3 DEF OpenSession
  <2>2. n \in Session
    BY DEF Session
  <2> HIDE DEF n
  <2>3. /\ sessions' \in Seq(Session) /\ Len(sessions') = Len(sessions) + 1
        /\ DOMAIN sessions' = 1..Len(sessions) + 1
        /\ \A i \in DOMAIN sessions : sessions'[i] = sessions[i]
    BY <1>1, <2>1, <2>2
  <2>4. QED
    BY <1>1, <1>2, <2>1, <2>3 DEF SessionsAdvance
<1>4. ASSUME NEW t \in DOMAIN sessions, NEW n \in Session, n.user = sessions[t].user,
             n.live => sessions[t].live, sessions' = [sessions EXCEPT ![t] = n], disabled' = disabled,
             cookie' = cookie \/ \E b \in Browsers : cookie' = [cookie EXCEPT ![b] = t]
      PROVE  SessionsAdvance
  <2>1. /\ sessions' \in Seq(Session) /\ Len(sessions') = Len(sessions) /\ DOMAIN sessions' = DOMAIN sessions
        /\ \A i \in DOMAIN sessions :
             sessions'[i].user = sessions[i].user /\ (sessions'[i].live => sessions[i].live)
    BY <1>1, <1>4, SessionChanges
  <2>2. t \in Tokens
    BY <1>1, <1>2
  <2>3. cookie' \in [Browsers -> Tokens] /\ \A b \in Browsers : cookie'[b] = 0 \/ cookie'[b] \in DOMAIN sessions
    BY <1>1, <1>4, <2>2
  <2>4. QED
    BY <1>1, <1>4, <2>1, <2>3 DEF SessionsAdvance
<1>5. ASSUME NEW t \in Tokens, HandOver(t) PROVE SessionsAdvance
  <2> DEFINE n == [sessions[t] EXCEPT !.handed = TRUE]
  <2>1. /\ t \in DOMAIN sessions /\ sessions' = [sessions EXCEPT ![t].handed = TRUE]
        /\ cookie' = [cookie EXCEPT ![sessions[t].browser] = t] /\ disabled' = disabled
    BY <1>5 DEF HandOver
  <2>2. n \in Session /\ n.user = sessions[t].user /\ (n.live <=> sessions[t].live) /\ sessions[t].browser \in Browsers
    BY <1>2, <2>1 DEF Session
  <2>3. sessions' = [sessions EXCEPT ![t] = n]
    BY <1>1, <2>1
  <2> HIDE DEF n
  <2>4. QED
    BY <1>4, <2>1, <2>2, <2>3
<1>6. ASSUME NEW t \in Tokens, Revoke(t) \/ Expire(t) PROVE SessionsAdvance
  <2> DEFINE n == [sessions[t] EXCEPT !.live = FALSE]
  <2>1. /\ t \in DOMAIN sessions /\ sessions' = [sessions EXCEPT ![t].live = FALSE]
        /\ cookie' = cookie /\ disabled' = disabled
    BY <1>6 DEF Revoke, Expire, Live
  <2>2. n \in Session /\ n.user = sessions[t].user /\ ~n.live
    BY <1>2, <2>1 DEF Session
  <2>3. sessions' = [sessions EXCEPT ![t] = n]
    BY <1>1, <2>1
  <2> HIDE DEF n
  <2>4. QED
    BY <1>4, <2>1, <2>2, <2>3
<1>7. ASSUME NEW b \in Browsers, ClearCookie(b) PROVE SessionsAdvance
  BY <1>1, <1>2, <1>7 DEF ClearCookie, SessionsAdvance
<1>8. ASSUME NEW u \in Users, Disable(u) PROVE SessionsAdvance
  BY <1>1, <1>2, <1>8 DEF Disable, SessionsAdvance
<1>9. QED
  BY <1>3, <1>5, <1>6, <1>7, <1>8 DEF SessionStep

LEMMA SessionsSound ==
  ASSUME RegistryInv, SessionsAdvance, UNCHANGED <<tableVars, requestVars>>
  PROVE  RegistryInv'
<1>1. /\ configs' = configs /\ lastId' = lastId /\ log' = log /\ lifecycle' = lifecycle /\ reviews' = reviews
      /\ audits' = audits /\ changes' = changes /\ pc' = pc /\ req' = req /\ tx' = tx
  BY DEF tableVars, requestVars, moderated
<1>2. RegistryAdvance
  <2>1. /\ lastId \in Nat /\ \A s \in Sources : Len(log[s]) \in Nat
    BY TablesTyped
  <2>2. QED
    BY <1>1, <2>1 DEF RegistryAdvance, SessionsAdvance
<1>3. TypeOK'
  <2>1. audits' \in Seq([actor : Users, object : Objects])' /\ changes' \in Seq(Request)'
    BY <1>1 DEF RegistryInv, TypeOK, Objects, Request
  <2>2. req' \in [Handlers -> Request]'
    BY <1>1 DEF RegistryInv, TypeOK, Request
  <2>3. QED
    BY <1>1, <2>1, <2>2 DEF RegistryInv, TypeOK, SessionsAdvance
<1>4. RequestsOK'
  <2>1. log' \in [Sources -> Seq(Config)]
    BY <1>1, TablesTyped
  <2>2. QED
    BY <1>1, <1>2, <1>3, <2>1, RequestsStay
<1>5. SessionsOK'
  BY DEF SessionsAdvance, SessionsOK, Known
<1>6. TablesOK' /\ LocksApart' /\ UrlsApart' /\ DrawsBounded'
  BY <1>1 DEF RegistryInv, TablesOK, LocksApart, UrlsApart, DrawsBounded, Drawing
<1>7. ChangesOK'
  <2>1. SUFFICES ASSUME NEW q, Authorized(q) PROVE Authorized(q)'
    BY <1>1 DEF RegistryInv, ChangesOK, Authorized
  <2>2. QED
    BY <1>2, <2>1, AuthorizedStays
<1>8. QED
  BY <1>3, <1>4, <1>5, <1>6, <1>7 DEF RegistryInv

-----------------------------------------------------------------------------
\* Counting changes and audit events.

Bit(condition) == IF condition THEN 1 ELSE 0

LEMMA CountOneMore ==
  ASSUME NEW S, IsFiniteSet(S), NEW n, n \notin S, NEW condition \in BOOLEAN, NEW T,
         condition => T = S \cup {n}, ~condition => T = S
  PROVE  Cardinality(S) \in Nat /\ Cardinality(T) = Cardinality(S) + Bit(condition)
<1>1. Cardinality(S) \in Nat /\ Cardinality(S \cup {n}) = Cardinality(S) + 1
  BY FS_AddElement, FS_CardinalityType
<1>2. QED
  BY <1>1 DEF Bit

LEMMA CountsTyped ==
  ASSUME RegistryInv, NEW u, NEW x
  PROVE  RecordedBy(u, x) \in Nat /\ ChangedBy(u, x) \in Nat /\ PendingBy(u, x) \in Nat
<1>1. IsFiniteSet({i \in DOMAIN audits : audits[i] = [actor |-> u, object |-> x]})
  <2>1. IsFiniteSet(DOMAIN audits)
    BY TablesTyped, FS_Interval
  <2>2. QED
    BY <2>1, FS_Subset
<1>2. IsFiniteSet({i \in DOMAIN changes :
                     changes[i].actor = u /\ [type |-> changes[i].type, id |-> changes[i].id] = x})
  <2>1. IsFiniteSet(DOMAIN changes)
    BY TablesTyped, FS_Interval
  <2>2. QED
    BY <2>1, FS_Subset
<1>3. IsFiniteSet({h \in Handlers : pc[h] = "audit" /\ req[h].actor = u /\ Object(h) = x})
  BY AdminAssumption, FS_Subset
<1>4. QED
  BY <1>1, <1>2, <1>3, FS_CardinalityType DEF RecordedBy, ChangedBy, PendingBy

\* The next change or audit event is of u and x.
ChangeOf(q, u, x) == q.actor = u /\ [type |-> q.type, id |-> q.id] = x

LEMMA ChangeCounts ==
  ASSUME RegistryInv, NEW u, NEW x, NEW q \in Request, changes' = Append(changes, q)
  PROVE  ChangedBy(u, x)' = ChangedBy(u, x) + Bit(ChangeOf(q, u, x))
<1> DEFINE n == Len(changes) + 1
           S == {i \in DOMAIN changes : ChangeOf(changes[i], u, x)}
           T == {i \in DOMAIN changes' : ChangeOf(changes'[i], u, x)}
<1>1. /\ changes \in Seq(Request) /\ Len(changes) \in Nat /\ DOMAIN changes = 1..Len(changes)
      /\ DOMAIN changes' = 1..n /\ changes'[n] = q /\ \A i \in DOMAIN changes : changes'[i] = changes[i]
  BY TablesTyped
<1>2. IsFiniteSet(S)
  <2>1. IsFiniteSet(DOMAIN changes)
    BY <1>1, FS_Interval
  <2>2. QED
    BY <2>1, FS_Subset
<1>3. ChangedBy(u, x) = Cardinality(S) /\ ChangedBy(u, x)' = Cardinality(T)
  BY DEF ChangedBy, ChangeOf
<1>4. n \notin S /\ (ChangeOf(q, u, x) => T = S \cup {n}) /\ (~ChangeOf(q, u, x) => T = S)
  BY <1>1
<1>5. ChangeOf(q, u, x) \in BOOLEAN
  BY DEF ChangeOf
<1> HIDE DEF S, T, n
<1>6. QED
  BY <1>2, <1>3, <1>4, <1>5, CountOneMore

LEMMA EventCounts ==
  ASSUME RegistryInv, NEW u, NEW x, NEW e, audits' = Append(audits, e), e \in AuditEvents
  PROVE  RecordedBy(u, x)' = RecordedBy(u, x) + Bit(e = [actor |-> u, object |-> x])
<1> DEFINE n == Len(audits) + 1
           w == [actor |-> u, object |-> x]
           S == {i \in DOMAIN audits : audits[i] = w}
           T == {i \in DOMAIN audits' : audits'[i] = w}
<1>1. /\ Len(audits) \in Nat /\ DOMAIN audits = 1..Len(audits)
      /\ DOMAIN audits' = 1..n /\ audits'[n] = e /\ \A i \in DOMAIN audits : audits'[i] = audits[i]
  <2> HIDE DEF AuditEvents
  <2> QED
    BY TablesTyped
<1>2. IsFiniteSet(S)
  <2>1. IsFiniteSet(DOMAIN audits)
    BY <1>1, FS_Interval
  <2>2. QED
    BY <2>1, FS_Subset
<1>3. RecordedBy(u, x) = Cardinality(S) /\ RecordedBy(u, x)' = Cardinality(T)
  BY DEF RecordedBy
<1> HIDE DEF w
<1>4. n \notin S /\ (e = w => T = S \cup {n}) /\ (e # w => T = S)
  BY <1>1
<1>5. (e = w) \in BOOLEAN
  OBVIOUS
<1> HIDE DEF S, T, n
<1>6. Cardinality(T) = Cardinality(S) + Bit(e = w)
  BY <1>2, <1>4, <1>5, CountOneMore
<1>7. QED
  BY <1>3, <1>6 DEF w

\* The pending events are those of the handlers at the audit statement.
Pending(p, q, u, x) == p = "audit" /\ ChangeOf(q, u, x)

LEMMA PendingMoves ==
  ASSUME RegistryInv, NEW h \in Handlers, NEW q, NEW label, NEW t, Goes(h, q, label, t), NEW u, NEW x
  PROVE  PendingBy(u, x)' = PendingBy(u, x) - Bit(Pending(pc[h], req[h], u, x)) + Bit(Pending(label, q, u, x))
<1> DEFINE S == {p \in Handlers : Pending(pc[p], req[p], u, x)}
           T == {p \in Handlers : Pending(pc'[p], req'[p], u, x)}
<1>1. IsFiniteSet(S) /\ IsFiniteSet(T)
  BY AdminAssumption, FS_Subset
<1>2. PendingBy(u, x) = Cardinality(S) /\ PendingBy(u, x)' = Cardinality(T)
  BY DEF PendingBy, Pending, ChangeOf, Object
<1>3. h \in S <=> Pending(pc[h], req[h], u, x)
  OBVIOUS
<1>4. /\ req'[h] = q /\ pc'[h] = label
      /\ \A p \in Handlers \ {h} : req'[p] = req[p] /\ pc'[p] = pc[p]
  BY GoesEffect DEF RegistryInv
<1>5. T = IF Pending(label, q, u, x) THEN S \cup {h} ELSE S \ {h}
  BY <1>4
<1> HIDE DEF S, T
<1>6. Cardinality(S) \in Nat
  BY <1>1, FS_CardinalityType
<1>7. /\ Cardinality(S \cup {h}) = IF h \in S THEN Cardinality(S) ELSE Cardinality(S) + 1
      /\ Cardinality(S \ {h}) = IF h \in S THEN Cardinality(S) - 1 ELSE Cardinality(S)
  BY <1>1, FS_AddElement, FS_RemoveElement
<1>8. QED
  BY <1>2, <1>3, <1>5, <1>6, <1>7 DEF Bit

-----------------------------------------------------------------------------
\* Every step keeps the account of every administrator and object.

\* Nothing is changed, recorded or given up.
LEMMA QuietAccount ==
  ASSUME NEW u, NEW x, Accounted(u, x), UNCHANGED <<audits, changes>>, used'.faults = used.faults,
         PendingBy(u, x)' = PendingBy(u, x)
  PROVE  Accounted(u, x)'
BY DEF Accounted, RecordedBy, ChangedBy

\* A handler comes to another label than the audit statement, from another.
LEMMA ElsewhereAccount ==
  ASSUME NEW u, NEW x, Accounted(u, x), UNCHANGED <<audits, changes>>, used'.faults = used.faults,
         NEW h \in Handlers, pc[h] # "audit", pc'[h] # "audit",
         \A p \in Handlers \ {h} : req'[p] = req[p] /\ pc'[p] = pc[p]
  PROVE  Accounted(u, x)'
<1>1. {p \in Handlers : pc[p] = "audit" /\ req[p].actor = u /\ Object(p) = x}'
        = {p \in Handlers : pc[p] = "audit" /\ req[p].actor = u /\ Object(p) = x}
  BY DEF Object
<1>2. PendingBy(u, x)' = PendingBy(u, x)
  BY <1>1 DEF PendingBy
<1>3. QED
  BY <1>2, QuietAccount

\* A change is committed, and its event is pending.
LEMMA ChangeAccount ==
  ASSUME RegistryInv, used.faults \in Nat, NEW u, NEW x, Accounted(u, x), UNCHANGED <<audits, used>>,
         NEW h \in Handlers, Goes(h, req[h], "audit", NoTx), pc[h] # "audit",
         changes' = Append(changes, req[h])
  PROVE  Accounted(u, x)'
<1> DEFINE one == Bit(ChangeOf(req[h], u, x))
<1>1. one \in {0, 1} /\ Bit(Pending("audit", req[h], u, x)) = one /\ Bit(Pending(pc[h], req[h], u, x)) = 0
  BY DEF Bit, Pending
<1>2. ChangedBy(u, x)' = ChangedBy(u, x) + one
  BY ChangeCounts, RequestOf
<1>3. PendingBy(u, x)' = PendingBy(u, x) - Bit(Pending(pc[h], req[h], u, x)) + Bit(Pending("audit", req[h], u, x))
  BY PendingMoves
<1>4. RecordedBy(u, x)' = RecordedBy(u, x)
  BY DEF RecordedBy
<1>5. RecordedBy(u, x) \in Nat /\ ChangedBy(u, x) \in Nat /\ PendingBy(u, x) \in Nat
  BY CountsTyped
<1> HIDE DEF one
<1>6. PendingBy(u, x)' = PendingBy(u, x) + one
  BY <1>1, <1>3, <1>5
<1>7. QED
  BY <1>1, <1>2, <1>4, <1>5, <1>6 DEF Accounted

\* The event is recorded.
LEMMA EventAccount ==
  ASSUME RegistryInv, used.faults \in Nat, NEW u, NEW x, Accounted(u, x), UNCHANGED <<changes, used>>,
         NEW h \in Handlers, Answer(h), pc[h] = "audit",
         audits' = Append(audits, AuditEvent(h)), AuditEvent(h) \in AuditEvents
  PROVE  Accounted(u, x)'
<1> DEFINE one == Bit(ChangeOf(req[h], u, x))
<1>1. Goes(h, NoRequest, "idle", NoTx)
  BY DEF Answer, Goes
<1>2. one \in {0, 1} /\ Bit(Pending(pc[h], req[h], u, x)) = one /\ Bit(Pending("idle", NoRequest, u, x)) = 0
  BY DEF Bit, Pending
<1>3. AuditEvent(h) = [actor |-> u, object |-> x] <=> ChangeOf(req[h], u, x)
  BY DEF AuditEvent, ChangeOf, Object
<1>4. RecordedBy(u, x)' = RecordedBy(u, x) + Bit(AuditEvent(h) = [actor |-> u, object |-> x])
  BY EventCounts
<1>5. Bit(AuditEvent(h) = [actor |-> u, object |-> x]) = one
  BY <1>3 DEF Bit
<1>6. PendingBy(u, x)' = PendingBy(u, x) - Bit(Pending(pc[h], req[h], u, x)) + Bit(Pending("idle", NoRequest, u, x))
  BY <1>1, PendingMoves
<1>7. ChangedBy(u, x)' = ChangedBy(u, x)
  BY DEF ChangedBy
<1>8. RecordedBy(u, x) \in Nat /\ ChangedBy(u, x) \in Nat /\ PendingBy(u, x) \in Nat
  BY CountsTyped
<1> HIDE DEF one
<1>9. PendingBy(u, x)' = PendingBy(u, x) - one /\ RecordedBy(u, x)' = RecordedBy(u, x) + one
  BY <1>2, <1>4, <1>5, <1>6, <1>8
<1>10. QED
  BY <1>2, <1>7, <1>8, <1>9 DEF Accounted

\* A fault may lose an event.
LEMMA FaultAccount ==
  ASSUME RegistryInv, used.faults \in Nat, NEW u, NEW x, Accounted(u, x), UNCHANGED <<audits, changes>>,
         NEW h \in Handlers, Answer(h), used'.faults = used.faults + 1
  PROVE  Accounted(u, x)'
<1> DEFINE one == Bit(Pending(pc[h], req[h], u, x))
<1>1. Goes(h, NoRequest, "idle", NoTx)
  BY DEF Answer, Goes
<1>2. one \in {0, 1} /\ Bit(Pending("idle", NoRequest, u, x)) = 0
  BY DEF Bit, Pending
<1>3. PendingBy(u, x)' = PendingBy(u, x) - one + Bit(Pending("idle", NoRequest, u, x))
  BY <1>1, PendingMoves
<1>4. RecordedBy(u, x)' = RecordedBy(u, x) /\ ChangedBy(u, x)' = ChangedBy(u, x)
  BY DEF RecordedBy, ChangedBy
<1>5. RecordedBy(u, x) \in Nat /\ ChangedBy(u, x) \in Nat /\ PendingBy(u, x) \in Nat
  BY CountsTyped
<1> HIDE DEF one
<1>6. PendingBy(u, x)' = PendingBy(u, x) - one
  BY <1>2, <1>3, <1>5
<1>7. QED
  BY <1>2, <1>4, <1>5, <1>6 DEF Accounted

\* What a handler's step leaves alone.
LEMMA OthersStay ==
  ASSUME TypeOK, NEW h \in Handlers,
         \/ Answer(h)
         \/ req' = req /\ \E label : pc' = [pc EXCEPT ![h] = label]
         \/ \E q, label : req' = [req EXCEPT ![h] = q] /\ pc' = [pc EXCEPT ![h] = label]
  PROVE  \A p \in Handlers \ {h} : req'[p] = req[p] /\ pc'[p] = pc[p]
BY DEF TypeOK, Answer

LEMMA StepSound ==
  ASSUME RegistryInv, UsedOK, NEW h \in Handlers, RequestStep(h)
  PROVE  RegistryInv' /\ UsedOK' /\ \A u, x : Accounted(u, x) => Accounted(u, x)'
<1>1. TypeOK /\ used.faults \in Nat
  BY DEF RegistryInv, UsedOK
<1>2. ASSUME \/ RequireAdminSession(h) \/ Authorize(h) \/ ReadCurrent(h) \/ LockRow(h) \/ DrawId(h)
             \/ WriteRow(h)
      PROVE  RegistryInv' /\ UNCHANGED <<audits, changes, used>> /\ pc[h] # "audit" /\ pc'[h] # "audit"
  BY <1>2, PageSound, AuthorizeSound, ReadCurrentSound, LockRowSound, DrawIdSound, WriteRowSound
<1>3. ASSUME \/ RequireAdminSession(h) \/ Authorize(h) \/ ReadCurrent(h) \/ LockRow(h) \/ DrawId(h)
             \/ WriteRow(h)
      PROVE  \A p \in Handlers \ {h} : req'[p] = req[p] /\ pc'[p] = pc[p]
  <2>1. CASE RequireAdminSession(h)
    BY <1>1, <2>1, OthersStay DEF RequireAdminSession
  <2>2. CASE Authorize(h)
    <3>1. Answer(h) \/ \E u, label : req' = [req EXCEPT ![h].actor = u] /\ pc' = [pc EXCEPT ![h] = label]
      BY <2>2 DEF Authorize, Unauthenticated, NoAdmin, LetThrough
    <3>2. QED
      BY <1>1, <3>1, OthersStay DEF TypeOK
  <2>3. CASE ReadCurrent(h)
    BY <1>1, <2>3, OthersStay DEF ReadCurrent
  <2>4. CASE LockRow(h)
    BY <1>1, <2>4, OthersStay DEF LockRow
  <2>5. CASE DrawId(h)
    BY <1>1, <2>5 DEF DrawId, TypeOK
  <2>6. CASE WriteRow(h)
    BY <1>1, <2>6, OthersStay DEF WriteRow, Conflict
  <2>7. QED
    BY <1>3, <2>1, <2>2, <2>3, <2>4, <2>5, <2>6
<1>4. CASE \/ RequireAdminSession(h) \/ Authorize(h) \/ ReadCurrent(h) \/ LockRow(h) \/ DrawId(h)
           \/ WriteRow(h)
  BY <1>2, <1>3, <1>4, ElsewhereAccount DEF UsedOK
<1>5. CASE Moderate(h)
  <2>1. /\ RegistryInv' /\ UNCHANGED <<audits, used>> /\ pc[h] = "moderate"
        /\ \/ Answer(h) /\ UNCHANGED changes
           \/ Goes(h, req[h], "audit", NoTx) /\ changes' = Append(changes, req[h])
    BY <1>5, ModerateSound
  <2>2. CASE Answer(h) /\ UNCHANGED changes
    BY <1>1, <2>1, <2>2, OthersStay, ElsewhereAccount DEF Answer, UsedOK, TypeOK
  <2>3. CASE Goes(h, req[h], "audit", NoTx) /\ changes' = Append(changes, req[h])
    BY <1>1, <2>1, <2>3, ChangeAccount DEF UsedOK
  <2>4. QED
    BY <2>1, <2>2, <2>3
<1>6. CASE Commit(h)
  BY <1>1, <1>6, CommitSound, CommitOf, ChangeAccount DEF UsedOK
<1>7. CASE RecordAuditEvent(h)
  BY <1>1, <1>7, RecordAuditEventSound, EventAccount DEF UsedOK
<1>8. CASE DeadlockAbort(h)
  <2>1. Answer(h) /\ InWaitCycle(h) /\ UNCHANGED <<tableVars, sessionVars, used>>
    BY <1>8 DEF DeadlockAbort
  <2>2. BlockedBy(h) # {}
    BY <2>1 DEF InWaitCycle
  <2>3. pc[h] # "audit"
    BY <2>2 DEF BlockedBy
  <2>4. RegistryInv' /\ UNCHANGED <<audits, changes, used>>
    BY <2>1, GivesUpSound
  <2>5. QED
    BY <1>1, <2>1, <2>3, <2>4, OthersStay, ElsewhereAccount DEF Answer, UsedOK, TypeOK
<1>9. QED
  BY <1>4, <1>5, <1>6, <1>7, <1>8 DEF RequestStep

LEMMA TakeCounted ==
  ASSUME RegistryInv, UsedOK, NEW h \in Handlers, NEW b \in Browsers, NEW id \in Nat, NEW body,
         NEW type \in {"source", "raw_entry", "reader_feedback"},
         PostForm(h, b, type, id, body) \/ Receive(h, b, type, id, body)
  PROVE  RegistryInv' /\ UsedOK' /\ \A u, x : Accounted(u, x) => Accounted(u, x)'
<1>1. PICK label \in {"page", "authorize"} : Take(h, b, type, id, body, label)
  BY Zenon DEF PostForm, Receive
<1>2. RegistryInv'
  BY <1>1, TakeSound
<1>3. /\ pc[h] = "idle" /\ pc' = [pc EXCEPT ![h] = label] /\ (\E q : req' = [req EXCEPT ![h] = q])
      /\ used' = [used EXCEPT !.requests = @ + 1] /\ UNCHANGED tableVars
  BY <1>1, Zenon DEF Take
<1>4. UsedOK' /\ used'.faults = used.faults
  BY <1>3 DEF UsedOK
<1>5. UNCHANGED <<audits, changes>> /\ TypeOK
  BY <1>3 DEF tableVars, RegistryInv
<1>6. \A p \in Handlers \ {h} : req'[p] = req[p] /\ pc'[p] = pc[p]
  BY <1>3, <1>5, OthersStay
<1>7. pc[h] # "audit" /\ pc'[h] # "audit"
  BY <1>3, <1>5 DEF TypeOK
<1>8. QED
  BY <1>2, <1>4, <1>5, <1>6, <1>7, ElsewhereAccount

LEMMA NextSound == IInv /\ [Next]_vars => IInv'
<1> SUFFICES ASSUME IInv, [Next]_vars PROVE IInv'
  OBVIOUS
<1> SUFFICES RegistryInv' /\ UsedOK' /\ \A u \in Users, x \in Objects : Accounted(u, x) => Accounted(u, x)'
  BY DEF IInv, Objects
<1>1. RegistryInv /\ UsedOK /\ used.faults \in Nat
  BY DEF IInv, UsedOK
<1>2. CASE SessionStep /\ UNCHANGED <<tableVars, requestVars, used>>
  <2>1. RegistryInv'
    BY <1>1, <1>2, SessionStepAdvances, SessionsSound
  <2>2. UNCHANGED <<audits, changes, pc, req, used>>
    BY <1>2 DEF tableVars, requestVars
  <2>3. \A u, x : PendingBy(u, x)' = PendingBy(u, x)
    BY <2>2 DEF PendingBy, Object
  <2>4. QED
    BY <1>1, <2>1, <2>2, <2>3, QuietAccount DEF UsedOK
<1>3. ASSUME NEW h \in Handlers, NEW b \in Browsers, NEW s \in 0..MaxSources, NEW body,
             PostForm(h, b, "source", s, body) \/ Receive(h, b, "source", s, body)
      PROVE  RegistryInv' /\ UsedOK' /\ \A u, x : Accounted(u, x) => Accounted(u, x)'
  BY <1>1, <1>3, TakeCounted
<1>4. ASSUME NEW h \in Handlers, NEW b \in Browsers, NEW x \in Named, NEW body,
             PostForm(h, b, x.type, x.id, body) \/ Receive(h, b, x.type, x.id, body)
      PROVE  RegistryInv' /\ UsedOK' /\ \A u, y : Accounted(u, y) => Accounted(u, y)'
  <2>1. x.id \in Nat /\ x.type \in {"source", "raw_entry", "reader_feedback"}
    BY AdminAssumption
  <2>2. QED
    BY <1>1, <1>4, <2>1, TakeCounted
<1>5. ASSUME NEW h \in Handlers, RequestStep(h)
      PROVE  RegistryInv' /\ UsedOK' /\ \A u, x : Accounted(u, x) => Accounted(u, x)'
  BY <1>1, <1>5, StepSound
<1>6. ASSUME NEW h \in Handlers, Fail(h)
      PROVE  RegistryInv' /\ UsedOK' /\ \A u, x : Accounted(u, x) => Accounted(u, x)'
  <2>1. /\ Answer(h) /\ UNCHANGED <<tableVars, sessionVars>>
        /\ used' = [used EXCEPT !.faults = @ + 1]
    BY <1>6 DEF Fail
  <2>2. RegistryInv' /\ UNCHANGED <<audits, changes>>
    BY <1>1, <2>1, GivesUpSound
  <2>3. UsedOK' /\ used'.faults = used.faults + 1
    BY <1>1, <2>1 DEF UsedOK
  <2>4. QED
    BY <1>1, <2>1, <2>2, <2>3, FaultAccount
<1>7. CASE UNCHANGED vars
  <2>1. UNCHANGED <<tableVars, requestVars, sessionVars, used>>
    BY <1>7 DEF vars
  <2>2. SessionsAdvance
    BY <1>1, <2>1, TablesTyped DEF SessionsAdvance, sessionVars, RegistryInv, SessionsOK, Known
  <2>3. RegistryInv'
    BY <1>1, <2>1, <2>2, SessionsSound
  <2>4. UNCHANGED <<audits, changes, pc, req, used>>
    BY <2>1 DEF tableVars, requestVars
  <2>5. \A u, x : PendingBy(u, x)' = PendingBy(u, x)
    BY <2>4 DEF PendingBy, Object
  <2>6. QED
    BY <1>1, <2>3, <2>4, <2>5, QuietAccount DEF UsedOK
<1>8. CASE Next
  BY <1>2, <1>3, <1>4, <1>5, <1>6, <1>8 DEF Next
<1>9. QED
  BY <1>7, <1>8

-----------------------------------------------------------------------------
\* The initial state, and what follows in every reachable one.

LEMMA CountsZero ==
  ASSUME Init
  PROVE  \A u, x : RecordedBy(u, x) = 0 /\ PendingBy(u, x) = 0 /\ ChangedBy(u, x) = 0
<1> SUFFICES ASSUME NEW u, NEW x
             PROVE  RecordedBy(u, x) = 0 /\ PendingBy(u, x) = 0 /\ ChangedBy(u, x) = 0
  OBVIOUS
<1>1. Cardinality({}) = 0
  BY FS_EmptySet
<1>2. /\ {i \in DOMAIN audits : audits[i] = [actor |-> u, object |-> x]} = {}
      /\ {i \in DOMAIN changes :
            changes[i].actor = u /\ [type |-> changes[i].type, id |-> changes[i].id] = x} = {}
  BY DEF Init
<1>3. {h \in Handlers : pc[h] = "audit" /\ req[h].actor = u /\ Object(h) = x} = {}
  BY DEF Init
<1>4. QED
  BY <1>1, <1>2, <1>3 DEF RecordedBy, PendingBy, ChangedBy

LEMMA InitTables == Init => TablesOK /\ configs \in [Sources -> Config \cup {Absent}]
<1> SUFFICES ASSUME Init PROVE TablesOK /\ configs \in [Sources -> Config \cup {Absent}]
  OBVIOUS
<1>1. /\ Registered \in Seq(Config) /\ Len(Registered) \in Nat /\ lastId = Len(Registered)
      /\ DOMAIN Registered = 1..Len(Registered)
      /\ \A i, j \in DOMAIN Registered : Registered[i].url = Registered[j].url => i = j
  BY AdminAssumption DEF Init
<1>2. /\ configs = [s \in Sources |-> IF s \in DOMAIN Registered THEN Registered[s] ELSE Absent]
      /\ log = [s \in Sources |-> IF s \in DOMAIN Registered THEN <<Registered[s]>> ELSE <<>>]
  BY DEF Init
<1>3. \A s \in DOMAIN Registered : Registered[s] \in Config /\ Registered[s] # Absent
  BY <1>1, ConfigAssumption
<1>4. log \in [Sources -> Seq(Config)]
  <2>1. \A s \in DOMAIN Registered : <<Registered[s]>> \in Seq(Config)
    BY <1>3
  <2>2. <<>> \in Seq(Config)
    OBVIOUS
  <2>3. QED
    BY <1>2, <2>1, <2>2
<1>5. ASSUME NEW s \in Sources, configs[s] # Absent
      PROVE  /\ s <= lastId /\ log[s] # <<>> /\ configs[s] = log[s][Len(log[s])]
             /\ UrlFree(configs, s, configs[s])
  <2>1. s \in DOMAIN Registered /\ configs[s] = Registered[s] /\ log[s] = <<Registered[s]>>
    BY <1>2, <1>5
  <2>2. s <= lastId
    BY <1>1, <2>1
  <2>3. <<Registered[s]>> # <<>> /\ <<Registered[s]>>[Len(<<Registered[s]>>)] = Registered[s]
    OBVIOUS
  <2>4. UrlFree(configs, s, configs[s])
    BY <1>1, <1>2, <2>1 DEF UrlFree
  <2>5. QED
    BY <2>1, <2>2, <2>3, <2>4
<1>6. \A s \in Sources : configs[s] = Absent => log[s] = <<>>
  BY <1>2, <1>3
<1>7. configs \in [Sources -> Config \cup {Absent}]
  BY <1>2, <1>3
<1>8. QED
  BY <1>4, <1>5, <1>6, <1>7 DEF TablesOK

LEMMA InitSound == Init => IInv
<1> SUFFICES ASSUME Init PROVE IInv
  OBVIOUS
<1>1. TablesOK /\ configs \in [Sources -> Config \cup {Absent}]
  BY InitTables
<1>2. /\ lastId \in 0..MaxSources /\ MaxSources \in Nat /\ lastId \in Nat
  BY AdminAssumption, ConfigAssumption DEF Init
<1>3. \A h \in Handlers : pc[h] = "idle" /\ req[h] = NoRequest /\ tx[h] = NoTx
  BY DEF Init
<1>4. ~NoTx.locked /\ ~NoTx.wrote
  BY DEF NoTx
<1>5. TypeOK
  <2>1. sessions \in Seq(Session) /\ disabled \subseteq Users /\ cookie \in [Browsers -> Tokens]
    BY SessionsAssumption DEF Init, SessionInit, Tokens
  <2>2. /\ lifecycle \in [RawEntryIds -> {"candidate", "hidden"}]
        /\ reviews \in [FeedbackIds -> ReviewBodies \cup {[status |-> "open"]}]
    BY DEF Init
  <2>3. /\ pc \in [Handlers -> Labels] /\ req \in [Handlers -> Request]
        /\ tx \in [Handlers -> Transaction]
    BY NoRequestTyped DEF Init, Labels
  <2>4. /\ audits \in Seq([actor : Users, object : Objects]) /\ changes \in Seq(Request)
    BY DEF Init
  <2>5. QED
    BY <1>1, <1>2, <1>3, <1>4, <2>1, <2>2, <2>3, <2>4 DEF TypeOK, Labels, Transaction
<1>6. RequestsOK
  BY <1>3 DEF RequestsOK, RequestOK
<1>7. SessionsOK
  <2>1. sessions = <<>> /\ \A b \in Browsers : cookie[b] = 0
    BY DEF Init, SessionInit
  <2>2. QED
    BY <2>1, SessionsAssumption DEF SessionsOK, Known
<1>8. DrawsBounded
  <2>1. Drawing = {} /\ Cardinality({}) = 0
    BY <1>3, FS_EmptySet DEF Drawing
  <2>2. QED
    BY <1>2, <2>1 DEF DrawsBounded
<1>9. LocksApart /\ UrlsApart
  BY <1>3, <1>4 DEF LocksApart, UrlsApart
<1>10. ChangesOK
  BY DEF Init, ChangesOK
<1>11. UsedOK
  BY DEF Init, UsedOK
<1>12. \A u, x : Accounted(u, x)
  <2>1. used.faults \in Nat
    BY <1>11 DEF UsedOK
  <2>2. QED
    BY <2>1, CountsZero DEF Accounted
<1>13. QED
  BY <1>1, <1>5, <1>6, <1>7, <1>8, <1>9, <1>10, <1>11, <1>12 DEF IInv, RegistryInv

\* What each request may rely on at its next statement, that rows and urls are
\* held apart, and that the audit log is behind by no more than the faults.
THEOREM AdminInvariant == Spec => []IInv
BY InitSound, NextSound, PTL DEF Spec

\* Sessions, requests, transactions and tables keep their types in every
\* reachable state, and only a request inside its transaction holds a row.
THEOREM AdminTypes == Spec => []TypeOK
<1>1. IInv => TypeOK
  BY DEF IInv, RegistryInv
<1>2. QED
  BY <1>1, AdminInvariant, PTL

\* Nothing is changed but by an administrator whose session was alive when the
\* request came in: the lookup of requireAdmin comes later, and no session that
\* was over by then is found again.
THEOREM ChangesAreAdmins == Spec => []OnlyAdminsChange
<1>1. IInv => OnlyAdminsChange
  BY DEF IInv, RegistryInv, ChangesOK, Authorized, OnlyAdminsChange
<1>2. QED
  BY <1>1, AdminInvariant, PTL

\* Change by change, the audit log tells who changed what, and is short of a
\* change by no more than the requests about to record one and the faults.
THEOREM ChangesAreAudited == Spec => []AuditAccountsForChanges
<1>1. IInv => AuditAccountsForChanges
  BY DEF IInv, Accounted, RecordedBy, ChangedBy, PendingBy, AuditAccountsForChanges
<1>2. QED
  BY <1>1, AdminInvariant, PTL

-----------------------------------------------------------------------------
\* What a commit writes, and nothing but a commit.

LEMMA CommitChanges ==
  ASSUME RegistryInv, NEW h \in Handlers, Commit(h), req[h].since > 0
  PROVE  LET s == req[h].id IN
           \E i \in req[h].since..Len(log[s]) : configs'[s] = Merge(req[h].body, log[s][i])
<1> DEFINE s == req[h].id
<1>1. /\ InTransaction(req[h], "policy", tx[h]) /\ s = tx[h].source /\ s \in Sources
      /\ configs' = [configs EXCEPT ![s] = tx[h].target]
  BY CommitOf DEF InTransaction
<1>2. Updating(req[h], tx[h])
  BY <1>1 DEF InTransaction, Creating
<1>3. PICK i \in 1..Len(log[s]) :
        i >= req[h].since /\ tx[h].target = Merge(req[h].body, log[s][i])
  BY <1>1, <1>2 DEF Updating
<1>4. req[h].since \in Nat /\ Len(log[s]) \in Nat
  BY <1>1, RequestOf, TablesTyped DEF Request
<1>5. i \in req[h].since..Len(log[s])
  BY <1>3, <1>4
<1>6. configs'[s] = tx[h].target
  BY <1>1, TablesTyped
<1>7. QED
  BY <1>3, <1>5, <1>6

\* A step that is not a commit leaves the sources alone, and takes no handler
\* from its policy statement to its audit event.
LEMMA OnlyCommits ==
  ASSUME IInv, [Next]_vars, ~\E h \in Handlers : Commit(h)
  PROVE  /\ configs' = configs /\ log' = log
         /\ \A h \in Handlers : pc[h] = "policy" => pc'[h] # "audit"
<1> DEFINE Quiet == /\ configs' = configs /\ log' = log
                    /\ \A h \in Handlers : pc[h] = "policy" => pc'[h] # "audit"
<1>1. TypeOK
  BY DEF IInv, RegistryInv
<1>2. CASE SessionStep /\ UNCHANGED <<tableVars, requestVars, used>>
  BY <1>2 DEF tableVars, requestVars
<1>3. ASSUME NEW h \in Handlers, NEW b, NEW type, NEW id, NEW body, NEW label \in {"page", "authorize"},
             Take(h, b, type, id, body, label)
      PROVE  Quiet
  <2>1. pc' = [pc EXCEPT ![h] = label] /\ UNCHANGED tableVars
    BY <1>3, Zenon DEF Take
  <2>2. QED
    BY <1>1, <2>1 DEF tableVars, TypeOK
<1>4. ASSUME NEW h \in Handlers, NEW b, NEW type, NEW id, NEW body,
             PostForm(h, b, type, id, body) \/ Receive(h, b, type, id, body)
      PROVE  Quiet
  BY <1>3, <1>4, Zenon DEF PostForm, Receive
<1>5. ASSUME NEW h \in Handlers, UNCHANGED <<configs, log>>,
             \/ Answer(h)
             \/ UNCHANGED pc
             \/ pc[h] # "policy" /\ \E label : pc' = [pc EXCEPT ![h] = label]
      PROVE  Quiet
  BY <1>1, <1>5 DEF Answer, TypeOK
<1>6. ASSUME NEW h \in Handlers, RequestStep(h)
      PROVE  Quiet
  <2>1. CASE RequireAdminSession(h)
    BY <2>1, <1>5 DEF RequireAdminSession, tableVars
  <2>2. CASE Authorize(h)
    BY <2>2, <1>5 DEF Authorize, tableVars, Unauthenticated, NoAdmin, LetThrough
  <2>3. CASE Moderate(h)
    BY <2>3, <1>5 DEF Moderate, NothingToModerate, UpdateRawEntryLifecycle, UpdateFeedbackReview, Moderated
  <2>4. CASE ReadCurrent(h)
    BY <2>4, <1>5 DEF ReadCurrent, tableVars
  <2>5. CASE LockRow(h)
    BY <2>5, <1>5 DEF LockRow, tableVars
  <2>6. CASE DrawId(h)
    BY <2>6, <1>5 DEF DrawId
  <2>7. CASE WriteRow(h)
    BY <2>7, <1>5 DEF WriteRow, Conflict, tableVars
  <2>8. CASE RecordAuditEvent(h)
    BY <2>8, <1>5 DEF RecordAuditEvent
  <2>9. CASE DeadlockAbort(h)
    BY <2>9, <1>5 DEF DeadlockAbort, tableVars
  <2>10. QED
    BY <1>6, <2>1, <2>2, <2>3, <2>4, <2>5, <2>6, <2>7, <2>8, <2>9 DEF RequestStep
<1>7. ASSUME NEW h \in Handlers, Fail(h)
      PROVE  Quiet
  BY <1>5, <1>7 DEF Fail, tableVars
<1>8. CASE UNCHANGED vars
  BY <1>8 DEF vars, tableVars, requestVars
<1>9. QED
  BY <1>2, <1>4, <1>6, <1>7, <1>8 DEF Next

\* A PATCH is applied to a configuration that the source had when the request
\* came in or later: the read of updateSource lies within the request, though
\* before the row is its own.
THEOREM PatchesSeeTheirPast == Spec => ChangesSeeTheirPast
<1>1. IInv /\ [Next]_vars =>
        [\A h \in Handlers : pc[h] = "policy" /\ pc'[h] = "audit" /\ req[h].since > 0 =>
           LET s == req[h].id IN
             \E i \in req[h].since..Len(log[s]) :
               configs'[s] = Merge(req[h].body, log[s][i])]_vars
  <2> SUFFICES ASSUME IInv, [Next]_vars, NEW h \in Handlers,
                      pc[h] = "policy", pc'[h] = "audit", req[h].since > 0
               PROVE  LET s == req[h].id IN
                        \E i \in req[h].since..Len(log[s]) :
                          configs'[s] = Merge(req[h].body, log[s][i])
    OBVIOUS
  <2>1. PICK p \in Handlers : Commit(p)
    BY OnlyCommits
  <2>2. RegistryInv
    BY DEF IInv
  <2>3. Goes(p, req[p], "audit", NoTx)
    BY <2>1, <2>2, CommitOf
  <2>4. p = h
    BY <2>2, <2>3, GoesEffect DEF RegistryInv
  <2>5. QED
    BY <2>1, <2>2, <2>4, CommitChanges
<1>2. QED
  BY <1>1, AdminInvariant, PTL DEF Spec, ChangesSeeTheirPast

-----------------------------------------------------------------------------
\* The registry of SourceVersions.

Had == [s \in Sources |-> Range(log[s])]

LEMMA AppendRange ==
  ASSUME NEW S, NEW f \in Seq(S), NEW c \in S
  PROVE  Range(Append(f, c)) = Range(f) \cup {c}
<1>1. /\ DOMAIN Append(f, c) = 1..(Len(f) + 1) /\ DOMAIN f = 1..Len(f) /\ Len(f) \in Nat
      /\ Append(f, c)[Len(f) + 1] = c /\ \A i \in 1..Len(f) : Append(f, c)[i] = f[i]
  OBVIOUS
<1>2. 1..(Len(f) + 1) = (1..Len(f)) \cup {Len(f) + 1}
  BY <1>1
<1>3. QED
  BY <1>1, <1>2 DEF Range

LEMMA InitVersioned == Init => Versions!Init
<1> SUFFICES ASSUME Init PROVE Versions!Init
  OBVIOUS
<1>1. TablesOK /\ configs \in [Sources -> Config \cup {Absent}]
  BY InitTables
<1>2. ASSUME NEW s \in Sources PROVE Range(log[s]) = {configs[s]} \ {Absent}
  <2>1. CASE s \in DOMAIN Registered
    <3>1. log[s] = <<Registered[s]>> /\ configs[s] = Registered[s]
      BY <2>1 DEF Init
    <3>2. Registered[s] # Absent
      BY <2>1, AdminAssumption, ConfigAssumption
    <3>3. Range(<<Registered[s]>>) = {Registered[s]}
      BY DEF Range
    <3>4. QED
      BY <3>1, <3>2, <3>3
  <2>2. CASE s \notin DOMAIN Registered
    <3>1. log[s] = <<>> /\ configs[s] = Absent
      BY <2>2 DEF Init
    <3>2. Range(<<>>) = {}
      BY DEF Range
    <3>3. QED
      BY <3>1, <3>2
  <2>3. QED
    BY <2>1, <2>2
<1>3. Had = [s \in Sources |-> {configs[s]} \ {Absent}]
  BY <1>2 DEF Had
<1>4. \A s \in Sources : configs[s] # Absent => UrlFree(configs, s, configs[s])
  BY <1>1 DEF TablesOK
<1>5. QED
  BY <1>1, <1>3, <1>4 DEF Versions!Init, Had, Versions!Sources, Sources, Versions!UrlFree, UrlFree,
                          Versions!Config, Config

LEMMA CommitVersioned ==
  ASSUME RegistryInv, NEW h \in Handlers, Commit(h)
  PROVE  Versions!Next
<1> DEFINE s == tx[h].source
           c == tx[h].target
           q == req[h]
<1>1. /\ InTransaction(q, "policy", tx[h]) /\ s \in Sources /\ c \in Config /\ UrlFree(configs, s, c)
      /\ configs' = [configs EXCEPT ![s] = c] /\ log' = [log EXCEPT ![s] = Append(log[s], c)]
  BY CommitOf
<1>2. Creating(q, tx[h]) \/ Updating(q, tx[h])
  BY <1>1 DEF InTransaction
<1>3. log \in [Sources -> Seq(Config)]
  BY TablesTyped
<1> HIDE DEF s, c, q
<1>4. Had' = [Had EXCEPT ![s] = Had[s] \cup {c}]
  <2>1. Range(log'[s]) = Range(log[s]) \cup {c}
    BY <1>1, <1>3, AppendRange
  <2>2. \A z \in Sources \ {s} : log'[z] = log[z]
    BY <1>1, <1>3
  <2>3. ASSUME NEW z \in Sources
        PROVE  Range(log'[z]) = [Had EXCEPT ![s] = Had[s] \cup {c}][z]
    <3>1. Had[z] = Range(log[z])
      BY DEF Had
    <3>2. [Had EXCEPT ![s] = Had[s] \cup {c}][z] = IF z = s THEN Had[s] \cup {c} ELSE Had[z]
      BY DEF Had
    <3>3. CASE z = s
      BY <2>1, <3>1, <3>2, <3>3
    <3>4. CASE z # s
      BY <2>2, <3>1, <3>2, <3>4
    <3>5. QED
      BY <3>3, <3>4
  <2>4. Had' = [z \in Sources |-> Range(log'[z])]
    BY DEF Had
  <2>5. Had' = [z \in Sources |-> [Had EXCEPT ![s] = Had[s] \cup {c}][z]]
    BY <2>3, <2>4
  <2>6. DOMAIN Had = Sources
    BY DEF Had
  <2>7. QED
    BY <2>5, <2>6
<1>5. Versions!Store(s, c)
  BY <1>1, <1>4 DEF Versions!Store, Had, Versions!UrlFree, UrlFree, Versions!Sources, Sources
<1>6. CASE Creating(q, tx[h])
  <2>1. configs[s] = Absent /\ q.body \in CreateBodies /\ c = Merge(q.body, DefaultConfig)
    BY <1>6 DEF Creating, s, c
  <2>2. Versions!Create(s)
    BY <1>5, <2>1 DEF Versions!Create, Versions!Merge, Merge, Versions!Fields, Fields
  <2>3. QED
    BY <1>1, <2>2 DEF Versions!Next, Versions!Sources, Sources
<1>7. CASE Updating(q, tx[h])
  <2>1. PICK i \in 1..Len(log[s]) : c = Merge(q.body, log[s][i])
    BY <1>7 DEF Updating, s, c
  <2>2. log[s][i] \in Had[s] /\ q.body \in PatchBodies
    BY <1>1, <1>3, <1>7, <2>1 DEF Had, Range, Updating
  <2>3. Versions!Update(s)
    BY <1>5, <2>1, <2>2 DEF Versions!Update, Had, Versions!Merge, Merge, Versions!Fields, Fields,
                            Versions!Sources, Sources
  <2>4. QED
    BY <1>1, <2>3 DEF Versions!Next, Versions!Sources, Sources
<1>8. QED
  BY <1>2, <1>6, <1>7

\* The two tables, the transactions and the waits of the API implement a
\* registry whose sources change as a whole: each commit stores one request's
\* fields over one configuration the source has had, under a url that is free,
\* and no other step changes a source.
THEOREM RegistryKeepsVersions == Spec => ImplementsVersions
<1>1. IInv /\ [Next]_vars => [Versions!Next]_<<configs, Had>>
  <2> SUFFICES ASSUME IInv, [Next]_vars PROVE [Versions!Next]_<<configs, Had>>
    OBVIOUS
  <2>1. CASE \E h \in Handlers : Commit(h)
    BY <2>1, CommitVersioned DEF IInv
  <2>2. CASE ~\E h \in Handlers : Commit(h)
    <3>1. configs' = configs /\ log' = log
      BY <2>2, OnlyCommits
    <3>2. Had' = Had
      BY <3>1 DEF Had
    <3>3. QED
      BY <3>1, <3>2
  <2>3. QED
    BY <2>1, <2>2
<1>2. QED
  BY <1>1, InitVersioned, AdminInvariant, PTL DEF Spec, ImplementsVersions, Versions!Spec, Had
=============================================================================
