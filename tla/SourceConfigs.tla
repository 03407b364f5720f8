---------------------------- MODULE SourceConfigs ----------------------------
(***************************************************************************)
(* A registered source: its row of sources joined with its row of          *)
(* source_policies, as the API reads and writes them.  Four of the fields  *)
(* stand for all: the url, which is unique, enabled for the other columns  *)
(* of sources, and two columns of the policy.                              *)
(***************************************************************************)
EXTENDS Integers, Sequences, FiniteSets

CONSTANTS
  MaxSources,      \* bound: ids of sources
  Urls,
  RightsPolicies,
  DefaultConfig,   \* what POST /sources fills in
  CreateBodies,    \* bodies of POST /sources
  PatchBodies,     \* bodies of PATCH /sources/:id
  Absent           \* the configuration of an id without a source

Sources == 1..MaxSources

Fields == {"url", "enabled", "crawl", "rights"}

Config == [url : Urls, enabled : BOOLEAN, crawl : BOOLEAN, rights : RightsPolicies]

ASSUME ConfigAssumption ==
  /\ MaxSources \in Nat
  /\ DefaultConfig \in Config
  /\ Absent \notin Config
  /\ \A body \in CreateBodies \cup PatchBodies :
       DOMAIN body \subseteq Fields /\ \E c \in Config : \A f \in DOMAIN body : body[f] = c[f]
  /\ \A body \in CreateBodies : "url" \in DOMAIN body

\* `input ?? current`, field by field.
Merge(body, current) ==
  [f \in Fields |-> IF f \in DOMAIN body THEN body[f] ELSE current[f]]

\* No other source has the url of c.
UrlFree(configs, s, c) ==
  \A t \in Sources \ {s} : configs[t] # Absent => configs[t].url # c.url
=============================================================================
