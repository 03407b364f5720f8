--------------------------- MODULE SourceVersions ---------------------------
(***************************************************************************)
(* What the source registry promises to those who read it: a source        *)
(* changes as a whole, from one configuration to another, and each new     *)
(* configuration is one request's fields over a configuration the source   *)
(* has had.  It need not be the latest: concurrent changes may be lost,    *)
(* but never mixed.                                                        *)
(***************************************************************************)
EXTENDS SourceConfigs

VARIABLES
  configs,         \* committed configuration of each id
  versions         \* configurations each id has had

Init ==
  /\ configs \in [Sources -> Config \cup {Absent}]
  /\ \A s \in Sources : configs[s] # Absent => UrlFree(configs, s, configs[s])
  /\ versions = [s \in Sources |-> {configs[s]} \ {Absent}]

Store(s, c) ==
  /\ UrlFree(configs, s, c)
  /\ configs' = [configs EXCEPT ![s] = c]
  /\ versions' = [versions EXCEPT ![s] = @ \cup {c}]

Create(s) ==
  /\ configs[s] = Absent
  /\ \E body \in CreateBodies : Store(s, Merge(body, DefaultConfig))

Update(s) ==
  \E v \in versions[s], body \in PatchBodies : Store(s, Merge(body, v))

Next == \E s \in Sources : Create(s) \/ Update(s)

Spec == Init /\ [][Next]_<<configs, versions>>
=============================================================================
