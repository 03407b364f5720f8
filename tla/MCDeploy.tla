------------------------------ MODULE MCDeploy ------------------------------
(***************************************************************************)
(* Deploy for TLC, with the two services that use the database: the web    *)
(* reads it through the api.                                               *)
(***************************************************************************)
EXTENDS Deploy, Sequences, TLC

MCRunners == 1..MaxDeploys
MCShaTag == [i \in Images |-> "sha-" \o ToString(i)]
=============================================================================
