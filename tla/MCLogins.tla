------------------------------ MODULE MCLogins ------------------------------
(***************************************************************************)
(* Logins for TLC: an administrator and a reader, an invited email and a   *)
(* stranger's; tabs, and browsers, are alike.                              *)
(***************************************************************************)
EXTENDS Logins, TLC

CONSTANTS admin, reader, invitee, stranger, b1, b2, r1, r2

Symmetry == Permutations(Tabs) \cup Permutations(Browsers)
=============================================================================
