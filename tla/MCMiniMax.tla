------------------------------ MODULE MCMiniMax ------------------------------
(***************************************************************************)
(* MiniMaxCalls for TLC: one retry gives runs of up to two posts, two      *)
(* evaluations show what one leaves behind for the next.                   *)
(***************************************************************************)
EXTENDS MiniMaxCalls
=============================================================================
