---------------------------- MODULE MCTaskSystem ----------------------------
(***************************************************************************)
(* Instances of TaskSystem: an ordinary dish with a short limit and the    *)
(* SpicedPot with a longer one; a team that hands in, and one or two pool  *)
(* threads.                                                                *)
(***************************************************************************)
EXTENDS TaskSystem, TLC

CONSTANTS rice, pot

Types == {rice, pot}
Limits == (rice :> 2) @@ (pot :> 3)
=============================================================================
