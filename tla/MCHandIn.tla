------------------------------ MODULE MCHandIn ------------------------------
(***************************************************************************)
(* An instance of HandIn: a team, a player of which may step on a mine.    *)
(***************************************************************************)
EXTENDS HandIn, TLC

CONSTANTS a, m

OneTeam == {a}
OneMover == {m}
TeamOfMover == m :> a
=============================================================================
