------------------------------ MODULE MCCooker ------------------------------
(***************************************************************************)
(* Instances of Cooker: two teams, which pick from the cooker and of which *)
(* one or both use it, and two batches of food.                            *)
(***************************************************************************)
EXTENDS Cooker

CONSTANTS a, b, c1

OneTeam == {a}
TwoTeams == {a, b}
RecipeOnly == {<<"recipe", FALSE>>}
EveryProduct == {<<"recipe", FALSE>>, <<"junk", FALSE>>, <<"pot", TRUE>>}
=============================================================================
