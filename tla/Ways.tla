-------------------------------- MODULE Ways --------------------------------
(***************************************************************************)
(* The programs that work out their ways: the routes of program 92, the    *)
(* search of program 87, and the steps of program 85.  They share what     *)
(* Players says of a program (pc, my, world), so that what is proved of    *)
(* each of them here holds where Players runs it.                          *)
(***************************************************************************)
EXTENDS Integers

CONSTANTS
  MaxFaults,              \* bound: commands that fail, see Kitchen
  Given,                  \* food that others bring
  Columns, Rows,          \* Paths87
  Width, Height, Mazes,   \* Walk85
  Standing, max_go_time

\* A map has so many columns and rows; a maze is a set of cells of it.
ASSUME GridsAssumption ==
  /\ Columns \in Nat /\ Rows \in Nat
  /\ Mazes \subseteq SUBSET (Int \X Int)

VARIABLES pc, my, world   \* the program's

P92a == INSTANCE Player92a WITH Foods <- Given
B87 == INSTANCE Paths87
W85 == INSTANCE Walk85 WITH Columns <- Width, Rows <- Height
=============================================================================
