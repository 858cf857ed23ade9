------------------------------- MODULE MCRoom -------------------------------
(***************************************************************************)
(* Instances of Room: a room for two players, for which two or three ask.  *)
(***************************************************************************)
EXTENDS Room

CONSTANTS ann, bob, cyd

TwoClients == {ann, bob}
ThreeClients == {ann, bob, cyd}
ThreeConns == 1 .. 3
=============================================================================
