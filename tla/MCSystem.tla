------------------------------ MODULE MCSystem ------------------------------
(* Bounds for model checking System.  The two scalings and the restart may *)
(* come in any order: up and down again or further up, with the controller *)
(* or a container starting again at any moment of it.                      *)
EXTENDS System

MCJobCounts == {5}
MCSizes     == 0 .. 2
MCOrdinals  == 0 .. 1
=============================================================================
