------------------------------- MODULE MCValues -------------------------------
(* Instances of Values for TLC. *)
EXTENDS Values, TLC

CONSTANTS summary, value

MCStandard == <<summary, value>>

(* Free objects are all the same, whichever of them CHOOSE takes, so states
   that differ in which object is where have the same behaviours. *)
Symmetry == Permutations(Nodes \ {Root})
=============================================================================
