---------------------------- MODULE MCSharedObjects ----------------------------
(* Instances of SharedObjects for TLC. *)
EXTENDS SharedObjects
=============================================================================
