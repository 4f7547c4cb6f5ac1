---------------------------- MODULE MCWebResponse ----------------------------
(* Instances of WebResponse for TLC. *)
EXTENDS WebResponse
=============================================================================
