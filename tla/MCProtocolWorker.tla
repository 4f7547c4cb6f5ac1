--------------------------- MODULE MCProtocolWorker ---------------------------
(* Instances of ProtocolWorker for TLC: two calls, three versions.  There is
   no symmetry set, which the checking of liveness does not allow. *)
EXTENDS ProtocolWorker
=============================================================================
