-------------------------- MODULE MCStreamManager --------------------------
(* Instances of StreamManager for TLC. *)
EXTENDS StreamManager
=============================================================================
