---------------------------- MODULE MCStreamRelay ----------------------------
(* Small instances of StreamRelay for TLC. *)
EXTENDS StreamRelay
=============================================================================
