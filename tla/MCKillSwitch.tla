---------------------------- MODULE MCKillSwitch ----------------------------
(* Small instances of KillSwitch for TLC. *)
EXTENDS KillSwitch, TLC

\* Calls of one endpoint are alike.
CallSymmetry == Permutations(Kills) \cup Permutations(Restarts)
=============================================================================
