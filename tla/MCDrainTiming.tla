---------------------------- MODULE MCDrainTiming ----------------------------
(* Instances of DrainTiming for TLC: the .cfg files give every constant. *)
EXTENDS DrainTiming
=============================================================================
