------------------------------- MODULE MCReplay -------------------------------
(* Instances of Replay for TLC; the constants get their values in the cfg. *)
EXTENDS Replay
=============================================================================
