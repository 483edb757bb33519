------------------------------- MODULE MCBodies -------------------------------
(* Instances of Bodies for TLC; the constants get their values in the cfg. *)
EXTENDS Bodies
=============================================================================
