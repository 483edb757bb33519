------------------------------ MODULE MCStartup ------------------------------
(* Instances of Startup for TLC; the constants get their values in the cfg. *)
EXTENDS Startup
=============================================================================
