------------------------------ MODULE MCLogger ------------------------------
(* Instances of Logger for TLC; the constants get their values in the cfg. *)
EXTENDS Logger
=============================================================================
