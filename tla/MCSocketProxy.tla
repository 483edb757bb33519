---------------------------- MODULE MCSocketProxy ----------------------------
(* Instances of SocketProxy for TLC; the constants get their values in the cfg. *)
EXTENDS SocketProxy
=============================================================================
