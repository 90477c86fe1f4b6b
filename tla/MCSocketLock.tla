---------------------------- MODULE MCSocketLock ----------------------------
(* SocketLock for TLC. *)
EXTENDS SocketLock
=============================================================================
