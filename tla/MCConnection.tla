---------------------------- MODULE MCConnection ----------------------------
(* Connection on a small instance: the display object and one other, and   *)
(* two calls of message() that may be unfinished.                          *)
EXTENDS Connection
=============================================================================
