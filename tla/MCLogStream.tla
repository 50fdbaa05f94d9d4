---------------------------- MODULE MCLogStream ----------------------------
(* Small instances of LogStream for TLC. *)
EXTENDS LogStream

CONSTANTS w1, w2

=============================================================================
