----------------------------- MODULE MCJobPanel -----------------------------
(* Small instances of JobPanel for TLC. *)
EXTENDS JobPanel

CONSTANT w1

=============================================================================
