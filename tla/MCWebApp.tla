------------------------------ MODULE MCWebApp ------------------------------
(* The web client with the constants the configurations give it. *)
EXTENDS WebApp
=============================================================================
