------------------------------ MODULE MCRouter ------------------------------
(* A small instance of Router for TLC. *)
EXTENDS Router
=============================================================================
