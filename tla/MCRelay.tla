------------------------------- MODULE MCRelay -------------------------------
(* A small instance of Relay for TLC. *)
EXTENDS Relay
=============================================================================
