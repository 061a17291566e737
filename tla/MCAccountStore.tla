--------------------------- MODULE MCAccountStore ---------------------------
(* A small instance of AccountStore for TLC. *)
EXTENDS AccountStore
=============================================================================
