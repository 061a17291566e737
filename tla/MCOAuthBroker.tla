--------------------------- MODULE MCOAuthBroker ---------------------------
(* A small instance of OAuthBroker for TLC. *)
EXTENDS OAuthBroker

CONSTANTS b1, b2, s1, s2

TwoOwners == {b1, b2}
TwoIds == {s1, s2}
=============================================================================
