-------------------------- MODULE MCCredentialPool --------------------------
(* Small instances of CredentialPool for TLC. *)
EXTENDS CredentialPool, TLC

CONSTANTS u1, u2, u3, c1, c2, o1, o2

OneUser == {u1}
TwoUsers == {u1, u2}
ThreeUsers == {u1, u2, u3}
OneCaller == {c1}
TwoCallers == {c1, c2}
OneOperator == {o1}
TwoOperators == {o1, o2}

\* identities, requests and operators are interchangeable
Symmetry ==
    Permutations(Users) \cup Permutations(Callers) \cup Permutations(Operators)
=============================================================================
