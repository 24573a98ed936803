------------------------------- MODULE MCOidc -------------------------------
(* Instances of Oidc: requests and keys are interchangeable. *)
EXTENDS Oidc, TLC

CONSTANTS q1, q2, k1, k2

TwoRequests == {q1, q2}
TwoKeys == {k1, k2}
Symmetry == Permutations(TwoRequests) \union Permutations(TwoKeys)
=============================================================================
