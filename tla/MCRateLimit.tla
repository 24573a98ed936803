---------------------------- MODULE MCRateLimit ----------------------------
(* Instances of RateLimit. *)
EXTENDS RateLimit

CONSTANTS w1, w2, c1, c2, f1

TwoWorkers == {w1, w2}
TwoClients == {c1, c2}
OneRoute == {f1}
=============================================================================
