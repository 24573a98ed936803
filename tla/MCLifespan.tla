----------------------------- MODULE MCLifespan -----------------------------
(* Instances of Lifespan: every step that calls out may raise. *)
EXTENDS Lifespan, Baselines

AllSteps == {"migrate", "prefetch", "enter", "cache", "health", "engine"}
=============================================================================
