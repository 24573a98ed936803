---------------------------- MODULE MCModeration ----------------------------
(* Instances of Moderation for TLC. *)
EXTENDS Moderation

AllFaults == {"crash", "push", "delete"}
NoFaults == {}
=============================================================================
