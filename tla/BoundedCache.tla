---------------------------- MODULE BoundedCache ----------------------------
(***************************************************************************)
(* What a cache of computed bodies promises, whatever keeps it up to date: *)
(* a body enters only by a fill that began at most Grace seconds ago, may  *)
(* be forgotten at any time, never changes or comes back, and is gone at   *)
(* the latest Limit seconds after a write made it stale.                   *)
(***************************************************************************)
EXTENDS Naturals

CONSTANTS
  Slots,      \* places that hold a body
  LastWrite,  \* bound on the number of writes
  Grace,      \* longest time between a fill's read and its store
  Limit,      \* no body stays that many seconds after it became stale
  AgeCap      \* where an age stops being counted

VARIABLES
  db,    \* the version of the table
  age,   \* age[v]: seconds since version v was superseded
  held   \* the bodies in the cache: pairs of a slot and a version

vars == <<db, age, held>>

Init == db = 0 /\ age = [v \in 0..LastWrite |-> 0] /\ held = {}

Write ==
  /\ db < LastWrite
  /\ db' = db + 1
  /\ UNCHANGED <<age, held>>

\* A fill replaces what the slot held.
Fill(s, v) ==
  /\ v <= db /\ age[v] <= Grace
  /\ held' = {h \in held : h[1] # s} \union {<<s, v>>}
  /\ UNCHANGED <<db, age>>

Forget ==
  /\ held' \in SUBSET held
  /\ UNCHANGED <<db, age>>

\* One second passes: what has reached its limit is dropped.
Tick ==
  /\ age' = [v \in 0..LastWrite |-> IF v < db /\ age[v] < AgeCap THEN age[v] + 1 ELSE age[v]]
  /\ held' \in SUBSET held
  /\ \A h \in held' : age'[h[2]] < Limit
  /\ UNCHANGED db

Next == Write \/ Forget \/ Tick \/ \E s \in Slots, v \in 0..LastWrite : Fill(s, v)

Spec == Init /\ [][Next]_vars
=============================================================================
