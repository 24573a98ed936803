------------------------------ MODULE RateLimit ------------------------------
(***************************************************************************)
(* The per-route rate limiter (app/rate_limit.py): a fixed window counted  *)
(* in Redis per client and route, shared by the worker processes.  The     *)
(* window opens with its first hit and lasts Window seconds; Redis expires *)
(* the counter.  A hit is one atomic script of the limits library.  The    *)
(* key is never empty: get_remote_address falls back to the loopback.      *)
(***************************************************************************)
EXTENDS Naturals

CONSTANTS
  Workers,   \* requests being served, by any process
  Clients,   \* client addresses
  Routes,    \* rate-limited functions (the scope of a counter)
  Limit,     \* the rate's amount
  Window     \* the rate's period in seconds

ASSUME RateAssumption == Limit \in Nat \ {0} /\ Window \in Nat \ {0}

VARIABLES
  redis,     \* Redis is reachable
  count,     \* hits counted in the current window, up to Limit + 1
  left,      \* seconds until the counter expires
  within,    \* history: requests admitted in the last a seconds and in this one
  answer     \* how each request ended

vars == <<redis, count, left, within, answer>>

Buckets == Clients \X Routes
Ages == 0..(Window - 1)

\* The type of every variable.
TypeOK ==
  /\ redis \in BOOLEAN
  /\ count \in [Buckets -> 0..(Limit + 1)]
  /\ left \in [Buckets -> 0..Window]
  /\ \A b \in Buckets : left[b] = 0 <=> count[b] = 0
  /\ within \in [Buckets -> [Ages -> Nat]]
  /\ answer \in [Workers -> {"none", "ok", "429", "500"}]

Init ==
  /\ redis \in BOOLEAN
  /\ count = [b \in Buckets |-> 0]
  /\ left = [b \in Buckets |-> 0]
  /\ within = [b \in Buckets |-> [a \in Ages |-> 0]]
  /\ answer = [w \in Workers |-> "none"]

-----------------------------------------------------------------------------
\* Mutant: the limit is compared before the hit is counted.
AdmitsOneMore(n) == n <= Limit + 1

\* hit(): the counter after this hit is within the limit.
Admits(n) == n <= Limit

\* Mutant: every hit renews the counter's expiry.
RenewedExpiry(b) == Window

\* Redis sets the expiry with the hit that creates the counter.
Expiry(b) == IF count[b] = 0 THEN Window ELSE left[b]

\* The wrapper awaits the hit, then runs the handler or raises RateLimitExceeded.
Hit(w, b) ==
  /\ answer[w] = "none" /\ redis
  /\ count' = [count EXCEPT ![b] = IF @ > Limit THEN @ ELSE @ + 1]
  /\ left' = [left EXCEPT ![b] = Expiry(b)]
  /\ IF Admits(count[b] + 1)
     THEN /\ answer' = [answer EXCEPT ![w] = "ok"]
          /\ within' = [within EXCEPT ![b] = [a \in Ages |-> @[a] + 1]]
     ELSE /\ answer' = [answer EXCEPT ![w] = "429"]
          /\ UNCHANGED within
  /\ UNCHANGED redis

\* The hit raises, before the handler: an unhandled error.
HitFails(w) ==
  /\ answer[w] = "none" /\ ~redis
  /\ answer' = [answer EXCEPT ![w] = "500"]
  /\ UNCHANGED <<redis, count, left, within>>

Respond(w) ==
  /\ answer[w] # "none"
  /\ answer' = [answer EXCEPT ![w] = "none"]
  /\ UNCHANGED <<redis, count, left, within>>

\* Redis becomes unreachable or reachable; counters keep expiring meanwhile.
RedisToggles ==
  /\ redis' = ~redis
  /\ UNCHANGED <<count, left, within, answer>>

\* Mutant: the counter outlives its last second.
CountAfterOneSecond(b) == IF left[b] = 0 THEN 0 ELSE count[b]

\* The counter expires with its window.
CountAfter(b) == IF left[b] <= 1 THEN 0 ELSE count[b]

\* A second passes.
Tick ==
  /\ left' = [b \in Buckets |-> IF left[b] = 0 THEN 0 ELSE left[b] - 1]
  /\ count' = [b \in Buckets |-> CountAfter(b)]
  /\ within' = [b \in Buckets |-> [a \in Ages |-> IF a = 0 THEN 0 ELSE within[b][a - 1]]]
  /\ UNCHANGED <<redis, answer>>

Next ==
  \/ RedisToggles \/ Tick
  \/ \E w \in Workers : HitFails(w) \/ Respond(w) \/ \E b \in Buckets : Hit(w, b)

Spec == Init /\ [][Next]_vars

\* Time passes.
FairSpec == Spec /\ WF_vars(Tick)

-----------------------------------------------------------------------------
(* Properties *)

\* However a client's requests spread over the processes, one route admits no more
\* than the limit within a fixed window (since its counter was created, Window -
\* left seconds ago), and fewer than twice the limit in any Window seconds: the end
\* of a window, whose first hit came earlier, and the next one.
AdmissionBound ==
  \A b \in Buckets :
    /\ count[b] > 0 => within[b][Window - left[b]] <= Limit
    /\ within[b][Window - 1] < 2 * Limit

\* A client that keeps sending is not locked out: its own rejected requests do
\* not extend the window that rejects them.
NotLockedOut == \A b \in Buckets : []<>(count[b] < Limit)
=============================================================================
