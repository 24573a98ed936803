--------------------------- MODULE RateLimitProofs ---------------------------
(***************************************************************************)
(* For any limit, any window and any number of clients, routes and         *)
(* requests at once: no fixed window admits more than the limit, and no    *)
(* span of a window's length admits twice the limit.                       *)
(***************************************************************************)
EXTENDS RateLimit, Integers, TLAPS

AgeOf(b) == Window - left[b]

Smaller(m, n) == IF m <= n THEN m ELSE n

\* A window that is open has admitted what it counted, up to the limit, its first
\* hit when it was opened.  What was admitted before it belongs to one window, of
\* which the first hit is out of reach already.
OpenWindow(b) ==
  /\ within[b][AgeOf(b)] = Smaller(count[b], Limit)
  /\ AgeOf(b) > 0 => within[b][AgeOf(b) - 1] < within[b][AgeOf(b)]
  /\ within[b][Window - 1] < within[b][AgeOf(b)] + Limit

\* Between two windows nothing is admitted, and the last one's first hit is out
\* of reach.
NoWindow(b) == within[b][0] = 0 /\ within[b][Window - 1] < Limit

\* The inductive invariant.
Inv ==
  /\ TypeOK
  /\ \A b \in Buckets, a \in Ages : a > 0 => within[b][a - 1] <= within[b][a]
  /\ \A b \in Buckets : IF count[b] = 0 THEN NoWindow(b) ELSE OpenWindow(b)

\* The rate admits something, over some time.
LEMMA WindowIsNat == Window \in Nat /\ Window > 0 /\ Limit \in Nat /\ Limit > 0
BY RateAssumption

\* No window is open at first.
LEMMA InitInv == Init => Inv
<1> SUFFICES ASSUME Init PROVE Inv
  OBVIOUS
<1>1. TypeOK
  BY WindowIsNat DEF Init, TypeOK
<1>2. \A b \in Buckets, a \in Ages : within[b][a] = 0
  BY DEF Init
<1>3. 0 \in Ages /\ Window - 1 \in Ages /\ \A a \in Ages : a > 0 => a - 1 \in Ages
  BY WindowIsNat DEF Ages
<1>4. \A b \in Buckets : count[b] = 0 /\ NoWindow(b)
  BY <1>2, <1>3, WindowIsNat DEF Init, NoWindow
<1>5. \A b \in Buckets, a \in Ages : a > 0 => within[b][a - 1] <= within[b][a]
  BY <1>2, <1>3
<1> QED
  BY <1>1, <1>4, <1>5 DEF Inv

\* The ages within a window.
LEMMA AgesFacts ==
  /\ 0 \in Ages /\ Window - 1 \in Ages
  /\ \A a \in Ages : a \in Int /\ 0 <= a /\ a < Window /\ (a > 0 => a - 1 \in Ages)
  /\ \A n \in 1..Window : Window - n \in Ages
BY WindowIsNat DEF Ages

\* What the invariant says of the numbers of one bucket.
LEMMA Typing ==
  ASSUME Inv, NEW b \in Buckets
  PROVE  /\ count[b] \in Nat /\ count[b] <= Limit + 1
         /\ left[b] \in Nat /\ left[b] <= Window
         /\ left[b] = 0 <=> count[b] = 0
         /\ count[b] > 0 => AgeOf(b) \in Ages
         /\ \A a \in Ages : within[b][a] \in Nat
         /\ \A a \in Ages : a > 0 => within[b][a - 1] <= within[b][a]
         /\ IF count[b] = 0 THEN NoWindow(b) ELSE OpenWindow(b)
<1>1. /\ count[b] \in 0..(Limit + 1) /\ left[b] \in 0..Window
      /\ left[b] = 0 <=> count[b] = 0
      /\ within[b] \in [Ages -> Nat]
  BY DEF Inv, TypeOK
<1>2. count[b] > 0 => left[b] \in 1..Window
  BY <1>1, WindowIsNat
<1> QED
  BY <1>1, <1>2, AgesFacts, WindowIsNat DEF Inv, AgeOf

\* A hit changes nothing of another bucket; of its own, it counts up to one more
\* than the limit, and everything admitted is counted in every span.
LEMMA HitInv ==
  ASSUME Inv, NEW w \in Workers, NEW b \in Buckets, Hit(w, b)
  PROVE  Inv'
<1>1. /\ redis' \in BOOLEAN /\ answer' \in [Workers -> {"none", "ok", "429", "500"}]
      /\ count' = [count EXCEPT ![b] = IF @ > Limit THEN @ ELSE @ + 1]
      /\ left' = [left EXCEPT ![b] = Expiry(b)]
      /\ within' = IF count[b] + 1 <= Limit
                   THEN [within EXCEPT ![b] = [a \in Ages |-> @[a] + 1]] ELSE within
  BY DEF Hit, Admits, Inv, TypeOK
<1>2. count \in [Buckets -> 0..(Limit + 1)] /\ left \in [Buckets -> 0..Window]
      /\ within \in [Buckets -> [Ages -> Nat]]
  BY DEF Inv, TypeOK
<1>3. \A c \in Buckets : c # b =>
        count'[c] = count[c] /\ left'[c] = left[c] /\ within'[c] = within[c]
  BY <1>1, <1>2
<1>4. /\ count'[b] = IF count[b] > Limit THEN count[b] ELSE count[b] + 1
      /\ left'[b] = IF count[b] = 0 THEN Window ELSE left[b]
  BY <1>1, <1>2 DEF Expiry
<1>5. \A a \in Ages :
        within'[b][a] = IF count[b] + 1 <= Limit THEN within[b][a] + 1 ELSE within[b][a]
  BY <1>1, <1>2
<1>6. TypeOK'
  <2>1. count'[b] \in 0..(Limit + 1) /\ left'[b] \in 0..Window /\ (left'[b] = 0 <=> count'[b] = 0)
    BY <1>4, Typing, WindowIsNat
  <2>2. count' \in [Buckets -> 0..(Limit + 1)] /\ left' \in [Buckets -> 0..Window]
    BY <1>1, <1>2, <1>4, <2>1
  <2>3. \A c \in Buckets : left'[c] = 0 <=> count'[c] = 0
    BY <1>3, <2>1, Typing
  <2>4. within' \in [Buckets -> [Ages -> Nat]]
    <3>1. [a \in Ages |-> within[b][a] + 1] \in [Ages -> Nat]
      BY Typing
    <3> QED
      BY <1>1, <1>2, <3>1
  <2> QED
    BY <1>1, <2>2, <2>3, <2>4 DEF TypeOK
<1>7. ASSUME NEW c \in Buckets
      PROVE  /\ \A a \in Ages : a > 0 => within'[c][a - 1] <= within'[c][a]
             /\ IF count'[c] = 0 THEN NoWindow(c)' ELSE OpenWindow(c)'
  <2>1. CASE c # b
    BY <1>3, <2>1, Typing DEF NoWindow, OpenWindow, AgeOf
  <2>2. CASE c = b
    <3>1. \A a \in Ages : a > 0 => within'[b][a - 1] <= within'[b][a]
      BY <1>5, Typing, AgesFacts
    <3>2. count'[b] # 0
      BY <1>4, Typing, WindowIsNat
    <3>3. CASE count[b] = 0
      <4>1. AgeOf(b)' = 0 /\ count'[b] = 1
        BY <1>4, <3>3, WindowIsNat DEF AgeOf
      <4>2. within'[b][0] = 1 /\ within'[b][Window - 1] = within[b][Window - 1] + 1
        BY <1>5, <3>3, Typing, AgesFacts, WindowIsNat DEF NoWindow
      <4>3. within[b][Window - 1] < Limit /\ within[b][Window - 1] \in Nat
        BY <3>3, Typing, AgesFacts DEF NoWindow
      <4>4. OpenWindow(b)'
        BY <4>1, <4>2, <4>3, WindowIsNat DEF OpenWindow, Smaller
      <4> QED
        BY <2>2, <3>1, <3>2, <4>4
    <3>4. CASE count[b] # 0
      <4>1. AgeOf(b)' = AgeOf(b) /\ AgeOf(b) \in Ages /\ OpenWindow(b)
        BY <1>4, <3>4, Typing, WindowIsNat DEF AgeOf
      <4> DEFINE g == AgeOf(b)
      <4> HIDE DEF g
      <4>2. /\ within'[b][g] = IF count[b] + 1 <= Limit THEN within[b][g] + 1 ELSE within[b][g]
            /\ g > 0 => within'[b][g - 1] = IF count[b] + 1 <= Limit THEN within[b][g - 1] + 1
                                            ELSE within[b][g - 1]
            /\ within'[b][Window - 1] = IF count[b] + 1 <= Limit THEN within[b][Window - 1] + 1
                                        ELSE within[b][Window - 1]
        BY <1>5, <4>1, AgesFacts DEF g
      <4>3. /\ within[b][g] \in Nat /\ within[b][Window - 1] \in Nat
            /\ g > 0 => within[b][g - 1] \in Nat
            /\ count[b] \in Nat /\ count[b] <= Limit + 1
        BY <4>1, Typing, AgesFacts DEF g
      <4>4. OpenWindow(b)'
        BY <1>4, <4>1, <4>2, <4>3, WindowIsNat DEF OpenWindow, Smaller, g
      <4> QED
        BY <2>2, <3>1, <3>2, <4>4
    <3> QED
      BY <3>3, <3>4
  <2> QED
    BY <2>1, <2>2
<1> QED
  BY <1>6, <1>7 DEF Inv

\* A second passes: every span reaches one second less far back, and a window
\* that ends leaves its first hit behind.
LEMMA TickInv == Inv /\ Tick => Inv'
<1> SUFFICES ASSUME Inv, Tick PROVE Inv'
  OBVIOUS
<1>1. \A b \in Buckets : /\ left'[b] = IF left[b] = 0 THEN 0 ELSE left[b] - 1
                         /\ count'[b] = IF left[b] <= 1 THEN 0 ELSE count[b]
                         /\ \A a \in Ages : within'[b][a] = IF a = 0 THEN 0 ELSE within[b][a - 1]
  BY DEF Tick, CountAfter
<1>2. TypeOK'
  <2>1. \A b \in Buckets : /\ left'[b] \in 0..Window /\ count'[b] \in 0..(Limit + 1)
                           /\ left'[b] = 0 <=> count'[b] = 0
                           /\ \A a \in Ages : within'[b][a] \in Nat
    BY <1>1, Typing, AgesFacts, WindowIsNat
  <2>2. left' \in [Buckets -> 0..Window] /\ count' \in [Buckets -> 0..(Limit + 1)]
    BY <2>1 DEF Tick
  <2>3. within' \in [Buckets -> [Ages -> Nat]]
    BY <2>1 DEF Tick
  <2> QED
    BY <2>1, <2>2, <2>3 DEF Tick, Inv, TypeOK
<1>3. ASSUME NEW b \in Buckets
      PROVE  /\ \A a \in Ages : a > 0 => within'[b][a - 1] <= within'[b][a]
             /\ IF count'[b] = 0 THEN NoWindow(b)' ELSE OpenWindow(b)'
  <2>1. \A a \in Ages : a > 0 => within'[b][a - 1] <= within'[b][a]
    BY <1>1, Typing, AgesFacts
  <2>2. within'[b][0] = 0
    BY <1>1, AgesFacts
  <2>3. within'[b][Window - 1] = IF Window = 1 THEN 0 ELSE within[b][Window - 2]
    BY <1>1, AgesFacts, WindowIsNat
  <2>4. Window > 1 => /\ within[b][Window - 2] <= within[b][Window - 1]
                      /\ within[b][Window - 2] \in Nat /\ within[b][Window - 1] \in Nat
    BY Typing, AgesFacts, WindowIsNat
  <2>5. CASE left[b] = 0
    <3>1. within'[b][Window - 1] < Limit
      BY <2>3, <2>4, <2>5, Typing, WindowIsNat DEF NoWindow
    <3> QED
      BY <1>1, <2>1, <2>2, <2>5, <3>1 DEF NoWindow
  <2>6. CASE left[b] = 1
    <3>1. count[b] > 0 /\ AgeOf(b) = Window - 1 /\ OpenWindow(b)
      BY <2>6, Typing DEF AgeOf
    <3>2. Window > 1 =>
            within[b][Window - 2] < within[b][Window - 1] /\ within[b][Window - 1] <= Limit
      BY <3>1, Typing, WindowIsNat DEF OpenWindow, Smaller
    <3>3. within'[b][Window - 1] < Limit
      BY <2>3, <2>4, <3>2, WindowIsNat
    <3> QED
      BY <1>1, <2>1, <2>2, <2>6, <3>3 DEF NoWindow
  <2>7. CASE left[b] > 1
    <3> DEFINE g == AgeOf(b)
    <3>1. /\ count'[b] = count[b] /\ count[b] # 0 /\ g \in Ages /\ g + 1 \in Ages
          /\ AgeOf(b)' = g + 1 /\ OpenWindow(b) /\ g \in Int /\ g >= 0
      BY <1>1, <2>7, Typing, WindowIsNat DEF AgeOf, Ages
    <3> HIDE DEF g
    <3>2. within'[b][g + 1] = within[b][g] /\ within'[b][g] = IF g = 0 THEN 0 ELSE within[b][g - 1]
      BY <1>1, <3>1
    <3>3. /\ within[b][g] = Smaller(count[b], Limit)
          /\ g > 0 => within[b][g - 1] < within[b][g]
          /\ within[b][Window - 1] < within[b][g] + Limit
      BY <3>1 DEF OpenWindow, g
    <3>4. within[b][g] > 0
      BY <3>1, <3>3, Typing, WindowIsNat DEF Smaller
    <3>5. within'[b][Window - 1] < within[b][g] + Limit
      BY <2>3, <2>4, <3>1, <3>3, <3>4, Typing, WindowIsNat
    <3>6. OpenWindow(b)'
      BY <3>1, <3>2, <3>3, <3>4, <3>5 DEF OpenWindow
    <3> QED
      BY <2>1, <3>1, <3>6
  <2> QED
    BY <2>5, <2>6, <2>7, Typing
<1> QED
  BY <1>2, <1>3 DEF Inv

\* Only hits and the passing of time touch a window.
LEMMA NextInv == Inv /\ [Next]_vars => Inv'
<1> SUFFICES ASSUME Inv, [Next]_vars PROVE Inv'
  OBVIOUS
<1>1. CASE Tick
  BY <1>1, TickInv
<1>2. CASE \E w \in Workers, b \in Buckets : Hit(w, b)
  BY <1>2, HitInv
<1>3. CASE RedisToggles \/ \E w \in Workers : HitFails(w) \/ Respond(w)
  <2>1. UNCHANGED <<count, left, within>>
    BY <1>3 DEF RedisToggles, HitFails, Respond
  <2>2. redis' \in BOOLEAN /\ answer' \in [Workers -> {"none", "ok", "429", "500"}]
    BY <1>3 DEF RedisToggles, HitFails, Respond, Inv, TypeOK
  <2> QED
    BY <2>1, <2>2 DEF Inv, TypeOK, NoWindow, OpenWindow, AgeOf
<1>4. CASE UNCHANGED vars
  BY <1>4 DEF vars, Inv, TypeOK, NoWindow, OpenWindow, AgeOf
<1> QED
  BY <1>1, <1>2, <1>3, <1>4 DEF Next

\* Every execution.
LEMMA AlwaysInv == Spec => []Inv
BY InitInv, NextInv, PTL DEF Spec

\* Types: a counter exists exactly as long as its window.
THEOREM TypeCorrect == Spec => []TypeOK
<1>1. Inv => TypeOK
  BY DEF Inv
<1> QED
  BY <1>1, AlwaysInv, PTL

\* The fixed window (AsyncLimiter.limit): it admits at most the limit, and any span
\* of its length fewer than twice the limit, over all processes together.
THEOREM Bounded == Spec => []AdmissionBound
<1>1. Inv => AdmissionBound
  <2> SUFFICES ASSUME Inv, NEW b \in Buckets
               PROVE  /\ count[b] > 0 => within[b][Window - left[b]] <= Limit
                      /\ within[b][Window - 1] < 2 * Limit
    BY DEF AdmissionBound
  <2>1. CASE count[b] = 0
    BY <2>1, Typing, AgesFacts, WindowIsNat DEF NoWindow
  <2>2. CASE count[b] > 0
    BY <2>2, Typing, AgesFacts, WindowIsNat DEF OpenWindow, Smaller, AgeOf
  <2> QED
    BY <2>1, <2>2, Typing
<1> QED
  BY <1>1, AlwaysInv, PTL
=============================================================================
