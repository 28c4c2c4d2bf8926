--------------------------- MODULE ConnPeerProofs ---------------------------
(***************************************************************************)
(* Proofs about module ConnPeer, for any hubs and any times.               *)
(*                                                                         *)
(* The back-off and the life of a call are recursive functions, so their   *)
(* facts need recursion and induction first, both stated about sets.       *)
(* Every call is then measured by how long it can still take: that only    *)
(* falls, by one a second at least.  So the calls of the aggressive peer   *)
(* with more than k seconds left were begun within the last Lifetime - k   *)
(* seconds, and while the cycling peer awaits a call its connections age   *)
(* by what the call has used up.                                           *)
(***************************************************************************)
EXTENDS ConnPeer, FiniteSetTheorems, WellFoundedInduction, TLAPS

-----------------------------------------------------------------------------
(* Induction and recursion over the natural numbers.                       *)

\* A set of natural numbers has a least one.
LEMMA LeastNumber ==
  ASSUME NEW T, T \subseteq Nat, T # {}
  PROVE  \E n \in T : \A m \in T : n <= m
<1>1. IsWellFoundedOn(OpToRel(<, Nat), Nat)
  BY NatLessThanWellFounded
<1>2. PICK n \in T : \A m \in T : <<m, n>> \notin OpToRel(<, Nat)
  BY <1>1, WFMin
<1>3. \A m \in T : ~(m < n)
  BY <1>2 DEF OpToRel
<1> QED
  BY <1>3

\* Induction, for a set instead of a predicate.
LEMMA Induction ==
  ASSUME NEW T, 0 \in T, \A n \in Nat : n \in T => n + 1 \in T
  PROVE  \A n \in Nat : n \in T
<1> SUFFICES ASSUME NEW k \in Nat, k \notin T PROVE FALSE
  OBVIOUS
<1> DEFINE U == {n \in Nat : n \notin T}
<1>1. U \subseteq Nat /\ U # {}
  OBVIOUS
<1>2. PICK n \in U : \A m \in U : n <= m
  <2> HIDE DEF U
  <2> QED BY <1>1, LeastNumber
<1>3. n \in Nat /\ n # 0
  BY <1>2
<1>4. n - 1 \in Nat /\ n - 1 \in T
  BY <1>2, <1>3
<1>5. (n - 1) + 1 \in T
  BY <1>4
<1> QED
  BY <1>2, <1>3, <1>5

\* f starts from v, and each value is what step makes of the one before.
Iterates(f, V, v, step) ==
  /\ f \in [Nat -> V]
  /\ f[0] = v
  /\ \A n \in Nat : f[n + 1] = step[<<n, f[n]>>]

\* There is such a function, which a recursive definition takes for granted.
LEMMA Recursion ==
  ASSUME NEW V, NEW v \in V, NEW step \in [Nat \X V -> V]
  PROVE  \E f : Iterates(f, V, v, step)
<1> DEFINE Partial(n) == {g \in [0..n -> V] :
                            g[0] = v /\ \A i \in 0..(n - 1) : g[i + 1] = step[<<i, g[i]>>]}
           Defined == {n \in Nat : Partial(n) # {}}
           Agreed == {i \in Nat : \A n, m \in Nat : i <= n /\ i <= m =>
                        \A g \in Partial(n), h \in Partial(m) : g[i] = h[i]}
<1>1. \A n \in Nat : n \in Defined
  <2>1. 0 \in Defined
    <3>1. [i \in 0..0 |-> v] \in Partial(0)
      OBVIOUS
    <3> QED BY <3>1
  <2>2. ASSUME NEW n \in Nat, n \in Defined PROVE n + 1 \in Defined
    <3>1. PICK g \in Partial(n) : TRUE
      BY <2>2
    <3> DEFINE h == [i \in 0..(n + 1) |-> IF i = n + 1 THEN step[<<n, g[n]>>] ELSE g[i]]
    <3>2. g \in [0..n -> V] /\ g[0] = v /\ \A i \in 0..(n - 1) : g[i + 1] = step[<<i, g[i]>>]
      BY <3>1
    <3>3. g[n] \in V /\ step[<<n, g[n]>>] \in V
      BY <3>2
    <3>4. h \in [0..(n + 1) -> V]
      BY <3>2, <3>3
    <3>5. h[0] = v
      BY <3>2
    <3>6. ASSUME NEW i \in 0..n PROVE h[i + 1] = step[<<i, h[i]>>]
      <4>1. CASE i = n
        <5>1. n \in 0..(n + 1) /\ n + 1 \in 0..(n + 1) /\ n # n + 1
          OBVIOUS
        <5>2. h[n] = g[n] /\ h[n + 1] = step[<<n, g[n]>>]
          BY <5>1
        <5> QED BY <4>1, <5>2
      <4>2. CASE i # n
        <5>1. i \in 0..(n - 1) /\ i + 1 # n + 1 /\ i + 1 \in 0..(n + 1)
          BY <4>2
        <5>2. h[i] = g[i] /\ h[i + 1] = g[i + 1]
          BY <5>1
        <5> QED BY <5>1, <5>2, <3>2
      <4> QED BY <4>1, <4>2
    <3>7. (n + 1) - 1 = n
      OBVIOUS
    <3>8. h \in Partial(n + 1)
      <4> HIDE DEF h
      <4> QED BY <3>4, <3>5, <3>6, <3>7
    <3>9. n + 1 \in Nat
      OBVIOUS
    <3> HIDE DEF Partial
    <3> QED BY <3>8, <3>9
  <2> HIDE DEF Defined
  <2> QED BY <2>1, <2>2, Induction
<1>2. \A i \in Nat : i \in Agreed
  <2>1. 0 \in Agreed
    OBVIOUS
  <2>2. ASSUME NEW i \in Nat, i \in Agreed PROVE i + 1 \in Agreed
    <3>1. ASSUME NEW n \in Nat, NEW m \in Nat, i + 1 <= n, i + 1 <= m,
                 NEW g \in Partial(n), NEW h \in Partial(m)
          PROVE  g[i + 1] = h[i + 1]
      <4>1. i <= n /\ i <= m /\ i \in 0..(n - 1) /\ i \in 0..(m - 1)
        BY <3>1
      <4>2. g[i] = h[i]
        <5> HIDE DEF Partial
        <5> QED BY <2>2, <4>1
      <4>3. g[i + 1] = step[<<i, g[i]>>] /\ h[i + 1] = step[<<i, h[i]>>]
        BY <4>1
      <4> QED BY <4>2, <4>3
    <3>2. i + 1 \in Nat
      OBVIOUS
    <3> HIDE DEF Partial
    <3> QED BY <3>1, <3>2
  <2> HIDE DEF Agreed
  <2> QED BY <2>1, <2>2, Induction
<1> DEFINE G == [n \in Nat |-> CHOOSE g \in Partial(n) : TRUE]
           f == [n \in Nat |-> G[n][n]]
<1>3. \A n \in Nat : G[n] \in Partial(n)
  BY <1>1
<1>4. \A n \in Nat : G[n] \in [0..n -> V] /\ G[n][0] = v
                     /\ \A i \in 0..(n - 1) : G[n][i + 1] = step[<<i, G[n][i]>>]
  BY <1>3
<1>5. ASSUME NEW n \in Nat PROVE G[n + 1][n] = G[n][n]
  <2>1. n + 1 \in Nat /\ n <= n /\ n <= n + 1
    OBVIOUS
  <2>2. G[n] \in Partial(n) /\ G[n + 1] \in Partial(n + 1)
    BY <1>3, <2>1
  <2> HIDE DEF G, Partial
  <2> QED BY <1>2, <2>1, <2>2
<1>6. f \in [Nat -> V] /\ f[0] = v
  <2>1. \A n \in Nat : n \in 0..n
    OBVIOUS
  <2>2. \A n \in Nat : G[n][n] \in V
    BY <1>4, <2>1
  <2> QED BY <1>4, <2>2
<1>7. ASSUME NEW n \in Nat PROVE f[n + 1] = step[<<n, f[n]>>]
  <2>1. n \in 0..((n + 1) - 1) /\ n + 1 \in Nat
    OBVIOUS
  <2>2. G[n + 1][n + 1] = step[<<n, G[n + 1][n]>>]
    BY <1>4, <2>1
  <2>3. f[n + 1] = G[n + 1][n + 1] /\ f[n] = G[n][n]
    BY <2>1
  <2> HIDE DEF G
  <2> QED BY <2>2, <2>3, <1>5
<1> QED
  <2> HIDE DEF f
  <2>1. Iterates(f, V, v, step)
    BY <1>6, <1>7 DEF Iterates
  <2> QED BY <2>1

-----------------------------------------------------------------------------
(* The back-offs and the life of a call.                                   *)

\* The powers of two are what their definition says.
LEMMA PowerFacts ==
  /\ Power2[0] = 1
  /\ \A n \in Nat : Power2[n + 1] = 2 * Power2[n]
  /\ Power2 \in [Nat -> Nat \ {0}]
<1> DEFINE Eq(f) == f = [n \in Nat |-> IF n = 0 THEN 1 ELSE 2 * f[n - 1]]
           step == [x \in Nat \X Nat |-> 2 * x[2]]
<1>1. step \in [Nat \X Nat -> Nat] /\ 1 \in Nat
  OBVIOUS
<1>2. PICK f \in [Nat -> Nat] : f[0] = 1 /\ \A n \in Nat : f[n + 1] = step[<<n, f[n]>>]
  <2> HIDE DEF step
  <2>1. \E f : Iterates(f, Nat, 1, step)
    BY <1>1, Recursion, Zenon
  <2> QED BY <2>1 DEF Iterates
<1>3. Eq(f)
  <2>1. ASSUME NEW n \in Nat PROVE f[n] = IF n = 0 THEN 1 ELSE 2 * f[n - 1]
    <3>1. CASE n # 0
      <4>1. n - 1 \in Nat /\ (n - 1) + 1 = n
        BY <3>1
      <4>2. f[n] = step[<<n - 1, f[n - 1]>>]
        BY <4>1, <1>2
      <4>3. f[n - 1] \in Nat
        BY <4>1
      <4> QED BY <3>1, <4>1, <4>2, <4>3
    <3> QED BY <3>1, <1>2
  <2> QED BY <2>1
<1>4. Power2 = CHOOSE p : Eq(p)
  BY DEF Power2
<1>5. Eq(Power2)
  <2> HIDE DEF Eq
  <2> QED BY <1>3, <1>4
<1>6. Power2[0] = 1 /\ \A n \in Nat : Power2[n + 1] = 2 * Power2[n]
  <2> HIDE DEF Power2
  <2>1. ASSUME NEW n \in Nat PROVE Power2[n + 1] = 2 * Power2[n]
    <3>1. n + 1 \in Nat /\ n + 1 # 0 /\ (n + 1) - 1 = n
      OBVIOUS
    <3> QED BY <3>1, <1>5
  <2> QED BY <2>1, <1>5
<1>7. Power2 \in [Nat -> Nat \ {0}]
  <2> DEFINE T == {n \in Nat : Power2[n] \in Nat \ {0}}
  <2>1. 0 \in T /\ \A n \in Nat : n \in T => n + 1 \in T
    BY <1>6
  <2>2. \A n \in Nat : n \in T
    <3> HIDE DEF T
    <3> QED BY <2>1, Induction
  <2> QED BY <2>2, <1>5
<1> QED BY <1>6, <1>7

\* A back-off lasts between one second and the maximum.
LEMMA BackoffType ==
  \A n \in Nat \ {0} : Backoff(n) \in 1..MaxBackoff
<1>1. MaxBackoff \in Nat \ {0}
  BY ConnAssumption
<1>2. \A n \in Nat \ {0} : n - 1 \in Nat /\ Power2[n - 1] \in Nat \ {0}
  BY PowerFacts
<1> HIDE DEF Power2
<1> QED BY <1>1, <1>2 DEF Backoff

\* The back-off is the one the code computes: a second at first, then twice the
\* last or the maximum, whichever is less (main.nim:12, 26).
THEOREM BackoffDoubles ==
  /\ Backoff(1) = 1
  /\ \A n \in Nat \ {0} :
       Backoff(n + 1) = IF 2 * Backoff(n) < MaxBackoff THEN 2 * Backoff(n) ELSE MaxBackoff
<1>1. MaxBackoff \in Nat \ {0}
  BY ConnAssumption
<1>2. Backoff(1) = 1
  <2>1. Power2[1 - 1] = 1
    BY PowerFacts
  <2> QED BY <1>1, <2>1 DEF Backoff
<1>3. ASSUME NEW n \in Nat \ {0}
      PROVE  Backoff(n + 1) = IF 2 * Backoff(n) < MaxBackoff THEN 2 * Backoff(n) ELSE MaxBackoff
  <2> DEFINE p == Power2[n - 1]
  <2>1. n - 1 \in Nat /\ (n - 1) + 1 = n /\ (n + 1) - 1 = n
    OBVIOUS
  <2>2. p \in Nat \ {0} /\ Power2[(n - 1) + 1] = 2 * p
    BY <2>1, PowerFacts
  <2>3. Backoff(n) = IF p < MaxBackoff THEN p ELSE MaxBackoff
    BY DEF Backoff
  <2>4. Backoff(n + 1) = IF 2 * p < MaxBackoff THEN 2 * p ELSE MaxBackoff
    <3> HIDE DEF p
    <3>1. Power2[(n + 1) - 1] = 2 * p
      BY <2>1, <2>2
    <3> QED BY <3>1 DEF Backoff
  <2> HIDE DEF p
  <2> QED BY <1>1, <2>2, <2>3, <2>4
<1> QED BY <1>2, <1>3

\* Each attempt adds its dial and its back-off.
LEMMA WaitsFacts ==
  /\ Waits[0] = 0
  /\ \A n \in Nat : Waits[n + 1] = Waits[n] + DialTimeout + Backoff(n + 1)
  /\ \A n \in Nat : Waits[n] \in Nat
<1> DEFINE Eq(f) == f = [n \in Nat |-> IF n = 0 THEN 0 ELSE f[n - 1] + DialTimeout + Backoff(n)]
           step == [x \in Nat \X Nat |-> x[2] + DialTimeout + Backoff(x[1] + 1)]
<1>1. DialTimeout \in Nat /\ \A n \in Nat : Backoff(n + 1) \in Nat
  <2>1. \A n \in Nat : n + 1 \in Nat \ {0} /\ Backoff(n + 1) \in 1..MaxBackoff
    BY BackoffType
  <2>2. MaxBackoff \in Nat
    BY ConnAssumption
  <2> QED BY <2>1, <2>2, ConnAssumption
<1>2. PICK f \in [Nat -> Nat] : f[0] = 0 /\ \A n \in Nat : f[n + 1] = step[<<n, f[n]>>]
  <2>1. step \in [Nat \X Nat -> Nat] /\ 0 \in Nat
    BY <1>1
  <2> HIDE DEF step
  <2>2. \E f : Iterates(f, Nat, 0, step)
    BY <2>1, Recursion, Zenon
  <2> QED BY <2>2 DEF Iterates
<1>3. Eq(f)
  <2>1. ASSUME NEW n \in Nat
        PROVE  f[n] = IF n = 0 THEN 0 ELSE f[n - 1] + DialTimeout + Backoff(n)
    <3>1. CASE n # 0
      <4>1. n - 1 \in Nat /\ (n - 1) + 1 = n
        BY <3>1
      <4>2. f[n] = step[<<n - 1, f[n - 1]>>]
        BY <4>1, <1>2
      <4>3. f[n - 1] \in Nat
        BY <4>1
      <4> QED BY <3>1, <4>1, <4>2, <4>3
    <3> QED BY <3>1, <1>2
  <2> QED BY <2>1
<1>4. Waits = CHOOSE w : Eq(w)
  BY DEF Waits
<1>5. Eq(Waits)
  <2> HIDE DEF Eq
  <2> QED BY <1>3, <1>4
<1> HIDE DEF Waits
<1>6. Waits[0] = 0
  BY <1>5
<1>7. ASSUME NEW n \in Nat PROVE Waits[n + 1] = Waits[n] + DialTimeout + Backoff(n + 1)
  <2>1. n + 1 \in Nat /\ n + 1 # 0 /\ (n + 1) - 1 = n
    OBVIOUS
  <2> QED BY <2>1, <1>5
<1>8. \A n \in Nat : Waits[n] \in Nat
  <2> DEFINE T == {n \in Nat : Waits[n] \in Nat}
  <2>1. 0 \in T /\ \A n \in Nat : n \in T => n + 1 \in T
    BY <1>1, <1>6, <1>7
  <2>2. \A n \in Nat : n \in T
    <3> HIDE DEF T
    <3> QED BY <2>1, Induction
  <2> QED BY <2>2
<1> QED BY <1>6, <1>7, <1>8

\* No attempt takes longer than all of them.
LEMMA WaitsGrow ==
  \A n \in 1..Attempts : Waits[n] <= Lifetime
<1> DEFINE T == {m \in Nat : \A n \in 0..m : Waits[n] <= Waits[m]}
<1>1. 0 \in T
  BY WaitsFacts
<1>2. ASSUME NEW m \in Nat, m \in T PROVE m + 1 \in T
  <2>1. DialTimeout \in Nat /\ Backoff(m + 1) \in Nat
    <3>1. m + 1 \in Nat \ {0} /\ MaxBackoff \in Nat
      BY ConnAssumption
    <3> QED BY <3>1, BackoffType, ConnAssumption
  <2>2. Waits[m] <= Waits[m + 1] /\ Waits[m] \in Nat /\ Waits[m + 1] \in Nat
    BY <2>1, WaitsFacts
  <2>3. ASSUME NEW n \in 0..(m + 1) PROVE Waits[n] <= Waits[m + 1]
    <3>1. CASE n = m + 1
      BY <3>1, <2>2
    <3>2. CASE n # m + 1
      <4>1. n \in 0..m /\ n \in Nat
        BY <3>2
      <4>2. Waits[n] <= Waits[m] /\ Waits[n] \in Nat
        BY <1>2, <4>1, WaitsFacts
      <4> QED BY <4>2, <2>2
    <3> QED BY <3>1, <3>2
  <2> QED BY <2>3
<1>3. \A m \in Nat : m \in T
  <2> HIDE DEF T
  <2> QED BY <1>1, <1>2, Induction
<1>4. Attempts \in Nat
  BY ConnAssumption
<1> QED BY <1>3, <1>4 DEF Lifetime

\* With the times in the code a call lives 281 seconds: ten dials of ten, and
\* back-offs of 1, 2, 4, 8, 16 and five times 30 (main.nim:12-26).
THEOREM LifetimeInCode ==
  ASSUME Attempts = 10, DialTimeout = 10, MaxBackoff = 30
  PROVE  Lifetime = 281
<1>1. /\ Backoff(1) = 1 /\ Backoff(1 + 1) = 2 /\ Backoff(2 + 1) = 4
      /\ Backoff(3 + 1) = 8 /\ Backoff(4 + 1) = 16 /\ Backoff(5 + 1) = 30
  BY BackoffDoubles
<1>2. /\ Backoff(6 + 1) = 30 /\ Backoff(7 + 1) = 30 /\ Backoff(8 + 1) = 30 /\ Backoff(9 + 1) = 30
  BY <1>1, BackoffDoubles
<1>3. /\ Waits[0] = 0
      /\ \A n \in Nat : Waits[n + 1] = Waits[n] + 10 + Backoff(n + 1)
  BY WaitsFacts
<1>4. Waits[0 + 1] = 11 /\ Waits[1 + 1] = 23 /\ Waits[2 + 1] = 37
  BY <1>1, <1>3
<1>5. Waits[3 + 1] = 55 /\ Waits[4 + 1] = 81 /\ Waits[5 + 1] = 121
  BY <1>1, <1>3, <1>4
<1>6. Waits[6 + 1] = 161 /\ Waits[7 + 1] = 201 /\ Waits[8 + 1] = 241 /\ Waits[9 + 1] = 281
  BY <1>2, <1>3, <1>5
<1> QED BY <1>6 DEF Lifetime

-----------------------------------------------------------------------------
(* Bags of calls.                                                          *)

\* One call.
Only(c) == [d \in {c} |-> 1]

\* Adding a call keeps a bag a bag.
LEMMA AddBag ==
  ASSUME NEW S, NEW b, IsBag(b, S), NEW c \in S
  PROVE  /\ IsBag(Add(b, c), S)
         /\ DOMAIN Add(b, c) = DOMAIN b \cup {c}
BY DEF IsBag, Add

\* So does removing one.
LEMMA RemoveBag ==
  ASSUME NEW S, NEW b, IsBag(b, S), NEW c \in DOMAIN b
  PROVE  /\ IsBag(Remove(b, c), S)
         /\ DOMAIN Remove(b, c) \subseteq DOMAIN b
<1>1. \A d \in DOMAIN b : b[d] \in Nat \ {0}
  BY DEF IsBag
<1>2. DOMAIN Remove(b, c) \subseteq DOMAIN b
  BY DEF Remove
<1>3. \A d \in DOMAIN Remove(b, c) : Remove(b, c)[d] \in Nat \ {0}
  BY <1>1 DEF Remove
<1>4. Remove(b, c) \in [DOMAIN Remove(b, c) -> Nat \ {0}]
  BY <1>3 DEF Remove
<1> QED BY <1>2, <1>4 DEF IsBag

\* From no call to one, and back.
LEMMA OneCall ==
  ASSUME NEW c
  PROVE  Add(NoCalls, c) = Only(c) /\ Remove(Only(c), c) = NoCalls
BY DEF Add, Remove, Only, NoCalls

\* A bag of one call.
LEMMA OnlyBag ==
  ASSUME NEW S, NEW c \in S
  PROVE  IsBag(Only(c), S) /\ DOMAIN Only(c) = {c} /\ Only(c) # NoCalls
BY DEF IsBag, Only, NoCalls

\* The empty bag, the only one that has no places.
LEMMA NoBag ==
  ASSUME NEW S
  PROVE  /\ IsBag(NoCalls, S)
         /\ DOMAIN NoCalls = {}
         /\ \A b : IsBag(b, S) /\ DOMAIN b = {} => b = NoCalls
BY DEF IsBag, NoCalls

\* What the copies are.
LEMMA InCopies ==
  ASSUME NEW b
  PROVE  /\ \A d, i : <<d, i>> \in Copies(b) <=> d \in DOMAIN b /\ i \in 1..b[d]
         /\ \A x \in Copies(b) : \E d \in DOMAIN b, i \in Nat : x = <<d, i>> /\ i \in 1..b[d]
BY DEF Copies

\* A copy added is one that was not there.
LEMMA AddCopies ==
  ASSUME NEW S, NEW b, IsBag(b, S), NEW c
  PROVE  \E n : Copies(Add(b, c)) = Copies(b) \cup {<<c, n>>} /\ <<c, n>> \notin Copies(b)
<1> DEFINE n == IF c \in DOMAIN b THEN b[c] + 1 ELSE 1
           a == Add(b, c)
<1>1. \A d \in DOMAIN b : b[d] \in Nat \ {0}
  BY DEF IsBag
<1>2. DOMAIN a = DOMAIN b \cup {c} /\ a[c] = n /\ \A d \in DOMAIN b : d # c => a[d] = b[d]
  BY DEF Add
<1>3. n \in Nat \ {0} /\ \A i : i \in 1..n <=> i = n \/ (c \in DOMAIN b /\ i \in 1..b[c])
  BY <1>1
<1>4. \A d, i : <<d, i>> \in Copies(a) <=> <<d, i>> \in Copies(b) \/ (d = c /\ i = n)
  <2>1. \A d, i : d # c => (<<d, i>> \in Copies(a) <=> <<d, i>> \in Copies(b))
    <3> HIDE DEF n, a
    <3> QED BY <1>2, InCopies
  <2>2. \A i : <<c, i>> \in Copies(a) <=> <<c, i>> \in Copies(b) \/ i = n
    <3>1. \A i : <<c, i>> \in Copies(b) <=> c \in DOMAIN b /\ i \in 1..b[c]
      BY InCopies
    <3>2. \A i : <<c, i>> \in Copies(a) <=> i \in 1..n
      <4>1. \A i : <<c, i>> \in Copies(a) <=> c \in DOMAIN a /\ i \in 1..a[c]
        BY InCopies
      <4> HIDE DEF n, a
      <4> QED BY <4>1, <1>2
    <3> HIDE DEF n, a
    <3> QED BY <3>1, <3>2, <1>3
  <2> HIDE DEF n, a
  <2> QED BY <2>1, <2>2
<1>5. <<c, n>> \notin Copies(b)
  BY <1>1, InCopies
<1>6. Copies(a) \subseteq Copies(b) \cup {<<c, n>>}
  <2> HIDE DEF n, a
  <2> QED BY <1>4, InCopies
<1>7. Copies(b) \cup {<<c, n>>} \subseteq Copies(a)
  <2> HIDE DEF n, a
  <2> QED BY <1>4, InCopies
<1> QED BY <1>5, <1>6, <1>7

\* A copy removed is one that was there.
LEMMA RemoveCopies ==
  ASSUME NEW S, NEW b, IsBag(b, S), NEW c \in DOMAIN b
  PROVE  \E n : Copies(Remove(b, c)) = Copies(b) \ {<<c, n>>} /\ <<c, n>> \in Copies(b)
<1> DEFINE n == b[c]
           a == Remove(b, c)
<1>1. \A d \in DOMAIN b : b[d] \in Nat \ {0}
  BY DEF IsBag
<1>2. /\ DOMAIN a = {d \in DOMAIN b : d # c \/ n > 1}
      /\ c \in DOMAIN a => a[c] = n - 1
      /\ \A d \in DOMAIN a : d # c => a[d] = b[d]
  BY DEF Remove
<1>3. \A i : i \in 1..n /\ i # n <=> n > 1 /\ i \in 1..(n - 1)
  BY <1>1
<1>4. \A d, i : <<d, i>> \in Copies(a) <=> <<d, i>> \in Copies(b) /\ ~(d = c /\ i = n)
  <2>1. \A d, i : d # c => (<<d, i>> \in Copies(a) <=> <<d, i>> \in Copies(b))
    <3> HIDE DEF n, a
    <3> QED BY <1>2, InCopies
  <2>2. \A i : <<c, i>> \in Copies(a) <=> <<c, i>> \in Copies(b) /\ i # n
    <3>1. \A i : <<c, i>> \in Copies(b) <=> i \in 1..n
      BY InCopies
    <3>2. \A i : <<c, i>> \in Copies(a) <=> n > 1 /\ i \in 1..(n - 1)
      <4>1. \A i : <<c, i>> \in Copies(a) <=> c \in DOMAIN a /\ i \in 1..a[c]
        BY InCopies
      <4> HIDE DEF n, a
      <4> QED BY <4>1, <1>2
    <3> HIDE DEF n, a
    <3> QED BY <3>1, <3>2, <1>3
  <2> HIDE DEF n, a
  <2> QED BY <2>1, <2>2
<1>5. <<c, n>> \in Copies(b)
  BY <1>1, InCopies
<1>6. Copies(a) \subseteq Copies(b) \ {<<c, n>>}
  <2> HIDE DEF n, a
  <2> QED BY <1>4, InCopies
<1>7. Copies(b) \ {<<c, n>>} \subseteq Copies(a)
  <2> HIDE DEF n, a
  <2> QED BY <1>4, InCopies
<1> QED BY <1>5, <1>6, <1>7
-----------------------------------------------------------------------------
(* How long calls can still take, and how many take how long.              *)

\* Where a call can be: no sleep is longer than its back-off.
Places == Dials \cup {c \in Backoffs : c.left <= Backoff(c.attempt)}

\* What is left of this attempt, and all that may follow.
Remaining(c) ==
  (Lifetime - Waits[c.attempt]) + c.left + (IF c.stage = "dial" THEN Backoff(c.attempt) ELSE 0)

\* The calls of a bag that can still take k seconds.
Above(b, k) == {x \in Copies(b) : Remaining(x[1]) >= k}

\* The times, as numbers.
LEMMA Times ==
  /\ Attempts \in Nat \ {0} /\ DialTimeout \in Nat \ {0}
  /\ MaxBackoff \in Nat \ {0} /\ Interval \in Nat \ {0}
  /\ Lifetime \in Nat
  /\ \A n \in 1..Attempts :
       /\ Backoff(n) \in 1..MaxBackoff
       /\ Waits[n] \in Nat /\ Waits[n] <= Lifetime
       /\ Waits[n - 1] \in Nat /\ Waits[n] = Waits[n - 1] + DialTimeout + Backoff(n)
<1>1. Attempts \in Nat \ {0} /\ DialTimeout \in Nat \ {0}
      /\ MaxBackoff \in Nat \ {0} /\ Interval \in Nat \ {0}
  BY ConnAssumption
<1>2. ASSUME NEW n \in 1..Attempts
      PROVE  /\ Backoff(n) \in 1..MaxBackoff
             /\ Waits[n] \in Nat /\ Waits[n] <= Lifetime
             /\ Waits[n - 1] \in Nat /\ Waits[n] = Waits[n - 1] + DialTimeout + Backoff(n)
  <2>1. n \in Nat \ {0} /\ n - 1 \in Nat /\ (n - 1) + 1 = n
    BY <1>1
  <2>2. Waits[(n - 1) + 1] = Waits[n - 1] + DialTimeout + Backoff((n - 1) + 1)
    BY <2>1, WaitsFacts
  <2> QED BY <2>1, <2>2, WaitsFacts, WaitsGrow, BackoffType
<1>3. Lifetime \in Nat
  BY <1>1, WaitsFacts DEF Lifetime
<1> QED BY <1>1, <1>2, <1>3

\* No call lasts longer than a lifetime.
LEMMA RemainingType ==
  \A c \in Places : Remaining(c) \in 0..Lifetime
<1> SUFFICES ASSUME NEW c \in Places PROVE Remaining(c) \in 0..Lifetime
  OBVIOUS
<1>1. CASE c \in Dials
  <2>1. c.attempt \in 1..Attempts /\ c.stage = "dial" /\ c.left \in 0..DialTimeout
    BY <1>1 DEF Dials
  <2> QED BY <2>1, Times DEF Remaining
<1>2. CASE c \in Backoffs /\ c.left <= Backoff(c.attempt)
  <2>1. c.attempt \in 1..Attempts /\ c.stage = "backoff" /\ c.left \in 0..MaxBackoff
    BY <1>2 DEF Backoffs
  <2> QED BY <1>2, <2>1, Times DEF Remaining
<1> QED BY <1>1, <1>2 DEF Places

\* A new call may take a lifetime.
LEMMA NewCallLasts ==
  NewCall \in Places /\ Remaining(NewCall) = Lifetime
<1>1. 1 \in 1..Attempts /\ NewCall.attempt = 1 /\ NewCall.stage = "dial" /\ NewCall.left = DialTimeout
  BY Times DEF NewCall, Call
<1>2. NewCall \in Dials
  BY <1>1, Times DEF NewCall, Call, Dials
<1>3. Waits[1] = Waits[0] + DialTimeout + Backoff(1) /\ Waits[0] = 0
  <2>1. Waits[1 - 1] = Waits[0]
    OBVIOUS
  <2> QED BY <1>1, <2>1, Times, WaitsFacts
<1>4. Remaining(NewCall) = (Lifetime - Waits[1]) + DialTimeout + Backoff(1)
  BY <1>1 DEF Remaining
<1>5. Backoff(1) \in Nat /\ DialTimeout \in Nat /\ Lifetime \in Nat
  BY <1>1, Times
<1> QED BY <1>2, <1>3, <1>4, <1>5 DEF Places

\* A failed dial does not make the call last longer.
LEMMA FailShortens ==
  ASSUME NEW c \in Places, c.stage = "dial"
  PROVE  LET d == Call(c.attempt, "backoff", Backoff(c.attempt))
         IN  d \in Places /\ Remaining(d) <= Remaining(c)
<1> DEFINE d == Call(c.attempt, "backoff", Backoff(c.attempt))
<1>1. c.attempt \in 1..Attempts /\ c.left \in 0..DialTimeout
  BY DEF Places, Dials, Backoffs
<1>2. d.attempt = c.attempt /\ d.stage = "backoff" /\ d.left = Backoff(c.attempt)
  BY DEF Call
<1>3. Backoff(c.attempt) \in 0..MaxBackoff /\ Backoff(c.attempt) \in Nat
  BY <1>1, Times
<1>4. d \in Backoffs
  BY <1>1, <1>3 DEF Call, Backoffs
<1>5. d.left <= Backoff(d.attempt)
  BY <1>2, <1>3
<1>6. Remaining(c) = (Lifetime - Waits[c.attempt]) + c.left + Backoff(c.attempt)
  BY DEF Remaining
<1>7. Remaining(d) = (Lifetime - Waits[c.attempt]) + Backoff(c.attempt) + 0
  BY <1>2 DEF Remaining
<1>8. Remaining(d) <= Remaining(c)
  BY <1>1, <1>3, <1>6, <1>7, Times
<1> QED BY <1>4, <1>5, <1>8 DEF Places

\* Nor does the next attempt, whose time was counted.
LEMMA RetryShortens ==
  ASSUME NEW c \in Places, c.stage = "backoff", c.left = 0, c.attempt # Attempts
  PROVE  LET d == Call(c.attempt + 1, "dial", DialTimeout)
         IN  d \in Places /\ Remaining(d) <= Remaining(c)
<1> DEFINE d == Call(c.attempt + 1, "dial", DialTimeout)
           n == c.attempt + 1
<1>1. c.attempt \in 1..Attempts
  BY DEF Places, Dials, Backoffs
<1>2. n \in 1..Attempts /\ n - 1 = c.attempt
  BY <1>1, Times
<1>3. d.attempt = n /\ d.stage = "dial" /\ d.left = DialTimeout
  BY DEF Call
<1>4. d \in Dials
  BY <1>2, Times DEF Call, Dials
<1>5. Waits[n] = Waits[c.attempt] + DialTimeout + Backoff(n) /\ Backoff(n) \in Nat
  BY <1>2, Times
<1>6. Remaining(c) = (Lifetime - Waits[c.attempt]) + 0 + 0
  BY DEF Remaining
<1>7. Remaining(d) = (Lifetime - Waits[n]) + DialTimeout + Backoff(n)
  BY <1>3 DEF Remaining
<1> HIDE DEF n
<1>8. Remaining(d) <= Remaining(c)
  BY <1>1, <1>2, <1>5, <1>6, <1>7, Times
<1> QED BY <1>4, <1>8 DEF Places

\* A second makes it one shorter, and loses nothing else.
LEMMA TimeShortens ==
  ASSUME NEW c \in Places, c.left # 0
  PROVE  LET d == [c EXCEPT !.left = @ - 1]
         IN  d \in Places /\ Remaining(d) = Remaining(c) - 1 /\ [d EXCEPT !.left = @ + 1] = c
<1> DEFINE d == [c EXCEPT !.left = @ - 1]
<1>1. c.attempt \in 1..Attempts /\ c.left \in Nat \ {0}
  BY Times DEF Places, Dials, Backoffs
<1>2. d.attempt = c.attempt /\ d.stage = c.stage /\ d.left = c.left - 1
  BY DEF Places, Dials, Backoffs
<1>3. Remaining(d) = Remaining(c) - 1
  BY <1>1, <1>2, Times DEF Remaining
<1>4. CASE c \in Dials
  <2>1. c = [attempt |-> c.attempt, stage |-> c.stage, left |-> c.left] /\ c.left \in 0..DialTimeout
        /\ c.stage = "dial"
    BY <1>4 DEF Dials
  <2>2. d = [attempt |-> c.attempt, stage |-> c.stage, left |-> c.left - 1]
    BY <2>1
  <2>3. [d EXCEPT !.left = @ + 1] = c
    <3>1. (c.left - 1) + 1 = c.left
      BY <1>1
    <3> HIDE DEF d
    <3> QED BY <2>1, <2>2, <3>1
  <2>4. d \in Dials
    BY <1>1, <2>1, <2>2, Times DEF Dials
  <2> QED BY <1>3, <2>3, <2>4 DEF Places
<1>5. CASE c \in Backoffs /\ c.left <= Backoff(c.attempt)
  <2>1. c = [attempt |-> c.attempt, stage |-> c.stage, left |-> c.left] /\ c.left \in 0..MaxBackoff
        /\ c.stage = "backoff"
    BY <1>5 DEF Backoffs
  <2>2. d = [attempt |-> c.attempt, stage |-> c.stage, left |-> c.left - 1]
    BY <2>1
  <2>3. [d EXCEPT !.left = @ + 1] = c
    <3>1. (c.left - 1) + 1 = c.left
      BY <1>1
    <3> HIDE DEF d
    <3> QED BY <2>1, <2>2, <3>1
  <2>4. d \in Backoffs
    BY <1>1, <2>1, <2>2, Times DEF Backoffs
  <2>5. d.left <= Backoff(d.attempt)
    BY <1>1, <1>2, <1>5, Times
  <2> QED BY <1>3, <2>3, <2>4, <2>5 DEF Places
<1> QED BY <1>4, <1>5 DEF Places

\* A second makes d of the call c of b.
Passed(b, d, c) ==
  /\ d = [c EXCEPT !.left = @ - 1]
  /\ c = [d EXCEPT !.left = @ + 1]
  /\ Remaining(d) = Remaining(c) - 1
  /\ Later(b)[d] = b[c]

\* What time makes of a bag of which no call is due.
LEMMA LaterBag ==
  ASSUME NEW b, IsBag(b, Places), \A c \in DOMAIN b : c.left # 0
  PROVE  /\ IsBag(Later(b), Places)
         /\ DOMAIN Later(b) = {[c EXCEPT !.left = @ - 1] : c \in DOMAIN b}
         /\ \A d \in DOMAIN Later(b) : \E c \in DOMAIN b : Passed(b, d, c)
<1>1. DOMAIN b \subseteq Places /\ \A c \in DOMAIN b : b[c] \in Nat \ {0}
  BY DEF IsBag
<1>2. DOMAIN Later(b) = {[c EXCEPT !.left = @ - 1] : c \in DOMAIN b}
  BY DEF Later
<1>3. ASSUME NEW d \in DOMAIN Later(b)
      PROVE  d \in Places /\ \E c \in DOMAIN b : Passed(b, d, c)
  <2>1. PICK c \in DOMAIN b : d = [c EXCEPT !.left = @ - 1]
    BY <1>2
  <2>2. d \in Places /\ Remaining(d) = Remaining(c) - 1 /\ [d EXCEPT !.left = @ + 1] = c
    BY <1>1, <2>1, TimeShortens
  <2>3. Later(b)[d] = b[[d EXCEPT !.left = @ + 1]]
    BY <1>2 DEF Later
  <2> QED BY <2>1, <2>2, <2>3 DEF Passed
<1>4. DOMAIN Later(b) \subseteq Places /\ \A d \in DOMAIN Later(b) : Later(b)[d] \in Nat \ {0}
  BY <1>1, <1>3 DEF Passed
<1>5. Later(b) \in [DOMAIN Later(b) -> Nat \ {0}]
  BY <1>4 DEF Later
<1> QED BY <1>2, <1>3, <1>4, <1>5 DEF IsBag

\* The calls that can still take k seconds, with one call more.
LEMMA AddCount ==
  ASSUME NEW b, IsBag(b, Places), IsFiniteSet(Copies(b)), NEW c
  PROVE  /\ IsFiniteSet(Copies(Add(b, c)))
         /\ Cardinality(Copies(Add(b, c))) = Cardinality(Copies(b)) + 1
         /\ \A k : Cardinality(Above(Add(b, c), k)) =
                     Cardinality(Above(b, k)) + (IF Remaining(c) >= k THEN 1 ELSE 0)
<1>1. PICK n : Copies(Add(b, c)) = Copies(b) \cup {<<c, n>>} /\ <<c, n>> \notin Copies(b)
  BY AddCopies
<1>2. IsFiniteSet(Copies(Add(b, c))) /\ Cardinality(Copies(Add(b, c))) = Cardinality(Copies(b)) + 1
  BY <1>1, FS_AddElement
<1>3. ASSUME NEW k
      PROVE  Cardinality(Above(Add(b, c), k)) =
               Cardinality(Above(b, k)) + (IF Remaining(c) >= k THEN 1 ELSE 0)
  <2>1. Above(b, k) \in SUBSET Copies(b)
    BY DEF Above
  <2>2. IsFiniteSet(Above(b, k)) /\ Cardinality(Above(b, k)) \in Nat
    BY <2>1, FS_Subset, FS_CardinalityType
  <2>3. CASE Remaining(c) >= k
    <3>1. Above(Add(b, c), k) = Above(b, k) \cup {<<c, n>>} /\ <<c, n>> \notin Above(b, k)
      BY <1>1, <2>3 DEF Above
    <3> QED BY <2>2, <2>3, <3>1, FS_AddElement
  <2>4. CASE ~(Remaining(c) >= k)
    <3>1. Above(Add(b, c), k) = Above(b, k)
      BY <1>1, <2>4 DEF Above
    <3> QED BY <2>2, <2>4, <3>1
  <2> QED BY <2>3, <2>4
<1> QED BY <1>2, <1>3

\* And with one call less.
LEMMA RemoveCount ==
  ASSUME NEW b, IsBag(b, Places), IsFiniteSet(Copies(b)), NEW c \in DOMAIN b
  PROVE  /\ IsFiniteSet(Copies(Remove(b, c)))
         /\ \A k : /\ Cardinality(Above(Remove(b, c), k)) \in Nat
                   /\ Cardinality(Above(b, k)) =
                        Cardinality(Above(Remove(b, c), k)) + (IF Remaining(c) >= k THEN 1 ELSE 0)
<1>1. PICK n : Copies(Remove(b, c)) = Copies(b) \ {<<c, n>>} /\ <<c, n>> \in Copies(b)
  BY RemoveCopies
<1>2. IsFiniteSet(Copies(Remove(b, c)))
  BY <1>1, FS_RemoveElement
<1>3. ASSUME NEW k
      PROVE  /\ Cardinality(Above(Remove(b, c), k)) \in Nat
             /\ Cardinality(Above(b, k)) =
                  Cardinality(Above(Remove(b, c), k)) + (IF Remaining(c) >= k THEN 1 ELSE 0)
  <2>1. Above(b, k) \in SUBSET Copies(b) /\ Above(Remove(b, c), k) \in SUBSET Copies(Remove(b, c))
    BY DEF Above
  <2>2. IsFiniteSet(Above(b, k)) /\ Cardinality(Above(b, k)) \in Nat
        /\ Cardinality(Above(Remove(b, c), k)) \in Nat
    BY <1>2, <2>1, FS_Subset, FS_CardinalityType
  <2>3. CASE Remaining(c) >= k
    <3>1. Above(Remove(b, c), k) = Above(b, k) \ {<<c, n>>} /\ <<c, n>> \in Above(b, k)
      BY <1>1, <2>3 DEF Above
    <3>2. Cardinality(Above(Remove(b, c), k)) = Cardinality(Above(b, k)) - 1
      BY <2>2, <3>1, FS_RemoveElement
    <3> QED BY <2>2, <2>3, <3>2
  <2>4. CASE ~(Remaining(c) >= k)
    <3>1. Above(Remove(b, c), k) = Above(b, k)
      BY <1>1, <2>4 DEF Above
    <3> QED BY <2>2, <2>4, <3>1
  <2> QED BY <2>3, <2>4
<1> QED BY <1>2, <1>3

\* What can take k seconds when a second has passed could take one more before.
LEMMA LaterCount ==
  ASSUME NEW b, IsBag(b, Places), IsFiniteSet(Copies(b)), \A c \in DOMAIN b : c.left # 0
  PROVE  /\ IsFiniteSet(Copies(Later(b)))
         /\ \A k \in Nat : Cardinality(Above(Later(b), k)) <= Cardinality(Above(b, k + 1))
<1> DEFINE Before(x) == <<[x[1] EXCEPT !.left = @ + 1], x[2]>>
<1>0. \A d \in DOMAIN Later(b) : d \in Places /\ \E c \in DOMAIN b : Passed(b, d, c)
  BY LaterBag DEF IsBag
<1>1. ASSUME NEW x \in Copies(Later(b))
      PROVE  /\ Before(x) \in Copies(b)
             /\ Remaining(Before(x)[1]) = Remaining(x[1]) + 1
             /\ x = <<[Before(x)[1] EXCEPT !.left = @ - 1], Before(x)[2]>>
  <2>1. PICK d \in DOMAIN Later(b), i \in Nat : x = <<d, i>> /\ i \in 1..Later(b)[d]
    BY InCopies
  <2>10. PICK c \in DOMAIN b : Passed(b, d, c)
    BY <1>0
  <2>2. /\ d = [c EXCEPT !.left = @ - 1] /\ c = [d EXCEPT !.left = @ + 1]
        /\ Remaining(d) = Remaining(c) - 1
        /\ Later(b)[d] = b[c]
    BY <2>10 DEF Passed
  <2>3. Before(x) = <<c, i>>
    BY <2>1, <2>2
  <2>4. <<c, i>> \in Copies(b)
    BY <2>1, <2>2, InCopies
  <2>5. Remaining(c) \in Int
    <3>1. c \in Places
      BY DEF IsBag
    <3> QED BY <3>1, RemainingType, Times
  <2>6. Before(x)[1] = c /\ Before(x)[2] = i /\ x[1] = d
    BY <2>1, <2>3
  <2>7. x = <<[c EXCEPT !.left = @ - 1], i>>
    BY <2>1, <2>2
  <2> HIDE DEF Before
  <2>8. Before(x) \in Copies(b)
    BY <2>3, <2>4
  <2>9. Remaining(Before(x)[1]) = Remaining(x[1]) + 1
    <3>1. Remaining(d) = Remaining(c) - 1
      BY <2>2
    <3>2. Remaining(Before(x)[1]) = Remaining(c) /\ Remaining(x[1]) = Remaining(d)
      BY <2>6
    <3> QED BY <2>5, <3>1, <3>2
  <2> QED BY <2>6, <2>7, <2>8, <2>9
<1>2. ASSUME NEW S, NEW T, S \subseteq Copies(Later(b)), IsFiniteSet(T), \A x \in S : Before(x) \in T
      PROVE  IsFiniteSet(S) /\ Cardinality(S) <= Cardinality(T)
  <2> DEFINE f == [x \in S |-> Before(x)]
  <2>1. f \in [S -> T]
    BY <1>2
  <2>2. \A x, y \in S : f[x] = f[y] => x = y
    <3> SUFFICES ASSUME NEW x \in S, NEW y \in S, Before(x) = Before(y) PROVE x = y
      OBVIOUS
    <3> HIDE DEF Before
    <3> QED BY <1>1, <1>2
  <2>3. f \in Injection(S, T)
    <3> HIDE DEF f
    <3> QED BY <2>1, <2>2 DEF Injection, IsInjective
  <2> HIDE DEF f
  <2> QED BY <1>2, <2>3, FS_Injection
<1>3. IsFiniteSet(Copies(Later(b)))
  <2> HIDE DEF Before
  <2> QED BY <1>1, <1>2
<1>4. ASSUME NEW k \in Nat
      PROVE  Cardinality(Above(Later(b), k)) <= Cardinality(Above(b, k + 1))
  <2>1. Above(b, k + 1) \in SUBSET Copies(b) /\ Above(Later(b), k) \subseteq Copies(Later(b))
    BY DEF Above
  <2>2. IsFiniteSet(Above(b, k + 1))
    BY <2>1, FS_Subset
  <2>3. ASSUME NEW x \in Above(Later(b), k) PROVE Before(x) \in Above(b, k + 1)
    <3>1. x \in Copies(Later(b)) /\ Remaining(x[1]) >= k
      BY DEF Above
    <3>2. Before(x) \in Copies(b) /\ Remaining(Before(x)[1]) = Remaining(x[1]) + 1
      BY <1>1, <3>1
    <3>3. Remaining(x[1]) \in Int
      <4>1. PICK d \in DOMAIN Later(b), i \in Nat : x = <<d, i>>
        BY <3>1, InCopies
      <4>2. d \in Places /\ x[1] = d
        BY <1>0, <4>1
      <4> QED BY <4>2, RemainingType, Times
    <3> HIDE DEF Before
    <3> QED BY <3>1, <3>2, <3>3 DEF Above
  <2> HIDE DEF Before
  <2> QED BY <1>2, <2>1, <2>2, <2>3
<1> QED BY <1>3, <1>4
-----------------------------------------------------------------------------
(* What holds in every state, and is inductive together.                   *)

\* The peers that await one call after the other.
InTurn == mode \in {"none", "before_grace"}

\* The types, but for the calls.
TypeInv ==
  /\ mode \in {"hub", "none", "aggressive", "before_grace"}
  /\ main \in {"start", "connect", "await", "sleep", "idle"}
  /\ next \in 1..(Len(HubAddrs) + 1)
  /\ timer \in 0..(Interval + Period)
  /\ age \in [Hub -> {Down} \cup Nat]
  /\ state \in [Hub -> {"answers", "refuses", "silent"}]
  /\ changes \in 0..MaxChanges

\* Where the loop of each kind of node can be, and how long it sleeps.
MainInv ==
  /\ mode \in {"hub", "aggressive"} => main \in {"start", "sleep"}
  /\ mode = "none" => main \in {"start", "connect", "await", "idle"}
  /\ mode = "before_grace" => main \in {"start", "connect", "await", "sleep"}
  /\ main = "await" => next <= Len(HubAddrs)
  /\ mode = "before_grace" => timer <= Interval
  /\ mode = "aggressive" => timer <= Period
  /\ main = "start" => \A h \in Hub : tasks[h] = NoCalls /\ age[h] = Down

\* The calls under way: one at most but for the aggressive peer, and for a peer
\* that takes the hubs in turn only the one it awaits.
CallInv ==
  /\ DOMAIN tasks = Hub
  /\ \A h \in Hub : IsBag(tasks[h], Places) /\ IsFiniteSet(Copies(tasks[h]))
  /\ mode # "aggressive" => \A h \in Hub : tasks[h] = NoCalls \/ \E c \in Places : tasks[h] = Only(c)
  /\ InTurn => \A h \in Hub : tasks[h] # NoCalls => main = "await" /\ h = HubAddrs[next]

\* The aggressive peer: what can take k seconds was begun since a lifetime ago
\* less k, one a second.
LoadInv ==
  mode = "aggressive" =>
    \A h \in Hub : \A k \in 0..Lifetime :
      Cardinality(Above(tasks[h], k)) <= (Lifetime - k) + timer

\* While all hubs answer no call fails, and no time passes but in the sleep.
QuietInv ==
  changes = 0 => \A h \in Hub :
    /\ state[h] = "answers"
    /\ mode = "before_grace" =>
         /\ DOMAIN tasks[h] \subseteq {NewCall}
         /\ age[h] <= IF main = "sleep" THEN Interval - timer ELSE 0

\* How old the connection to the hub at place i can be: the calls for the hubs
\* after it, the one under way as far as it has come, and the sleep.
AgeInv ==
  mode = "before_grace" =>
    \A i \in 1..Len(HubAddrs) : age[HubAddrs[i]] # Down =>
      /\ main = "connect" =>
           i < next /\ age[HubAddrs[i]] <= ((next - 1) - i) * Lifetime
      /\ main = "await" /\ tasks[HubAddrs[next]] = NoCalls =>
           i <= next /\ age[HubAddrs[i]] <= (next - i) * Lifetime
      /\ main = "await" => \A c \in DOMAIN tasks[HubAddrs[next]] :
           i < next /\ age[HubAddrs[i]] <= ((next - 1) - i) * Lifetime + (Lifetime - Remaining(c))
      /\ main = "sleep" =>
           age[HubAddrs[i]] <= (Len(HubAddrs) - i) * Lifetime + (Interval - timer)

\* The inductive invariant.
IInv == TypeInv /\ MainInv /\ CallInv /\ LoadInv /\ QuietInv /\ AgeInv
-----------------------------------------------------------------------------
(* What the steps of a call do to the calls.                               *)

\* The hubs and their places.
LEMMA HubPlaces ==
  /\ Len(HubAddrs) \in Nat
  /\ \A i \in 1..Len(HubAddrs) : HubAddrs[i] \in Hub
  /\ \A h \in Hub : \E i \in 1..Len(HubAddrs) : h = HubAddrs[i]
  /\ \A i, j \in 1..Len(HubAddrs) : HubAddrs[i] = HubAddrs[j] => i = j
<1>1. HubAddrs \in Seq(Range(HubAddrs)) /\ \A i, j \in DOMAIN HubAddrs : HubAddrs[i] = HubAddrs[j] => i = j
  BY ConnAssumption DEF IsInjective
<1>2. Len(HubAddrs) \in Nat /\ DOMAIN HubAddrs = 1..Len(HubAddrs)
  BY <1>1
<1> QED BY <1>1, <1>2 DEF Hub, Range

\* The bag a has no more long calls than the bag b.
Shorter(a, b) ==
  /\ IsBag(a, Places)
  /\ IsFiniteSet(Copies(a))
  /\ \A k \in Nat : Cardinality(Above(a, k)) <= Cardinality(Above(b, k))

\* A call that ends shortens a bag.
LEMMA EndShortens ==
  ASSUME NEW b, IsBag(b, Places), IsFiniteSet(Copies(b)), NEW c \in DOMAIN b
  PROVE  Shorter(Remove(b, c), b)
<1>1. IsBag(Remove(b, c), Places) /\ IsFiniteSet(Copies(Remove(b, c)))
  BY RemoveBag, RemoveCount
<1>2. \A k : /\ Cardinality(Above(Remove(b, c), k)) \in Nat
            /\ Cardinality(Above(b, k)) =
                 Cardinality(Above(Remove(b, c), k)) + (IF Remaining(c) >= k THEN 1 ELSE 0)
  BY RemoveCount
<1> QED BY <1>1, <1>2 DEF Shorter

\* So does one that goes where it can take no longer.
LEMMA MoveShortens ==
  ASSUME NEW b, IsBag(b, Places), IsFiniteSet(Copies(b)), NEW c \in DOMAIN b,
         NEW d \in Places, Remaining(d) <= Remaining(c)
  PROVE  Shorter(Add(Remove(b, c), d), b)
<1> DEFINE r == Remove(b, c)
<1>1. IsBag(r, Places) /\ IsFiniteSet(Copies(r))
  BY RemoveBag, RemoveCount
<1>2. \A k : /\ Cardinality(Above(r, k)) \in Nat
            /\ Cardinality(Above(b, k)) =
                 Cardinality(Above(r, k)) + (IF Remaining(c) >= k THEN 1 ELSE 0)
  BY RemoveCount
<1> HIDE DEF r
<1>3. IsBag(Add(r, d), Places)
  BY <1>1, AddBag
<1>4. /\ IsFiniteSet(Copies(Add(r, d)))
      /\ \A k : Cardinality(Above(Add(r, d), k)) =
                  Cardinality(Above(r, k)) + (IF Remaining(d) >= k THEN 1 ELSE 0)
  BY <1>1, AddCount
<1>5. c \in Places
  BY DEF IsBag
<1>6. Remaining(c) \in Int /\ Remaining(d) \in Int
  BY <1>5, RemainingType, Times
<1>7. ASSUME NEW k \in Nat
      PROVE  Cardinality(Above(Add(r, d), k)) <= Cardinality(Above(b, k))
  BY <1>2, <1>4, <1>6
<1>8. Shorter(Add(r, d), b)
  BY <1>3, <1>4, <1>7 DEF Shorter
<1> QED BY <1>8 DEF r

\* The calls for one hub get no longer and no more: the peers keep one at most,
\* and the load of the aggressive one does not grow.
LEMMA ShorterKeeps ==
  ASSUME TypeInv, CallInv, LoadInv, NEW h \in Hub, tasks[h] # NoCalls,
         NEW a, Shorter(a, tasks[h]), tasks' = [tasks EXCEPT ![h] = a],
         mode # "aggressive" => a = NoCalls \/ \E c \in Places : a = Only(c),
         UNCHANGED <<mode, main, next, timer>>
  PROVE  CallInv' /\ LoadInv'
<1>1. DOMAIN tasks' = Hub /\ tasks'[h] = a /\ \A g \in Hub : g # h => tasks'[g] = tasks[g]
  BY DEF CallInv
<1>2. CallInv'
  <2>1. \A g \in Hub : IsBag(tasks'[g], Places) /\ IsFiniteSet(Copies(tasks'[g]))
    BY <1>1 DEF CallInv, Shorter
  <2>2. mode # "aggressive" =>
          \A g \in Hub : tasks'[g] = NoCalls \/ \E c \in Places : tasks'[g] = Only(c)
    BY <1>1 DEF CallInv
  <2>3. InTurn => \A g \in Hub : tasks'[g] # NoCalls => main = "await" /\ g = HubAddrs[next]
    BY <1>1 DEF CallInv
  <2>4. mode' = mode /\ main' = main /\ next' = next
    OBVIOUS
  <2>5. InTurn' <=> InTurn
    BY <2>4 DEF InTurn
  <2> QED BY <1>1, <2>1, <2>2, <2>3, <2>4, <2>5 DEF CallInv
<1>3. LoadInv'
  <2> SUFFICES ASSUME mode = "aggressive", NEW g \in Hub, NEW k \in 0..Lifetime
               PROVE  Cardinality(Above(tasks'[g], k)) <= (Lifetime - k) + timer
    BY DEF LoadInv
  <2>1. Cardinality(Above(tasks[g], k)) <= (Lifetime - k) + timer
    BY DEF LoadInv
  <2>2. CASE g # h
    BY <1>1, <2>1, <2>2
  <2>3. CASE g = h
    <3>1. k \in Nat /\ Lifetime \in Nat /\ timer \in Nat
      BY Times DEF TypeInv, Period
    <3>2. Cardinality(Above(a, k)) <= Cardinality(Above(tasks[h], k))
      BY <3>1 DEF Shorter
    <3>3. Cardinality(Above(a, k)) \in Nat /\ Cardinality(Above(tasks[h], k)) \in Nat
      <4>1. Above(a, k) \in SUBSET Copies(a) /\ Above(tasks[h], k) \in SUBSET Copies(tasks[h])
        BY DEF Above
      <4>2. IsFiniteSet(Copies(a)) /\ IsFiniteSet(Copies(tasks[h]))
        BY DEF Shorter, CallInv
      <4> QED BY <4>1, <4>2, FS_Subset, FS_CardinalityType
    <3> QED BY <1>1, <2>1, <2>3, <3>1, <3>2, <3>3
  <2> QED BY <2>2, <2>3
<1> QED BY <1>2, <1>3
-----------------------------------------------------------------------------
(* The invariant is inductive: the loop of the node.                       *)

\* It holds when the node starts: no calls, no connections.
LEMMA InitIInv == Init => IInv
<1> SUFFICES ASSUME Init PROVE IInv
  OBVIOUS
<1>1. DOMAIN tasks = Hub /\ \A h \in Hub : tasks[h] = NoCalls /\ age[h] = Down /\ state[h] = "answers"
  BY DEF Init
<1>2. Copies(NoCalls) = {} /\ IsBag(NoCalls, Places) /\ DOMAIN NoCalls = {}
  BY NoBag DEF Copies, NoCalls
<1>3. \A k : Above(NoCalls, k) = {}
  BY <1>2 DEF Above
<1>4. IsFiniteSet({}) /\ Cardinality({}) = 0
  BY FS_EmptySet
<1>5. TypeInv
  BY HubPlaces, Times, ConnAssumption DEF Init, TypeInv, Period
<1>6. MainInv
  BY <1>1, Times DEF Init, MainInv, Period
<1>7. CallInv
  BY <1>1, <1>2, <1>4 DEF CallInv
<1>8. LoadInv
  BY <1>1, <1>3, <1>4, Times DEF Init, LoadInv
<1>9. QuietInv
  BY <1>1, <1>2, Times DEF Init, QuietInv, Down
<1>10. AgeInv
  BY <1>1, HubPlaces DEF AgeInv
<1> QED BY <1>5, <1>6, <1>7, <1>8, <1>9, <1>10 DEF IInv

\* One call more for a hub that has none, or for the aggressive peer's.
LEMMA OneMore ==
  ASSUME CallInv, NEW h \in Hub
  PROVE  /\ IsBag(Add(tasks[h], NewCall), Places)
         /\ IsFiniteSet(Copies(Add(tasks[h], NewCall)))
         /\ tasks[h] = NoCalls => Add(tasks[h], NewCall) = Only(NewCall)
         /\ \A k \in 0..Lifetime :
              Cardinality(Above(Add(tasks[h], NewCall), k)) = Cardinality(Above(tasks[h], k)) + 1
<1>1. IsBag(tasks[h], Places) /\ IsFiniteSet(Copies(tasks[h]))
  BY DEF CallInv
<1>2. NewCall \in Places /\ Remaining(NewCall) = Lifetime /\ Lifetime \in Nat
  BY NewCallLasts, Times
<1>3. \A k \in 0..Lifetime : Remaining(NewCall) >= k
  BY <1>2
<1> QED BY <1>1, <1>2, <1>3, AddBag, AddCount, OneCall

\* A hub begins its one call per address, and nothing is connected yet.
LEMMA StartIInv == IInv /\ Start => IInv'
<1> SUFFICES ASSUME IInv, Start PROVE IInv'
  OBVIOUS
<1> USE DEF IInv
<1>1. main = "start" /\ \A h \in Hub : tasks[h] = NoCalls /\ age[h] = Down
  BY DEF Start, MainInv
<1>2. DOMAIN tasks' = Hub
  BY DEF Start, CallInv
<1>3. \A h \in Hub : tasks'[h] = IF mode = "hub" THEN Only(NewCall) ELSE NoCalls
  BY <1>1, OneMore DEF Start
<1>4. mode' = mode /\ main' = (IF mode \in {"hub", "aggressive"} THEN "sleep" ELSE "connect")
      /\ next' = next /\ timer' = timer /\ age' = age /\ state' = state /\ changes' = changes
  BY DEF Start, hubVars
<1>5. TypeInv'
  BY <1>4 DEF TypeInv
<1>6. MainInv'
  BY <1>4 DEF MainInv, TypeInv
<1>7. CallInv'
  <2>1. \A h \in Hub : IsBag(tasks'[h], Places) /\ IsFiniteSet(Copies(tasks'[h]))
    BY <1>1, <1>3, OneMore DEF CallInv
  <2>2. \A h \in Hub : tasks'[h] = NoCalls \/ tasks'[h] = Only(NewCall)
    BY <1>3
  <2>3. InTurn' => \A h \in Hub : tasks'[h] = NoCalls
    BY <1>3, <1>4 DEF InTurn
  <2> QED BY <1>2, <2>1, <2>2, <2>3, NewCallLasts DEF CallInv
<1>8. LoadInv'
  <2>1. mode = "aggressive" => \A h \in Hub : tasks'[h] = tasks[h]
    BY <1>1, <1>3
  <2> QED BY <1>4, <2>1 DEF LoadInv
<1>9. QuietInv'
  <2>1. mode = "before_grace" => \A h \in Hub : DOMAIN tasks'[h] \subseteq {NewCall}
    BY <1>3, NoBag
  <2> QED BY <1>1, <1>4, <2>1, Times DEF QuietInv, Down
<1>10. AgeInv'
  BY <1>1, <1>4, HubPlaces DEF AgeInv
<1> QED BY <1>5, <1>6, <1>7, <1>8, <1>9, <1>10

\* The aggressive peer has used the second for which it adds a call.
LEMMA LookIInv == IInv /\ Look => IInv'
<1> SUFFICES ASSUME IInv, Look PROVE IInv'
  OBVIOUS
<1> USE DEF IInv
<1>1. mode = "aggressive" /\ main = "sleep" /\ timer = 0 /\ timer' = 1
      /\ mode' = mode /\ main' = main /\ next' = next
      /\ age' = age /\ state' = state /\ changes' = changes
  BY DEF Look, hubVars, Period
<1>2. DOMAIN tasks' = Hub /\ \A h \in Hub :
        tasks'[h] = tasks[h] \/ tasks'[h] = Add(tasks[h], NewCall)
  BY DEF Look, CallInv
<1>3. TypeInv'
  BY <1>1, Times DEF TypeInv, Period
<1>4. MainInv'
  BY <1>1 DEF MainInv, Period
<1>5. CallInv'
  BY <1>1, <1>2, OneMore DEF CallInv, InTurn
<1>6. LoadInv'
  <2> SUFFICES ASSUME NEW h \in Hub, NEW k \in 0..Lifetime
               PROVE  Cardinality(Above(tasks'[h], k)) <= (Lifetime - k) + 1
    BY <1>1 DEF LoadInv
  <2>1. Cardinality(Above(tasks[h], k)) <= (Lifetime - k) + 0
    BY <1>1 DEF LoadInv
  <2>2. Cardinality(Above(tasks[h], k)) \in Nat /\ Lifetime \in Nat
    <3>1. Above(tasks[h], k) \in SUBSET Copies(tasks[h]) /\ IsFiniteSet(Copies(tasks[h]))
      BY DEF Above, CallInv
    <3> QED BY <3>1, FS_Subset, FS_CardinalityType, Times
  <2>3. Cardinality(Above(Add(tasks[h], NewCall), k)) = Cardinality(Above(tasks[h], k)) + 1
    BY OneMore
  <2> QED BY <1>2, <2>1, <2>2, <2>3
<1>7. QuietInv'
  BY <1>1 DEF QuietInv
<1>8. AgeInv'
  BY <1>1 DEF AgeInv
<1> QED BY <1>3, <1>4, <1>5, <1>6, <1>7, <1>8

\* The new call is the only one, and has its whole life before it.
LEMMA ConnectIInv == IInv /\ Connect => IInv'
<1> SUFFICES ASSUME IInv, Connect PROVE IInv'
  OBVIOUS
<1> USE DEF IInv
<1> DEFINE g == HubAddrs[next]
<1>1. main = "connect" /\ main' = "await" /\ mode' = mode /\ next' = next /\ timer' = timer
      /\ age' = age /\ state' = state /\ changes' = changes
  BY DEF Connect, hubVars
<1>2. next \in 1..Len(HubAddrs) /\ g \in Hub
  BY HubPlaces DEF Connect, TypeInv
<1>3. InTurn /\ InTurn' /\ mode # "aggressive"
  BY <1>1 DEF MainInv, InTurn, TypeInv
<1>4. \A h \in Hub : tasks[h] = NoCalls
  BY <1>1, <1>3 DEF CallInv
<1>5. DOMAIN tasks' = Hub /\ tasks'[g] = Only(NewCall) /\ \A h \in Hub : h # g => tasks'[h] = NoCalls
  BY <1>2, <1>4, OneMore DEF Connect, CallInv
<1>6. TypeInv'
  BY <1>1 DEF TypeInv
<1>7. MainInv'
  BY <1>1, <1>2, <1>3 DEF MainInv, InTurn
<1>8. CallInv'
  <2>1. \A h \in Hub : IsBag(tasks'[h], Places) /\ IsFiniteSet(Copies(tasks'[h]))
    BY <1>2, <1>4, <1>5, OneMore DEF CallInv
  <2>2. \A h \in Hub : tasks'[h] # NoCalls => main' = "await" /\ h = HubAddrs[next']
    BY <1>1, <1>5
  <2> QED BY <1>5, <2>1, <2>2, NewCallLasts DEF CallInv
<1>9. LoadInv'
  BY <1>1, <1>3 DEF LoadInv
<1>10. QuietInv'
  <2>1. \A h \in Hub : DOMAIN tasks'[h] \subseteq {NewCall}
    BY <1>5, NoBag, NewCallLasts, OnlyBag
  <2> QED BY <1>1, <2>1 DEF QuietInv
<1>11. AgeInv'
  <2>1. tasks'[HubAddrs[next']] # NoCalls /\ DOMAIN tasks'[HubAddrs[next']] = {NewCall}
    BY <1>1, <1>5, NewCallLasts, OnlyBag
  <2> SUFFICES ASSUME mode = "before_grace", NEW i \in 1..Len(HubAddrs), age[HubAddrs[i]] # Down
               PROVE  i < next /\ age[HubAddrs[i]] <=
                        ((next - 1) - i) * Lifetime + (Lifetime - Remaining(NewCall))
    BY <1>1, <2>1 DEF AgeInv
  <2>2. i < next /\ age[HubAddrs[i]] <= ((next - 1) - i) * Lifetime
    BY <1>1 DEF AgeInv
  <2>3. Lifetime - Remaining(NewCall) = 0 /\ Lifetime \in Nat
    BY NewCallLasts, Times
  <2>4. ((next - 1) - i) * Lifetime \in Int
    BY <1>2, <2>3, HubPlaces
  <2> QED BY <2>2, <2>3, <2>4
<1> QED BY <1>6, <1>7, <1>8, <1>9, <1>10, <1>11

\* The call is over and the next hub's turn begins, at the same ages.
LEMMA ConnectedIInv == IInv /\ Connected => IInv'
<1> SUFFICES ASSUME IInv, Connected PROVE IInv'
  OBVIOUS
<1> USE DEF IInv
<1>1. main = "await" /\ tasks[HubAddrs[next]] = NoCalls /\ next' = next + 1 /\ main' = "connect"
      /\ mode' = mode /\ timer' = timer /\ tasks' = tasks
      /\ age' = age /\ state' = state /\ changes' = changes
  BY DEF Connected, hubVars
<1>2. next \in 1..Len(HubAddrs)
  BY <1>1, HubPlaces DEF MainInv, TypeInv
<1>3. InTurn /\ InTurn' /\ mode # "aggressive"
  BY <1>1 DEF MainInv, InTurn, TypeInv
<1>4. \A h \in Hub : tasks[h] = NoCalls
  BY <1>1, <1>3 DEF CallInv
<1>5. TypeInv'
  BY <1>1, <1>2, HubPlaces DEF TypeInv
<1>6. MainInv'
  BY <1>1, <1>3 DEF MainInv, InTurn
<1>7. CallInv'
  BY <1>1, <1>3, <1>4 DEF CallInv
<1>8. LoadInv'
  BY <1>1, <1>3 DEF LoadInv
<1>9. QuietInv'
  BY <1>1 DEF QuietInv
<1>10. AgeInv'
  <2> SUFFICES ASSUME mode = "before_grace", NEW i \in 1..Len(HubAddrs), age[HubAddrs[i]] # Down
               PROVE  i < next + 1 /\ age[HubAddrs[i]] <= (((next + 1) - 1) - i) * Lifetime
    BY <1>1 DEF AgeInv
  <2>1. i <= next /\ age[HubAddrs[i]] <= (next - i) * Lifetime
    BY <1>1 DEF AgeInv
  <2>2. (next + 1) - 1 = next
    BY <1>2
  <2> QED BY <1>2, <2>1, <2>2
<1> QED BY <1>5, <1>6, <1>7, <1>8, <1>9, <1>10

\* After the last hub the ages are those of the calls; the sleep is to come.
LEMMA RestIInv == IInv /\ Rest => IInv'
<1> SUFFICES ASSUME IInv, Rest PROVE IInv'
  OBVIOUS
<1> USE DEF IInv
<1>1. main = "connect" /\ next > Len(HubAddrs) /\ mode' = mode /\ next' = next /\ tasks' = tasks
      /\ age' = age /\ state' = state /\ changes' = changes
      /\ \/ mode = "none" /\ main' = "idle" /\ timer' = timer
         \/ mode = "before_grace" /\ main' = "sleep" /\ timer' = Interval
  BY DEF Rest, hubVars
<1>2. next = Len(HubAddrs) + 1
  BY <1>1, HubPlaces DEF TypeInv
<1>3. InTurn /\ InTurn' /\ mode # "aggressive"
  BY <1>1 DEF InTurn
<1>4. \A h \in Hub : tasks[h] = NoCalls
  BY <1>1, <1>3 DEF CallInv
<1>5. TypeInv'
  BY <1>1, Times DEF TypeInv, Period
<1>6. MainInv'
  BY <1>1, Times DEF MainInv
<1>7. CallInv'
  BY <1>1, <1>3, <1>4 DEF CallInv
<1>8. LoadInv'
  BY <1>1, <1>3 DEF LoadInv
<1>9. QuietInv'
  BY <1>1, Times DEF QuietInv
<1>10. AgeInv'
  <2> SUFFICES ASSUME mode = "before_grace", NEW i \in 1..Len(HubAddrs), age[HubAddrs[i]] # Down
               PROVE  age[HubAddrs[i]] <= (Len(HubAddrs) - i) * Lifetime + (Interval - Interval)
    BY <1>1 DEF AgeInv
  <2>1. age[HubAddrs[i]] <= ((next - 1) - i) * Lifetime
    BY <1>1 DEF AgeInv
  <2>2. next - 1 = Len(HubAddrs) /\ Interval - Interval = 0
    BY <1>2, HubPlaces, Times
  <2>3. (Len(HubAddrs) - i) * Lifetime \in Int
    BY HubPlaces, Times
  <2> QED BY <2>1, <2>2, <2>3
<1> QED BY <1>5, <1>6, <1>7, <1>8, <1>9, <1>10

\* All connections are closed, so no age is left to bound.
LEMMA CycleIInv == IInv /\ Cycle => IInv'
<1> SUFFICES ASSUME IInv, Cycle PROVE IInv'
  OBVIOUS
<1> USE DEF IInv
<1>1. mode = "before_grace" /\ main = "sleep" /\ timer = 0 /\ main' = "connect" /\ next' = 1
      /\ mode' = mode /\ timer' = timer /\ tasks' = tasks
      /\ state' = state /\ changes' = changes
  BY DEF Cycle, hubVars
<1>2. age' \in [Hub -> {Down}] /\ \A h \in Hub : age'[h] = Down
  BY DEF Cycle, Kept
<1>3. \A h \in Hub : tasks[h] = NoCalls
  BY <1>1 DEF CallInv, InTurn
<1>4. TypeInv'
  BY <1>1, <1>2, HubPlaces DEF TypeInv
<1>5. MainInv'
  BY <1>1 DEF MainInv
<1>6. CallInv'
  BY <1>1, <1>3 DEF CallInv
<1>7. LoadInv'
  BY <1>1 DEF LoadInv
<1>8. QuietInv'
  BY <1>1, <1>2 DEF QuietInv, Down
<1>9. AgeInv'
  BY <1>2, HubPlaces DEF AgeInv
<1> QED BY <1>4, <1>5, <1>6, <1>7, <1>8, <1>9

-----------------------------------------------------------------------------
(* The calls.                                                              *)

\* A call of a peer that takes the hubs in turn is the one it awaits; that hub
\* has no connection, if the peer cycles.
LEMMA AwaitedCall ==
  ASSUME IInv, NEW h \in Hub, NEW c \in DOMAIN tasks[h]
  PROVE  /\ tasks[h] # NoCalls
         /\ c \in Places
         /\ mode # "aggressive" => tasks[h] = Only(c)
         /\ InTurn => main = "await" /\ h = HubAddrs[next] /\ next \in 1..Len(HubAddrs)
         /\ mode = "before_grace" => age[h] = Down
<1> USE DEF IInv
<1>1. tasks[h] # NoCalls /\ c \in Places
  <2>1. IsBag(tasks[h], Places)
    BY DEF CallInv
  <2> QED BY <2>1, NoBag DEF IsBag
<1>2. ASSUME mode # "aggressive" PROVE tasks[h] = Only(c)
  <2>1. PICK d \in Places : tasks[h] = Only(d)
    BY <1>1, <1>2 DEF CallInv
  <2>2. DOMAIN Only(d) = {d}
    BY DEF Only
  <2> QED BY <2>1, <2>2
<1>3. InTurn => main = "await" /\ h = HubAddrs[next] /\ next \in 1..Len(HubAddrs)
  BY <1>1, HubPlaces DEF CallInv, MainInv, TypeInv
<1>4. ASSUME mode = "before_grace", age[h] # Down PROVE FALSE
  <2>1. main = "await" /\ h = HubAddrs[next] /\ next \in 1..Len(HubAddrs)
    BY <1>3, <1>4 DEF InTurn
  <2>2. next < next
    BY <1>4, <2>1 DEF AgeInv
  <2> QED BY <2>1, <2>2, HubPlaces
<1> QED BY <1>1, <1>2, <1>3, <1>4

\* A call has ended: the connections are as old as its whole life allows.
LEMMA EndAges ==
  ASSUME IInv, mode = "before_grace", NEW h \in Hub, NEW c \in DOMAIN tasks[h],
         NEW i \in 1..Len(HubAddrs), age[HubAddrs[i]] # Down
  PROVE  i < next /\ age[HubAddrs[i]] <= (next - i) * Lifetime
<1>1. main = "await" /\ h = HubAddrs[next] /\ next \in 1..Len(HubAddrs) /\ c \in Places
  BY AwaitedCall DEF InTurn
<1>2. i < next /\ age[HubAddrs[i]] <= ((next - 1) - i) * Lifetime + (Lifetime - Remaining(c))
  BY <1>1 DEF IInv, AgeInv
<1>3. Lifetime \in Nat /\ Remaining(c) \in 0..Lifetime
  BY <1>1, RemainingType, Times
<1>4. ((next - 1) - i) * Lifetime + Lifetime = (next - i) * Lifetime
  BY <1>1, <1>3, HubPlaces
<1>5. age[HubAddrs[i]] \in Int
  BY HubPlaces DEF IInv, TypeInv, Down
<1>6. ((next - 1) - i) * Lifetime \in Int
  BY <1>1, <1>3, HubPlaces
<1> QED BY <1>2, <1>3, <1>4, <1>5, <1>6

\* A call that moves to where it can take no longer.
LEMMA Moved ==
  ASSUME IInv, NEW h \in Hub, NEW c \in DOMAIN tasks[h],
         NEW d \in Places, Remaining(d) <= Remaining(c),
         tasks' = [tasks EXCEPT ![h] = Add(Remove(@, c), d)],
         UNCHANGED <<mode, main, next, timer, age>>
  PROVE  CallInv' /\ LoadInv' /\ AgeInv'
<1> DEFINE a == Add(Remove(tasks[h], c), d)
<1>1. IsBag(tasks[h], Places) /\ IsFiniteSet(Copies(tasks[h])) /\ DOMAIN tasks = Hub
  BY DEF IInv, CallInv
<1>2. Shorter(a, tasks[h])
  BY <1>1, MoveShortens
<1>3. mode # "aggressive" => a = Only(d)
  BY AwaitedCall, OneCall
<1>4. tasks' = [tasks EXCEPT ![h] = a]
  OBVIOUS
<1> HIDE DEF a
<1>5. CallInv' /\ LoadInv'
  BY <1>2, <1>3, <1>4, AwaitedCall, ShorterKeeps DEF IInv
<1>6. AgeInv'
  <2> SUFFICES ASSUME mode = "before_grace", NEW i \in 1..Len(HubAddrs), age[HubAddrs[i]] # Down
               PROVE  i < next /\ age[HubAddrs[i]] <=
                        ((next - 1) - i) * Lifetime + (Lifetime - Remaining(d))
    <3>1. mode = "before_grace" => main = "await" /\ h = HubAddrs[next]
      BY AwaitedCall DEF InTurn
    <3>2. mode = "before_grace" => tasks'[HubAddrs[next']] = Only(d)
      BY <1>1, <1>3, <1>4, <3>1
    <3>3. Only(d) # NoCalls /\ DOMAIN Only(d) = {d}
      BY OnlyBag
    <3> QED BY <3>1, <3>2, <3>3 DEF AgeInv
  <2>1. main = "await" /\ h = HubAddrs[next] /\ next \in 1..Len(HubAddrs) /\ c \in Places
    BY AwaitedCall DEF InTurn
  <2>2. i < next /\ age[HubAddrs[i]] <= ((next - 1) - i) * Lifetime + (Lifetime - Remaining(c))
    BY <2>1 DEF IInv, AgeInv
  <2>3. Lifetime \in Nat /\ Remaining(c) \in Int /\ Remaining(d) \in Int
    BY <2>1, RemainingType, Times
  <2>4. age[HubAddrs[i]] \in Int
    BY HubPlaces DEF IInv, TypeInv, Down
  <2>5. ((next - 1) - i) * Lifetime \in Int
    BY <2>1, <2>3, HubPlaces
  <2> QED BY <2>2, <2>3, <2>4, <2>5
<1> QED BY <1>5, <1>6

\* A call that ends; the connection to its hub may be new.
LEMMA Ended ==
  ASSUME IInv, NEW h \in Hub, NEW c \in DOMAIN tasks[h],
         tasks' = [tasks EXCEPT ![h] = Remove(@, c)],
         UNCHANGED <<mode, main, next, timer>>,
         \/ age' = age
         \/ age' = [age EXCEPT ![h] = IF @ = Down THEN 0 ELSE @]
  PROVE  CallInv' /\ LoadInv' /\ AgeInv'
<1> DEFINE a == Remove(tasks[h], c)
<1>1. IsBag(tasks[h], Places) /\ IsFiniteSet(Copies(tasks[h])) /\ DOMAIN tasks = Hub
  BY DEF IInv, CallInv
<1>2. Shorter(a, tasks[h])
  BY <1>1, EndShortens
<1>3. mode # "aggressive" => a = NoCalls
  BY AwaitedCall, OneCall
<1>4. tasks' = [tasks EXCEPT ![h] = a]
  OBVIOUS
<1> HIDE DEF a
<1>5. CallInv' /\ LoadInv'
  BY <1>2, <1>3, <1>4, AwaitedCall, ShorterKeeps DEF IInv
<1>6. AgeInv'
  <2>1. mode = "before_grace" =>
          main = "await" /\ h = HubAddrs[next] /\ next \in 1..Len(HubAddrs)
          /\ tasks'[HubAddrs[next']] = NoCalls
    BY <1>1, <1>3, <1>4, AwaitedCall DEF InTurn
  <2>2. DOMAIN NoCalls = {}
    BY NoBag
  <2> SUFFICES ASSUME mode = "before_grace", NEW i \in 1..Len(HubAddrs), age'[HubAddrs[i]] # Down
               PROVE  i <= next /\ age'[HubAddrs[i]] <= (next - i) * Lifetime
    BY <2>1, <2>2 DEF AgeInv
  <2>3. age \in [Hub -> {Down} \cup Nat] /\ HubAddrs[i] \in Hub
    BY HubPlaces DEF IInv, TypeInv
  <2>4. CASE age'[HubAddrs[i]] = age[HubAddrs[i]]
    <3>1. i < next /\ age[HubAddrs[i]] <= (next - i) * Lifetime
      BY <2>4, EndAges
    <3> QED BY <2>1, <2>4, <3>1, HubPlaces
  <2>5. CASE age'[HubAddrs[i]] # age[HubAddrs[i]]
    <3>1. HubAddrs[i] = h /\ age'[HubAddrs[i]] = 0
      BY <2>3, <2>5
    <3>2. i = next
      BY <2>1, <3>1, HubPlaces
    <3>3. next \in Int /\ (next - next) * Lifetime = 0
      BY <2>1, HubPlaces, Times
    <3> QED BY <3>1, <3>2, <3>3
  <2> QED BY <2>4, <2>5
<1> QED BY <1>5, <1>6

\* A call that succeeds ends, and its hub's connection is new.
LEMMA SucceedIInv ==
  ASSUME IInv, NEW h \in Hub, NEW c \in DOMAIN tasks[h], Succeed(h, c)
  PROVE  IInv'
<1> USE DEF IInv
<1>1. mode' = mode /\ main' = main /\ next' = next /\ timer' = timer
      /\ state' = state /\ changes' = changes
      /\ age' = [age EXCEPT ![h] = IF @ = Down THEN 0 ELSE @]
      /\ tasks' = [tasks EXCEPT ![h] = Remove(@, c)]
  BY DEF Succeed, hubVars
<1>2. CallInv' /\ LoadInv' /\ AgeInv'
  BY <1>1, Ended
<1>3. TypeInv'
  BY <1>1 DEF TypeInv, Down
<1>4. tasks[h] # NoCalls
  BY AwaitedCall
<1>5. MainInv'
  BY <1>1, <1>4 DEF MainInv
<1>6. QuietInv'
  <2> SUFFICES ASSUME changes = 0, mode = "before_grace", NEW g \in Hub
               PROVE  /\ DOMAIN tasks'[g] \subseteq {NewCall}
                      /\ age'[g] <= IF main = "sleep" THEN Interval - timer ELSE 0
    BY <1>1 DEF QuietInv
  <2>1. DOMAIN tasks[g] \subseteq {NewCall} /\ age[g] <= IF main = "sleep" THEN Interval - timer ELSE 0
    BY DEF QuietInv
  <2>2. main = "await"
    BY AwaitedCall DEF InTurn
  <2>3. DOMAIN tasks'[g] \subseteq {NewCall}
    <3>1. CASE g = h
      <4>1. tasks'[h] = NoCalls
        BY <1>1, AwaitedCall, OneCall DEF CallInv
      <4> QED BY <3>1, <4>1, NoBag
    <3>2. CASE g # h
      BY <1>1, <2>1, <3>2 DEF CallInv
    <3> QED BY <3>1, <3>2
  <2>4. age'[g] <= 0
    BY <1>1, <2>1, <2>2 DEF TypeInv
  <2> QED BY <2>2, <2>3, <2>4
<1> QED BY <1>2, <1>3, <1>5, <1>6

\* A dial that fails goes to its back-off; while all hubs answer none does.
LEMMA FailIInv ==
  ASSUME IInv, NEW h \in Hub, NEW c \in DOMAIN tasks[h], Fail(h, c)
  PROVE  IInv'
<1> USE DEF IInv
<1> DEFINE d == Call(c.attempt, "backoff", Backoff(c.attempt))
<1>1. mode' = mode /\ main' = main /\ next' = next /\ timer' = timer
      /\ state' = state /\ changes' = changes /\ age' = age
      /\ tasks' = [tasks EXCEPT ![h] = Add(Remove(@, c), d)]
      /\ c.stage = "dial"
      /\ (state[h] = "refuses" \/ c.left = 0 \/ (state[h] = "answers" /\ age[h] # Down))
  BY DEF Fail, hubVars
<1>2. c \in Places /\ tasks[h] # NoCalls
  BY AwaitedCall
<1>3. d \in Places /\ Remaining(d) <= Remaining(c)
  BY <1>1, <1>2, FailShortens
<1> HIDE DEF d
<1>4. CallInv' /\ LoadInv' /\ AgeInv'
  BY <1>1, <1>3, Moved
<1>5. TypeInv'
  BY <1>1 DEF TypeInv
<1>6. MainInv'
  BY <1>1, <1>2 DEF MainInv
<1>7. QuietInv'
  <2>1. ASSUME changes = 0, mode = "before_grace" PROVE FALSE
    <3>1. state[h] = "answers" /\ c = NewCall
      BY <2>1 DEF QuietInv
    <3>2. c.left # 0
      BY <3>1, Times DEF NewCall, Call
    <3>3. age[h] = Down
      BY <2>1, AwaitedCall
    <3> QED BY <1>1, <3>1, <3>2, <3>3
  <2> QED BY <1>1, <2>1 DEF QuietInv
<1> QED BY <1>4, <1>5, <1>6, <1>7

\* A back-off that ends becomes the next dial, or ends the call.
LEMMA RetryIInv ==
  ASSUME IInv, NEW h \in Hub, NEW c \in DOMAIN tasks[h], Retry(h, c)
  PROVE  IInv'
<1> USE DEF IInv
<1> DEFINE d == Call(c.attempt + 1, "dial", DialTimeout)
<1>1. mode' = mode /\ main' = main /\ next' = next /\ timer' = timer
      /\ state' = state /\ changes' = changes /\ age' = age
      /\ c.stage = "backoff" /\ c.left = 0
      /\ \/ c.attempt = Attempts /\ tasks' = [tasks EXCEPT ![h] = Remove(@, c)]
         \/ c.attempt # Attempts /\ tasks' = [tasks EXCEPT ![h] = Add(Remove(@, c), d)]
  BY DEF Retry, GivesUp, hubVars
<1>2. c \in Places /\ tasks[h] # NoCalls
  BY AwaitedCall
<1>3. c.attempt # Attempts => d \in Places /\ Remaining(d) <= Remaining(c)
  BY <1>1, <1>2, RetryShortens
<1> HIDE DEF d
<1>4. CallInv' /\ LoadInv' /\ AgeInv'
  BY <1>1, <1>3, Moved, Ended
<1>5. TypeInv'
  BY <1>1 DEF TypeInv
<1>6. MainInv'
  BY <1>1, <1>2 DEF MainInv
<1>7. QuietInv'
  <2>1. ASSUME changes = 0, mode = "before_grace" PROVE FALSE
    <3>1. c = NewCall
      BY <2>1 DEF QuietInv
    <3> QED BY <1>1, <3>1 DEF NewCall, Call
  <2> QED BY <1>1, <2>1 DEF QuietInv
<1> QED BY <1>4, <1>5, <1>6, <1>7

-----------------------------------------------------------------------------
(* Hubs and time.                                                          *)

\* What a hub does with a dial is no part of the bounds, but for a quiet one.
LEMMA HubChangesIInv ==
  ASSUME IInv, NEW h \in Hub, NEW s \in {"answers", "refuses", "silent"}, HubChanges(h, s)
  PROVE  IInv'
<1> USE DEF IInv
<1>1. mode' = mode /\ main' = main /\ next' = next /\ timer' = timer /\ tasks' = tasks /\ age' = age
      /\ changes' = changes + 1 /\ changes < MaxChanges /\ state' = [state EXCEPT ![h] = s]
  BY DEF HubChanges
<1>2. TypeInv'
  BY <1>1, ConnAssumption DEF TypeInv
<1>3. MainInv' /\ CallInv' /\ LoadInv' /\ AgeInv'
  BY <1>1 DEF MainInv, CallInv, LoadInv, AgeInv, InTurn
<1>4. QuietInv'
  BY <1>1 DEF QuietInv, TypeInv
<1> QED BY <1>2, <1>3, <1>4

\* A hub that closes a connection leaves one less to bound.
LEMMA TrimIInv ==
  ASSUME IInv, NEW h \in Hub, Trim(h)
  PROVE  IInv'
<1> USE DEF IInv
<1>1. mode' = mode /\ main' = main /\ next' = next /\ timer' = timer /\ tasks' = tasks /\ state' = state
      /\ changes' = changes + 1 /\ changes < MaxChanges /\ age' = [age EXCEPT ![h] = Down]
  BY DEF Trim
<1>2. TypeInv'
  BY <1>1, ConnAssumption DEF TypeInv
<1>3. \A g \in Hub : age'[g] # Down => age'[g] = age[g]
  BY <1>1 DEF TypeInv
<1>4. MainInv'
  BY <1>1 DEF MainInv, TypeInv
<1>5. CallInv' /\ LoadInv'
  BY <1>1 DEF CallInv, LoadInv, InTurn
<1>6. AgeInv'
  BY <1>1, <1>3, HubPlaces DEF AgeInv
<1>7. QuietInv'
  BY <1>1 DEF QuietInv, TypeInv
<1> QED BY <1>2, <1>4, <1>5, <1>6, <1>7

\* A second shortens every call and the sleep by what it adds to the ages.  It
\* cannot pass during a call while all hubs answer.
LEMMA TickIInv == IInv /\ Tick => IInv'
<1> SUFFICES ASSUME IInv, Tick PROVE IInv'
  OBVIOUS
<1> USE DEF IInv
<1>1. mode' = mode /\ main' = main /\ next' = next /\ state' = state /\ changes' = changes
      /\ timer' = IF timer > 0 THEN timer - 1 ELSE 0
  BY DEF Tick, hubVars
<1>2. DOMAIN tasks' = Hub /\ \A h \in Hub : tasks'[h] = Later(tasks[h])
  BY DEF Tick
<1>3. age' \in [Hub -> {Down} \cup Nat] /\ \A h \in Hub :
        age'[h] = age[h] \/ (age[h] \in Nat /\ age'[h] = age[h] + 1)
  <2>1. \A h \in Hub : age'[h] = age[h] \/ (age[h] \in 0..MaxAge /\ age'[h] = age[h] + 1)
    BY DEF Tick
  <2>2. age' = [h \in Hub |-> age'[h]]
    BY DEF Tick
  <2>3. MaxAge \in Int
    BY HubPlaces, Times DEF MaxAge
  <2>4. \A h \in Hub : age[h] \in {Down} \cup Nat
    BY DEF TypeInv
  <2>5. \A h \in Hub : age'[h] = age[h] \/ (age[h] \in Nat /\ age'[h] = age[h] + 1)
    BY <2>1, <2>3
  <2>6. \A h \in Hub : age'[h] \in {Down} \cup Nat
    BY <2>4, <2>5
  <2> QED BY <2>2, <2>5, <2>6
<1>4. /\ main \notin {"start", "connect"}
      /\ main = "sleep" /\ mode \in {"aggressive", "before_grace"} => timer # 0
      /\ main = "await" => tasks[HubAddrs[next]] # NoCalls
      /\ \A h \in Hub : \A c \in DOMAIN tasks[h] :
           c.left # 0 /\ (c.stage = "dial" => state[h] = "silent")
  BY DEF Tick, Due
<1>5. \A h \in Hub : IsBag(tasks[h], Places) /\ IsFiniteSet(Copies(tasks[h]))
  BY DEF CallInv
<1>6. ASSUME NEW h \in Hub
      PROVE  /\ IsBag(tasks'[h], Places) /\ IsFiniteSet(Copies(tasks'[h]))
             /\ \A k \in Nat : Cardinality(Above(tasks'[h], k)) <= Cardinality(Above(tasks[h], k + 1))
             /\ tasks[h] = NoCalls => tasks'[h] = NoCalls
             /\ \A d \in DOMAIN tasks'[h] : \E c \in DOMAIN tasks[h] : Passed(tasks[h], d, c)
  <2>1. IsBag(Later(tasks[h]), Places) /\ IsFiniteSet(Copies(Later(tasks[h])))
    BY <1>4, <1>5, LaterBag, LaterCount
  <2>2. \A k \in Nat : Cardinality(Above(Later(tasks[h]), k)) <= Cardinality(Above(tasks[h], k + 1))
    BY <1>4, <1>5, LaterCount
  <2>3. \A d \in DOMAIN Later(tasks[h]) : \E c \in DOMAIN tasks[h] : Passed(tasks[h], d, c)
    BY <1>4, <1>5, LaterBag
  <2>4. tasks[h] = NoCalls => Later(tasks[h]) = NoCalls
    <3>1. DOMAIN NoCalls = {} /\ \A b : IsBag(b, Places) /\ DOMAIN b = {} => b = NoCalls
      BY NoBag
    <3>2. tasks[h] = NoCalls => DOMAIN Later(tasks[h]) = {}
      BY <2>3, <3>1
    <3> QED BY <2>1, <3>1, <3>2
  <2> QED BY <1>2, <2>1, <2>2, <2>3, <2>4
<1>7. TypeInv'
  BY <1>1, <1>3, Times DEF TypeInv, Period
<1>8. MainInv'
  <2>1. timer' <= timer
    BY <1>1, Times DEF TypeInv, Period
  <2> QED BY <1>1, <1>4, <2>1, Times DEF MainInv, TypeInv, Period
<1>9. CallInv'
  <2>1. ASSUME mode # "aggressive", NEW h \in Hub
        PROVE  tasks'[h] = NoCalls \/ \E c \in Places : tasks'[h] = Only(c)
    <3>1. CASE tasks[h] = NoCalls
      BY <1>6, <3>1
    <3>2. CASE \E c \in Places : tasks[h] = Only(c)
      <4>1. PICK c \in Places : tasks[h] = Only(c)
        BY <3>2
      <4> DEFINE d == [c EXCEPT !.left = @ - 1]
      <4>2. DOMAIN Only(c) = {c} /\ Only(c)[c] = 1
        BY DEF Only
      <4>3. c.left # 0
        BY <1>4, <4>1, <4>2
      <4>4. d \in Places
        BY <4>3, TimeShortens
      <4>5. DOMAIN Later(Only(c)) = {d}
        BY <4>2 DEF Later
      <4>6. Later(Only(c))[d] = 1
        <5>1. [d EXCEPT !.left = @ + 1] = c
          BY <4>3, TimeShortens
        <5>2. Later(Only(c))[d] = Only(c)[[d EXCEPT !.left = @ + 1]]
          BY <4>5 DEF Later
        <5> QED BY <4>2, <5>1, <5>2
      <4>7. Later(Only(c)) = [x \in DOMAIN Later(Only(c)) |-> Later(Only(c))[x]]
        BY DEF Later
      <4>8. Later(Only(c)) = Only(d)
        <5> HIDE DEF d
        <5> QED BY <4>5, <4>6, <4>7 DEF Only
      <4> HIDE DEF d
      <4> QED BY <1>2, <4>1, <4>4, <4>8
    <3> QED BY <2>1, <3>1, <3>2 DEF CallInv
  <2>2. ASSUME InTurn, NEW h \in Hub, tasks'[h] # NoCalls PROVE main = "await" /\ h = HubAddrs[next]
    BY <1>6, <2>2 DEF CallInv
  <2>3. InTurn' <=> InTurn
    BY <1>1 DEF InTurn
  <2> QED BY <1>1, <1>2, <1>6, <2>1, <2>2, <2>3 DEF CallInv
<1>10. LoadInv'
  <2> SUFFICES ASSUME mode = "aggressive", NEW h \in Hub, NEW k \in 0..Lifetime
               PROVE  Cardinality(Above(tasks'[h], k)) <= (Lifetime - k) + timer'
    BY <1>1 DEF LoadInv
  <2>1. timer = 1 /\ timer' = 0
    <3>1. main = "sleep"
      BY <1>4 DEF MainInv
    <3> QED BY <1>1, <1>4, <3>1 DEF MainInv, TypeInv, Period
  <2>2. k \in Nat /\ Lifetime \in Nat
    BY Times
  <2>3. Cardinality(Above(tasks'[h], k)) <= Cardinality(Above(tasks[h], k + 1))
    BY <1>6, <2>2
  <2>4. Above(tasks'[h], k) \in SUBSET Copies(tasks'[h]) /\ Above(tasks[h], k + 1) \in SUBSET Copies(tasks[h])
    BY DEF Above
  <2>5. Cardinality(Above(tasks'[h], k)) \in Nat /\ Cardinality(Above(tasks[h], k + 1)) \in Nat
    BY <1>5, <1>6, <2>4, FS_Subset, FS_CardinalityType
  <2>6. CASE k < Lifetime
    <3>1. k + 1 \in 0..Lifetime
      BY <2>2, <2>6
    <3>2. Cardinality(Above(tasks[h], k + 1)) <= (Lifetime - (k + 1)) + timer
      BY <3>1 DEF LoadInv
    <3> QED BY <2>1, <2>2, <2>3, <2>5, <3>2
  <2>7. CASE k = Lifetime
    <3>1. ASSUME NEW x \in Above(tasks[h], k + 1) PROVE FALSE
      <4>1. x \in Copies(tasks[h]) /\ Remaining(x[1]) >= k + 1
        BY DEF Above
      <4>2. PICK c \in DOMAIN tasks[h], i \in Nat : x = <<c, i>>
        BY <4>1, InCopies
      <4>3. c \in Places /\ x[1] = c
        BY <1>5, <4>2 DEF IsBag
      <4> QED BY <2>2, <2>7, <4>1, <4>3, RemainingType
    <3>2. Cardinality(Above(tasks[h], k + 1)) = 0
      BY <3>1, FS_EmptySet
    <3> QED BY <2>1, <2>2, <2>3, <2>5, <2>7, <3>2
  <2> QED BY <2>2, <2>6, <2>7
<1>11. QuietInv'
  <2>1. ASSUME changes = 0, mode = "before_grace", NEW h \in Hub
        PROVE  main = "sleep" /\ timer > 0 /\ timer' = timer - 1 /\ DOMAIN tasks'[h] \subseteq {NewCall}
               /\ age'[h] <= Interval - timer'
    <3>1. main = "sleep"
      <4>1. ASSUME main = "await" PROVE FALSE
        <5>1. next \in 1..Len(HubAddrs) /\ HubAddrs[next] \in Hub
          BY <4>1, HubPlaces DEF MainInv, TypeInv
        <5>2. DOMAIN tasks[HubAddrs[next]] # {}
          BY <1>4, <1>5, <4>1, <5>1, NoBag
        <5>3. PICK c \in DOMAIN tasks[HubAddrs[next]] : TRUE
          BY <5>2
        <5>4. c = NewCall /\ state[HubAddrs[next]] = "answers"
          BY <2>1, <5>1 DEF QuietInv
        <5>5. c.stage = "dial"
          BY <5>4 DEF NewCall, Call
        <5> QED BY <1>4, <5>1, <5>4, <5>5
      <4> QED BY <1>4, <2>1, <4>1 DEF MainInv
    <3>2. timer > 0 /\ timer' = timer - 1
      BY <1>1, <1>4, <2>1, <3>1, Times DEF TypeInv, Period
    <3>3. age[h] <= Interval - timer /\ age[h] \in Int /\ age'[h] <= age[h] + 1
      <4>1. age[h] \in Int
        BY DEF TypeInv, Down
      <4> QED BY <1>3, <2>1, <3>1, <4>1 DEF QuietInv
    <3>4. tasks[h] = NoCalls
      BY <2>1, <3>1 DEF CallInv, InTurn
    <3>5. DOMAIN tasks'[h] = {}
      BY <1>6, <3>4, NoBag
    <3>6. age'[h] \in Int
      BY <1>3 DEF Down
    <3>7. timer \in Int /\ Interval \in Int
      BY Times DEF TypeInv, Period
    <3> QED BY <3>1, <3>2, <3>3, <3>5, <3>6, <3>7
  <2> QED BY <1>1, <2>1 DEF QuietInv
<1>12. AgeInv'
  <2> SUFFICES ASSUME mode = "before_grace", NEW i \in 1..Len(HubAddrs), age'[HubAddrs[i]] # Down
               PROVE  /\ main = "await" => tasks'[HubAddrs[next]] # NoCalls
                      /\ main = "await" => \A d \in DOMAIN tasks'[HubAddrs[next]] :
                           i < next /\ age'[HubAddrs[i]] <=
                             ((next - 1) - i) * Lifetime + (Lifetime - Remaining(d))
                      /\ main = "sleep" =>
                           age'[HubAddrs[i]] <= (Len(HubAddrs) - i) * Lifetime + (Interval - timer')
    BY <1>1, <1>4 DEF AgeInv
  <2> DEFINE a == age[HubAddrs[i]]
  <2>1. HubAddrs[i] \in Hub
    BY HubPlaces
  <2>2. a \in Int /\ age'[HubAddrs[i]] \in Int /\ age'[HubAddrs[i]] <= a + 1 /\ a # Down
    BY <1>3, <2>1 DEF TypeInv, Down
  <2> HIDE DEF a
  <2>3. Lifetime \in Nat /\ Interval \in Nat
    BY Times
  <2>4. ASSUME main = "await"
        PROVE  /\ tasks'[HubAddrs[next]] # NoCalls
               /\ \A d \in DOMAIN tasks'[HubAddrs[next]] :
                   i < next /\ age'[HubAddrs[i]] <=
                     ((next - 1) - i) * Lifetime + (Lifetime - Remaining(d))
    <3>1. next \in 1..Len(HubAddrs) /\ HubAddrs[next] \in Hub
      BY <2>4, HubPlaces DEF MainInv, TypeInv
    <3>2. tasks'[HubAddrs[next]] # NoCalls
      <4>1. tasks[HubAddrs[next]] # NoCalls
        BY <1>4, <2>4
      <4>2. PICK c \in DOMAIN tasks[HubAddrs[next]] : TRUE
        BY <1>5, <3>1, <4>1, NoBag
      <4>3. [c EXCEPT !.left = @ - 1] \in DOMAIN Later(tasks[HubAddrs[next]])
        BY DEF Later
      <4> QED BY <1>2, <3>1, <4>3, NoBag
    <3>3. ASSUME NEW d \in DOMAIN tasks'[HubAddrs[next]]
          PROVE  i < next /\ age'[HubAddrs[i]] <=
                   ((next - 1) - i) * Lifetime + (Lifetime - Remaining(d))
      <4>1. PICK c \in DOMAIN tasks[HubAddrs[next]] : Passed(tasks[HubAddrs[next]], d, c)
        BY <1>6, <3>1
      <4>2. Remaining(d) = Remaining(c) - 1
        BY <4>1 DEF Passed
      <4>3. c \in Places
        BY <1>5, <3>1 DEF IsBag
      <4>4. Remaining(c) \in Int
        BY <4>3, RemainingType, Times
      <4>5. i < next /\ a <= ((next - 1) - i) * Lifetime + (Lifetime - Remaining(c))
        BY <2>2, <2>4 DEF AgeInv, a
      <4>6. ((next - 1) - i) * Lifetime \in Int
        BY <2>3, <3>1, HubPlaces
      <4> QED BY <2>2, <2>3, <4>2, <4>4, <4>5, <4>6
    <3> QED BY <3>2, <3>3
  <2>5. ASSUME main = "sleep"
        PROVE  age'[HubAddrs[i]] <= (Len(HubAddrs) - i) * Lifetime + (Interval - timer')
    <3>1. timer \in Nat /\ timer' = timer - 1
      BY <1>1, <1>4, <2>5, Times DEF TypeInv, Period
    <3>2. a <= (Len(HubAddrs) - i) * Lifetime + (Interval - timer)
      BY <2>2, <2>5 DEF AgeInv, a
    <3>3. (Len(HubAddrs) - i) * Lifetime \in Int
      BY <2>3, HubPlaces
    <3> QED BY <2>2, <2>3, <3>1, <3>2, <3>3
  <2> QED BY <2>4, <2>5
<1> QED BY <1>7, <1>8, <1>9, <1>10, <1>11, <1>12

\* Nothing changes.
LEMMA StutterIInv == IInv /\ UNCHANGED vars => IInv'
<1> SUFFICES ASSUME IInv, UNCHANGED vars PROVE IInv'
  OBVIOUS
<1>1. mode' = mode /\ main' = main /\ next' = next /\ timer' = timer /\ tasks' = tasks /\ age' = age
      /\ state' = state /\ changes' = changes
  BY DEF vars, hubVars
<1> USE DEF IInv
<1>2. TypeInv' /\ MainInv' /\ LoadInv' /\ QuietInv'
  BY <1>1 DEF TypeInv, MainInv, LoadInv, QuietInv
<1>3. CallInv' /\ AgeInv'
  BY <1>1 DEF CallInv, AgeInv, InTurn
<1> QED BY <1>2, <1>3

-----------------------------------------------------------------------------
(* The theorems.                                                           *)

\* Every step of the node, of a call, of a hub and of time keeps the
\* invariant, whatever the number of hubs and the times.
THEOREM Invariance == Spec => []IInv
<1>1. ASSUME IInv, [Next]_vars PROVE IInv'
  <2>1. CASE Start
    BY <1>1, <2>1, StartIInv
  <2>2. CASE Look
    BY <1>1, <2>2, LookIInv
  <2>3. CASE Connect
    BY <1>1, <2>3, ConnectIInv
  <2>4. CASE Connected
    BY <1>1, <2>4, ConnectedIInv
  <2>5. CASE Rest
    BY <1>1, <2>5, RestIInv
  <2>6. CASE Cycle
    BY <1>1, <2>6, CycleIInv
  <2>7. CASE \E h \in Hub : \E c \in DOMAIN tasks[h] : Succeed(h, c)
    BY <1>1, <2>7, SucceedIInv
  <2>8. CASE \E h \in Hub : \E c \in DOMAIN tasks[h] : Fail(h, c)
    BY <1>1, <2>8, FailIInv
  <2>9. CASE \E h \in Hub : \E c \in DOMAIN tasks[h] : Retry(h, c)
    BY <1>1, <2>9, RetryIInv
  <2>10. CASE \E h \in Hub, s \in {"answers", "refuses", "silent"} : HubChanges(h, s)
    BY <1>1, <2>10, HubChangesIInv
  <2>11. CASE \E h \in Hub : Trim(h)
    BY <1>1, <2>11, TrimIInv
  <2>12. CASE Tick
    BY <1>1, <2>12, TickIInv
  <2>13. CASE UNCHANGED vars
    BY <1>1, <2>13, StutterIInv
  <2> QED BY <1>1, <2>1, <2>2, <2>3, <2>4, <2>5, <2>6, <2>7, <2>8, <2>9, <2>10, <2>11,
             <2>12, <2>13 DEF Next
<1> QED BY <1>1, InitIInv, PTL DEF Spec

\* Every variable keeps its type: no call goes beyond the last attempt, and
\* none sleeps longer than the maximum, though the back-off doubles.
THEOREM TypeCorrect == Spec => []TypeOK
<1>1. ASSUME IInv PROVE TypeOK
  <2>1. Places \subseteq Dials \cup Backoffs
    BY DEF Places
  <2>2. \A h \in Hub : IsBag(tasks[h], Dials \cup Backoffs)
    BY <1>1, <2>1 DEF IInv, CallInv, IsBag
  <2> QED BY <1>1, <2>2 DEF IInv, TypeInv, CallInv, TypeOK
<1> QED BY <1>1, Invariance, PTL

\* The calls under way stay bounded, by the seconds in the life of a call for
\* the aggressive peer, by one for the others (main.nim:125-128).
THEOREM CallsStayBounded == Spec => []CallsBounded
<1>1. ASSUME IInv PROVE CallsBounded
  <2> USE <1>1 DEF IInv
  <2>1. ASSUME NEW h \in Hub, mode = "aggressive"
        PROVE  Cardinality(Copies(tasks[h])) <= Lifetime \div Period + 1
    <3>1. Lifetime \in Nat /\ 0 \in 0..Lifetime
      BY Times
    <3>2. \A c \in DOMAIN tasks[h] : Remaining(c) \in 0..Lifetime
      BY RemainingType DEF CallInv, IsBag
    <3>3. Copies(tasks[h]) \subseteq Above(tasks[h], 0)
      <4> SUFFICES ASSUME NEW x \in Copies(tasks[h]) PROVE Remaining(x[1]) >= 0
        BY DEF Above
      <4>1. PICK c \in DOMAIN tasks[h], i \in Nat : x = <<c, i>>
        BY InCopies
      <4>2. x[1] = c
        BY <4>1
      <4> QED BY <3>1, <3>2, <4>2
    <3>4. Above(tasks[h], 0) = Copies(tasks[h])
      BY <3>3 DEF Above
    <3>5. Cardinality(Copies(tasks[h])) <= (Lifetime - 0) + timer
      BY <2>1, <3>1, <3>4 DEF LoadInv
    <3>6. timer \in 0..1
      BY <2>1, Times DEF MainInv, TypeInv, Period
    <3>7. Cardinality(Copies(tasks[h])) \in Nat
      BY FS_CardinalityType DEF CallInv
    <3>8. Lifetime \div Period = Lifetime
      BY <3>1 DEF Period
    <3> QED BY <3>1, <3>5, <3>6, <3>7, <3>8
  <2>2. ASSUME NEW h \in Hub, mode # "aggressive"
        PROVE  Cardinality(Copies(tasks[h])) <= 1
    <3>1. CASE tasks[h] = NoCalls
      <4>1. Copies(tasks[h]) = {}
        BY <3>1 DEF Copies, NoCalls
      <4> QED BY <4>1, FS_EmptySet
    <3>2. CASE \E c \in Places : tasks[h] = Only(c)
      <4>1. PICK c \in Places : tasks[h] = Only(c)
        BY <3>2
      <4>2. Copies(tasks[h]) = {<<c, 1>>}
        <5>1. DOMAIN Only(c) = {c} /\ Only(c)[c] = 1 /\ 1..1 = {1}
          BY DEF Only
        <5>2. Copies(Only(c)) = {c} \X {1}
          BY <5>1 DEF Copies
        <5> QED BY <4>1, <5>2
      <4>3. Cardinality({<<c, 1>>}) = 1
        BY FS_Singleton, Zenon
      <4> QED BY <4>2, <4>3
    <3> QED BY <2>2, <3>1, <3>2 DEF CallInv
  <2>3. mode \in {"none", "before_grace"} =>
          \A h, g \in Hub : tasks[h] # NoCalls /\ tasks[g] # NoCalls => h = g
    BY DEF CallInv, InTurn
  <2> QED BY <2>1, <2>2, <2>3 DEF CallsBounded
<1> QED BY <1>1, Invariance, PTL

\* A cycling peer keeps a connection for its interval while all hubs answer,
\* and for the life of a call longer for each of the other hubs when they do
\* not (main.nim:132-138).
THEOREM AgesStayBounded == Spec => []AgeBounded
<1>1. ASSUME IInv PROVE AgeBounded
  <2> USE <1>1 DEF IInv
  <2> SUFFICES ASSUME mode = "before_grace", NEW h \in Hub
               PROVE  age[h] <= IF changes = 0 THEN Interval ELSE MaxAge
    BY DEF AgeBounded
  <2>1. Interval \in Nat \ {0} /\ Lifetime \in Nat /\ timer \in Nat /\ timer <= Interval
    BY Times DEF TypeInv, MainInv, Period
  <2>2. age[h] \in {Down} \cup Nat
    BY DEF TypeInv
  <2>3. CASE changes = 0
    BY <2>1, <2>2, <2>3 DEF QuietInv, Down
  <2>4. PICK i \in 1..Len(HubAddrs) : h = HubAddrs[i]
    BY HubPlaces
  <2> DEFINE n == Len(HubAddrs)
  <2>5. n \in Nat /\ n >= 1 /\ n - i \in Nat
    BY <2>4, HubPlaces
  <2>6. ASSUME NEW k \in Nat, k <= n - 1 PROVE k * Lifetime <= (n - 1) * Lifetime
    <3>1. (n - 1) - k \in Nat
      BY <2>5, <2>6
    <3>2. ((n - 1) - k) * Lifetime \in Nat
      BY <2>1, <3>1
    <3>3. (n - 1) * Lifetime = k * Lifetime + ((n - 1) - k) * Lifetime
      BY <2>1, <2>5, <3>1
    <3>4. k * Lifetime \in Nat
      BY <2>1
    <3> QED BY <3>2, <3>3, <3>4
  <2>7. (n - 1) * Lifetime \in Nat
    BY <2>1, <2>5
  <2>8. CASE age[h] = Down
    BY <2>1, <2>7, <2>8 DEF MaxAge, Down
  <2>9. ASSUME age[h] # Down PROVE age[h] <= MaxAge
    <3>1. main \in {"connect", "await", "sleep"}
      BY <2>9 DEF MainInv
    <3>2. next \in 1..(n + 1) /\ (main = "await" => next <= n)
      BY DEF TypeInv, MainInv
    <3>3. age[h] \in Nat
      BY <2>2, <2>9
    <3>4. CASE main = "connect"
      <4>1. i < next /\ age[h] <= ((next - 1) - i) * Lifetime
        BY <2>4, <2>9, <3>4 DEF AgeInv
      <4>2. (next - 1) - i \in Nat /\ (next - 1) - i <= n - 1
        BY <2>5, <3>2, <4>1
      <4>3. ((next - 1) - i) * Lifetime <= (n - 1) * Lifetime
        BY <2>6, <4>2
      <4>4. ((next - 1) - i) * Lifetime \in Nat
        BY <2>1, <4>2
      <4> QED BY <2>1, <2>7, <3>3, <4>1, <4>3, <4>4 DEF MaxAge
    <3>5. CASE main = "await"
      <4>1. i <= next /\ age[h] <= (next - i) * Lifetime
        <5>1. HubAddrs[next] \in Hub
          BY <3>2, <3>5, HubPlaces
        <5>2. CASE tasks[HubAddrs[next]] = NoCalls
          BY <2>4, <2>9, <3>5, <5>2 DEF AgeInv
        <5>3. CASE tasks[HubAddrs[next]] # NoCalls
          <6>1. DOMAIN tasks[HubAddrs[next]] # {}
            BY <5>1, <5>3, NoBag DEF CallInv
          <6>2. PICK c \in DOMAIN tasks[HubAddrs[next]] : TRUE
            BY <6>1
          <6>3. i < next /\ age[HubAddrs[i]] <= (next - i) * Lifetime
            BY <2>4, <2>9, <5>1, <6>2, EndAges
          <6> QED BY <2>4, <2>5, <3>2, <6>3
        <5> QED BY <5>2, <5>3
      <4>2. next - i \in Nat /\ next - i <= n - 1
        BY <2>5, <3>2, <3>5, <4>1
      <4>3. (next - i) * Lifetime <= (n - 1) * Lifetime
        BY <2>6, <4>2
      <4>4. (next - i) * Lifetime \in Nat
        BY <2>1, <4>2
      <4> QED BY <2>1, <2>7, <3>3, <4>1, <4>3, <4>4 DEF MaxAge
    <3>6. CASE main = "sleep"
      <4>1. age[h] <= (n - i) * Lifetime + (Interval - timer)
        BY <2>4, <2>9, <3>6 DEF AgeInv
      <4>2. (n - i) * Lifetime <= (n - 1) * Lifetime
        BY <2>5, <2>6
      <4>3. (n - i) * Lifetime \in Nat
        BY <2>1, <2>5
      <4> QED BY <2>1, <2>7, <3>3, <4>1, <4>2, <4>3 DEF MaxAge
    <3> QED BY <3>1, <3>4, <3>5, <3>6
  <2> QED BY <2>3, <2>8, <2>9
<1> QED BY <1>1, Invariance, PTL
=============================================================================
