------------------------ MODULE PublishBridgeProofs ------------------------
(***************************************************************************)
(* Proofs that the safety invariants of PublishBridge hold for every set   *)
(* of requests, number of fragments, channel capacity and clock.           *)
(*                                                                         *)
(* None of them is inductive: that a later request cannot overtake an      *)
(* earlier one needs the whole line - loop, channel, mutex, queue - to be  *)
(* sorted by arrival, and that an answer tells the outcome needs to know   *)
(* where the command is while its fragments go out.  IInv says both.       *)
(*                                                                         *)
(* Then the bridge is shown to implement FifoService: with the line cut at *)
(* the mutex (LineInv), each action moves one request at one end of one    *)
(* part, or none; and to publish as RustGossip does in one step, since the *)
(* fragments out so far are new and differ (FragmentsInv).                 *)
(***************************************************************************)
EXTENDS PublishBridge, FiniteSetTheorems, SequenceTheorems, TLAPS

-----------------------------------------------------------------------------
(* What the operators of the queues and of the channel return.             *)

\* The empty sequence has no element.
LEMMA EmptyToSet ==
  ASSUME NEW S
  PROVE  <<>> \in Seq(S) /\ Len(<<>>) = 0 /\ ToSet(<<>>) = {}
BY DEF ToSet

\* Appending adds one element at the end.
LEMMA AppendFacts ==
  ASSUME NEW S, NEW s \in Seq(S), NEW e \in S
  PROVE  /\ Append(s, e) \in Seq(S)
         /\ Len(Append(s, e)) = Len(s) + 1
         /\ \A i \in 1..Len(s) : Append(s, e)[i] = s[i]
         /\ Append(s, e)[Len(s) + 1] = e
         /\ ToSet(Append(s, e)) = ToSet(s) \cup {e}
<1>1. /\ Append(s, e) \in Seq(S)
      /\ Len(Append(s, e)) = Len(s) + 1
      /\ \A i \in 1..Len(s) : Append(s, e)[i] = s[i]
      /\ Append(s, e)[Len(s) + 1] = e
  OBVIOUS
<1>2. DOMAIN Append(s, e) = 1..(Len(s) + 1) /\ DOMAIN s = 1..Len(s) /\ Len(s) \in Nat
  BY <1>1
<1>3. ToSet(Append(s, e)) = ToSet(s) \cup {e}
  BY <1>1, <1>2 DEF ToSet
<1> QED
  BY <1>1, <1>3

\* Taking the head shifts the rest forward.
LEMMA TailFacts ==
  ASSUME NEW S, NEW s \in Seq(S), s # <<>>
  PROVE  /\ Len(s) \in Nat \ {0}
         /\ Head(s) = s[1]
         /\ Head(s) \in S
         /\ Tail(s) \in Seq(S)
         /\ Len(Tail(s)) = Len(s) - 1
         /\ \A i \in 1..(Len(s) - 1) : Tail(s)[i] = s[i + 1]
         /\ ToSet(s) = ToSet(Tail(s)) \cup {Head(s)}
<1>1. /\ Len(s) \in Nat \ {0}
      /\ Head(s) = s[1]
      /\ Head(s) \in S
      /\ Tail(s) \in Seq(S)
      /\ Len(Tail(s)) = Len(s) - 1
      /\ \A i \in 1..(Len(s) - 1) : Tail(s)[i] = s[i + 1]
  OBVIOUS
<1>2. DOMAIN s = 1..Len(s) /\ DOMAIN Tail(s) = 1..(Len(s) - 1)
  BY <1>1
<1>3. ASSUME NEW x \in ToSet(s)
      PROVE  x \in ToSet(Tail(s)) \cup {Head(s)}
  <2>1. PICK i \in 1..Len(s) : x = s[i]
    BY <1>2 DEF ToSet
  <2>2. CASE i = 1
    BY <2>1, <2>2, <1>1
  <2>3. CASE i # 1
    <3>1. i - 1 \in 1..(Len(s) - 1) /\ Tail(s)[i - 1] = s[i]
      BY <2>3, <1>1
    <3> QED
      BY <3>1, <2>1, <1>2 DEF ToSet
  <2> QED
    BY <2>2, <2>3
<1>4. ASSUME NEW x \in ToSet(Tail(s)) \cup {Head(s)}
      PROVE  x \in ToSet(s)
  <2>1. CASE x = Head(s)
    BY <2>1, <1>1, <1>2 DEF ToSet
  <2>2. CASE x \in ToSet(Tail(s))
    <3>1. PICK i \in 1..(Len(s) - 1) : x = Tail(s)[i]
      BY <2>2, <1>2 DEF ToSet
    <3>2. i + 1 \in 1..Len(s) /\ x = s[i + 1]
      BY <3>1, <1>1
    <3> QED
      BY <3>2, <1>2 DEF ToSet
  <2> QED
    BY <2>1, <2>2
<1> QED
  BY <1>1, <1>3, <1>4

\* Removing position k keeps the order of the others.
LEMMA RemoveAtFacts ==
  ASSUME NEW S, NEW s \in Seq(S), NEW k \in 1..Len(s)
  PROVE  /\ RemoveAt(s, k) \in Seq(S)
         /\ Len(RemoveAt(s, k)) = Len(s) - 1
         /\ \A i \in 1..(Len(s) - 1) :
              RemoveAt(s, k)[i] = IF i < k THEN s[i] ELSE s[i + 1]
         /\ (\A i \in 1..Len(s) \ {k} : s[i] # s[k]) =>
              ToSet(RemoveAt(s, k)) = ToSet(s) \ {s[k]}
<1> DEFINE a == SubSeq(s, 1, k - 1)
           b == SubSeq(s, k + 1, Len(s))
<1>1. /\ a \in Seq(S)
      /\ Len(a) = k - 1
      /\ \A i \in 1..(k - 1) : a[i] = s[i]
  OBVIOUS
<1>2. /\ b \in Seq(S)
      /\ Len(b) = Len(s) - k
      /\ \A i \in 1..(Len(s) - k) : b[i] = s[k + i]
  OBVIOUS
<1> HIDE DEF a, b
<1>3. /\ RemoveAt(s, k) \in Seq(S)
      /\ Len(RemoveAt(s, k)) = Len(s) - 1
      /\ \A i \in 1..(Len(s) - 1) :
           RemoveAt(s, k)[i] = IF i < k THEN s[i] ELSE s[i + 1]
  <2>1. RemoveAt(s, k) = a \o b
    BY DEF RemoveAt, a, b
  <2>2. /\ a \o b \in Seq(S)
        /\ Len(a \o b) = Len(a) + Len(b)
        /\ \A i \in 1..(Len(a) + Len(b)) :
             (a \o b)[i] = IF i <= Len(a) THEN a[i] ELSE b[i - Len(a)]
    BY <1>1, <1>2, ConcatProperties
  <2>3. ASSUME NEW i \in 1..(Len(s) - 1), i < k
        PROVE  (a \o b)[i] = s[i]
    BY <2>3, <2>2, <1>1, <1>2
  <2>4. ASSUME NEW i \in 1..(Len(s) - 1), ~(i < k)
        PROVE  (a \o b)[i] = s[i + 1]
    <3> DEFINE m == i - Len(a)
    <3>1. i \in 1..(Len(a) + Len(b)) /\ ~(i <= Len(a)) /\ m \in 1..(Len(s) - k) /\ k + m = i + 1
      BY <2>4, <1>1, <1>2
    <3>2. (a \o b)[i] = b[m]
      BY <3>1, <2>2
    <3> HIDE DEF m
    <3>3. b[m] = s[k + m]
      BY <3>1, <1>2
    <3> QED
      BY <3>1, <3>2, <3>3
  <2>5. Len(a \o b) = Len(s) - 1
    BY <2>2, <1>1, <1>2
  <2> QED
    BY <2>1, <2>2, <2>3, <2>4, <2>5
<1>4. DOMAIN RemoveAt(s, k) = 1..(Len(s) - 1) /\ Len(s) \in Nat
  BY <1>3
<1>5. ASSUME NEW x \in ToSet(RemoveAt(s, k))
      PROVE  \E i \in 1..Len(s) \ {k} : x = s[i]
  <2>1. PICK i \in 1..(Len(s) - 1) : x = RemoveAt(s, k)[i]
    BY <1>4 DEF ToSet
  <2>2. CASE i < k
    BY <2>1, <2>2, <1>3, <1>4
  <2>3. CASE ~(i < k)
    <3>1. i + 1 \in 1..Len(s) \ {k} /\ x = s[i + 1]
      BY <2>1, <2>3, <1>3, <1>4
    <3> QED
      BY <3>1
  <2> QED
    BY <2>2, <2>3
<1>6. ASSUME NEW i \in 1..Len(s) \ {k}
      PROVE  s[i] \in ToSet(RemoveAt(s, k))
  <2>1. CASE i < k
    BY <2>1, <1>3, <1>4 DEF ToSet
  <2>2. CASE i > k
    <3>1. i - 1 \in 1..(Len(s) - 1) /\ RemoveAt(s, k)[i - 1] = s[i]
      BY <2>2, <1>3, <1>4
    <3> QED
      BY <3>1, <1>4 DEF ToSet
  <2> QED
    BY <2>1, <2>2
<1>7. ASSUME \A i \in 1..Len(s) \ {k} : s[i] # s[k]
      PROVE  ToSet(RemoveAt(s, k)) = ToSet(s) \ {s[k]}
  <2>1. DOMAIN s = 1..Len(s)
    OBVIOUS
  <2>2. ASSUME NEW x \in ToSet(RemoveAt(s, k))
        PROVE  x \in ToSet(s) \ {s[k]}
    <3>1. PICK i \in 1..Len(s) \ {k} : x = s[i]
      BY <2>2, <1>5
    <3> QED
      BY <3>1, <2>1, <1>7 DEF ToSet
  <2>3. ASSUME NEW x \in ToSet(s) \ {s[k]}
        PROVE  x \in ToSet(RemoveAt(s, k))
    <3>1. PICK i \in 1..Len(s) : x = s[i]
      BY <2>3, <2>1 DEF ToSet
    <3> QED
      BY <3>1, <2>3, <1>6
  <2> QED
    BY <2>2, <2>3
<1> QED
  BY <1>3, <1>7

\* Removing an element that occurs once removes it from the set.
LEMMA RemoveAtSet ==
  ASSUME NEW S, NEW s \in Seq(S), NEW k \in 1..Len(s),
         \A i \in 1..Len(s) \ {k} : s[i] # s[k]
  PROVE  ToSet(RemoveAt(s, k)) = ToSet(s) \ {s[k]}
<1>1. (\A i \in 1..Len(s) \ {k} : s[i] # s[k]) => ToSet(RemoveAt(s, k)) = ToSet(s) \ {s[k]}
  BY RemoveAtFacts, SMTT(30)
<1> QED
  BY <1>1

\* The elements of a concatenation.
LEMMA ConcatSet ==
  ASSUME NEW S, NEW s \in Seq(S), NEW t \in Seq(S)
  PROVE  ToSet(s \o t) = ToSet(s) \cup ToSet(t)
<1>1. /\ s \o t \in Seq(S) /\ Len(s \o t) = Len(s) + Len(t)
      /\ \A i \in 1..(Len(s) + Len(t)) : (s \o t)[i] = IF i <= Len(s) THEN s[i] ELSE t[i - Len(s)]
  BY ConcatProperties
<1>2. /\ DOMAIN s = 1..Len(s) /\ DOMAIN t = 1..Len(t)
      /\ DOMAIN (s \o t) = 1..(Len(s) + Len(t))
      /\ Len(s) \in Nat /\ Len(t) \in Nat
  BY <1>1
<1>3. ASSUME NEW x \in ToSet(s \o t)
      PROVE  x \in ToSet(s) \cup ToSet(t)
  <2>1. PICK i \in 1..(Len(s) + Len(t)) : x = (s \o t)[i]
    BY <1>2 DEF ToSet
  <2>2. CASE i <= Len(s)
    BY <1>1, <1>2, <2>1, <2>2 DEF ToSet
  <2>3. CASE ~(i <= Len(s))
    <3>1. i - Len(s) \in 1..Len(t) /\ x = t[i - Len(s)]
      BY <1>1, <1>2, <2>1, <2>3
    <3> QED
      BY <1>2, <3>1 DEF ToSet
  <2> QED
    BY <2>2, <2>3
<1>4. ASSUME NEW x \in ToSet(s)
      PROVE  x \in ToSet(s \o t)
  <2>1. PICK i \in 1..Len(s) : x = s[i]
    BY <1>2 DEF ToSet
  <2>2. i \in 1..(Len(s) + Len(t)) /\ x = (s \o t)[i]
    BY <1>1, <1>2, <2>1
  <2> QED
    BY <1>2, <2>2 DEF ToSet
<1>5. ASSUME NEW x \in ToSet(t)
      PROVE  x \in ToSet(s \o t)
  <2>1. PICK i \in 1..Len(t) : x = t[i]
    BY <1>2 DEF ToSet
  <2>2. PICK j \in 1..(Len(s) + Len(t)) : j = Len(s) + i
    BY <1>2
  <2>3. ~(j <= Len(s)) /\ j - Len(s) = i
    BY <1>2, <2>2
  <2>4. x = (s \o t)[j]
    BY <1>1, <2>1, <2>3
  <2> QED
    BY <1>2, <2>4 DEF ToSet
<1> QED
  BY <1>3, <1>4, <1>5

\* One element before the others.
LEMMA FirstFacts ==
  ASSUME NEW S, NEW e \in S, NEW s \in Seq(S)
  PROVE  /\ <<e>> \in Seq(S) /\ ToSet(<<e>>) = {e}
         /\ <<e>> \o s \in Seq(S) /\ <<e>> \o s # <<>>
         /\ ToSet(<<e>> \o s) = {e} \cup ToSet(s)
         /\ Head(<<e>> \o s) = e /\ Tail(<<e>> \o s) = s
         /\ Append(s, e) = s \o <<e>>
<1>1. <<e>> \in Seq(S) /\ Len(<<e>>) = 1 /\ <<e>>[1] = e
  OBVIOUS
<1>2. ToSet(<<e>>) = {e}
  BY <1>1 DEF ToSet
<1>3. /\ <<e>> \o s \in Seq(S) /\ Len(<<e>> \o s) = 1 + Len(s) /\ Len(s) \in Nat
      /\ \A i \in 1..(1 + Len(s)) : (<<e>> \o s)[i] = IF i <= 1 THEN <<e>>[i] ELSE s[i - 1]
  BY <1>1, ConcatProperties
<1> DEFINE u == <<e>> \o s
<1>4. /\ u \in Seq(S) /\ Len(u) = 1 + Len(s) /\ u[1] = e
      /\ \A i \in 1..Len(s) : u[i + 1] = s[i]
  BY <1>1, <1>3
<1> HIDE DEF u
<1>5. u # <<>> /\ Head(u) = e /\ Tail(u) \in Seq(S) /\ Len(Tail(u)) = Len(s)
  BY <1>3, <1>4
<1>6. \A i \in 1..Len(s) : Tail(u)[i] = s[i]
  BY <1>3, <1>4
<1>7. Tail(u) = s
  BY <1>5, <1>6, SeqEqual
<1>8. ToSet(u) = {e} \cup ToSet(s)
  BY <1>4, <1>5, <1>7, TailFacts
<1>9. ToSet(<<e>> \o s) = {e} \cup ToSet(s)
  BY <1>8 DEF u
<1> QED
  BY <1>1, <1>2, <1>4, <1>5, <1>7, <1>9, AppendIsConcat DEF u

\* A sequence is its head and its tail.
LEMMA HeadThenTail ==
  ASSUME NEW S, NEW s \in Seq(S), s # <<>>
  PROVE  <<Head(s)>> \o Tail(s) = s
<1>1. Head(s) \in S /\ Tail(s) \in Seq(S) /\ Len(Tail(s)) = Len(s) - 1 /\ Len(s) \in Nat \ {0}
      /\ Head(s) = s[1] /\ \A i \in 1..(Len(s) - 1) : Tail(s)[i] = s[i + 1]
  BY TailFacts
<1> DEFINE u == <<Head(s)>> \o Tail(s)
<1>2. /\ u \in Seq(S) /\ Len(u) = 1 + Len(Tail(s))
      /\ \A i \in 1..(1 + Len(Tail(s))) :
           u[i] = IF i <= 1 THEN <<Head(s)>>[i] ELSE Tail(s)[i - 1]
  <2>1. <<Head(s)>> \in Seq(S) /\ Len(<<Head(s)>>) = 1
    BY <1>1
  <2> QED
    BY <1>1, <2>1, ConcatProperties
<1>3. \A i \in 1..Len(s) : u[i] = s[i]
  <2> SUFFICES ASSUME NEW i \in 1..Len(s)
               PROVE  u[i] = s[i]
    OBVIOUS
  <2>1. CASE i = 1
    BY <1>1, <1>2, <2>1
  <2>2. CASE i # 1
    <3>1. i - 1 \in 1..(Len(s) - 1) /\ Tail(s)[i - 1] = s[i]
      BY <1>1, <2>2
    <3> QED
      BY <1>1, <1>2, <2>2, <3>1
  <2> QED
    BY <2>1, <2>2
<1> HIDE DEF u
<1> QED
  BY <1>1, <1>2, <1>3, SeqEqual DEF u

\* Removing from the second part, and cutting off the first.
LEMMA SecondPart ==
  ASSUME NEW S, NEW s \in Seq(S), NEW t \in Seq(S)
  PROVE  /\ \A k \in 1..Len(t) : /\ Len(s) + k \in 1..Len(s \o t)
                                 /\ (s \o t)[Len(s) + k] = t[k]
                                 /\ RemoveAt(s \o t, Len(s) + k) = s \o RemoveAt(t, k)
         /\ SubSeq(s \o t, Len(s) + 1, Len(s \o t)) = t
         /\ \A i \in 1..Len(s) : (s \o t)[i] = s[i]
<1> DEFINE u == s \o t
<1>1. /\ u \in Seq(S) /\ Len(u) = Len(s) + Len(t) /\ Len(s) \in Nat /\ Len(t) \in Nat
      /\ \A i \in 1..(Len(s) + Len(t)) : u[i] = IF i <= Len(s) THEN s[i] ELSE t[i - Len(s)]
  BY ConcatProperties, LenProperties
<1> HIDE DEF u
<1>2. \A i \in 1..Len(s) : u[i] = s[i]
  BY <1>1
<1>3. \A k \in 1..Len(t) : Len(s) + k \in 1..Len(u) /\ u[Len(s) + k] = t[k]
  <2> SUFFICES ASSUME NEW k \in 1..Len(t)
               PROVE  Len(s) + k \in 1..Len(u) /\ u[Len(s) + k] = t[k]
    OBVIOUS
  <2>1. PICK j \in 1..Len(u) : j = Len(s) + k
    BY <1>1
  <2>2. ~(j <= Len(s)) /\ j - Len(s) = k
    BY <1>1, <2>1
  <2> QED
    BY <1>1, <2>1, <2>2
<1>4. SubSeq(u, Len(s) + 1, Len(u)) = t
  <2> DEFINE v == SubSeq(u, Len(s) + 1, Len(u))
  <2>1. /\ v \in Seq(S) /\ Len(v) = Len(t)
        /\ \A i \in 1..Len(t) : v[i] = u[Len(s) + i]
    BY <1>1
  <2> HIDE DEF v
  <2>2. v = t
    BY <1>3, <2>1, SeqEqual
  <2> QED
    BY <2>2 DEF v
<1>5. ASSUME NEW k \in 1..Len(t)
      PROVE  RemoveAt(u, Len(s) + k) = s \o RemoveAt(t, k)
  <2>1. PICK j \in 1..Len(u) : j = Len(s) + k
    BY <1>1
  <2> DEFINE a == RemoveAt(u, j)
             r == RemoveAt(t, k)
             b == s \o r
  <2>2. /\ a \in Seq(S) /\ Len(a) = Len(u) - 1
        /\ \A i \in 1..(Len(u) - 1) : a[i] = IF i < j THEN u[i] ELSE u[i + 1]
    BY <1>1, RemoveAtFacts
  <2>3. /\ r \in Seq(S) /\ Len(r) = Len(t) - 1
        /\ \A i \in 1..(Len(t) - 1) : r[i] = IF i < k THEN t[i] ELSE t[i + 1]
    BY RemoveAtFacts
  <2> HIDE DEF a, r
  <2>4. /\ b \in Seq(S) /\ Len(b) = Len(s) + (Len(t) - 1)
        /\ \A i \in 1..(Len(s) + (Len(t) - 1)) :
             b[i] = IF i <= Len(s) THEN s[i] ELSE r[i - Len(s)]
    <3>1. /\ b \in Seq(S) /\ Len(b) = Len(s) + Len(r)
          /\ \A i \in 1..(Len(s) + Len(r)) : b[i] = IF i <= Len(s) THEN s[i] ELSE r[i - Len(s)]
      BY <2>3, ConcatProperties
    <3> HIDE DEF b
    <3> QED
      BY <2>3, <3>1
  <2> HIDE DEF b
  <2>5. ASSUME NEW i \in 1..Len(a)
        PROVE  a[i] = b[i]
    <3>0. PICK m \in Nat, n \in Nat \ {0} : m = Len(s) /\ n = Len(t)
      BY <1>1
    <3>1. /\ i \in 1..(m + n - 1) /\ i \in 1..(Len(u) - 1) /\ i \in 1..(Len(s) + (Len(t) - 1))
          /\ j = m + k /\ k \in 1..n
      BY <1>1, <2>1, <2>2, <3>0
    <3>2. CASE i <= Len(s)
      <4>1. i < j
        BY <3>0, <3>1, <3>2
      <4>2. a[i] = u[i] /\ b[i] = s[i]
        BY <2>2, <2>4, <3>1, <3>2, <4>1
      <4>3. i \in 1..Len(s)
        BY <3>0, <3>1, <3>2
      <4> QED
        BY <1>2, <4>2, <4>3
    <3>3. CASE ~(i <= Len(s))
      <4>0. i \in Nat /\ n \in Nat /\ m < i /\ i <= m + n - 1
        BY <3>0, <3>1, <3>3
      <4>1. PICK h \in 1..(n - 1) : h = i - m
        <5>1. i - m \in 1..(n - 1)
          BY <4>0
        <5> QED
          BY <5>1
      <4>2. h \in 1..(Len(t) - 1) /\ i - Len(s) = h
        BY <3>0, <4>1
      <4>3. b[i] = IF h < k THEN t[h] ELSE t[h + 1]
        BY <2>3, <2>4, <3>1, <3>3, <4>2
      <4>4. /\ h \in 1..n /\ h + 1 \in 1..n
            /\ i = m + h /\ i + 1 = m + (h + 1)
            /\ (i < j <=> h < k)
        BY <3>1, <4>1
      <4>5. u[i] = t[h] /\ u[i + 1] = t[h + 1]
        BY <1>3, <3>0, <4>4
      <4> QED
        BY <2>2, <3>1, <4>3, <4>4, <4>5
    <3> QED
      BY <3>2, <3>3
  <2>6. Len(a) = Len(b)
    BY <1>1, <2>2, <2>4
  <2>7. a = b
    BY <2>2, <2>4, <2>5, <2>6, SeqEqual
  <2> QED
    BY <2>1, <2>7 DEF a, b, r
<1> QED
  BY <1>2, <1>3, <1>4, <1>5 DEF u

\* The same of one position.
LEMMA SecondPartAt ==
  ASSUME NEW S, NEW s \in Seq(S), NEW t \in Seq(S), NEW k \in 1..Len(t)
  PROVE  /\ Len(s) + k \in 1..Len(s \o t)
         /\ (s \o t)[Len(s) + k] = t[k]
         /\ RemoveAt(s \o t, Len(s) + k) = s \o RemoveAt(t, k)
BY SecondPart

\* Removing the first element leaves the tail.
LEMMA FirstRemoved ==
  ASSUME NEW S, NEW e \in S, NEW s \in Seq(S)
  PROVE  RemoveAt(<<e>> \o s, 1) = s
<1>0. PICK u : u = <<e>> \o s
  OBVIOUS
<1>1. /\ u \in Seq(S) /\ Len(u) = 1 + Len(s) /\ Len(s) \in Nat
      /\ \A i \in 1..(1 + Len(s)) : u[i] = IF i <= 1 THEN <<e>>[i] ELSE s[i - 1]
  <2>1. <<e>> \in Seq(S) /\ Len(<<e>>) = 1
    OBVIOUS
  <2> QED
    BY <1>0, <2>1, ConcatProperties
<1>2. \A i \in 1..Len(s) : u[i + 1] = s[i]
  BY <1>1
<1>3. RemoveAt(u, 1) = s
  <2>1. 1 \in 1..Len(u)
    BY <1>1
  <2> DEFINE v == RemoveAt(u, 1)
  <2>2. /\ v \in Seq(S) /\ Len(v) = Len(u) - 1
        /\ \A i \in 1..(Len(u) - 1) : v[i] = IF i < 1 THEN u[i] ELSE u[i + 1]
    BY <1>1, <2>1, RemoveAtFacts
  <2> HIDE DEF v
  <2>3. v = s
    BY <1>1, <1>2, <2>2, SeqEqual
  <2> QED
    BY <2>3 DEF v
<1> QED
  BY <1>0, <1>3

-----------------------------------------------------------------------------
(* The inductive invariant.                                                *)

\* Who is where: the handler of a command in the channel or taken by the
\* loop has sent it, and while the node runs the converse holds.
PlaceInv ==
  /\ \A r \in Request :
       /\ ticket[r] <= arrivals
       /\ handler[r] = "new" <=> ticket[r] = 0
       /\ r \in taken \cup ToSet(channel) => handler[r] \in {"waiting", "done", "gone"}
       /\ Running /\ handler[r] \in {"waiting", "done"} => r \in taken \cup ToSet(channel)
       /\ handler[r] = "done" => r \notin ToSet(channel)
       /\ Running /\ response[r] # "none" => r \in taken
  /\ ~Running => channel = <<>>

\* The line is sorted by arrival, and behind everything the loop has taken.
Ascending(s) == \A i, j \in 1..Len(s) : i < j => ticket[s[i]] < ticket[s[j]]

OrderInv ==
  /\ Ascending(channel)
  /\ Ascending(waiters)
  /\ owner # None => \A i \in 1..Len(waiters) : ticket[owner] < ticket[waiters[i]]
  /\ owner # None => \A i \in 1..Len(channel) : ticket[channel[i]] < ticket[owner]
  /\ Running => \A t \in taken :
       /\ \A i \in 1..Len(channel) : ticket[t] < ticket[channel[i]]
       /\ owner # None => ticket[t] < ticket[owner]

\* What the loop is doing with the command it holds.
LoopInv ==
  /\ loop \in {"publishing", "replying", "counting"} => current \in taken
  /\ loop \in {"publishing", "replying"} => response[current] = "none"
  /\ loop = "publishing" => ~failed /\ chunk < Chunks /\ sent[current] = chunk
  /\ loop = "replying" => IF failed THEN sent[current] < Chunks ELSE sent[current] = Chunks

\* What is known of a request that has been answered, and before that.
OutcomeOf(r) ==
  /\ r \notin taken => sent[r] = 0
  /\ response[r] = "ok" => sent[r] = Chunks
  /\ response[r] \in {"error", "closed"} => sent[r] < Chunks
  /\ status[r] # 0 => handler[r] = "done"
  /\ status[r] = 200 => response[r] = "ok"
  /\ status[r] = 500 => response[r] \in {"error", "closed"} \/ r \notin taken

OutcomeInv == \A r \in Request : OutcomeOf(r)

CountInv ==
  Cardinality(taken) = counter + (IF loop = "select" THEN 0 ELSE 1)

IInv ==
  /\ TypeOK
  /\ LockConsistent
  /\ Custody
  /\ PlaceInv
  /\ OrderInv
  /\ LoopInv
  /\ OutcomeInv
  /\ CountInv

-----------------------------------------------------------------------------
(* Each action preserves the inductive invariant.                          *)

USE BridgeAssumption

\* The buffer of a fragment has a natural length.
LEMMA QuotientInNat ==
  ASSUME NEW n \in Nat, NEW d \in Nat \ {0}
  PROVE  n \div d \in Nat
OBVIOUS

\* A new request joins the end of the line.
LEMMA ArrivePreserves ==
  ASSUME NEW r \in Request, NEW s \in Sizes, IInv, Arrive(r, s)
  PROVE  IInv'
<1> USE DEF IInv
<1>a. /\ handler[r] = "new"
      /\ size' = [size EXCEPT ![r] = s]
      /\ arrivals' = arrivals + 1
      /\ ticket' = [ticket EXCEPT ![r] = arrivals + 1]
      /\ UNCHANGED <<status, channel, response, loopVars>>
  BY DEF Arrive
<1>b. \/ /\ owner = None
         /\ owner' = r
         /\ handler' = [handler EXCEPT ![r] = "sending"]
         /\ waiters' = waiters
      \/ /\ owner # None
         /\ waiters' = Append(waiters, r)
         /\ handler' = [handler EXCEPT ![r] = "locking"]
         /\ owner' = owner
  BY DEF Arrive, Join
<1>c. /\ waiters' \in Seq(Request)
      /\ \/ waiters' = waiters
         \/ /\ Len(waiters') = Len(waiters) + 1
            /\ \A i \in 1..Len(waiters) : waiters'[i] = waiters[i]
            /\ waiters'[Len(waiters) + 1] = r
            /\ ToSet(waiters') = ToSet(waiters) \cup {r}
  <2>1. waiters \in Seq(Request)
    BY DEF TypeOK
  <2>2. waiters' = waiters \/ waiters' = Append(waiters, r)
    BY <1>b
  <2>3. CASE waiters' = waiters
    BY <2>1, <2>3
  <2>4. CASE waiters' = Append(waiters, r)
    BY <2>1, <2>4, AppendFacts
  <2> QED
    BY <2>2, <2>3, <2>4
<1>d. /\ arrivals \in Nat /\ ticket'[r] = arrivals + 1
      /\ \A q \in Request \ {r} : ticket'[q] = ticket[q]
      /\ \A q \in Request : ticket[q] \in Nat /\ ticket[q] <= arrivals
  BY <1>a DEF TypeOK, PlaceInv
<1>e. /\ handler'[r] \in {"sending", "locking"}
      /\ \A q \in Request \ {r} : handler'[q] = handler[q]
      /\ handler' \in [Request -> {"new", "locking", "sending", "waiting", "done", "gone"}]
  <2>1. handler \in [Request -> {"new", "locking", "sending", "waiting", "done", "gone"}]
    BY DEF TypeOK
  <2>2. \/ handler' = [handler EXCEPT ![r] = "sending"]
        \/ handler' = [handler EXCEPT ![r] = "locking"]
    BY <1>b
  <2> QED
    BY <2>1, <2>2
<1>f. /\ r \notin taken \cup ToSet(channel) \cup ToSet(waiters)
      /\ owner # r
  BY <1>a DEF PlaceInv, LockConsistent
<1>g. Running' = Running /\ UNCHANGED <<channel, response, loop, current, stamp, chunk, failed, sent, cache, counter, taken>>
  BY <1>a DEF Running, loopVars
<1>1. TypeOK'
  <2>1. size' \in [Request -> Nat]
    BY <1>a DEF TypeOK
  <2>2. ticket' \in [Request -> Nat] /\ arrivals' \in Nat
    BY <1>a, <1>d DEF TypeOK
  <2>3. owner' \in Request \cup {None}
    BY <1>b DEF TypeOK
  <2> QED
    BY <1>a, <1>c, <1>e, <2>1, <2>2, <2>3 DEF TypeOK, loopVars
<1>2. LockConsistent'
  <2>1. CASE owner = None
    <3>1. owner' = r /\ handler' = [handler EXCEPT ![r] = "sending"] /\ waiters' = waiters
      BY <1>b, <2>1
    <3>2. handler'[r] = "sending"
      BY <3>1 DEF TypeOK
    <3> QED
      BY <2>1, <3>1, <3>2, <1>e, <1>f DEF LockConsistent
  <2>2. CASE owner # None
    <3>1. owner' = owner /\ handler' = [handler EXCEPT ![r] = "locking"] /\ waiters' = Append(waiters, r)
      BY <1>b, <2>2
    <3>2. handler'[r] = "locking" /\ ToSet(waiters') = ToSet(waiters) \cup {r}
      BY <3>1, AppendFacts DEF TypeOK
    <3> QED
      BY <2>2, <3>1, <3>2, <1>e, <1>f DEF LockConsistent
  <2> QED
    BY <2>1, <2>2
<1>3. Custody'
  <2>1. Held' = Held
    BY <1>g DEF Held
  <2> QED
    BY <1>e, <1>g, <2>1 DEF Custody
<1>4. PlaceInv'
  <2>1. r \notin taken' \cup ToSet(channel')
    BY <1>f, <1>g
  <2>2. Running => response'[r] = "none"
    BY <1>a, <1>f, <1>g DEF PlaceInv, TypeOK
  <2> QED
    BY <1>a, <1>d, <1>e, <1>g, <2>1, <2>2 DEF PlaceInv
<1>5. OrderInv'
  <2>1. /\ \A i \in 1..Len(channel) : channel[i] \in Request \ {r}
        /\ \A i \in 1..Len(waiters) : waiters[i] \in Request \ {r}
        /\ Len(waiters) \in Nat /\ Len(channel) \in Nat
    <3>0. channel \in Seq(Request) /\ waiters \in Seq(Request)
      BY DEF TypeOK
    <3>1. DOMAIN channel = 1..Len(channel) /\ DOMAIN waiters = 1..Len(waiters)
      BY <3>0
    <3>2. /\ \A i \in 1..Len(channel) : channel[i] \in Request
          /\ \A i \in 1..Len(waiters) : waiters[i] \in Request
          /\ Len(waiters) \in Nat /\ Len(channel) \in Nat
      BY <3>0
    <3>3. /\ \A i \in 1..Len(channel) : channel[i] \in ToSet(channel)
          /\ \A i \in 1..Len(waiters) : waiters[i] \in ToSet(waiters)
      BY <3>1 DEF ToSet
    <3> QED
      BY <3>2, <3>3, <1>f
  <2>2. \A q \in Request \ {r} : ticket'[q] < ticket'[r]
    BY <1>d
  <2>3. Ascending(channel)'
    BY <1>d, <1>g, <2>1 DEF OrderInv, Ascending
  <2>4. ASSUME NEW i \in 1..Len(waiters'), NEW j \in 1..Len(waiters'), i < j
        PROVE  ticket'[waiters'[i]] < ticket'[waiters'[j]]
    <3>1. i \in 1..Len(waiters) /\ waiters'[i] = waiters[i]
      BY <2>4, <2>1, <1>c
    <3>2. CASE j \in 1..Len(waiters)
      <4>1. waiters'[j] = waiters[j] /\ ticket[waiters[i]] < ticket[waiters[j]]
        BY <2>4, <3>1, <3>2, <1>c DEF OrderInv, Ascending
      <4> QED
        BY <3>1, <3>2, <4>1, <2>1, <1>d
    <3>3. CASE j \notin 1..Len(waiters)
      <4>1. waiters'[j] = r
        BY <3>3, <2>1, <1>c
      <4> QED
        BY <3>1, <4>1, <2>1, <2>2
    <3> QED
      BY <3>2, <3>3
  <2>5. owner' # None => \A i \in 1..Len(waiters') : ticket'[owner'] < ticket'[waiters'[i]]
    <3>1. CASE owner = None
      <4>1. waiters' = <<>>
        BY <3>1, <1>b DEF LockConsistent
      <4> QED
        BY <4>1
    <3>2. CASE owner # None
      <4>1. owner' = owner /\ owner \in Request \ {r} /\ waiters' = Append(waiters, r)
        BY <1>b, <1>f, <3>2 DEF TypeOK
      <4>2. /\ Len(waiters') = Len(waiters) + 1
            /\ \A i \in 1..Len(waiters) : waiters'[i] = waiters[i]
            /\ waiters'[Len(waiters) + 1] = r
        BY <4>1, AppendFacts DEF TypeOK
      <4> QED
        BY <3>2, <4>1, <4>2, <1>d, <2>1, <2>2 DEF OrderInv
    <3> QED
      BY <3>1, <3>2
  <2>6. owner' # None => \A i \in 1..Len(channel') : ticket'[channel'[i]] < ticket'[owner']
    <3>1. CASE owner' = r
      BY <3>1, <2>1, <2>2, <1>g
    <3>2. CASE owner' # r
      <4>1. owner' = owner
        BY <3>2, <1>b
      <4> QED
        BY <4>1, <3>2, <2>1, <1>d, <1>g DEF OrderInv, TypeOK
    <3> QED
      BY <3>1, <3>2
  <2>7. ASSUME Running, NEW t \in taken
        PROVE  /\ \A i \in 1..Len(channel') : ticket'[t] < ticket'[channel'[i]]
               /\ owner' # None => ticket'[t] < ticket'[owner']
    <3>1. t \in Request \ {r}
      BY <1>f DEF TypeOK
    <3>2. \A i \in 1..Len(channel') : ticket'[t] < ticket'[channel'[i]]
      BY <1>d, <1>g, <2>1, <2>7, <3>1 DEF OrderInv
    <3>3. owner' # None => ticket'[t] < ticket'[owner']
      <4>1. CASE owner = None
        BY <4>1, <1>b, <2>2, <3>1
      <4>2. CASE owner # None
        <5>1. owner' = owner /\ owner \in Request \ {r}
          BY <4>2, <1>b, <1>f DEF TypeOK
        <5>2. ticket[t] < ticket[owner]
          BY <4>2, <2>7 DEF OrderInv
        <5> QED
          BY <5>1, <5>2, <1>d, <3>1
      <4> QED
        BY <4>1, <4>2
    <3> QED
      BY <3>2, <3>3
  <2> QED
    BY <1>g, <2>3, <2>4, <2>5, <2>6, <2>7 DEF OrderInv, Ascending
<1>6. LoopInv'
  BY <1>g DEF LoopInv
<1>7. OutcomeInv'
  <2>1. status'[r] = 0
    BY <1>a DEF OutcomeInv, OutcomeOf, TypeOK
  <2> QED
    BY <1>a, <1>e, <1>g, <2>1 DEF OutcomeInv, OutcomeOf
<1>8. CountInv'
  BY <1>g DEF CountInv
<1> QED
  BY <1>1, <1>2, <1>3, <1>4, <1>5, <1>6, <1>7, <1>8

\* Releasing the mutex: the oldest waiter becomes its holder, nobody else
\* moves, and what is left of the line is still sorted.
LEMMA UnlockFacts ==
  ASSUME IInv, owner # None, NEW x \in {"waiting", "done", "gone"},
         Unlock([handler EXCEPT ![owner] = x])
  PROVE  /\ owner \in Request
         /\ handler' \in [Request -> {"new", "locking", "sending", "waiting", "done", "gone"}]
         /\ owner' \in Request \cup {None}
         /\ waiters' \in Seq(Request)
         /\ handler'[owner] = x
         /\ \A r \in Request \ {owner} :
              \/ handler'[r] = handler[r]
              \/ handler[r] = "locking" /\ handler'[r] = "sending"
         /\ LockConsistent'
         /\ \A i, j \in 1..Len(waiters') : i < j => ticket[waiters'[i]] < ticket[waiters'[j]]
         /\ owner' # None =>
              /\ ticket[owner] < ticket[owner']
              /\ \A i \in 1..Len(waiters') : ticket[owner'] < ticket[waiters'[i]]
<1> USE DEF IInv
<1> DEFINE h == [handler EXCEPT ![owner] = x]
<1>1. /\ owner \in Request
      /\ h \in [Request -> {"new", "locking", "sending", "waiting", "done", "gone"}]
      /\ h[owner] = x
      /\ \A r \in Request \ {owner} : h[r] = handler[r]
  BY DEF TypeOK
<1>2. CASE waiters = <<>>
  <2>1. owner' = None /\ handler' = h /\ waiters' = waiters
    BY <1>2 DEF Unlock
  <2>2. waiters' \in Seq(Request) /\ Len(waiters') = 0 /\ ToSet(waiters') = {}
    BY <1>2, <2>1, EmptyToSet
  <2> HIDE DEF h
  <2>3. LockConsistent'
    BY <1>1, <1>2, <2>1, <2>2 DEF LockConsistent
  <2> QED
    BY <1>1, <2>1, <2>2, <2>3
<1>3. CASE waiters # <<>>
  <2>1. /\ owner' = Head(waiters)
        /\ waiters' = Tail(waiters)
        /\ handler' = [h EXCEPT ![Head(waiters)] = "sending"]
    BY <1>3 DEF Unlock
  <2> HIDE DEF h
  <2>2. /\ Len(waiters) \in Nat \ {0}
        /\ owner' = waiters[1]
        /\ owner' \in Request
        /\ waiters' \in Seq(Request)
        /\ Len(waiters') = Len(waiters) - 1
        /\ \A i \in 1..(Len(waiters) - 1) : waiters'[i] = waiters[i + 1]
        /\ ToSet(waiters) = ToSet(waiters') \cup {owner'}
    BY <1>3, <2>1, TailFacts DEF TypeOK
  <2>3. handler[owner'] = "locking" /\ owner' # owner
    BY <2>2 DEF LockConsistent
  <2>4. /\ handler' \in [Request -> {"new", "locking", "sending", "waiting", "done", "gone"}]
        /\ handler'[owner'] = "sending"
        /\ \A r \in Request \ {owner'} : handler'[r] = h[r]
    BY <1>1, <2>1, <2>2
  <2>5. /\ \A i, j \in 1..Len(waiters') : i < j => ticket[waiters'[i]] < ticket[waiters'[j]]
        /\ \A i \in 1..Len(waiters') : ticket[owner'] < ticket[waiters'[i]]
    <3>1. \A i \in 1..Len(waiters') : i + 1 \in 1..Len(waiters) /\ waiters'[i] = waiters[i + 1]
      BY <2>2
    <3>2. 1 \in 1..Len(waiters) /\ \A i \in 1..Len(waiters') : 1 < i + 1
      BY <2>2
    <3>3. \A i, j \in 1..Len(waiters') : i < j => i + 1 < j + 1
      BY <2>2
    <3>4. \A i, j \in 1..Len(waiters) : i < j => ticket[waiters[i]] < ticket[waiters[j]]
      BY DEF OrderInv, Ascending
    <3> QED
      BY <2>2, <3>1, <3>2, <3>3, <3>4
  <2>6. ticket[owner] < ticket[owner']
    BY <2>2 DEF OrderInv
  <2>7. owner' \notin ToSet(waiters')
    <3>1. ASSUME NEW i \in 1..Len(waiters'), waiters'[i] = owner'
          PROVE  FALSE
      <4>1. ticket[owner'] \in Nat
        BY <2>2 DEF TypeOK
      <4> QED
        BY <3>1, <4>1, <2>5
    <3>2. DOMAIN waiters' = 1..Len(waiters')
      BY <2>2
    <3> QED
      BY <3>1, <3>2 DEF ToSet
  <2>8. LockConsistent'
    <3>1. owner' # None
      BY <2>2
    <3>2. ASSUME NEW r \in Request
          PROVE  handler'[r] = "sending" <=> owner' = r
      BY <1>1, <2>3, <2>4 DEF LockConsistent
    <3>3. ASSUME NEW r \in Request
          PROVE  handler'[r] = "locking" <=> r \in ToSet(waiters')
      BY <1>1, <2>2, <2>3, <2>4, <2>7 DEF LockConsistent
    <3> QED
      BY <3>1, <3>2, <3>3 DEF LockConsistent
  <2>9. ASSUME NEW r \in Request \ {owner}
        PROVE  \/ handler'[r] = handler[r]
               \/ handler[r] = "locking" /\ handler'[r] = "sending"
    BY <1>1, <2>3, <2>4
  <2>10. handler'[owner] = x
    BY <1>1, <2>3, <2>4
  <2> HIDE DEF IInv
  <2> QED
    BY <1>1, <2>2, <2>4, <2>5, <2>6, <2>8, <2>9, <2>10
<1> QED
  BY <1>2, <1>3

\* The mutex holder queues its command and releases the mutex.
LEMMA SendPreserves ==
  ASSUME NEW r \in Request, IInv, Send(r)
  PROVE  IInv'
<1> USE DEF IInv
<1>a. /\ Running /\ owner = r /\ owner # None
      /\ channel' = Append(channel, r)
      /\ Unlock([handler EXCEPT ![owner] = "waiting"])
      /\ UNCHANGED <<size, ticket, arrivals, status, response, loopVars>>
  BY DEF Send
<1>b. /\ handler' \in [Request -> {"new", "locking", "sending", "waiting", "done", "gone"}]
      /\ owner' \in Request \cup {None}
      /\ waiters' \in Seq(Request)
      /\ handler'[r] = "waiting"
      /\ \A q \in Request \ {r} :
           \/ handler'[q] = handler[q]
           \/ handler[q] = "locking" /\ handler'[q] = "sending"
      /\ LockConsistent'
      /\ \A i, j \in 1..Len(waiters') : i < j => ticket[waiters'[i]] < ticket[waiters'[j]]
      /\ owner' # None =>
           /\ ticket[r] < ticket[owner']
           /\ \A i \in 1..Len(waiters') : ticket[owner'] < ticket[waiters'[i]]
  <2>1. "waiting" \in {"waiting", "done", "gone"}
    OBVIOUS
  <2> HIDE DEF IInv
  <2> QED
    BY <1>a, <2>1, UnlockFacts
<1>c. /\ channel' \in Seq(Request)
      /\ Len(channel') = Len(channel) + 1
      /\ \A i \in 1..Len(channel) : channel'[i] = channel[i]
      /\ channel'[Len(channel) + 1] = r
      /\ ToSet(channel') = ToSet(channel) \cup {r}
      /\ Len(channel) \in Nat
  BY <1>a, AppendFacts DEF TypeOK
<1>d. handler[r] = "sending" /\ r \notin taken \cup ToSet(channel)
  BY <1>a DEF LockConsistent, PlaceInv
<1>e. response[r] = "none"
  BY <1>a, <1>d DEF PlaceInv, TypeOK
<1>f. /\ Running'
      /\ UNCHANGED <<size, ticket, arrivals, status, response>>
      /\ UNCHANGED <<loop, current, stamp, chunk, failed, sent, cache, counter, taken>>
  BY <1>a DEF Running, loopVars
<1>g. \A i \in 1..Len(channel) : channel[i] \in ToSet(channel) /\ channel[i] # r
  <2>1. DOMAIN channel = 1..Len(channel)
    BY DEF TypeOK
  <2> QED
    BY <2>1, <1>d DEF ToSet
<1>1. TypeOK'
  BY <1>b, <1>c, <1>f DEF TypeOK
<1>2. LockConsistent'
  BY <1>b
<1>3. Custody'
  <2>1. Held' = Held \cup {r}
    BY <1>c, <1>f DEF Held
  <2>2. \A i, j \in 1..Len(channel') : channel'[i] = channel'[j] => i = j
    BY <1>c, <1>g DEF Custody
  <2>3. \A q \in Request : handler'[q] = "waiting" => q = r \/ handler[q] = "waiting"
    BY <1>b
  <2> QED
    BY <1>c, <1>d, <1>e, <1>f, <2>1, <2>2, <2>3 DEF Custody
<1>4. PlaceInv'
  <2>1. SUFFICES ASSUME NEW q \in Request
                 PROVE  /\ ticket[q] <= arrivals
                        /\ handler'[q] = "new" <=> ticket[q] = 0
                        /\ q \in taken \cup ToSet(channel') => handler'[q] \in {"waiting", "done", "gone"}
                        /\ handler'[q] \in {"waiting", "done"} => q \in taken \cup ToSet(channel')
                        /\ handler'[q] = "done" => q \notin ToSet(channel')
                        /\ response[q] # "none" => q \in taken
    BY <1>f DEF PlaceInv
  <2>2. CASE q = r
    BY <2>2, <1>b, <1>c, <1>d, <1>e DEF PlaceInv
  <2>3. CASE q # r
    BY <2>3, <1>a, <1>b, <1>c DEF PlaceInv
  <2> QED
    BY <2>2, <2>3
<1>5. OrderInv'
  <2>1. /\ \A i \in 1..Len(channel) : ticket[channel[i]] < ticket[r]
        /\ \A i, j \in 1..Len(channel) : i < j => ticket[channel[i]] < ticket[channel[j]]
        /\ \A t \in taken : /\ \A i \in 1..Len(channel) : ticket[t] < ticket[channel[i]]
                            /\ ticket[t] < ticket[r]
    BY <1>a DEF OrderInv, Ascending
  <2>2. ASSUME NEW i \in 1..Len(channel'), NEW j \in 1..Len(channel'), i < j
        PROVE  ticket[channel'[i]] < ticket[channel'[j]]
    <3>1. i \in 1..Len(channel) /\ channel'[i] = channel[i]
      BY <2>2, <1>c
    <3>2. CASE j = Len(channel) + 1
      BY <3>1, <3>2, <2>1, <1>c
    <3>3. CASE j # Len(channel) + 1
      <4>1. j \in 1..Len(channel) /\ channel'[j] = channel[j]
        BY <3>3, <1>c
      <4> QED
        BY <2>2, <3>1, <4>1, <2>1
    <3> QED
      BY <3>2, <3>3
  <2>3. \A q \in Request : ticket[q] \in Nat
    BY DEF TypeOK
  <2>4. ASSUME NEW i \in 1..Len(channel')
        PROVE  /\ channel'[i] \in Request
               /\ channel'[i] = r \/ ticket[channel'[i]] < ticket[r]
               /\ \A t \in taken : ticket[t] < ticket[channel'[i]]
    <3>1. i \in 1..Len(channel) \/ i = Len(channel) + 1
      BY <1>c
    <3> QED
      BY <3>1, <2>1, <1>c
  <2>5. ASSUME owner' # None
        PROVE  /\ \A i \in 1..Len(channel') : ticket[channel'[i]] < ticket[owner']
               /\ \A t \in taken : ticket[t] < ticket[owner']
    <3>1. owner' \in Request /\ ticket[r] < ticket[owner']
      BY <2>5, <1>b
    <3>2. \A t \in taken : t \in Request
      BY DEF TypeOK
    <3> QED
      BY <3>1, <3>2, <2>1, <2>3, <2>4
  <2> QED
    BY <1>b, <1>f, <2>2, <2>4, <2>5 DEF OrderInv, Ascending
<1>6. LoopInv'
  BY <1>f DEF LoopInv
<1>7. OutcomeInv'
  <2>1. status[r] = 0
    BY <1>d DEF OutcomeInv, OutcomeOf, TypeOK
  <2> QED
    BY <1>b, <1>f, <2>1 DEF OutcomeInv, OutcomeOf
<1>8. CountInv'
  BY <1>f DEF CountInv
<1> QED
  BY <1>1, <1>2, <1>3, <1>4, <1>5, <1>6, <1>7, <1>8

\* After a panic the mutex holder fails to send.
LEMMA SendFailsPreserves ==
  ASSUME NEW r \in Request, IInv, SendFails(r)
  PROVE  IInv'
<1> USE DEF IInv
<1>a. /\ loop = "panicked" /\ owner = r /\ owner # None
      /\ Unlock([handler EXCEPT ![owner] = "done"])
      /\ status' = [status EXCEPT ![r] = 500]
      /\ UNCHANGED <<size, ticket, arrivals, channel, response, loopVars>>
  BY DEF SendFails
<1>b. /\ handler' \in [Request -> {"new", "locking", "sending", "waiting", "done", "gone"}]
      /\ owner' \in Request \cup {None}
      /\ waiters' \in Seq(Request)
      /\ handler'[r] = "done"
      /\ \A q \in Request \ {r} :
           \/ handler'[q] = handler[q]
           \/ handler[q] = "locking" /\ handler'[q] = "sending"
      /\ LockConsistent'
      /\ \A i, j \in 1..Len(waiters') : i < j => ticket[waiters'[i]] < ticket[waiters'[j]]
      /\ owner' # None =>
           /\ ticket[r] < ticket[owner']
           /\ \A i \in 1..Len(waiters') : ticket[owner'] < ticket[waiters'[i]]
  <2>1. "done" \in {"waiting", "done", "gone"}
    OBVIOUS
  <2> HIDE DEF IInv
  <2> QED
    BY <1>a, <2>1, UnlockFacts
<1>c. /\ handler[r] = "sending" /\ r \notin taken
      /\ ~Running /\ channel = <<>> /\ ToSet(channel) = {} /\ Len(channel) = 0
  BY <1>a, EmptyToSet DEF LockConsistent, PlaceInv, Running
<1>d. /\ status'[r] = 500
      /\ \A q \in Request \ {r} : status'[q] = status[q]
      /\ status' \in [Request -> {0, 200, 500}]
  BY <1>a DEF TypeOK
<1>e. /\ ~Running'
      /\ UNCHANGED <<size, ticket, arrivals, channel, response>>
      /\ UNCHANGED <<loop, current, stamp, chunk, failed, sent, cache, counter, taken>>
  BY <1>a DEF Running, loopVars
<1>1. TypeOK'
  BY <1>b, <1>d, <1>e DEF TypeOK
<1>2. LockConsistent'
  BY <1>b
<1>3. Custody'
  <2>1. Held' = Held
    BY <1>e DEF Held
  <2>2. \A q \in Request : handler'[q] = "waiting" => handler[q] = "waiting"
    BY <1>b
  <2> QED
    BY <1>e, <2>1, <2>2 DEF Custody
<1>4. PlaceInv'
  <2>1. SUFFICES ASSUME NEW q \in Request
                 PROVE  /\ ticket[q] <= arrivals
                        /\ handler'[q] = "new" <=> ticket[q] = 0
                        /\ q \in taken => handler'[q] \in {"waiting", "done", "gone"}
    BY <1>c, <1>e DEF PlaceInv
  <2>2. CASE q = r
    BY <2>2, <1>b, <1>c DEF PlaceInv
  <2>3. CASE q # r
    BY <2>3, <1>b DEF PlaceInv
  <2> QED
    BY <2>2, <2>3
<1>5. OrderInv'
  BY <1>b, <1>c, <1>e DEF OrderInv, Ascending
<1>6. LoopInv'
  BY <1>e DEF LoopInv
<1>7. OutcomeInv'
  <2>1. \A q \in Request \ {r} : handler[q] = "done" => handler'[q] = "done"
    BY <1>b
  <2> QED
    BY <1>b, <1>c, <1>d, <1>e, <2>1 DEF OutcomeInv, OutcomeOf
<1>8. CountInv'
  BY <1>e DEF CountInv
<1> QED
  BY <1>1, <1>2, <1>3, <1>4, <1>5, <1>6, <1>7, <1>8

\* A handler reads its oneshot.
LEMMA AnswerPreserves ==
  ASSUME NEW r \in Request, IInv, Answer(r)
  PROVE  IInv'
<1> USE DEF IInv
<1>a. /\ handler' = [handler EXCEPT ![r] = "done"]
      /\ status' = [status EXCEPT ![r] = IF response[r] = "ok" THEN 200 ELSE 500]
      /\ handler[r] = "waiting" /\ response[r] # "none"
      /\ UNCHANGED <<size, ticket, arrivals, lockVars, channel, response, loopVars>>
  BY DEF Answer, StatusFor
<1>1. TypeOK'
  <2>1. /\ handler \in [Request -> {"new", "locking", "sending", "waiting", "done", "gone"}]
        /\ status \in [Request -> {0, 200, 500}]
    BY DEF TypeOK
  <2>2. handler' \in [Request -> {"new", "locking", "sending", "waiting", "done", "gone"}]
    BY <1>a, <2>1
  <2>3. status' \in [Request -> {0, 200, 500}]
    BY <1>a, <2>1
  <2> QED
    BY <1>a, <2>2, <2>3 DEF TypeOK, lockVars, loopVars
<1>2. LockConsistent'
  <2>1. /\ handler[r] = "waiting" /\ handler'[r] = "done"
        /\ \A q \in Request \ {r} : handler'[q] = handler[q]
    BY <1>a DEF TypeOK
  <2> QED
    BY <1>a, <2>1 DEF LockConsistent, lockVars
<1>3. Custody'
  BY DEF Custody, Held, Answer, loopVars
<1>4. PlaceInv'
  <2>1. r \notin ToSet(channel)
    BY <1>a DEF Custody, Held
  <2> QED
    BY <1>a, <2>1 DEF PlaceInv, Running, loopVars
<1>5. OrderInv'
  BY DEF OrderInv, Ascending, Running, Answer, lockVars, loopVars
<1>6. LoopInv'
  BY DEF LoopInv, Answer, loopVars
<1>7. OutcomeInv'
  <2>1. handler'[r] = "done" /\ status'[r] = IF response[r] = "ok" THEN 200 ELSE 500
    BY <1>a DEF TypeOK
  <2>2. \A q \in Request \ {r} : handler'[q] = handler[q] /\ status'[q] = status[q]
    BY <1>a DEF TypeOK
  <2>3. response[r] \in {"ok", "error", "closed"}
    BY <1>a DEF TypeOK
  <2>4. UNCHANGED <<response, sent, taken>>
    BY <1>a DEF loopVars
  <2>5. ASSUME NEW q \in Request
        PROVE  OutcomeOf(q)'
    <3>1. CASE q = r
      BY <2>1, <2>3, <2>4, <3>1 DEF OutcomeInv, OutcomeOf
    <3>2. CASE q # r
      BY <2>2, <2>4, <3>2 DEF OutcomeInv, OutcomeOf
    <3> QED
      BY <3>1, <3>2
  <2> QED
    BY <2>5 DEF OutcomeInv
<1>8. CountInv'
  BY DEF CountInv, Answer, loopVars
<1> QED
  BY <1>1, <1>2, <1>3, <1>4, <1>5, <1>6, <1>7, <1>8

\* A queued handler that is dropped leaves the rest of the queue as it was.
LEMMA LeaveFacts ==
  ASSUME IInv, NEW r \in Request, handler[r] = "locking",
         NEW k \in 1..Len(waiters), waiters[k] = r,
         waiters' = RemoveAt(waiters, k),
         handler' = [handler EXCEPT ![r] = "gone"],
         owner' = owner
  PROVE  /\ waiters' \in Seq(Request)
         /\ LockConsistent'
         /\ \A i, j \in 1..Len(waiters') : i < j => ticket[waiters'[i]] < ticket[waiters'[j]]
         /\ owner' # None => \A i \in 1..Len(waiters') : ticket[owner'] < ticket[waiters'[i]]
<1> USE DEF IInv
<1>1. /\ waiters \in Seq(Request) /\ Len(waiters) \in Nat
      /\ \A i \in 1..Len(waiters) : waiters[i] \in Request /\ ticket[waiters[i]] \in Nat
  <2>1. waiters \in Seq(Request) /\ ticket \in [Request -> Nat]
    BY DEF TypeOK
  <2>2. \A i \in 1..Len(waiters) : waiters[i] \in Request
    BY <2>1
  <2> QED
    BY <2>1, <2>2
<1>2. /\ waiters' \in Seq(Request)
      /\ Len(waiters') = Len(waiters) - 1
      /\ \A i \in 1..(Len(waiters) - 1) :
           waiters'[i] = IF i < k THEN waiters[i] ELSE waiters[i + 1]
  <2>1. waiters \in Seq(Request) /\ k \in 1..Len(waiters) /\ waiters' = RemoveAt(waiters, k)
    BY <1>1
  <2>2. waiters' \in Seq(Request) /\ Len(waiters') = Len(waiters) - 1
    BY ONLY <2>1, RemoveAtFacts
  <2>3. \A i \in 1..(Len(waiters) - 1) :
          waiters'[i] = IF i < k THEN waiters[i] ELSE waiters[i + 1]
    BY ONLY <2>1, RemoveAtFacts
  <2> QED
    BY ONLY <2>2, <2>3
<1>3. \A i, j \in 1..Len(waiters) : i < j => ticket[waiters[i]] < ticket[waiters[j]]
  BY DEF OrderInv, Ascending
<1>4. ToSet(waiters') = ToSet(waiters) \ {r}
  <2>1. \A i \in 1..Len(waiters) \ {k} : waiters[i] # waiters[k]
    BY <1>1, <1>3
  <2>2. waiters \in Seq(Request) /\ k \in 1..Len(waiters) /\ waiters[k] = r
        /\ waiters' = RemoveAt(waiters, k)
    BY <1>1
  <2>3. ToSet(RemoveAt(waiters, k)) = ToSet(waiters) \ {waiters[k]}
    BY ONLY <2>1, <2>2, RemoveAtSet
  <2> QED
    BY ONLY <2>2, <2>3
<1>5. LockConsistent'
  <2>1. /\ handler'[r] = "gone"
        /\ \A q \in Request \ {r} : handler'[q] = handler[q]
    BY DEF TypeOK
  <2>2. owner' = None => waiters' = <<>>
    BY <1>1 DEF LockConsistent
  <2> QED
    BY <1>4, <2>1, <2>2 DEF LockConsistent
<1>6. ASSUME NEW i \in 1..Len(waiters'), NEW j \in 1..Len(waiters'), i < j
      PROVE  ticket[waiters'[i]] < ticket[waiters'[j]]
  <2> DEFINE m == IF i < k THEN i ELSE i + 1
             n == IF j < k THEN j ELSE j + 1
  <2>1. m \in 1..Len(waiters) /\ n \in 1..Len(waiters) /\ m < n
    BY <1>1, <1>2, <1>6
  <2>2. waiters'[i] = waiters[m] /\ waiters'[j] = waiters[n]
    BY <1>2
  <2> QED
    BY <2>1, <2>2, <1>3
<1>7. ASSUME owner # None, NEW i \in 1..Len(waiters')
      PROVE  ticket[owner] < ticket[waiters'[i]]
  <2> DEFINE m == IF i < k THEN i ELSE i + 1
  <2>1. m \in 1..Len(waiters) /\ waiters'[i] = waiters[m]
    BY <1>1, <1>2
  <2> QED
    BY <1>7, <2>1 DEF OrderInv
<1> QED
  BY <1>2, <1>5, <1>6, <1>7

\* A client leaves, wherever its handler is.
LEMMA DisconnectPreserves ==
  ASSUME NEW r \in Request, IInv, Disconnect(r)
  PROVE  IInv'
<1> USE DEF IInv
<1>a. /\ UNCHANGED <<size, ticket, arrivals, status, channel, response>>
      /\ UNCHANGED <<loop, current, stamp, chunk, failed, sent, cache, counter, taken>>
      /\ Running' = Running
  BY DEF Disconnect, loopVars, Running
<1>b. /\ handler[r] \in {"locking", "sending", "waiting"}
      /\ handler' \in [Request -> {"new", "locking", "sending", "waiting", "done", "gone"}]
      /\ owner' \in Request \cup {None}
      /\ waiters' \in Seq(Request)
      /\ handler'[r] = "gone"
      /\ \A q \in Request \ {r} :
           \/ handler'[q] = handler[q]
           \/ handler[q] = "locking" /\ handler'[q] = "sending"
      /\ LockConsistent'
      /\ \A i, j \in 1..Len(waiters') : i < j => ticket[waiters'[i]] < ticket[waiters'[j]]
      /\ owner' # None =>
           /\ owner # None
           /\ owner' = owner \/ ticket[owner] < ticket[owner']
           /\ \A i \in 1..Len(waiters') : ticket[owner'] < ticket[waiters'[i]]
  <2>1. CASE handler[r] = "locking"
    <3>1. PICK k \in 1..Len(waiters) :
            /\ waiters[k] = r
            /\ waiters' = RemoveAt(waiters, k)
            /\ handler' = [handler EXCEPT ![r] = "gone"]
            /\ owner' = owner
      BY <2>1 DEF Disconnect
    <3>2. /\ waiters' \in Seq(Request)
          /\ LockConsistent'
          /\ \A i, j \in 1..Len(waiters') : i < j => ticket[waiters'[i]] < ticket[waiters'[j]]
          /\ owner' # None => \A i \in 1..Len(waiters') : ticket[owner'] < ticket[waiters'[i]]
      <4> HIDE DEF IInv
      <4> QED
        BY <2>1, <3>1, LeaveFacts
    <3>3. /\ handler' \in [Request -> {"new", "locking", "sending", "waiting", "done", "gone"}]
          /\ handler'[r] = "gone"
          /\ \A q \in Request \ {r} : handler'[q] = handler[q]
          /\ owner' \in Request \cup {None}
      BY <3>1 DEF TypeOK
    <3> QED
      BY <2>1, <3>1, <3>2, <3>3
  <2>2. CASE handler[r] = "sending"
    <3>1. /\ owner = r /\ owner # None
          /\ Unlock([handler EXCEPT ![owner] = "gone"])
      BY <2>2 DEF Disconnect, LockConsistent
    <3>2. "gone" \in {"waiting", "done", "gone"}
      OBVIOUS
    <3> HIDE DEF IInv
    <3> QED
      BY <2>2, <3>1, <3>2, UnlockFacts
  <2>3. CASE handler[r] = "waiting"
    <3>1. /\ handler' = [handler EXCEPT ![r] = "gone"]
          /\ UNCHANGED lockVars
      BY <2>3 DEF Disconnect
    <3>2. /\ handler' \in [Request -> {"new", "locking", "sending", "waiting", "done", "gone"}]
          /\ handler'[r] = "gone"
          /\ \A q \in Request \ {r} : handler'[q] = handler[q]
      BY <3>1 DEF TypeOK
    <3>3. LockConsistent'
      BY <2>3, <3>1, <3>2 DEF LockConsistent, lockVars
    <3> QED
      BY <2>3, <3>1, <3>2, <3>3 DEF TypeOK, OrderInv, Ascending, lockVars
  <2> QED
    BY <2>1, <2>2, <2>3 DEF Disconnect
<1>1. TypeOK'
  BY <1>a, <1>b DEF TypeOK
<1>2. LockConsistent'
  BY <1>b
<1>3. Custody'
  <2>1. Held' = Held
    BY <1>a DEF Held
  <2>2. \A q \in Request : handler'[q] = "waiting" => handler[q] = "waiting"
    BY <1>b
  <2> QED
    BY <1>a, <2>1, <2>2 DEF Custody
<1>4. PlaceInv'
  <2>1. SUFFICES ASSUME NEW q \in Request
                 PROVE  /\ ticket[q] <= arrivals
                        /\ handler'[q] = "new" <=> ticket[q] = 0
                        /\ q \in taken \cup ToSet(channel) => handler'[q] \in {"waiting", "done", "gone"}
                        /\ Running /\ handler'[q] \in {"waiting", "done"} => q \in taken \cup ToSet(channel)
                        /\ handler'[q] = "done" => q \notin ToSet(channel)
                        /\ Running /\ response[q] # "none" => q \in taken
                        /\ ~Running => channel = <<>>
    BY <1>a DEF PlaceInv
  <2>2. CASE q = r
    BY <2>2, <1>b DEF PlaceInv
  <2>3. CASE q # r
    BY <2>3, <1>b DEF PlaceInv
  <2> QED
    BY <2>2, <2>3
<1>5. OrderInv'
  <2>1. \A q \in Request : ticket[q] \in Nat
    BY DEF TypeOK
  <2>2. /\ \A i \in 1..Len(channel) : channel[i] \in Request
        /\ \A t \in taken : t \in Request
    <3>1. channel \in Seq(Request) /\ taken \subseteq Request
      BY DEF TypeOK
    <3> QED
      BY <3>1
  <2>3. ASSUME owner' # None
        PROVE  /\ \A i \in 1..Len(channel) : ticket[channel[i]] < ticket[owner']
               /\ Running => \A t \in taken : ticket[t] < ticket[owner']
    <3>1. /\ owner \in Request /\ owner' \in Request
          /\ owner' = owner \/ ticket[owner] < ticket[owner']
          /\ owner # None
      BY <2>3, <1>b DEF TypeOK
    <3> QED
      BY <3>1, <2>1, <2>2 DEF OrderInv
  <2> QED
    BY <1>a, <1>b, <2>3 DEF OrderInv, Ascending
<1>6. LoopInv'
  BY <1>a DEF LoopInv
<1>7. OutcomeInv'
  <2>1. \A q \in Request \ {r} : handler[q] = "done" => handler'[q] = "done"
    BY <1>b
  <2> QED
    BY <1>a, <1>b, <2>1 DEF OutcomeInv, OutcomeOf
<1>8. CountInv'
  BY <1>a DEF CountInv
<1> QED
  BY <1>1, <1>2, <1>3, <1>4, <1>5, <1>6, <1>7, <1>8

\* The loop takes the oldest command: the line moves up by one.
LEMMA ReceivePreserves ==
  ASSUME IInv, Receive
  PROVE  IInv'
<1> USE DEF IInv
<1>a. /\ loop = "select" /\ loop' = "publishing"
      /\ current' = Head(channel)
      /\ channel' = Tail(channel)
      /\ taken' = taken \cup {current'}
      /\ \E t \in 1..MaxClock : stamp' = [stamp EXCEPT ![current'] = t]
      /\ chunk' = 0 /\ failed' = FALSE
      /\ UNCHANGED <<handlerVars, lockVars, response, sent, cache, counter>>
  BY DEF Receive, Ready
<1>b. /\ Len(channel) \in Nat \ {0}
      /\ current' = channel[1]
      /\ current' \in Request
      /\ channel' \in Seq(Request)
      /\ Len(channel') = Len(channel) - 1
      /\ \A i \in 1..(Len(channel) - 1) : channel'[i] = channel[i + 1]
      /\ ToSet(channel) = ToSet(channel') \cup {current'}
  BY <1>a, TailFacts DEF Receive, Ready, TypeOK
<1>c. /\ current' \notin taken
      /\ response[current'] = "none"
      /\ sent[current'] = 0
  BY <1>b DEF Custody, Held, OutcomeInv, OutcomeOf
<1>d. current' \notin ToSet(channel')
  <2>1. DOMAIN channel' = 1..Len(channel')
    BY <1>b
  <2>2. ASSUME NEW i \in 1..Len(channel'), channel'[i] = current'
        PROVE  FALSE
    BY <2>2, <1>b DEF Custody
  <2> QED
    BY <2>1, <2>2 DEF ToSet
<1>e. taken' \cap ToSet(channel') = {} /\ taken' \cup ToSet(channel') = taken \cup ToSet(channel)
  BY <1>a, <1>b, <1>d DEF Custody
<1>1. TypeOK'
  <2>1. stamp' \in [Request -> 0..MaxClock] /\ chunk' \in Nat
    <3>1. PICK t \in 1..MaxClock : stamp' = [stamp EXCEPT ![current'] = t]
      BY <1>a
    <3>2. t \in 0..MaxClock /\ stamp \in [Request -> 0..MaxClock]
      BY DEF TypeOK
    <3> QED
      BY <1>a, <3>1, <3>2
  <2>2. failed' \in BOOLEAN
    BY <1>a
  <2>3. taken' \subseteq Request
    BY <1>a, <1>b DEF TypeOK
  <2> QED
    BY <1>a, <1>b, <2>1, <2>2, <2>3 DEF TypeOK, handlerVars, lockVars
<1>2. LockConsistent'
  BY <1>a DEF LockConsistent, handlerVars, lockVars
<1>3. Custody'
  <2>1. Held' = Held
    BY <1>a, <1>b DEF Held
  <2>2. ASSUME NEW i \in 1..Len(channel'), NEW j \in 1..Len(channel'), channel'[i] = channel'[j]
        PROVE  i = j
    <3>1. /\ i + 1 \in 1..Len(channel) /\ j + 1 \in 1..Len(channel)
          /\ channel'[i] = channel[i + 1] /\ channel'[j] = channel[j + 1]
      BY <1>b
    <3>2. i + 1 = j + 1
      BY <2>2, <3>1 DEF Custody
    <3> QED
      BY <3>2
  <2> QED
    BY <1>a, <1>e, <2>1, <2>2 DEF Custody, handlerVars
<1>4. PlaceInv'
  <2>1. Running /\ Running'
    BY <1>a DEF Running
  <2> QED
    BY <1>a, <1>b, <1>e, <2>1 DEF PlaceInv, handlerVars
<1>5. OrderInv'
  <2>1. Running /\ Running'
    BY <1>a DEF Running
  <2>2. Ascending(channel)' /\ Ascending(waiters)'
    BY <1>a DEF OrderInv, Ascending, handlerVars, lockVars
  <2>3. ASSUME NEW i \in 1..Len(channel')
        PROVE  /\ channel'[i] = channel[i + 1] /\ i + 1 \in 1..Len(channel)
               /\ ticket[current'] < ticket[channel'[i]]
    BY <1>b DEF OrderInv, Ascending
  <2>4. owner # None => ticket[current'] < ticket[owner]
    BY <1>b DEF OrderInv
  <2> QED
    BY <1>a, <2>1, <2>2, <2>3, <2>4 DEF OrderInv, handlerVars, lockVars
<1>6. LoopInv'
  BY <1>a, <1>c DEF LoopInv
<1>7. OutcomeInv'
  <2>1. \A r \in Request : handler[r] = "done" => r \notin ToSet(channel)
    BY DEF PlaceInv
  <2> QED
    BY <1>a, <1>b, <2>1 DEF OutcomeInv, OutcomeOf, handlerVars
<1>8. CountInv'
  <2>1. IsFiniteSet(taken)
    BY FS_Subset DEF TypeOK
  <2>2. Cardinality(taken') = Cardinality(taken) + 1
    BY <1>a, <1>c, <2>1, FS_AddElement
  <2> QED
    BY <1>a, <2>2 DEF CountInv, TypeOK
<1> QED
  BY <1>1, <1>2, <1>3, <1>4, <1>5, <1>6, <1>7, <1>8

\* The swarm task unwinds: what it held and the channel are closed.
LEMMA PanicPreserves ==
  ASSUME IInv, Panic
  PROVE  IInv'
<1> USE DEF IInv
<1>a. /\ loop = "publishing" /\ loop' = "panicked"
      /\ channel' = <<>>
      /\ current' = None
      /\ response' = [r \in Request |->
                        IF r = current \/ r \in ToSet(channel) THEN "closed" ELSE response[r]]
      /\ UNCHANGED <<handlerVars, lockVars, stamp, chunk, failed, sent, cache, counter, taken>>
  BY DEF Panic, Orphans
<1>b. channel' \in Seq(Request) /\ Len(channel') = 0 /\ ToSet(channel') = {}
  BY <1>a, EmptyToSet
<1>c. current \in taken /\ sent[current] < Chunks
  BY <1>a DEF LoopInv
<1>1. TypeOK'
  <2>1. response' \in [Request -> {"none", "ok", "error", "closed"}]
    BY <1>a DEF TypeOK
  <2> QED
    BY <1>a, <1>b, <2>1 DEF TypeOK, handlerVars, lockVars
<1>2. LockConsistent'
  BY DEF LockConsistent, Panic, handlerVars, lockVars
<1>3. Custody'
  <2>1. \A r \in Request : handler[r] = "waiting" => response'[r] # "none"
    BY <1>a DEF Custody, Held
  <2>2. Held' = {}
    BY <1>a, <1>b DEF Held
  <2> QED
    BY <1>a, <1>b, <2>1, <2>2 DEF Custody, handlerVars
<1>4. PlaceInv'
  BY <1>a, <1>b DEF PlaceInv, Running, handlerVars
<1>5. OrderInv'
  BY <1>a DEF OrderInv, Ascending, Running, handlerVars, lockVars
<1>6. LoopInv'
  BY DEF LoopInv, Panic
<1>7. OutcomeInv'
  <2>1. SUFFICES ASSUME NEW r \in Request
                 PROVE  /\ response'[r] = "ok" => sent[r] = Chunks
                        /\ response'[r] \in {"error", "closed"} => sent[r] < Chunks
                        /\ status[r] = 200 => response'[r] = "ok"
                        /\ status[r] = 500 => response'[r] \in {"error", "closed"} \/ r \notin taken
    BY <1>a DEF OutcomeInv, OutcomeOf, handlerVars
  <2>2. CASE r = current \/ r \in ToSet(channel)
    <3>1. response'[r] = "closed" /\ response[r] = "none" /\ sent[r] < Chunks
      BY <1>a, <1>c, <2>2 DEF Custody, Held, OutcomeInv, OutcomeOf
    <3> QED
      BY <3>1 DEF OutcomeInv, OutcomeOf
  <2>3. CASE ~(r = current \/ r \in ToSet(channel))
    BY <1>a, <2>3 DEF OutcomeInv, OutcomeOf
  <2> QED
    BY <2>2, <2>3
<1>8. CountInv'
  BY DEF CountInv, Panic
<1> QED
  BY <1>1, <1>2, <1>3, <1>4, <1>5, <1>6, <1>7, <1>8

\* The process ends and its handlers with it.
LEMMA ExitPreserves ==
  ASSUME IInv, Exit
  PROVE  IInv'
<1> USE DEF IInv
<1>a. /\ loop = "panicked" /\ loop' = "exited"
      /\ handler' = [r \in Request |->
                       IF handler[r] \in {"locking", "sending", "waiting"} THEN "gone" ELSE handler[r]]
      /\ owner' = None
      /\ waiters' = <<>>
      /\ UNCHANGED <<size, ticket, arrivals, status, channel, response, current, stamp, chunk,
                     failed, sent, cache, counter, taken>>
  BY DEF Exit
<1>b. waiters' \in Seq(Request) /\ Len(waiters') = 0 /\ ToSet(waiters') = {}
  BY <1>a, EmptyToSet
<1>c. handler' \in [Request -> {"new", "done", "gone"}]
  BY <1>a DEF TypeOK
<1>1. TypeOK'
  <2>1. handler' \in [Request -> {"new", "locking", "sending", "waiting", "done", "gone"}]
    BY <1>c
  <2>2. owner' \in Request \cup {None} /\ waiters' \in Seq(Request) /\ loop' = "exited"
    BY <1>a, <1>b
  <2> QED
    BY <1>a, <2>1, <2>2 DEF TypeOK
<1>2. LockConsistent'
  BY <1>a, <1>b, <1>c DEF LockConsistent
<1>3. Custody'
  BY DEF Custody, Held, Exit
<1>4. PlaceInv'
  BY DEF PlaceInv, Running, Exit
<1>5. OrderInv'
  BY DEF OrderInv, Ascending, Running, Exit
<1>6. LoopInv'
  BY DEF LoopInv, Exit
<1>7. OutcomeInv'
  <2>1. \A r \in Request : handler[r] = "done" => handler'[r] = "done"
    BY <1>a DEF TypeOK
  <2> QED
    BY <1>a, <2>1 DEF OutcomeInv, OutcomeOf
<1>8. CountInv'
  BY DEF CountInv, Exit
<1> QED
  BY <1>1, <1>2, <1>3, <1>4, <1>5, <1>6, <1>7, <1>8

\* One fragment is published, or refused.
LEMMA PublishFragmentPreserves ==
  ASSUME NEW refuse \in BOOLEAN, IInv, PublishFragment(refuse)
  PROVE  IInv'
<1> USE DEF IInv
<1>a. /\ loop = "publishing" /\ current \in taken /\ current \in Request
      /\ response[current] = "none"
      /\ ~failed /\ chunk < Chunks /\ sent[current] = chunk
      /\ UNCHANGED <<handlerVars, lockVars, channel, response, current, stamp, counter, taken>>
  BY DEF PublishFragment, LoopInv, TypeOK
<1>b. \/ /\ failed' = TRUE /\ loop' = "replying"
         /\ UNCHANGED <<chunk, sent, cache>>
      \/ /\ cache' = cache \cup {Payload(current, chunk)}
         /\ sent' = [sent EXCEPT ![current] = @ + 1]
         /\ chunk' = chunk + 1
         /\ loop' = IF chunk' = Chunks THEN "replying" ELSE "publishing"
         /\ UNCHANGED failed
  BY DEF PublishFragment
<1>1. TypeOK'
  <2>1. Payload(current, chunk) \in [stamp : Nat, len : Nat, mark : Nat]
    <3>1. BufferLen(current) \in Nat
      BY <1>a, QuotientInNat DEF BufferLen, TypeOK
    <3>2. chunk % 256 \in Nat /\ stamp[current] \in Nat
      BY <1>a DEF TypeOK
    <3> QED
      BY <3>1, <3>2 DEF Payload
  <2>2. sent' \in [Request -> Nat] /\ chunk' \in Nat
    <3>1. sent \in [Request -> Nat] /\ chunk \in Nat /\ sent[current] + 1 \in Nat
      BY <1>a DEF TypeOK
    <3>2. \/ sent' = sent /\ chunk' = chunk
          \/ sent' = [sent EXCEPT ![current] = sent[current] + 1] /\ chunk' = chunk + 1
      BY <1>b
    <3> QED
      BY <3>1, <3>2
  <2>5. failed' \in BOOLEAN
    BY <1>b DEF TypeOK
  <2>3. cache' \subseteq [stamp : Nat, len : Nat, mark : Nat]
    BY <1>b, <2>1 DEF TypeOK
  <2>4. loop' \in {"publishing", "replying"}
    BY <1>b
  <2> QED
    BY <1>a, <2>2, <2>3, <2>4, <2>5 DEF TypeOK, handlerVars, lockVars
<1>2. LockConsistent'
  BY <1>a DEF LockConsistent, handlerVars, lockVars
<1>3. Custody'
  <2>1. Held' = Held
    BY <1>a, <1>b DEF Held
  <2> QED
    BY <1>a, <2>1 DEF Custody, handlerVars
<1>4. PlaceInv'
  BY DEF PlaceInv, Running, PublishFragment, handlerVars
<1>5. OrderInv'
  BY DEF OrderInv, Ascending, Running, PublishFragment, handlerVars, lockVars
<1>6. LoopInv'
  BY DEF TypeOK, LoopInv, PublishFragment
<1>7. OutcomeInv'
  <2>1. \A r \in Request \ {current} : sent'[r] = sent[r]
    BY <1>b DEF TypeOK
  <2> QED
    BY <1>a, <2>1 DEF OutcomeInv, OutcomeOf, handlerVars
<1>8. CountInv'
  BY DEF CountInv, PublishFragment
<1> QED
  BY <1>1, <1>2, <1>3, <1>4, <1>5, <1>6, <1>7, <1>8

\* The outcome reported is the one LoopInv knows.
LEMMA ReplyPreserves ==
  ASSUME IInv, Reply
  PROVE  IInv'
<1> USE DEF IInv
<1>1. TypeOK'
  <2>1. response' \in [Request -> {"none", "ok", "error", "closed"}]
    BY DEF TypeOK, Reply, Outcome
  <2> QED
    BY <2>1 DEF TypeOK, Reply, handlerVars, lockVars
<1>2. LockConsistent'
  BY DEF LockConsistent, Reply, handlerVars, lockVars
<1>3. Custody'
  BY DEF TypeOK, Custody, Held, LoopInv, Reply, Outcome, handlerVars
<1>4. PlaceInv'
  BY DEF PlaceInv, LoopInv, Running, Reply, handlerVars
<1>5. OrderInv'
  BY DEF OrderInv, Ascending, Running, Reply, handlerVars, lockVars
<1>6. LoopInv'
  BY DEF LoopInv, Reply
<1>7. OutcomeInv'
  <2>1. /\ current \in taken
        /\ response[current] = "none"
        /\ IF failed THEN sent[current] < Chunks ELSE sent[current] = Chunks
    BY DEF LoopInv, Reply
  <2>2. response'[current] = IF failed THEN "error" ELSE "ok"
    BY <2>1 DEF Reply, Outcome, TypeOK
  <2>3. /\ \A r \in Request \ {current} : response'[r] = response[r]
        /\ UNCHANGED <<taken, sent, status, handler>>
    BY DEF Reply, TypeOK, handlerVars
  <2>4. ASSUME NEW r \in Request \ {current}
        PROVE  OutcomeOf(r)'
    BY <2>3, <2>4 DEF OutcomeInv, OutcomeOf
  <2>5. current \in Request /\ current' = current
    BY <2>1 DEF TypeOK, Reply
  <2>6. status[current] = 0 \/ status[current] \notin {200, 500}
    BY <2>1, <2>5 DEF OutcomeInv, OutcomeOf
  <2>7. OutcomeOf(current)'
    <3>1. CASE failed
      BY <3>1, <2>1, <2>2, <2>3, <2>5, <2>6 DEF OutcomeInv, OutcomeOf
    <3>2. CASE ~failed
      BY <3>2, <2>1, <2>2, <2>3, <2>5, <2>6 DEF OutcomeInv, OutcomeOf
    <3> QED
      BY <3>1, <3>2
  <2> QED
    BY <2>4, <2>5, <2>7 DEF OutcomeInv
<1>8. CountInv'
  BY DEF CountInv, Reply
<1> QED
  BY <1>1, <1>2, <1>3, <1>4, <1>5, <1>6, <1>7, <1>8

\* The loop counts the command and lets go of it.
LEMMA CountPreserves ==
  ASSUME IInv, Count
  PROVE  IInv'
<1> USE DEF IInv
<1>1. TypeOK'
  BY DEF TypeOK, Count, Counted, handlerVars, lockVars
<1>2. LockConsistent'
  BY DEF LockConsistent, Count, handlerVars, lockVars
<1>3. Custody'
  BY DEF Custody, Held, Count, handlerVars
<1>4. PlaceInv'
  BY DEF PlaceInv, Running, Count, handlerVars
<1>5. OrderInv'
  BY DEF OrderInv, Ascending, Running, Count, handlerVars, lockVars
<1>6. LoopInv'
  BY DEF LoopInv, Count
<1>7. OutcomeInv'
  BY DEF OutcomeInv, OutcomeOf, Count, handlerVars
<1>8. CountInv'
  BY DEF CountInv, Count, Counted
<1> QED
  BY <1>1, <1>2, <1>3, <1>4, <1>5, <1>6, <1>7, <1>8

-----------------------------------------------------------------------------
(* The theorems.                                                           *)

\* The inductive invariant holds of every behaviour.
THEOREM Invariance == Spec => []IInv
<1>1. Init => IInv
  <2> SUFFICES ASSUME Init PROVE IInv
    OBVIOUS
  <2>1. /\ channel \in Seq(Request) /\ Len(channel) = 0 /\ ToSet(channel) = {}
        /\ waiters \in Seq(Request) /\ Len(waiters) = 0 /\ ToSet(waiters) = {}
    BY EmptyToSet DEF Init
  <2>2. TypeOK
    <3>1. 0 \in 0..MaxClock
      OBVIOUS
    <3> QED
      BY <2>1, <3>1 DEF Init, TypeOK
  <2>3. LockConsistent /\ Custody
    BY <2>1 DEF Init, LockConsistent, Custody, Held
  <2>4. PlaceInv /\ OrderInv
    BY <2>1 DEF Init, PlaceInv, OrderInv, Ascending
  <2>5. LoopInv /\ OutcomeInv
    BY DEF Init, LoopInv, OutcomeInv, OutcomeOf
  <2>6. CountInv
    BY FS_EmptySet DEF Init, CountInv
  <2> QED
    BY <2>2, <2>3, <2>4, <2>5, <2>6 DEF IInv
<1>2. IInv /\ [Next]_vars => IInv'
  <2> SUFFICES ASSUME IInv, [Next]_vars PROVE IInv'
    OBVIOUS
  <2>1. CASE \E r \in Request, s \in Sizes : Arrive(r, s)
    BY <2>1, ArrivePreserves
  <2>2. CASE \E r \in Request : Send(r)
    BY <2>2, SendPreserves
  <2>3. CASE \E r \in Request : SendFails(r)
    BY <2>3, SendFailsPreserves
  <2>4. CASE \E r \in Request : Answer(r)
    BY <2>4, AnswerPreserves
  <2>5. CASE \E r \in Request : Disconnect(r)
    BY <2>5, DisconnectPreserves
  <2>6. CASE Receive
    BY <2>6, ReceivePreserves
  <2>7. CASE Panic
    BY <2>7, PanicPreserves
  <2>8. CASE Exit
    BY <2>8, ExitPreserves
  <2>9. CASE \E refuse \in BOOLEAN : PublishFragment(refuse)
    BY <2>9, PublishFragmentPreserves
  <2>10. CASE Reply
    BY <2>10, ReplyPreserves
  <2>11. CASE Count
    BY <2>11, CountPreserves
  <2>12. CASE Quiescent \/ UNCHANGED vars
    <3>6. UNCHANGED vars
      BY <2>12 DEF Quiescent
    <3> USE <3>6 DEF vars, handlerVars, lockVars, loopVars
    <3>1. TypeOK'
      BY DEF IInv, TypeOK
    <3>5. LockConsistent'
      BY DEF IInv, LockConsistent
    <3>2. Custody'
      BY DEF IInv, Custody, Held
    <3>3. PlaceInv' /\ OrderInv'
      BY DEF IInv, PlaceInv, OrderInv, Ascending, Running
    <3>4. LoopInv' /\ OutcomeInv' /\ CountInv'
      BY DEF IInv, LoopInv, OutcomeInv, OutcomeOf, CountInv
    <3> QED
      BY <3>1, <3>2, <3>3, <3>4, <3>5 DEF IInv
  <2> QED
    BY <2>1, <2>2, <2>3, <2>4, <2>5, <2>6, <2>7, <2>8, <2>9, <2>10, <2>11, <2>12 DEF Next
<1> QED
  BY <1>1, <1>2, PTL DEF Spec

\* Every variable keeps its type.
THEOREM TypeCorrect == Spec => []TypeOK
<1>1. IInv => TypeOK
  BY DEF IInv
<1> QED
  BY <1>1, Invariance, PTL

\* The mutex is never lost: while a handler queues for it somebody holds it,
\* whichever handlers are dropped (main.rs:171).
THEOREM LockNeverLost == Spec => []LockConsistent
<1>1. IInv => LockConsistent
  BY DEF IInv
<1> QED
  BY <1>1, Invariance, PTL

\* No request is lost or served twice between its handler and the loop.
THEOREM CommandsInCustody == Spec => []Custody
<1>1. IInv => Custody
  BY DEF IInv
<1> QED
  BY <1>1, Invariance, PTL

\* Messages are published in the order their requests arrived.
THEOREM PublishedInOrder == Spec => []NoOvertaking
<1>1. IInv => NoOvertaking
  <2> SUFFICES ASSUME IInv, NEW r \in Request, NEW s \in Request,
                      0 < ticket[r], ticket[r] < ticket[s], s \in taken, Running,
                      r \notin taken, ~Withdrawn(r)
               PROVE  FALSE
    BY DEF NoOvertaking
  <2>1. ticket[r] \in Nat /\ ticket[s] \in Nat /\ DOMAIN channel = 1..Len(channel)
        /\ DOMAIN waiters = 1..Len(waiters)
    BY DEF IInv, TypeOK
  <2>2. handler[r] # "new" /\ handler[r] \in {"new", "locking", "sending", "waiting", "done", "gone"}
    <3>1. handler[r] \in {"new", "locking", "sending", "waiting", "done", "gone"}
      BY DEF IInv, TypeOK
    <3>2. ticket[r] # 0
      BY <2>1
    <3> QED
      BY <3>1, <3>2 DEF IInv, PlaceInv
  <2>3. CASE r \in ToSet(channel)
    <3>1. PICK i \in 1..Len(channel) : channel[i] = r
      BY <2>1, <2>3 DEF ToSet
    <3>2. ticket[s] < ticket[r]
      BY <3>1 DEF IInv, OrderInv
    <3> QED
      BY <2>1, <3>2
  <2>4. CASE handler[r] = "sending"
    <3>1. owner = r /\ owner # None
      BY <2>4 DEF IInv, LockConsistent
    <3>2. ticket[s] < ticket[r]
      BY <3>1 DEF IInv, OrderInv
    <3> QED
      BY <2>1, <3>2
  <2>5. CASE handler[r] = "locking"
    <3>1. PICK i \in 1..Len(waiters) : waiters[i] = r
      BY <2>1, <2>5 DEF IInv, LockConsistent, ToSet
    <3>2. owner # None /\ owner \in Request /\ ticket[owner] \in Nat
      BY <3>1 DEF IInv, LockConsistent, TypeOK
    <3>3. ticket[s] < ticket[owner] /\ ticket[owner] < ticket[r]
      BY <3>1, <3>2 DEF IInv, OrderInv
    <3> QED
      BY <2>1, <3>2, <3>3
  <2>6. CASE handler[r] \in {"waiting", "done"}
    BY <2>3, <2>6 DEF IInv, PlaceInv
  <2>7. CASE handler[r] = "gone"
    BY <2>3, <2>7 DEF Withdrawn
  <2> QED
    BY <2>2, <2>4, <2>5, <2>6, <2>7
<1> QED
  BY <1>1, Invariance, PTL

\* A client is told 200 only when all its fragments were published, and 500
\* only when some were not.
THEOREM AnswersAreTrue == Spec => []AnswerTellsOutcome
<1>1. IInv => AnswerTellsOutcome
  BY DEF IInv, OutcomeInv, OutcomeOf, AnswerTellsOutcome
<1> QED
  BY <1>1, Invariance, PTL

\* The published counter is at most one behind the answers given.
THEOREM CounterKeepsUp == Spec => []CounterLag
<1>1. IInv => CounterLag
  <2> SUFFICES ASSUME IInv PROVE CounterLag
    OBVIOUS
  <2> DEFINE told == {r \in Request : status[r] = 200}
  <2>1. IsFiniteSet(taken)
    BY FS_Subset DEF IInv, TypeOK
  <2>2. \A r \in told : r \in taken
    BY DEF IInv, OutcomeInv, OutcomeOf
  <2>3. told \in SUBSET taken
    BY <2>2
  <2>4. IsFiniteSet(told) /\ Cardinality(told) <= Cardinality(taken)
    <3> HIDE DEF told
    <3> QED
      BY <2>1, <2>3, FS_Subset
  <2>5. Cardinality(taken) <= counter + 1 /\ counter \in Nat
    BY DEF IInv, CountInv, TypeOK
  <2>6. Cardinality(told) \in Nat /\ Cardinality(taken) \in Nat
    <3> HIDE DEF told
    <3> QED
      BY <2>1, <2>4, FS_CardinalityType
  <2> HIDE DEF told
  <2>7. Cardinality(told) <= counter + 1
    BY <2>4, <2>5, <2>6
  <2> QED
    BY <2>7 DEF CounterLag, told
<1> QED
  BY <1>1, Invariance, PTL

-----------------------------------------------------------------------------
(* The bridge implements FifoService.                                      *)

\* The part of the line the loop or the channel has, and the part at the mutex.
LoopPart == (IF loop = "publishing" THEN <<current>> ELSE <<>>) \o channel
MutexPart  == (IF owner = None THEN <<>> ELSE <<owner>>) \o waiters

InLoopPart(r) == r \in ToSet(channel) \/ (loop = "publishing" /\ r = current)
InMutexPart(r)  == handler[r] \in {"sending", "locking"}

\* Fate, told by the place of the request instead of by the line.
Standing(r) ==
  IF handler[r] = "new" THEN "idle"
  ELSE IF InLoopPart(r) \/ InMutexPart(r) THEN "queued"
  ELSE IF sent[r] = Chunks THEN "done"
  ELSE IF r \in taken \/ response[r] # "none" \/ status[r] # 0 THEN "failed"
  ELSE "withdrawn"

\* Only a request whose command was sent has an outcome.
AnswerInv ==
  \A r \in Request : response[r] # "none" => handler[r] \in {"waiting", "done", "gone"}

\* The line is its two parts, which have no request in common.
LineInv ==
  /\ LoopPart \in Seq(Request) /\ MutexPart \in Seq(Request)
  /\ Line = LoopPart \o MutexPart
  /\ \A r \in Request :
       /\ r \in ToSet(LoopPart) <=> InLoopPart(r)
       /\ r \in ToSet(MutexPart) <=> InMutexPart(r)
       /\ Fate(r) = Standing(r)
       /\ InLoopPart(r) => ~InMutexPart(r) /\ handler[r] # "new" /\ sent[r] # Chunks
       /\ InMutexPart(r) => sent[r] # Chunks /\ r \notin taken /\ response[r] = "none" /\ status[r] = 0

\* Releasing the mutex leaves the queue as it was, without the first.
LEMMA UnlockedLine ==
  ASSUME IInv, owner # None, NEW h, Unlock(h)
  PROVE  MutexPart = <<owner>> \o waiters /\ MutexPart' = waiters
<1>1. owner \in Request /\ waiters \in Seq(Request)
  BY DEF IInv, TypeOK
<1>2. MutexPart = <<owner>> \o waiters
  BY DEF MutexPart
<1>3. CASE waiters = <<>>
  <2>1. owner' = None /\ waiters' = <<>>
    BY <1>3 DEF Unlock
  <2>2. MutexPart' = <<>> \o <<>>
    BY <2>1 DEF MutexPart
  <2>3. <<>> \o <<>> = <<>>
    BY <1>1, <1>3, ConcatEmptySeq
  <2> QED
    BY <1>2, <1>3, <2>2, <2>3
<1>4. CASE waiters # <<>>
  <2>1. owner' = Head(waiters) /\ waiters' = Tail(waiters)
    BY <1>4 DEF Unlock
  <2>2. owner' \in Request
    BY <1>1, <1>4, <2>1, TailFacts
  <2>3. MutexPart' = <<Head(waiters)>> \o Tail(waiters)
    BY <2>1, <2>2 DEF MutexPart
  <2> QED
    BY <1>1, <1>2, <1>4, <2>3, HeadThenTail
<1> QED
  BY <1>3, <1>4

\* The inductive invariant knows the line.
LEMMA LineHolds ==
  ASSUME IInv, AnswerInv
  PROVE  LineInv
<1>1. /\ channel \in Seq(Request) /\ waiters \in Seq(Request)
      /\ owner \in Request \cup {None}
      /\ (loop = "publishing" => current \in Request)
  BY DEF IInv, TypeOK, LoopInv
<1>e. <<>> \in Seq(Request) /\ ToSet(<<>>) = {}
  BY EmptyToSet
<1>2. LoopPart \in Seq(Request) /\ \A r \in Request : r \in ToSet(LoopPart) <=> InLoopPart(r)
  <2>1. CASE loop = "publishing"
    <3>1. LoopPart = <<current>> \o channel /\ current \in Request
      BY <1>1, <2>1 DEF LoopPart
    <3>2. LoopPart \in Seq(Request)
      BY <1>1, <3>1, FirstFacts
    <3>3. ToSet(LoopPart) = {current} \cup ToSet(channel)
      BY <1>1, <3>1, FirstFacts
    <3> QED
      BY <2>1, <3>2, <3>3 DEF InLoopPart
  <2>2. CASE loop # "publishing"
    <3>1. LoopPart = channel
      BY <1>1, <2>2, ConcatEmptySeq DEF LoopPart
    <3> QED
      BY <1>1, <2>2, <3>1 DEF InLoopPart
  <2> QED
    BY <2>1, <2>2
<1>3. MutexPart \in Seq(Request) /\ \A r \in Request : r \in ToSet(MutexPart) <=> InMutexPart(r)
  <2>0. /\ owner = None => waiters = <<>>
        /\ \A r \in Request : /\ handler[r] = "sending" <=> owner = r
                              /\ handler[r] = "locking" <=> r \in ToSet(waiters)
    BY DEF IInv, LockConsistent
  <2>1. CASE owner # None
    <3>1. MutexPart = <<owner>> \o waiters /\ owner \in Request
      BY <1>1, <2>1 DEF MutexPart
    <3>2. MutexPart \in Seq(Request)
      BY <1>1, <3>1, FirstFacts
    <3>3. ToSet(MutexPart) = {owner} \cup ToSet(waiters)
      BY <1>1, <3>1, FirstFacts
    <3> QED
      BY <2>0, <3>2, <3>3 DEF InMutexPart
  <2>2. CASE owner = None
    <3>1. MutexPart = waiters
      BY <1>1, <2>2, ConcatEmptySeq DEF MutexPart
    <3> QED
      BY <1>1, <2>0, <2>2, <3>1 DEF InMutexPart
  <2> QED
    BY <2>1, <2>2
<1>4. Line = LoopPart \o MutexPart
  <2>1. PICK a : a = (IF loop = "publishing" THEN <<current>> ELSE <<>>)
    OBVIOUS
  <2>2. PICK b : b = (IF owner = None THEN <<>> ELSE <<owner>>)
    OBVIOUS
  <2>0. b \in Seq(Request)
    <3>1. CASE owner = None
      BY <1>e, <2>2, <3>1
    <3>2. CASE owner # None
      BY <1>1, <2>2, <3>2
    <3> QED
      BY <3>1, <3>2
  <2>3. /\ LoopPart = a \o channel /\ MutexPart = b \o waiters
        /\ Line = (LoopPart \o b) \o waiters
    BY <2>1, <2>2 DEF LoopPart, MutexPart, Line
  <2>4. (LoopPart \o b) \o waiters = LoopPart \o (b \o waiters)
    <3>1. LoopPart \in Seq(Request) /\ waiters \in Seq(Request)
      BY <1>1, <1>2
    <3> QED
      BY ONLY <2>0, <3>1, ConcatAssociative
  <2> QED
    BY <2>3, <2>4
<1>5. ASSUME NEW r \in Request
      PROVE  /\ InLoopPart(r) => ~InMutexPart(r) /\ handler[r] # "new" /\ sent[r] # Chunks
             /\ InMutexPart(r) => sent[r] # Chunks /\ r \notin taken /\ response[r] = "none" /\ status[r] = 0
  <2>1. 0 # Chunks /\ status[r] \in {0, 200, 500} /\ response[r] \in {"none", "ok", "error", "closed"}
    <3>1. /\ status \in [Request -> {0, 200, 500}]
          /\ response \in [Request -> {"none", "ok", "error", "closed"}]
      BY DEF IInv, TypeOK
    <3> QED
      BY <3>1
  <2>2. InLoopPart(r) => handler[r] \in {"waiting", "done", "gone"}
    BY DEF IInv, PlaceInv, LoopInv, InLoopPart
  <2>3. InLoopPart(r) => sent[r] # Chunks
    <3>1. r \in ToSet(channel) => r \notin taken
      BY DEF IInv, Custody
    <3>2. r \notin taken => sent[r] = 0
      BY DEF IInv, OutcomeInv, OutcomeOf
    <3>3. loop = "publishing" => sent[current] # Chunks
      BY DEF IInv, LoopInv, TypeOK
    <3> QED
      BY <2>1, <3>1, <3>2, <3>3 DEF InLoopPart
  <2>4. InMutexPart(r) => r \notin taken /\ response[r] = "none" /\ status[r] = 0 /\ sent[r] = 0
    BY <2>1 DEF IInv, PlaceInv, AnswerInv, OutcomeInv, OutcomeOf, InMutexPart
  <2> QED
    BY <2>1, <2>2, <2>3, <2>4 DEF InMutexPart
<1>6. ASSUME NEW r \in Request
      PROVE  Fate(r) = Standing(r)
  <2>1. ToSet(Line) = ToSet(LoopPart) \cup ToSet(MutexPart)
    BY <1>2, <1>3, <1>4, ConcatSet
  <2>2. r \in ToSet(Line) <=> InLoopPart(r) \/ InMutexPart(r)
    BY <1>2, <1>3, <2>1
  <2> QED
    BY <2>2 DEF Fate, Standing
<1> QED
  BY <1>2, <1>3, <1>4, <1>5, <1>6 DEF LineInv

\* A step that leaves the line and what became of the requests as they were
\* is none of the service's.
LEMMA ServiceStutters ==
  ASSUME LineInv, LineInv', LoopPart' \o MutexPart' = LoopPart \o MutexPart, status' = status,
         Running' = Running, \A r \in Request : Standing(r)' = Standing(r)
  PROVE  UNCHANGED Service!vars
<1>1. Line' = Line
  BY DEF LineInv
<1>2. [r \in Request |-> Fate(r)]' = [r \in Request |-> Fate(r)]
  <2>1. \A r \in Request : Fate(r)' = Fate(r)
    BY DEF LineInv
  <2> QED
    BY <2>1
<1> QED
  BY <1>1, <1>2 DEF Service!vars

\* A new request is submitted.
LEMMA ArriveRefines ==
  ASSUME NEW r \in Request, NEW s \in Sizes, IInv, LineInv, LineInv', Arrive(r, s)
  PROVE  Service!Submit(r)
<1>1. /\ Running' = Running /\ handler[r] = "new" /\ status' = status
      /\ UNCHANGED <<channel, response, loop, current, sent, taken>>
      /\ handler' \in {[handler EXCEPT ![r] = "sending"], [handler EXCEPT ![r] = "locking"]}
  BY DEF Arrive, Running, loopVars
<1>2. handler'[r] \in {"sending", "locking"} /\ \A q \in Request \ {r} : handler'[q] = handler[q]
  <2>1. handler \in [Request -> {"new", "locking", "sending", "waiting", "done", "gone"}]
    BY DEF IInv, TypeOK
  <2> QED
    BY <1>1, <2>1
<1>3. Line' = Append(Line, r)
  <2>1. waiters \in Seq(Request) /\ owner \in Request \cup {None} /\ (owner = None => waiters = <<>>)
    BY DEF IInv, TypeOK, LockConsistent
  <2>2. LoopPart' = LoopPart
    BY <1>1 DEF LoopPart
  <2>3. MutexPart' = MutexPart \o <<r>>
    <3>1. CASE owner = None
      <4>1. owner' = r /\ waiters' = <<>> /\ waiters = <<>>
        BY <2>1, <3>1 DEF Arrive
      <4>2. MutexPart = <<>> \o <<>> /\ MutexPart' = <<r>> \o <<>>
        BY <3>1, <4>1 DEF MutexPart
      <4>3. <<r>> \in Seq(Request) /\ <<>> \in Seq(Request)
        OBVIOUS
      <4> QED
        BY <4>2, <4>3, ConcatEmptySeq
    <3>2. CASE owner # None
      <4>1. owner' = owner /\ waiters' = Append(waiters, r) /\ owner \in Request
        BY <2>1, <3>2 DEF Arrive, Join
      <4>2. Append(waiters, r) = waiters \o <<r>> /\ <<r>> \in Seq(Request) /\ <<owner>> \in Seq(Request)
        BY <2>1, <4>1, FirstFacts
      <4>3. MutexPart = <<owner>> \o waiters /\ MutexPart' = <<owner>> \o (waiters \o <<r>>)
        BY <3>2, <4>1, <4>2 DEF MutexPart
      <4> QED
        BY <2>1, <4>2, <4>3, ConcatAssociative
    <3> QED
      BY <3>1, <3>2
  <2>4. /\ LoopPart \in Seq(Request) /\ MutexPart \in Seq(Request) /\ Line = LoopPart \o MutexPart
        /\ Line' = LoopPart' \o MutexPart' /\ <<r>> \in Seq(Request) /\ LoopPart \o MutexPart \in Seq(Request)
    BY ConcatProperties DEF LineInv
  <2>5. Line' = (LoopPart \o MutexPart) \o <<r>>
    BY <2>2, <2>3, <2>4, ConcatAssociative
  <2> QED
    BY <2>4, <2>5, FirstFacts
<1>4. /\ Fate(r) = "idle" /\ Fate(r)' = "queued"
      /\ \A q \in Request \ {r} : Fate(q)' = Fate(q)
  <2>1. Standing(r) = "idle" /\ Standing(r)' = "queued"
    BY <1>1, <1>2 DEF Standing, InMutexPart
  <2>2. \A q \in Request \ {r} : Standing(q)' = Standing(q)
    BY <1>1, <1>2 DEF Standing, InLoopPart, InMutexPart
  <2> QED
    BY <2>1, <2>2 DEF LineInv
<1> QED
  BY <1>1, <1>3, <1>4 DEF Service!Submit

\* What the handlers' places are after the mutex holder has left it.
LEMMA UnlockedPlaces ==
  ASSUME IInv, owner # None, NEW x \in {"waiting", "done", "gone"},
         Unlock([handler EXCEPT ![owner] = x])
  PROVE  /\ owner \in Request /\ handler[owner] = "sending" /\ handler'[owner] = x
         /\ \A q \in Request \ {owner} : /\ handler'[q] = "new" <=> handler[q] = "new"
                                         /\ InMutexPart(q)' <=> InMutexPart(q)
<1>1. owner \in Request /\ handler[owner] = "sending"
  BY DEF IInv, TypeOK, LockConsistent
<1> QED
  BY <1>1, UnlockFacts DEF InMutexPart

\* A command moves from the mutex into the channel: it keeps its place.
LEMMA SendRefines ==
  ASSUME NEW r \in Request, IInv, LineInv, LineInv', Send(r)
  PROVE  UNCHANGED Service!vars
<1>1. /\ owner = r /\ owner # None /\ channel' = Append(channel, r) /\ status' = status
      /\ Unlock([handler EXCEPT ![owner] = "waiting"])
      /\ UNCHANGED <<response, loop, current, sent, taken>>
  BY DEF Send, loopVars
<1>2. /\ handler[r] = "sending" /\ handler'[r] = "waiting"
      /\ \A q \in Request \ {r} : /\ handler'[q] = "new" <=> handler[q] = "new"
                                  /\ InMutexPart(q)' <=> InMutexPart(q)
  BY <1>1, UnlockedPlaces
<1>3. channel \in Seq(Request) /\ waiters \in Seq(Request) /\ <<r>> \in Seq(Request)
  BY DEF IInv, TypeOK
<1>4. channel' = channel \o <<r>> /\ ToSet(channel') = ToSet(channel) \cup {r}
  BY <1>1, <1>3, FirstFacts, AppendFacts
<1>5. LoopPart' \o MutexPart' = LoopPart \o MutexPart
  <2>1. LoopPart' = LoopPart \o <<r>>
    <3>1. CASE loop = "publishing"
      <4>1. <<current>> \in Seq(Request)
        BY <3>1 DEF IInv, LoopInv, TypeOK
      <4>2. LoopPart = <<current>> \o channel /\ LoopPart' = <<current>> \o (channel \o <<r>>)
        BY <1>1, <1>4, <3>1 DEF LoopPart
      <4> QED
        BY <1>3, <4>1, <4>2, ConcatAssociative
    <3>2. CASE loop # "publishing"
      <4>1. LoopPart = <<>> \o channel /\ LoopPart' = <<>> \o (channel \o <<r>>)
        BY <1>1, <1>4, <3>2 DEF LoopPart
      <4>2. <<>> \in Seq(Request)
        OBVIOUS
      <4> QED
        BY <1>3, <4>1, <4>2, ConcatAssociative
    <3> QED
      BY <3>1, <3>2
  <2>2. MutexPart = <<r>> \o waiters /\ MutexPart' = waiters
    BY <1>1, UnlockedLine
  <2>3. LoopPart \in Seq(Request)
    BY DEF LineInv
  <2> QED
    BY <1>3, <2>1, <2>2, <2>3, ConcatAssociative
<1>6. ASSUME NEW q \in Request
      PROVE  Standing(q)' = Standing(q)
  <2>1. CASE q = r
    BY <1>2, <1>4, <2>1 DEF Standing, InLoopPart, InMutexPart
  <2>2. CASE q # r
    <3>1. InLoopPart(q)' <=> InLoopPart(q)
      BY <1>1, <1>4, <2>2 DEF InLoopPart
    <3> QED
      BY <1>1, <1>2, <2>2, <3>1 DEF Standing
  <2> QED
    BY <2>1, <2>2
<1>7. Running' = Running
  BY <1>1 DEF Running
<1> QED
  BY <1>1, <1>5, <1>6, <1>7, ServiceStutters

\* After a panic the mutex holder is the oldest, and is turned down.
LEMMA SendFailsRefines ==
  ASSUME NEW r \in Request, IInv, LineInv, LineInv', SendFails(r)
  PROVE  Service!TurnDown
<1>1. /\ owner = r /\ owner # None /\ loop = "panicked" /\ ~Running /\ Running' = Running
      /\ status' = [status EXCEPT ![r] = 500]
      /\ Unlock([handler EXCEPT ![owner] = "done"])
      /\ UNCHANGED <<channel, response, loop, current, sent, taken>>
  BY DEF SendFails, loopVars, Running
<1>2. /\ handler[r] = "sending" /\ handler'[r] = "done"
      /\ \A q \in Request \ {r} : /\ handler'[q] = "new" <=> handler[q] = "new"
                                  /\ InMutexPart(q)' <=> InMutexPart(q)
  BY <1>1, UnlockedPlaces
<1>3. waiters \in Seq(Request) /\ channel = <<>> /\ status \in [Request -> {0, 200, 500}]
  BY <1>1 DEF IInv, TypeOK, PlaceInv
<1>4. /\ Line # <<>> /\ Head(Line) = r /\ Line' = Tail(Line)
  <2>1. LoopPart = <<>> \o <<>> /\ LoopPart' = <<>> \o <<>>
    BY <1>1, <1>3 DEF LoopPart
  <2>2. LoopPart = <<>> /\ LoopPart' = <<>>
    BY <1>3, <2>1, ConcatEmptySeq
  <2>3. MutexPart = <<r>> \o waiters /\ MutexPart' = waiters
    BY <1>1, UnlockedLine
  <2>4. MutexPart \in Seq(Request) /\ Line = <<>> \o MutexPart /\ Line' = <<>> \o MutexPart'
    BY <2>2 DEF LineInv
  <2>5. Line = <<r>> \o waiters /\ Line' = waiters
    BY <1>3, <2>3, <2>4, ConcatEmptySeq
  <2> QED
    BY <1>3, <2>5, FirstFacts
<1>5. Fate(r)' = "failed" /\ \A q \in Request \ {r} : Fate(q)' = Fate(q)
  <2>1. status'[r] = 500 /\ \A q \in Request \ {r} : status'[q] = status[q]
    BY <1>1, <1>3
  <2>2. InMutexPart(r) /\ ~InLoopPart(r) /\ sent[r] # Chunks
    BY <1>2 DEF LineInv, InMutexPart
  <2>3. \A q \in Request : InLoopPart(q)' <=> InLoopPart(q)
    BY <1>1 DEF InLoopPart
  <2>4. Standing(r)' = "failed"
    <3>1. ~InLoopPart(r)' /\ ~InMutexPart(r)' /\ sent'[r] # Chunks
      BY <1>1, <1>2, <2>2, <2>3 DEF InMutexPart
    <3> QED
      BY <1>2, <2>1, <3>1 DEF Standing
  <2>5. ASSUME NEW q \in Request \ {r}
        PROVE  Standing(q)' = Standing(q)
    BY <1>1, <1>2, <2>1, <2>3 DEF Standing
  <2> QED
    BY <2>4, <2>5 DEF LineInv
<1> QED
  <2>1. [q \in Request |-> Fate(q)]' = [[q \in Request |-> Fate(q)] EXCEPT ![Head(Line)] = "failed"]
    BY <1>4, <1>5
  <2>2. status' = [status EXCEPT ![Head(Line)] = 500]
    BY <1>1, <1>4
  <2> QED
    BY <1>1, <1>4, <2>1, <2>2 DEF Service!TurnDown

\* A client learns the outcome of its request.
LEMMA AnswerRefines ==
  ASSUME NEW r \in Request, IInv, LineInv, LineInv', Answer(r)
  PROVE  Service!Tell(r)
<1>1. /\ handler[r] = "waiting" /\ response[r] # "none"
      /\ handler' = [handler EXCEPT ![r] = "done"]
      /\ status' = [status EXCEPT ![r] = StatusFor(response[r])]
      /\ UNCHANGED <<owner, waiters, channel, response, loop, current, sent, taken>>
  BY DEF Answer, loopVars, lockVars
<1>2. /\ handler \in [Request -> {"new", "locking", "sending", "waiting", "done", "gone"}]
      /\ status \in [Request -> {0, 200, 500}]
      /\ response[r] \in {"ok", "error", "closed"}
  <2>1. /\ handler \in [Request -> {"new", "locking", "sending", "waiting", "done", "gone"}]
        /\ status \in [Request -> {0, 200, 500}]
        /\ response \in [Request -> {"none", "ok", "error", "closed"}]
    BY DEF IInv, TypeOK
  <2> QED
    BY <1>1, <2>1
<1>3. /\ handler'[r] = "done" /\ \A q \in Request \ {r} : handler'[q] = handler[q]
      /\ status'[r] = StatusFor(response[r]) /\ \A q \in Request \ {r} : status'[q] = status[q]
  BY <1>1, <1>2
<1>4. status[r] = 0
  BY <1>1, <1>2 DEF IInv, OutcomeInv, OutcomeOf
<1>5. ~InLoopPart(r) /\ ~InMutexPart(r)
  BY <1>1 DEF IInv, Custody, Held, InLoopPart, InMutexPart
<1>6. /\ sent[r] = Chunks => response[r] = "ok"
      /\ sent[r] # Chunks => response[r] \in {"error", "closed"}
  <2>1. sent[r] \in Nat
    BY DEF IInv, TypeOK
  <2>2. OutcomeOf(r)
    BY DEF IInv, OutcomeInv
  <2> QED
    BY <1>2, <2>1, <2>2 DEF OutcomeOf
<1>7. /\ Standing(r) = (IF sent[r] = Chunks THEN "done" ELSE "failed")
      /\ \A q \in Request : Standing(q)' = Standing(q)
  <2>1. \A q \in Request : InLoopPart(q)' <=> InLoopPart(q)
    BY <1>1 DEF InLoopPart
  <2>2. \A q \in Request : (InMutexPart(q)' <=> InMutexPart(q)) /\ (handler'[q] = "new" <=> handler[q] = "new")
    BY <1>1, <1>3 DEF InMutexPart
  <2>3. Standing(r) = (IF sent[r] = Chunks THEN "done" ELSE "failed")
    BY <1>1, <1>5 DEF Standing
  <2>4. Standing(r)' = Standing(r)
    BY <1>1, <1>5, <2>1, <2>2 DEF Standing
  <2>5. ASSUME NEW q \in Request \ {r}
        PROVE  Standing(q)' = Standing(q)
    BY <1>1, <1>3, <2>1, <2>2 DEF Standing
  <2> QED
    BY <2>3, <2>4, <2>5
<1>8. /\ Line' = Line /\ Running' = Running
      /\ \A q \in Request : Fate(q)' = Fate(q)
      /\ Fate(r) = (IF sent[r] = Chunks THEN "done" ELSE "failed")
  BY <1>1, <1>7 DEF LineInv, Line, Running
<1>9. status' = [status EXCEPT ![r] = IF Fate(r) = "done" THEN 200 ELSE 500]
  BY <1>1, <1>6, <1>8 DEF StatusFor
<1> QED
  <2>1. [q \in Request |-> Fate(q)]' = [q \in Request |-> Fate(q)]
    BY <1>8
  <2>2. [q \in Request |-> Fate(q)][r] = Fate(r) /\ Fate(r) \in {"done", "failed"}
    BY <1>8
  <2>3. Line' = Line /\ Running' = Running
    BY <1>8
  <2> QED
    BY <1>4, <1>9, <2>1, <2>2, <2>3 DEF Service!Tell

\* Three queues, one behind the other.
LEMMA QueuesJoin ==
  \A s, t, u \in Seq(Request) : (s \o t) \o u = s \o (t \o u)
BY ConcatAssociative

\* Who stands in the second of two queues, and leaves it.
LEMMA BehindTheFirst ==
  \A s, t \in Seq(Request) : \A k \in 1..Len(t) :
    /\ Len(s) + k \in 1..Len(s \o t)
    /\ (s \o t)[Len(s) + k] = t[k]
    /\ RemoveAt(s \o t, Len(s) + k) = s \o RemoveAt(t, k)
BY SecondPartAt, Zenon

\* Leaving the mutex or its queue is a request withdrawn; leaving a command
\* behind in the channel is nothing the service sees.
LEMMA DisconnectRefines ==
  ASSUME NEW r \in Request, IInv, LineInv, LineInv', Disconnect(r)
  PROVE  [Service!Next]_(Service!vars)
<1>1. /\ UNCHANGED <<status, channel, response, loop, current, sent, taken>>
      /\ Running' = Running
  BY DEF Disconnect, loopVars, Running
<1>2. /\ handler \in [Request -> {"new", "locking", "sending", "waiting", "done", "gone"}]
      /\ waiters \in Seq(Request) /\ owner \in Request \cup {None}
  BY DEF IInv, TypeOK
<1>f. LoopPart' = LoopPart /\ \A q \in Request : InLoopPart(q)' <=> InLoopPart(q)
  BY <1>1 DEF LoopPart, InLoopPart
<1>s. /\ LoopPart \in Seq(Request) /\ MutexPart \in Seq(Request) /\ Line = LoopPart \o MutexPart
      /\ Line' = LoopPart \o MutexPart'
  BY <1>f DEF LineInv
<1>3. CASE handler[r] = "waiting" /\ handler' = [handler EXCEPT ![r] = "gone"] /\ UNCHANGED lockVars
  <2>1. MutexPart' = MutexPart
    BY <1>3 DEF MutexPart, lockVars
  <2>2. handler'[r] = "gone" /\ \A q \in Request \ {r} : handler'[q] = handler[q]
    BY <1>2, <1>3
  <2>3. ASSUME NEW q \in Request
        PROVE  Standing(q)' = Standing(q)
    <3>1. (handler'[q] = "new" <=> handler[q] = "new") /\ (InMutexPart(q)' <=> InMutexPart(q))
      BY <1>3, <2>2 DEF InMutexPart
    <3> QED
      BY <1>1, <1>f, <3>1 DEF Standing
  <2> QED
    BY <1>1, <1>f, <2>1, <2>3, ServiceStutters
<1>4. ASSUME InMutexPart(r), handler'[r] = "gone",
             \A q \in Request \ {r} : /\ handler'[q] = "new" <=> handler[q] = "new"
                                      /\ InMutexPart(q)' <=> InMutexPart(q),
             NEW k \in 1..Len(MutexPart), MutexPart[k] = r, MutexPart' = RemoveAt(MutexPart, k)
      PROVE  Service!Withdraw(r)
  <2>1. /\ ~InLoopPart(r) /\ ~InLoopPart(r)' /\ ~InMutexPart(r)' /\ handler[r] # "new"
        /\ sent[r] # Chunks /\ r \notin taken /\ response[r] = "none" /\ status[r] = 0
    BY <1>4, <1>f DEF LineInv, InMutexPart
  <2>2. Standing(r) = "queued" /\ Standing(r)' = "withdrawn"
    BY <1>1, <1>4, <2>1 DEF Standing
  <2>3. ASSUME NEW q \in Request \ {r}
        PROVE  Standing(q)' = Standing(q)
    BY <1>1, <1>4, <1>f DEF Standing
  <2>4. /\ Fate(r) = "queued"
        /\ [q \in Request |-> Fate(q)]' = [[q \in Request |-> Fate(q)] EXCEPT ![r] = "withdrawn"]
    BY <2>2, <2>3 DEF LineInv
  <2>5. \E i \in 1..Len(Line) : Line[i] = r /\ Line' = RemoveAt(Line, i)
    <3>1. /\ Len(LoopPart) + k \in 1..Len(Line)
          /\ Line[Len(LoopPart) + k] = r
          /\ RemoveAt(Line, Len(LoopPart) + k) = LoopPart \o RemoveAt(MutexPart, k)
      <4>1. /\ Len(LoopPart) + k \in 1..Len(LoopPart \o MutexPart)
            /\ (LoopPart \o MutexPart)[Len(LoopPart) + k] = MutexPart[k]
            /\ RemoveAt(LoopPart \o MutexPart, Len(LoopPart) + k)
                 = LoopPart \o RemoveAt(MutexPart, k)
        BY <1>s, BehindTheFirst
      <4> QED
        BY <1>4, <1>s, <4>1
    <3> QED
      BY <1>4, <1>s, <3>1
  <2>6. \A s, i : Service!RemoveAt(s, i) = RemoveAt(s, i)
    BY DEF Service!RemoveAt, RemoveAt
  <2> QED
    BY <1>1, <2>4, <2>5, <2>6 DEF Service!Withdraw
<1>5. CASE handler[r] = "sending" /\ Unlock([handler EXCEPT ![r] = "gone"])
  <2>1. owner = r /\ owner # None
    BY <1>5 DEF IInv, LockConsistent
  <2>2. /\ handler'[r] = "gone"
        /\ \A q \in Request \ {r} : /\ handler'[q] = "new" <=> handler[q] = "new"
                                    /\ InMutexPart(q)' <=> InMutexPart(q)
    BY <1>5, <2>1, UnlockedPlaces
  <2>3. MutexPart = <<r>> \o waiters /\ MutexPart' = waiters
    BY <1>5, <2>1, UnlockedLine
  <2>4. 1 \in 1..Len(MutexPart) /\ MutexPart[1] = r /\ MutexPart' = RemoveAt(MutexPart, 1)
    <3>1. MutexPart # <<>> /\ Head(MutexPart) = r /\ RemoveAt(MutexPart, 1) = waiters
      BY <1>2, <2>3, FirstFacts, FirstRemoved
    <3> QED
      BY <1>s, <2>3, <3>1, TailFacts
  <2>5. Service!Withdraw(r)
    BY <1>4, <1>5, <2>2, <2>4 DEF InMutexPart
  <2> QED
    BY <2>5 DEF Service!Next
<1>6. CASE /\ handler[r] = "locking"
           /\ \E i \in 1..Len(waiters) : waiters[i] = r /\ waiters' = RemoveAt(waiters, i)
           /\ handler' = [handler EXCEPT ![r] = "gone"]
           /\ owner' = owner
  <2>1. PICK i \in 1..Len(waiters) : waiters[i] = r /\ waiters' = RemoveAt(waiters, i)
    BY <1>6
  <2>2. owner \in Request /\ owner # None /\ <<owner>> \in Seq(Request) /\ Len(<<owner>>) = 1
    <3>1. owner # None
      BY <1>2, <2>1 DEF IInv, LockConsistent
    <3> QED
      BY <1>2, <3>1
  <2>3. /\ handler'[r] = "gone"
        /\ \A q \in Request \ {r} : /\ handler'[q] = "new" <=> handler[q] = "new"
                                    /\ InMutexPart(q)' <=> InMutexPart(q)
    BY <1>2, <1>6 DEF InMutexPart
  <2>4. MutexPart = <<owner>> \o waiters /\ MutexPart' = <<owner>> \o RemoveAt(waiters, i)
    BY <1>6, <2>1, <2>2 DEF MutexPart
  <2>5. PICK k \in 1..Len(MutexPart) : MutexPart[k] = r /\ MutexPart' = RemoveAt(MutexPart, k)
    <3>1. /\ 1 + i \in 1..Len(MutexPart)
          /\ MutexPart[1 + i] = r
          /\ RemoveAt(MutexPart, 1 + i) = <<owner>> \o RemoveAt(waiters, i)
      <4>1. PICK first \in Seq(Request) : first = <<owner>> /\ Len(first) = 1
        BY <2>2
      <4>2. /\ Len(first) + i \in 1..Len(first \o waiters)
            /\ (first \o waiters)[Len(first) + i] = waiters[i]
            /\ RemoveAt(first \o waiters, Len(first) + i) = first \o RemoveAt(waiters, i)
        BY <1>2, BehindTheFirst
      <4> QED
        BY <2>1, <2>4, <4>1, <4>2
    <3> QED
      BY <2>4, <3>1
  <2>6. Service!Withdraw(r)
    BY <1>4, <1>6, <2>3, <2>5 DEF InMutexPart
  <2> QED
    BY <2>6 DEF Service!Next
<1> QED
  BY <1>3, <1>5, <1>6 DEF Disconnect

\* The loop takes the oldest command: it keeps its place.
LEMMA ReceiveRefines ==
  ASSUME IInv, LineInv, LineInv', Receive
  PROVE  UNCHANGED Service!vars
<1>1. /\ loop = "select" /\ channel # <<>> /\ loop' = "publishing"
      /\ current' = Head(channel) /\ channel' = Tail(channel)
      /\ taken' = taken \cup {Head(channel)}
      /\ UNCHANGED <<handler, status, owner, waiters, response, sent>>
  BY DEF Receive, Ready, handlerVars, lockVars
<1>2. channel \in Seq(Request)
  BY DEF IInv, TypeOK
<1>3. LoopPart' \o MutexPart' = LoopPart \o MutexPart
  <2>1. LoopPart = <<>> \o channel /\ LoopPart' = <<Head(channel)>> \o Tail(channel) /\ MutexPart' = MutexPart
    BY <1>1 DEF LoopPart, MutexPart
  <2>2. LoopPart' = LoopPart
    BY <1>1, <1>2, <2>1, HeadThenTail, ConcatEmptySeq
  <2> QED
    BY <2>1, <2>2
<1>4. ASSUME NEW q \in Request
      PROVE  Standing(q)' = Standing(q)
  <2>1. ToSet(channel) = ToSet(channel') \cup {current'}
    BY <1>1, <1>2, TailFacts
  <2>2. (InLoopPart(q)' <=> InLoopPart(q)) /\ (InMutexPart(q)' <=> InMutexPart(q))
    BY <1>1, <2>1 DEF InLoopPart, InMutexPart
  <2>3. q \in taken' /\ q \notin taken => InLoopPart(q)
    BY <1>1, <2>1 DEF InLoopPart
  <2> QED
    BY <1>1, <2>2, <2>3 DEF Standing
<1>5. Running' = Running
  BY <1>1 DEF Running
<1> QED
  BY <1>1, <1>3, <1>4, <1>5, ServiceStutters

\* A request was resolved before the loop replies for it.
LEMMA ReplyRefines ==
  ASSUME IInv, LineInv, LineInv', Reply
  PROVE  UNCHANGED Service!vars
<1>1. /\ loop = "replying" /\ loop' = "counting"
      /\ response' = [response EXCEPT ![current] = Outcome]
      /\ UNCHANGED <<handler, status, owner, waiters, channel, current, sent, taken>>
  BY DEF Reply, handlerVars, lockVars
<1>2. LoopPart' = LoopPart /\ MutexPart' = MutexPart /\ Running' = Running
  BY <1>1 DEF LoopPart, MutexPart, Running
<1>3. ASSUME NEW q \in Request
      PROVE  Standing(q)' = Standing(q)
  <2>1. (InLoopPart(q)' <=> InLoopPart(q)) /\ (InMutexPart(q)' <=> InMutexPart(q))
    BY <1>1 DEF InLoopPart, InMutexPart
  <2>2. q \in taken \/ response'[q] = response[q]
    BY <1>1 DEF IInv, LoopInv, TypeOK
  <2> QED
    BY <1>1, <2>1, <2>2 DEF Standing
<1> QED
  BY <1>1, <1>2, <1>3, ServiceStutters

\* And before the loop counts it.
LEMMA CountRefines ==
  ASSUME IInv, LineInv, LineInv', Count
  PROVE  UNCHANGED Service!vars
<1>1. /\ loop = "counting" /\ loop' = "select"
      /\ UNCHANGED <<handler, status, owner, waiters, channel, response, sent, taken>>
  BY DEF Count, handlerVars, lockVars
<1>2. LoopPart' = LoopPart /\ MutexPart' = MutexPart /\ Running' = Running
  BY <1>1 DEF LoopPart, MutexPart, Running
<1>3. ASSUME NEW q \in Request
      PROVE  Standing(q)' = Standing(q)
  BY <1>1 DEF Standing, InLoopPart, InMutexPart
<1> QED
  BY <1>1, <1>2, <1>3, ServiceStutters

\* The panic is the crash of the service: what the loop and the channel held
\* fails, what was at the mutex stays in line.
LEMMA PanicRefines ==
  ASSUME IInv, LineInv, LineInv', Panic
  PROVE  \E k \in 1..Len(Line) : Service!Crash(k)
<1>1. /\ loop = "publishing" /\ loop' = "panicked" /\ Running /\ ~Running'
      /\ channel' = <<>>
      /\ response' = [r \in Request |->
                        IF r = current \/ r \in ToSet(channel) THEN "closed" ELSE response[r]]
      /\ UNCHANGED <<handler, status, owner, waiters, sent, taken>>
  BY DEF Panic, Orphans, Running, handlerVars, lockVars
<1>2. /\ LoopPart \in Seq(Request) /\ MutexPart \in Seq(Request) /\ Line = LoopPart \o MutexPart
      /\ Line' = LoopPart' \o MutexPart'
  BY DEF LineInv
<1>3. Line' = MutexPart
  <2>1. LoopPart' = <<>> \o <<>> /\ MutexPart' = MutexPart
    BY <1>1 DEF LoopPart, MutexPart
  <2>2. LoopPart' = <<>>
    BY <1>2, <2>1, ConcatEmptySeq, EmptyToSet
  <2> QED
    BY <1>2, <2>1, <2>2, ConcatEmptySeq
<1> DEFINE k == Len(LoopPart)
<1>4. k \in 1..Len(Line)
  <2>1. channel \in Seq(Request) /\ current \in Request
    BY <1>1 DEF IInv, TypeOK, LoopInv
  <2>2. LoopPart # <<>>
    BY <1>1, <2>1, FirstFacts DEF LoopPart
  <2>3. Len(LoopPart) \in Nat \ {0} /\ Len(MutexPart) \in Nat /\ Len(Line) = Len(LoopPart) + Len(MutexPart)
    BY <1>2, <2>2, ConcatProperties
  <2> QED
    BY <2>3
<1>5. SubSeq(Line, k + 1, Len(Line)) = MutexPart /\ \A i \in 1..k : Line[i] = LoopPart[i]
  BY <1>2, SecondPart
<1>6. ASSUME NEW r \in Request
      PROVE  (\E i \in 1..k : Line[i] = r) <=> InLoopPart(r)
  <2>1. DOMAIN LoopPart = 1..k
    BY <1>2
  <2>2. r \in ToSet(LoopPart) <=> \E i \in 1..k : LoopPart[i] = r
    BY <2>1 DEF ToSet
  <2> QED
    BY <1>5, <2>2 DEF LineInv
<1>7. ASSUME NEW r \in Request
      PROVE  Standing(r)' = IF InLoopPart(r) THEN "failed" ELSE Standing(r)
  <2>1. ~InLoopPart(r)' /\ (InMutexPart(r)' <=> InMutexPart(r))
    BY <1>1, EmptyToSet DEF InLoopPart, InMutexPart
  <2>2. CASE InLoopPart(r)
    <3>1. handler[r] # "new" /\ ~InMutexPart(r) /\ sent[r] # Chunks /\ response'[r] = "closed"
      BY <1>1, <2>2 DEF LineInv, InLoopPart
    <3> QED
      BY <1>1, <2>1, <2>2, <3>1 DEF Standing
  <2>3. CASE ~InLoopPart(r)
    <3>1. response'[r] = response[r]
      BY <1>1, <2>3 DEF InLoopPart
    <3> QED
      BY <1>1, <2>1, <2>3, <3>1 DEF Standing
  <2> QED
    BY <2>2, <2>3
<1>8. [r \in Request |-> Fate(r)]'
        = [r \in Request |->
             IF \E i \in 1..k : Line[i] = r THEN "failed" ELSE [q \in Request |-> Fate(q)][r]]
  <2>1. \A r \in Request : Fate(r)' = IF \E i \in 1..k : Line[i] = r THEN "failed" ELSE Fate(r)
    BY <1>6, <1>7 DEF LineInv
  <2> HIDE DEF k
  <2> QED
    BY <2>1
<1> HIDE DEF k
<1>9. Service!Crash(k)
  BY <1>1, <1>3, <1>5, <1>8 DEF Service!Crash
<1> QED
  BY <1>4, <1>9

\* The process ends: all that are left are dropped.
LEMMA ExitRefines ==
  ASSUME IInv, LineInv, LineInv', Exit
  PROVE  Service!DropAll
<1>1. /\ loop = "panicked" /\ ~Running /\ Running' = Running /\ loop' = "exited"
      /\ handler' = [r \in Request |->
                       IF handler[r] \in {"locking", "sending", "waiting"} THEN "gone" ELSE handler[r]]
      /\ owner' = None /\ waiters' = <<>>
      /\ UNCHANGED <<status, channel, response, current, sent, taken>>
  BY DEF Exit, Running
<1>2. channel = <<>> /\ <<>> \in Seq(Request)
  BY <1>1 DEF IInv, PlaceInv
<1>3. Line' = <<>>
  <2>1. LoopPart' = <<>> \o <<>> /\ MutexPart' = <<>> \o <<>>
    BY <1>1, <1>2 DEF LoopPart, MutexPart
  <2>2. Line' = LoopPart' \o MutexPart'
    BY DEF LineInv
  <2> QED
    BY <1>2, <2>1, <2>2, ConcatEmptySeq
<1>4. ASSUME NEW r \in Request
      PROVE  Standing(r)' = IF Standing(r) = "queued" THEN "withdrawn" ELSE Standing(r)
  <2>1. ~InLoopPart(r) /\ ~InLoopPart(r)'
    BY <1>1, <1>2, EmptyToSet DEF InLoopPart
  <2>2. /\ ~InMutexPart(r)'
        /\ handler'[r] = "new" <=> handler[r] = "new"
    BY <1>1 DEF InMutexPart
  <2>3. InMutexPart(r) => /\ handler[r] # "new" /\ sent[r] # Chunks /\ r \notin taken
                     /\ response[r] = "none" /\ status[r] = 0
    BY DEF LineInv, InMutexPart
  <2> QED
    BY <1>1, <2>1, <2>2, <2>3 DEF Standing
<1>5. [r \in Request |-> Fate(r)]'
        = [r \in Request |->
             IF [q \in Request |-> Fate(q)][r] = "queued" THEN "withdrawn"
             ELSE [q \in Request |-> Fate(q)][r]]
  <2>1. \A r \in Request : Fate(r)' = IF Fate(r) = "queued" THEN "withdrawn" ELSE Fate(r)
    BY <1>4 DEF LineInv
  <2> QED
    BY <2>1
<1> QED
  BY <1>1, <1>3, <1>5 DEF Service!DropAll

\* The last fragment, or the first that is refused, resolves the request.
LEMMA PublishFragmentRefines ==
  ASSUME NEW refuse \in BOOLEAN, IInv, LineInv, LineInv', PublishFragment(refuse)
  PROVE  [Service!Next]_(Service!vars)
<1>1. /\ loop = "publishing" /\ Running /\ current \in taken /\ current \in Request
      /\ sent[current] = chunk /\ chunk < Chunks
      /\ UNCHANGED <<handler, status, owner, waiters, channel, response, current, taken>>
  BY DEF PublishFragment, IInv, LoopInv, TypeOK, Running, handlerVars, lockVars
<1>2. channel \in Seq(Request) /\ sent \in [Request -> Nat] /\ chunk \in Nat /\ current \notin ToSet(channel)
  BY <1>1 DEF IInv, TypeOK, Custody
<1>3. InLoopPart(current) /\ ~InMutexPart(current) /\ handler[current] # "new"
  BY <1>1 DEF LineInv, InLoopPart
<1>4. ASSUME loop' = "replying", NEW outcome \in {"done", "failed"},
             \A q \in Request \ {current} : sent'[q] = sent[q],
             outcome = IF sent'[current] = Chunks THEN "done" ELSE "failed"
      PROVE  Service!Resolve(outcome)
  <2>1. Line # <<>> /\ Head(Line) = current /\ Line' = Tail(Line)
    <3>1. LoopPart = <<current>> \o channel /\ LoopPart' = <<>> \o channel /\ MutexPart' = MutexPart
      BY <1>1, <1>4 DEF LoopPart, MutexPart
    <3>2. /\ MutexPart \in Seq(Request) /\ <<current>> \in Seq(Request) /\ channel \o MutexPart \in Seq(Request)
          /\ Line = LoopPart \o MutexPart /\ Line' = LoopPart' \o MutexPart'
      BY <1>1, <1>2, ConcatProperties DEF LineInv
    <3>3. PICK rest \in Seq(Request) : rest = channel \o MutexPart
      BY <3>2
    <3>4. Line = <<current>> \o rest
      <4>1. PICK first \in Seq(Request) : first = <<current>>
        BY <3>2
      <4>2. (first \o channel) \o MutexPart = first \o (channel \o MutexPart)
        <5>1. MutexPart \in Seq(Request) /\ channel \in Seq(Request)
          BY <1>2, <3>2
        <5> QED
          BY <5>1, QueuesJoin
      <4> QED
        BY <3>1, <3>2, <3>3, <4>1, <4>2
    <3>5. Line' = rest
      BY <1>2, <3>1, <3>2, <3>3, ConcatEmptySeq
    <3> QED
      BY <1>1, <3>4, <3>5, FirstFacts
  <2>2. Standing(current)' = outcome
    <3>1. ~InLoopPart(current)' /\ ~InMutexPart(current)'
      BY <1>1, <1>2, <1>3, <1>4 DEF InLoopPart, InMutexPart
    <3> QED
      BY <1>1, <1>3, <1>4, <3>1 DEF Standing
  <2>3. ASSUME NEW q \in Request \ {current}
        PROVE  Standing(q)' = Standing(q)
    BY <1>1, <1>4 DEF Standing, InLoopPart, InMutexPart
  <2>4. [q \in Request |-> Fate(q)]' = [[q \in Request |-> Fate(q)] EXCEPT ![Head(Line)] = outcome]
    BY <1>1, <2>1, <2>2, <2>3 DEF LineInv
  <2>5. Running' = Running
    BY <1>1, <1>4 DEF Running
  <2> QED
    BY <1>1, <2>1, <2>4, <2>5 DEF Service!Resolve
<1>5. CASE loop' = "replying" /\ sent' = sent
  <2>1. Service!Resolve("failed")
    BY <1>1, <1>2, <1>4, <1>5
  <2> QED
    BY <2>1 DEF Service!Next
<1>6. CASE loop' = "replying" /\ sent' = [sent EXCEPT ![current] = @ + 1] /\ chunk + 1 = Chunks
  <2>1. sent'[current] = Chunks /\ \A q \in Request \ {current} : sent'[q] = sent[q]
    BY <1>1, <1>2, <1>6
  <2>2. Service!Resolve("done")
    BY <1>4, <1>6, <2>1
  <2> QED
    BY <2>2 DEF Service!Next
<1>7. CASE loop' = "publishing" /\ sent' = [sent EXCEPT ![current] = @ + 1]
  <2>1. \A q \in Request \ {current} : sent'[q] = sent[q]
    BY <1>2, <1>7
  <2>2. LoopPart' = LoopPart /\ MutexPart' = MutexPart /\ Running' = Running
    BY <1>1, <1>7 DEF LoopPart, MutexPart, Running
  <2>3. ASSUME NEW q \in Request
        PROVE  Standing(q)' = Standing(q)
    <3>1. (InLoopPart(q)' <=> InLoopPart(q)) /\ (InMutexPart(q)' <=> InMutexPart(q))
      BY <1>1, <1>7 DEF InLoopPart, InMutexPart
    <3>2. InLoopPart(q) \/ sent'[q] = sent[q]
      BY <1>3, <2>1
    <3> QED
      BY <1>1, <3>1, <3>2 DEF Standing
  <2> QED
    BY <1>1, <2>2, <2>3, ServiceStutters
<1> QED
  BY <1>5, <1>6, <1>7 DEF PublishFragment

\* A handler that has sent its command never goes back, and an outcome is put
\* only where a command was sent.
LEMMA AnswerPreserved ==
  ASSUME IInv, AnswerInv, [Next]_vars
  PROVE  AnswerInv'
<1> DEFINE Past == {"waiting", "done", "gone"}
<1>1. /\ handler \in [Request -> {"new", "locking", "sending", "waiting", "done", "gone"}]
      /\ response \in [Request -> {"none", "ok", "error", "closed"}]
      /\ \A r \in taken \cup ToSet(channel) : r \in Request => handler[r] \in Past
  BY DEF IInv, TypeOK, PlaceInv
<1>2. ASSUME NEW q \in Request, handler[q] \in Past
      PROVE  handler'[q] \in Past
  <2>1. ASSUME NEW r \in Request, NEW s \in Sizes, Arrive(r, s)
        PROVE  handler'[q] \in Past
    BY <1>1, <1>2, <2>1 DEF Arrive
  <2>2. ASSUME owner # None, NEW x \in Past, Unlock([handler EXCEPT ![owner] = x])
        PROVE  handler'[q] \in Past
    <3>1. handler[owner] = "sending" /\ owner \in Request
      BY <2>2 DEF IInv, TypeOK, LockConsistent
    <3>2. q # owner
      BY <1>2, <3>1
    <3> QED
      BY <1>2, <2>2, <3>2, UnlockFacts
  <2>3. ASSUME NEW r \in Request, Send(r) \/ SendFails(r)
        PROVE  handler'[q] \in Past
    <3>1. owner = r /\ owner # None
          /\ \E x \in Past : Unlock([handler EXCEPT ![owner] = x])
      BY <2>3 DEF Send, SendFails
    <3> QED
      BY <2>2, <3>1
  <2>4. ASSUME NEW r \in Request, Answer(r)
        PROVE  handler'[q] \in Past
    BY <1>1, <1>2, <2>4 DEF Answer
  <2>5. ASSUME NEW r \in Request, Disconnect(r)
        PROVE  handler'[q] \in Past
    <3>1. CASE handler[r] = "sending" /\ Unlock([handler EXCEPT ![r] = "gone"])
      <4>1. owner = r /\ owner # None
        BY <3>1 DEF IInv, LockConsistent
      <4> QED
        BY <2>2, <3>1, <4>1
    <3>2. CASE handler' = [handler EXCEPT ![r] = "gone"]
      BY <1>1, <1>2, <3>2
    <3> QED
      BY <2>5, <3>1, <3>2 DEF Disconnect
  <2>6. CASE Exit
    BY <1>1, <1>2, <2>6 DEF Exit
  <2>7. CASE UNCHANGED handler
    BY <1>2, <2>7
  <2> QED
    BY <2>1, <2>3, <2>4, <2>5, <2>6, <2>7
    DEF Next, Receive, Panic, PublishFragment, Reply, Count, Quiescent, vars, handlerVars
<1>3. ASSUME NEW q \in Request, response'[q] # "none", response[q] = "none"
      PROVE  handler[q] \in Past
  <2>1. CASE Panic
    BY <1>1, <1>3, <2>1 DEF Panic, Orphans, IInv, LoopInv
  <2>2. CASE Reply
    BY <1>1, <1>3, <2>2 DEF Reply, IInv, LoopInv
  <2>3. CASE UNCHANGED response
    BY <1>3, <2>3
  <2> QED
    BY <2>1, <2>2, <2>3
    DEF Next, Arrive, Send, SendFails, Answer, Disconnect, Receive, Exit, PublishFragment,
        Count, Quiescent, vars
<1> QED
  BY <1>2, <1>3 DEF AnswerInv

\* Every step of the bridge is one of the service's or none.
LEMMA StepRefines ==
  ASSUME IInv, LineInv, LineInv', [Next]_vars
  PROVE  [Service!Next]_(Service!vars)
<1>1. ASSUME NEW r \in Request, NEW s \in Sizes, Arrive(r, s)
      PROVE  Service!Next
  BY <1>1, ArriveRefines DEF Service!Next
<1>2. ASSUME NEW r \in Request, Send(r)
      PROVE  UNCHANGED Service!vars
  BY <1>2, SendRefines
<1>3. ASSUME NEW r \in Request, SendFails(r)
      PROVE  Service!Next
  BY <1>3, SendFailsRefines DEF Service!Next
<1>4. ASSUME NEW r \in Request, Answer(r)
      PROVE  Service!Next
  BY <1>4, AnswerRefines DEF Service!Next
<1>5. ASSUME NEW r \in Request, Disconnect(r)
      PROVE  [Service!Next]_(Service!vars)
  BY <1>5, DisconnectRefines
<1>6. CASE Receive \/ Reply \/ Count
  BY <1>6, ReceiveRefines, ReplyRefines, CountRefines
<1>7. CASE Panic
  BY <1>7, PanicRefines DEF Service!Next
<1>8. CASE Exit
  BY <1>8, ExitRefines DEF Service!Next
<1>9. ASSUME NEW refuse \in BOOLEAN, PublishFragment(refuse)
      PROVE  [Service!Next]_(Service!vars)
  BY <1>9, PublishFragmentRefines
<1>10. CASE UNCHANGED vars
  <2>1. /\ Line' = Line /\ status' = status /\ Running' = Running
        /\ [r \in Request |-> Fate(r)]' = [r \in Request |-> Fate(r)]
    BY <1>10 DEF vars, handlerVars, lockVars, loopVars, Line, Running, Fate
  <2> QED
    BY <2>1 DEF Service!vars
<1> QED
  BY <1>1, <1>2, <1>3, <1>4, <1>5, <1>6, <1>7, <1>8, <1>9, <1>10 DEF Next, Quiescent

\* The bridge keeps the promise of FifoService, whatever the number of
\* requests, fragments and places in the channel: POST /publish requests take
\* effect one at a time in the order they came, each at most once, and every
\* client is told the truth (main.rs:160-214 and 510-516).
THEOREM Serves == Spec => FirstInFirstOut
<1>1. Init => Service!Init /\ AnswerInv
  <2> SUFFICES ASSUME Init PROVE Service!Init /\ AnswerInv
    OBVIOUS
  <2>1. Line = <<>>
    <3>1. Line = ((<<>> \o <<>>) \o <<>>) \o <<>> /\ <<>> \in Seq(Request)
      BY DEF Init, Line
    <3> QED
      BY <3>1, ConcatEmptySeq
  <2>2. [r \in Request |-> Fate(r)] = [r \in Request |-> "idle"]
    BY DEF Init, Fate
  <2>3. status = [r \in Request |-> 0] /\ Running = TRUE /\ AnswerInv
    BY DEF Init, Running, AnswerInv
  <2> QED
    BY <2>1, <2>2, <2>3 DEF Service!Init
<1>2. IInv /\ AnswerInv /\ [Next]_vars => AnswerInv'
  BY AnswerPreserved
<1>3. IInv /\ AnswerInv => LineInv
  BY LineHolds
<1>4. IInv /\ LineInv /\ LineInv' /\ [Next]_vars => [Service!Next]_(Service!vars)
  BY StepRefines
<1> QED
  BY <1>1, <1>2, <1>3, <1>4, Invariance, PTL DEF Spec, FirstInFirstOut, Service!Spec

-----------------------------------------------------------------------------
(* A publication, for RustGossip, is one step.                             *)

\* What the loop knows of the fragments that are out: their request, with the
\* size it came with, has been given a time; none was in the cache before it,
\* and all are there now.
FragmentsInv ==
  /\ \A r \in Request : ticket[r] # 0 => size[r] \in Sizes
  /\ \A r \in taken : stamp[r] \in 1..MaxClock
  /\ loop = "publishing" /\ chunk > 0 => BufferLen(current) >= 8
  /\ loop = "publishing" =>
       \A c \in 0..(chunk - 1) :
         /\ Payload(current, c) \in cache
         /\ \A d \in 0..(c - 1) : Payload(current, d) # Payload(current, c)

\* A step that leaves what was published as it was is none of RustGossip's.
LEMMA GossipStutters ==
  ASSUME Published' = Published, (cache \ Underway)' = cache \ Underway,
         \A r \in Published :
           stamp'[r] = stamp[r] /\ BufferLen(r)' = BufferLen(r) /\ sent'[r] = sent[r]
  PROVE  UNCHANGED Gossip!vars
<1> DEFINE Whose == [r \in Request |-> IF r \in Published THEN "self" ELSE "none"]
           Stamps == [r \in Request |-> IF r \in Published THEN stamp[r] ELSE 0]
           Lengths == [r \in Request |-> IF r \in Published THEN BufferLen(r) ELSE 0]
           Outs == [r \in Request |-> IF r \in Published THEN sent[r] ELSE 0]
<1>1. Whose' = Whose /\ Stamps' = Stamps
  OBVIOUS
<1>2. Lengths' = Lengths /\ Outs' = Outs
  OBVIOUS
<1> QED
  BY <1>1, <1>2 DEF Gossip!vars

\* No step of a handler touches a request the loop has taken.
LEMMA HandlersAside ==
  ASSUME IInv, FragmentsInv, UNCHANGED loopVars,
         \A r \in taken : size'[r] = size[r],
         \A r \in Request : ticket'[r] # 0 => size'[r] \in Sizes
  PROVE  FragmentsInv' /\ UNCHANGED Gossip!vars
<1>1. UNCHANGED <<loop, current, stamp, chunk, sent, cache, taken>>
  BY DEF loopVars
<1>2. \A r \in taken : BufferLen(r)' = BufferLen(r)
  BY DEF BufferLen
<1>3. loop = "publishing" => current \in taken
  BY DEF IInv, LoopInv
<1>4. loop = "publishing" => \A c : Payload(current, c)' = Payload(current, c)
  BY <1>1, <1>2, <1>3 DEF Payload
<1>5. FragmentsInv'
  <2>1. \A r \in taken' : stamp'[r] \in 1..MaxClock
    BY <1>1 DEF FragmentsInv
  <2>2. loop' = "publishing" /\ chunk' > 0 => BufferLen(current)' >= 8
    BY <1>1, <1>2, <1>3 DEF FragmentsInv
  <2>3. ASSUME loop' = "publishing", NEW c \in 0..(chunk' - 1)
        PROVE  /\ Payload(current, c)' \in cache'
               /\ \A d \in 0..(c - 1) : Payload(current, d)' # Payload(current, c)'
    BY <1>1, <1>4, <2>3 DEF FragmentsInv
  <2> QED
    BY <2>1, <2>2, <2>3 DEF FragmentsInv
<1>6. Published' = Published
  BY <1>1, <1>2 DEF Published
<1>7. Underway' = Underway
  BY <1>1, <1>4 DEF Underway
<1>8. \A r \in Published :
        stamp'[r] = stamp[r] /\ BufferLen(r)' = BufferLen(r) /\ sent'[r] = sent[r]
  BY <1>1, <1>2 DEF Published
<1> QED
  BY <1>1, <1>5, <1>6, <1>7, <1>8, GossipStutters

\* When the loop is between publications, a step that starts none and ends none.
LEMMA BetweenPublications ==
  ASSUME FragmentsInv, loop # "publishing", loop' # "publishing",
         UNCHANGED <<size, ticket, stamp, sent, cache, taken>>
  PROVE  FragmentsInv' /\ UNCHANGED Gossip!vars
<1>1. \A r : BufferLen(r)' = BufferLen(r)
  BY DEF BufferLen
<1>2. FragmentsInv'
  BY DEF FragmentsInv
<1>3. Published' = Published /\ Underway' = Underway
  BY <1>1 DEF Published, Underway
<1> QED
  BY <1>1, <1>2, <1>3, GossipStutters

\* The loop takes a command and gives it a time: nothing of it is out yet.
LEMMA ReceiveAside ==
  ASSUME IInv, FragmentsInv, Receive
  PROVE  FragmentsInv' /\ UNCHANGED Gossip!vars
<1>1. /\ loop = "select" /\ loop' = "publishing" /\ chunk' = 0
      /\ current' = Head(channel) /\ channel # <<>> /\ taken' = taken \cup {current'}
      /\ UNCHANGED <<size, ticket, sent, cache>>
  BY DEF Receive, Ready, handlerVars
<1>2. current' \in ToSet(channel) /\ current' \in Request
  BY <1>1, TailFacts DEF IInv, TypeOK
<1>3. current' \notin taken /\ taken \subseteq Request
  BY <1>2 DEF IInv, Custody, TypeOK
<1>4. PICK t \in 1..MaxClock : stamp' = [stamp EXCEPT ![current'] = t]
  BY <1>1 DEF Receive
<1>5. stamp'[current'] = t /\ \A r \in taken : stamp'[r] = stamp[r]
  BY <1>2, <1>3, <1>4 DEF IInv, TypeOK
<1>6. \A r : BufferLen(r)' = BufferLen(r)
  BY <1>1 DEF BufferLen
<1>7. FragmentsInv'
  <2>1. \A r \in taken' : stamp'[r] \in 1..MaxClock
    BY <1>1, <1>5 DEF FragmentsInv
  <2>2. 0..(chunk' - 1) = {} /\ ~(chunk' > 0)
    BY <1>1
  <2> QED
    BY <1>1, <2>1, <2>2 DEF FragmentsInv
<1>8. Published' = Published
  <2>1. ASSUME NEW r \in taken'
        PROVE  (BufferLen(r)' >= 8 /\ ~(loop' = "publishing" /\ current' = r))
                 <=> (r \in taken /\ BufferLen(r) >= 8 /\ ~(loop = "publishing" /\ current = r))
    BY <1>1, <1>3, <1>6
  <2>2. taken \subseteq taken'
    BY <1>1
  <2> QED
    BY <2>1, <2>2 DEF Published
<1>9. Underway' = {} /\ Underway = {}
  <2>1. 0..(chunk' - 1) = {}
    BY <1>1
  <2> QED
    BY <1>1, <2>1 DEF Underway
<1>10. \A r \in Published : r \in taken
  BY DEF Published
<1> QED
  BY <1>1, <1>5, <1>6, <1>7, <1>8, <1>9, <1>10, GossipStutters

\* A panic comes before the first fragment of its message.
LEMMA PanicAside ==
  ASSUME IInv, FragmentsInv, Panic
  PROVE  FragmentsInv' /\ UNCHANGED Gossip!vars
<1>1. /\ loop = "publishing" /\ loop' = "panicked" /\ BufferLen(current) < 8
      /\ UNCHANGED <<size, ticket, stamp, sent, cache, taken>>
  BY DEF Panic, handlerVars
<1>2. chunk = 0 /\ BufferLen(current) \in Nat
  <2>1. current \in Request
    BY <1>1 DEF IInv, LoopInv, TypeOK
  <2>2. BufferLen(current) \in Nat /\ chunk \in Nat
    BY <2>1, QuotientInNat DEF BufferLen, IInv, TypeOK
  <2> QED
    BY <1>1, <2>2 DEF FragmentsInv
<1>3. \A r : BufferLen(r)' = BufferLen(r)
  BY <1>1 DEF BufferLen
<1>4. FragmentsInv'
  BY <1>1 DEF FragmentsInv
<1>5. Underway' = {} /\ Underway = {}
  <2>1. 0..(chunk - 1) = {}
    BY <1>2
  <2> QED
    BY <1>1, <2>1 DEF Underway
<1>6. Published' = Published
  <2>1. ASSUME NEW r \in taken
        PROVE  (BufferLen(r)' >= 8 /\ ~(loop' = "publishing" /\ current' = r))
                 <=> (BufferLen(r) >= 8 /\ ~(loop = "publishing" /\ current = r))
    BY <1>1, <1>2, <1>3
  <2> QED
    BY <1>1, <2>1 DEF Published
<1> QED
  BY <1>1, <1>3, <1>4, <1>5, <1>6, GossipStutters

\* The node publishes a message of any size the loop gets as far with.
LEMMA OnePublication ==
  ASSUME NEW r \in Request, NEW l \in {s \div Chunks : s \in Sizes} \ 0..7, NEW t \in 1..MaxClock,
         Gossip!Publish("self", r, l, t)
  PROVE  Gossip!Next
<1>1. "self" \in Peers
  BY DEF Peers
<1> QED
  BY <1>1 DEF Gossip!Next

\* A fragment that goes out joins the others; the last one, or the first that
\* is refused, makes them all the one publication of RustGossip.
LEMMA PublishFragmentAside ==
  ASSUME NEW refuse \in BOOLEAN, IInv, FragmentsInv, PublishFragment(refuse)
  PROVE  FragmentsInv' /\ [Publication /\ Gossip!Next]_(Gossip!vars)
<1> DEFINE p == Payload(current, chunk)
<1>1. /\ loop = "publishing" /\ current \in taken /\ current \in Request
      /\ chunk \in Nat /\ chunk < Chunks /\ sent[current] = chunk /\ BufferLen(current) >= 8
      /\ UNCHANGED <<size, ticket, current, stamp, taken>>
  BY DEF PublishFragment, IInv, LoopInv, TypeOK, handlerVars
<1>2. BufferLen(current) \in Nat
  BY <1>1, QuotientInNat DEF BufferLen, IInv, TypeOK
<1>3. \A q : BufferLen(q)' = BufferLen(q) /\ \A c : Payload(q, c)' = Payload(q, c)
  BY <1>1 DEF BufferLen, Payload
<1>4. \/ /\ p \notin cache /\ cache' = cache \cup {p}
         /\ sent' = [sent EXCEPT ![current] = @ + 1]
         /\ chunk' = chunk + 1
         /\ loop' = IF chunk' = Chunks THEN "replying" ELSE "publishing"
      \/ /\ loop' = "replying"
         /\ UNCHANGED <<chunk, sent, cache>>
  BY DEF PublishFragment
<1>5. /\ Underway = {Payload(current, c) : c \in 0..(chunk - 1)}
      /\ Underway \subseteq cache
      /\ \A c \in 0..(chunk - 1) : \A d \in 0..(c - 1) : Payload(current, d) # Payload(current, c)
  BY <1>1 DEF Underway, FragmentsInv
<1>6. FragmentsInv'
  <2>1. \A q \in taken' : stamp'[q] \in 1..MaxClock
    BY <1>1 DEF FragmentsInv
  <2>2. ASSUME loop' = "publishing", NEW c \in 0..(chunk' - 1)
        PROVE  /\ Payload(current, c)' \in cache'
               /\ \A d \in 0..(c - 1) : Payload(current, d)' # Payload(current, c)'
    <3>1. p \notin cache /\ cache' = cache \cup {p} /\ chunk' = chunk + 1
      BY <1>4, <2>2
    <3>2. CASE c = chunk
      <4>1. \A d \in 0..(c - 1) : Payload(current, d) \in cache
        BY <1>5, <3>2
      <4> QED
        BY <1>1, <1>3, <3>1, <3>2, <4>1
    <3>3. CASE c # chunk
      <4>1. c \in 0..(chunk - 1)
        BY <1>1, <2>2, <3>1, <3>3
      <4> QED
        BY <1>1, <1>3, <1>5, <3>1, <4>1
    <3> QED
      BY <3>2, <3>3
  <2> QED
    BY <1>1, <1>3, <2>1, <2>2 DEF FragmentsInv
<1>7. CASE loop' = "publishing"
  <2>1. p \notin cache /\ cache' = cache \cup {p} /\ chunk' = chunk + 1
        /\ sent' = [sent EXCEPT ![current] = @ + 1]
    BY <1>4, <1>7
  <2>2. Underway' = Underway \cup {p}
    <3>1. 0..(chunk' - 1) = 0..(chunk - 1) \cup {chunk}
      BY <1>1, <2>1
    <3>2. Underway' = {Payload(current, c) : c \in 0..(chunk' - 1)}
      BY <1>1, <1>3, <1>7 DEF Underway
    <3> QED
      BY <1>5, <3>1, <3>2
  <2>3. (cache \ Underway)' = cache \ Underway
    BY <2>1, <2>2
  <2>4. Published' = Published /\ current \notin Published
    BY <1>1, <1>3, <1>7 DEF Published
  <2>5. \A q \in Published : sent'[q] = sent[q]
    BY <2>1, <2>4 DEF Published, IInv, TypeOK
  <2> QED
    BY <1>1, <1>3, <1>6, <2>3, <2>4, <2>5, GossipStutters
<1>8. CASE loop' = "replying"
  <2>1. PICK k \in 0..Chunks :
          /\ cache' = (cache \ Underway) \cup {Payload(current, c) : c \in 0..(k - 1)}
          /\ sent'[current] = k
          /\ \A q \in Request \ {current} : sent'[q] = sent[q]
          /\ \A c \in 0..(k - 1) :
               /\ Payload(current, c) \notin cache \ Underway
               /\ \A d \in 0..(c - 1) : Payload(current, d) # Payload(current, c)
    <3>1. CASE UNCHANGED <<chunk, sent, cache>>
      <4>1. chunk \in 0..Chunks
        BY <1>1
      <4> QED
        BY <1>1, <1>5, <3>1, <4>1
    <3>2. CASE p \notin cache /\ cache' = cache \cup {p} /\ sent' = [sent EXCEPT ![current] = @ + 1]
      <4>1. chunk + 1 \in 0..Chunks /\ 0..((chunk + 1) - 1) = 0..(chunk - 1) \cup {chunk}
        BY <1>1
      <4>2. sent'[current] = chunk + 1 /\ \A q \in Request \ {current} : sent'[q] = sent[q]
        BY <1>1, <3>2 DEF IInv, TypeOK
      <4>3. cache' = (cache \ Underway) \cup {Payload(current, c) : c \in 0..((chunk + 1) - 1)}
        BY <1>5, <3>2, <4>1
      <4>4. ASSUME NEW c \in 0..((chunk + 1) - 1)
            PROVE  /\ Payload(current, c) \notin cache \ Underway
                   /\ \A d \in 0..(c - 1) : Payload(current, d) # Payload(current, c)
        <5>1. CASE c = chunk
          <6>1. \A d \in 0..(c - 1) : Payload(current, d) \in cache
            BY <1>5, <5>1
          <6> QED
            BY <3>2, <5>1, <6>1
        <5>2. CASE c \in 0..(chunk - 1)
          BY <1>5, <5>2
        <5> QED
          BY <4>1, <5>1, <5>2
      <4> QED
        BY <4>1, <4>2, <4>3, <4>4
    <3> QED
      BY <1>4, <1>8, <3>1, <3>2
  <2>2. Underway' = {} /\ Published' = Published \cup {current} /\ current \notin Published
    BY <1>1, <1>3, <1>8 DEF Underway, Published
  <2>3. /\ BufferLen(current) \in {s \div Chunks : s \in Sizes} \ 0..7
        /\ stamp[current] \in 1..MaxClock
    <3>1. ticket[current] # 0
      BY <1>1 DEF IInv, PlaceInv
    <3>2. size[current] \in Sizes /\ stamp[current] \in 1..MaxClock
      BY <1>1, <3>1 DEF FragmentsInv
    <3>3. BufferLen(current) \in {s \div Chunks : s \in Sizes}
      BY <3>2 DEF BufferLen
    <3> QED
      BY <1>1, <1>2, <3>2, <3>3
  <2>4. PICK q \in Request : q = current
    BY <1>1
  <2>5. PICK l \in {s \div Chunks : s \in Sizes} \ 0..7 : l = BufferLen(current)
    BY <2>3
  <2>6. PICK t \in 1..MaxClock : t = stamp[current]
    BY <2>3
  <2>7. Gossip!Publish("self", q, l, t) /\ Publication
    <3> DEFINE Sent == {Gossip!Payload(t, l, c) : c \in 0..(k - 1)}
               known == cache \ Underway
    <3>1. \A c : Gossip!Payload(t, l, c) = Payload(current, c)
      BY <2>5, <2>6 DEF Gossip!Payload, Payload
    <3>2. /\ cache' = known \cup Sent
          /\ (cache \ Underway)' = known \cup Sent
      BY <2>1, <2>2, <3>1
    <3>3. k \in Gossip!Accepted("self", t, l)
      BY <2>1, <3>1 DEF Gossip!Accepted, Gossip!ChunksTried, Peers
    <3>4. [o \in Request |-> IF o \in Published THEN "self" ELSE "none"]'
            = [[o \in Request |-> IF o \in Published THEN "self" ELSE "none"]
                 EXCEPT ![q] = "self"]
      BY <1>1, <2>2, <2>4, <2>5, <2>6
    <3>5. [o \in Request |-> IF o \in Published THEN stamp[o] ELSE 0]'
            = [[o \in Request |-> IF o \in Published THEN stamp[o] ELSE 0]
                 EXCEPT ![q] = t]
      BY <1>1, <2>2, <2>4, <2>5, <2>6
    <3>6. [o \in Request |-> IF o \in Published THEN BufferLen(o) ELSE 0]'
            = [[o \in Request |-> IF o \in Published THEN BufferLen(o) ELSE 0]
                 EXCEPT ![q] = l]
      BY <1>1, <1>3, <2>2, <2>4, <2>5
    <3>7. [o \in Request |-> IF o \in Published THEN sent[o] ELSE 0]'
            = [[o \in Request |-> IF o \in Published THEN sent[o] ELSE 0]
                 EXCEPT ![q] = k]
      BY <1>1, <2>1, <2>2, <2>4
    <3>8. [n \in Peers |-> IF n = "self" THEN cache \ Underway ELSE {}]'
            = [[n \in Peers |-> IF n = "self" THEN known ELSE {}]
                 EXCEPT !["self"] = @ \cup Sent]
      BY <3>2 DEF Peers
    <3>9. [n \in Peers |-> IF n = "other" THEN cache \ Underway ELSE {}]'
            = [m \in Peers |->
                 IF m = "self" THEN [n \in Peers |-> IF n = "other" THEN known ELSE {}][m]
                 ELSE [n \in Peers |-> IF n = "other" THEN known ELSE {}][m]
                        \cup (Sent \ [n \in Peers |-> IF n = "self" THEN known ELSE {}][m])]
      BY <3>2 DEF Peers
    <3>10. Gossip!Publish("self", q, l, t)
      BY <1>1, <2>2, <2>4, <2>5, <2>6, <3>3, <3>4, <3>5, <3>6, <3>7, <3>8, <3>9
      DEF Gossip!Publish, Phases, Peers
    <3>11. \A c : Gossip!Payload(stamp[current], BufferLen(current), c) = Payload(current, c)
      BY DEF Gossip!Payload, Payload
    <3>12. k \in Gossip!Accepted("self", stamp[current], BufferLen(current))
      BY <2>1, <3>11 DEF Gossip!Accepted, Gossip!ChunksTried, Peers
    <3>14. /\ [o \in Request |-> IF o \in Published THEN "self" ELSE "none"]'
               = [[o \in Request |-> IF o \in Published THEN "self" ELSE "none"]
                    EXCEPT ![current] = "self"]
           /\ [o \in Request |-> IF o \in Published THEN stamp[o] ELSE 0]'
               = [[o \in Request |-> IF o \in Published THEN stamp[o] ELSE 0]
                    EXCEPT ![current] = stamp[current]]
           /\ [o \in Request |-> IF o \in Published THEN BufferLen(o) ELSE 0]'
               = [[o \in Request |-> IF o \in Published THEN BufferLen(o) ELSE 0]
                    EXCEPT ![current] = BufferLen(current)]
           /\ [o \in Request |-> IF o \in Published THEN sent[o] ELSE 0]'
               = [[o \in Request |-> IF o \in Published THEN sent[o] ELSE 0]
                    EXCEPT ![current] = k]
      BY <2>4, <2>5, <2>6, <3>4, <3>5, <3>6, <3>7
    <3> DEFINE Out == {Gossip!Payload(stamp[current], BufferLen(current), c) : c \in 0..(k - 1)}
    <3>15. (cache \ Underway)' = known \cup Out
      BY <2>1, <2>2, <3>11
    <3>16. [n \in Peers |-> IF n = "self" THEN cache \ Underway ELSE {}]'
             = [[n \in Peers |-> IF n = "self" THEN known ELSE {}] EXCEPT !["self"] = @ \cup Out]
      BY <3>15 DEF Peers
    <3>17. [n \in Peers |-> IF n = "other" THEN cache \ Underway ELSE {}]'
             = [m \in Peers |->
                  IF m = "self" THEN [n \in Peers |-> IF n = "other" THEN known ELSE {}][m]
                  ELSE [n \in Peers |-> IF n = "other" THEN known ELSE {}][m]
                         \cup (Out \ [n \in Peers |-> IF n = "self" THEN known ELSE {}][m])]
      BY <3>15 DEF Peers
    <3>18. Publication
      BY <1>1, <2>2, <3>12, <3>14, <3>16, <3>17 DEF Publication, Gossip!Publish, Phases, Peers
    <3> QED
      BY <3>10, <3>18
  <2>8. Gossip!Next
    BY <2>7, OnePublication
  <2> QED
    BY <1>6, <2>7, <2>8
<1> QED
  BY <1>4, <1>6, <1>7, <1>8

\* Every step of the bridge is one publication of RustGossip, or none.
LEMMA StepPublishes ==
  ASSUME IInv, FragmentsInv, [Next]_vars
  PROVE  FragmentsInv' /\ [Publication /\ Gossip!Next]_(Gossip!vars)
<1>1. ASSUME NEW r \in Request, NEW s \in Sizes, Arrive(r, s)
      PROVE  FragmentsInv' /\ UNCHANGED Gossip!vars
  <2>1. /\ handler[r] = "new" /\ size' = [size EXCEPT ![r] = s] /\ UNCHANGED loopVars
        /\ ticket' = [ticket EXCEPT ![r] = arrivals + 1]
    BY <1>1 DEF Arrive
  <2>2. r \notin taken /\ taken \subseteq Request
    BY <2>1 DEF IInv, PlaceInv, TypeOK
  <2>3. \A q \in taken : size'[q] = size[q]
    BY <2>1, <2>2 DEF IInv, TypeOK
  <2>4. \A q \in Request : ticket'[q] # 0 => size'[q] \in Sizes
    BY <2>1 DEF IInv, TypeOK, FragmentsInv
  <2> QED
    BY <2>1, <2>3, <2>4, HandlersAside
<1>2. CASE UNCHANGED <<size, ticket, loopVars>>
  BY <1>2, HandlersAside DEF FragmentsInv
<1>3. CASE Receive
  BY <1>3, ReceiveAside
<1>4. CASE Panic
  BY <1>4, PanicAside
<1>5. CASE Exit \/ Reply \/ Count
  <2>1. /\ loop # "publishing" /\ loop' # "publishing"
        /\ UNCHANGED <<size, ticket, stamp, sent, cache, taken>>
    BY <1>5 DEF Exit, Reply, Count, handlerVars
  <2> QED
    BY <2>1, BetweenPublications
<1>6. ASSUME NEW refuse \in BOOLEAN, PublishFragment(refuse)
      PROVE  FragmentsInv' /\ [Publication /\ Gossip!Next]_(Gossip!vars)
  BY <1>6, PublishFragmentAside
<1>7. ASSUME NEW r \in Request, Send(r) \/ SendFails(r) \/ Answer(r) \/ Disconnect(r)
      PROVE  UNCHANGED <<size, ticket, loopVars>>
  BY <1>7 DEF Send, SendFails, Answer, Disconnect
<1>8. Quiescent \/ UNCHANGED vars => UNCHANGED <<size, ticket, loopVars>>
  BY DEF Quiescent, vars, handlerVars
<1> QED
  BY <1>1, <1>2, <1>3, <1>4, <1>5, <1>6, <1>7, <1>8 DEF Next

\* Nothing is out at first.
LEMMA FragmentsAtFirst == Init => FragmentsInv
<1> SUFFICES ASSUME Init PROVE FragmentsInv
  OBVIOUS
<1> QED
  BY DEF Init, FragmentsInv

\* What goes out fragment by fragment, while requests arrive and clients leave,
\* is for the network the one step RustGossip takes for a publication: the
\* fragments up to the first error, at all nodes, none of them a duplicate, and
\* none of it undone or repeated (main.rs:105-139).  This holds whatever the
\* number of fragments, the sizes and the times the clock shows.
THEOREM PublishesWhole == Spec => PublishesAtOnce
<1>1. Init => FragmentsInv
  BY FragmentsAtFirst
<1>2. IInv /\ FragmentsInv /\ [Next]_vars => FragmentsInv' /\ [Publication]_(Gossip!vars)
  BY StepPublishes
<1> QED
  BY <1>1, <1>2, Invariance, PTL DEF Spec, PublishesAtOnce

\* The publication is one RustGossip allows: its message, its length and its time
\* are among those of the network, so every step of the bridge is a step of
\* RustGossip or none.
THEOREM StepsOfGossip == Spec => [][Gossip!Next]_(Gossip!vars)
<1>1. Init => FragmentsInv
  BY FragmentsAtFirst
<1>2. IInv /\ FragmentsInv /\ [Next]_vars => FragmentsInv' /\ [Gossip!Next]_(Gossip!vars)
  BY StepPublishes
<1> QED
  BY <1>1, <1>2, Invariance, PTL DEF Spec
=============================================================================
