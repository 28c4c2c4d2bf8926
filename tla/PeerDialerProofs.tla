-------------------------- MODULE PeerDialerProofs --------------------------
(***************************************************************************)
(* Proofs that a node of PeerDialer dials to its target, and serves or     *)
(* ends for the right reason, in every network, for every target and       *)
(* number of attempts, whatever names and peers do.                        *)
(***************************************************************************)
EXTENDS PeerDialer, FiniteSetTheorems, TLAPS

\* The addresses found are those dialled and those still to dial, and a dial is
\* counted once at most: what TypeOK and the two properties need to be
\* inductive.
DialInv ==
  /\ connected <= Cardinality(dialled)
  /\ dialled \cap addrs = {}
  /\ found = dialled \cup addrs
  /\ phase \in {"starting", "waiting", "resolving"} => dialled = {}
  /\ phase \in {"starting", "waiting"} => found = {}

IInv ==
  /\ TypeOK
  /\ DialInv
  /\ DialsToTarget
  /\ ServesConnected

-----------------------------------------------------------------------------

\* The network has as many nodes as PEERS says, and a node dials no more
\* addresses than there are.
LEMMA NetworkSizeFacts ==
  /\ NetworkSize \in Nat
  /\ IsFiniteSet(Peer \cup {Self})
  /\ Cardinality(Peer \cup {Self}) = NetworkSize
<1>1. /\ IsFiniteSet(Peer \cup {Self})
      /\ Cardinality(Peer \cup {Self}) = Cardinality(Peer) + 1
  BY FS_AddElement, DialerAssumption
<1>2. Cardinality(Peer) \in Nat
  BY FS_CardinalityType, DialerAssumption
<1> QED
  BY <1>1, <1>2 DEF NetworkSize

LEMMA InitHolds ==
  ASSUME Init
  PROVE  IInv
<1>1. Cardinality({}) = 0
  BY FS_EmptySet
<1>2. TypeOK
  BY DialerAssumption, NetworkSizeFacts DEF Init, TypeOK
<1>3. DialInv
  BY <1>1 DEF Init, DialInv
<1>4. DialsToTarget /\ ServesConnected
  BY DialerAssumption DEF Init, DialsToTarget, ServesConnected
<1> QED
  BY <1>2, <1>3, <1>4 DEF IInv

\* The steps before the first dial.
LEMMA LookupPreserves ==
  ASSUME IInv,
         \/ Start
         \/ \E S \in SUBSET Peer \cup {{Service}} : BeginResolving(S)
         \/ \E a \in names : LookupFails(a)
         \/ \E a \in names, S \in SUBSET (Peer \cup {Self}) : LookupAnswers(a, S)
         \/ BeginDialling
  PROVE  IInv'
<1> USE DEF IInv
<1>1. CASE Start
  <2>1. TypeOK'
    BY <1>1 DEF Start, TypeOK, config
  <2>2. DialInv'
    BY <1>1 DEF Start, DialInv, config
  <2>3. DialsToTarget'
    BY <1>1 DEF Start, DialsToTarget, DialInv, config
  <2>4. ServesConnected'
    BY <1>1, NetworkSizeFacts DEF Start, Refused, ServesConnected, TypeOK, config, NetworkSize
  <2> QED
    BY <2>1, <2>2, <2>3, <2>4
<1>2. ASSUME NEW S \in SUBSET Peer \cup {{Service}}, BeginResolving(S)
      PROVE  IInv'
  <2>1. TypeOK'
    BY <1>2 DEF BeginResolving, TypeOK, config
  <2>2. DialInv'
    BY <1>2 DEF BeginResolving, DialInv, config
  <2>3. DialsToTarget' /\ ServesConnected'
    BY <1>2 DEF BeginResolving, DialsToTarget, ServesConnected, config
  <2> QED
    BY <2>1, <2>2, <2>3
<1>3. ASSUME NEW a \in names, LookupFails(a)
      PROVE  IInv'
  <2>1. TypeOK'
    <3>1. misses' \in 0..(Attempts - 1)
      BY <1>3, DialerAssumption DEF LookupFails, GivesUp, TypeOK
    <3> QED
      BY <1>3, <3>1 DEF LookupFails, TypeOK, config
  <2>2. DialInv'
    BY <1>3 DEF LookupFails, DialInv, config
  <2>3. DialsToTarget' /\ ServesConnected'
    BY <1>3 DEF LookupFails, DialsToTarget, ServesConnected, config
  <2> QED
    BY <2>1, <2>2, <2>3
<1>4. ASSUME NEW a \in names, NEW S \in SUBSET (Peer \cup {Self}), LookupAnswers(a, S)
      PROVE  IInv'
  <2>1. TypeOK'
    BY <1>4, DialerAssumption DEF LookupAnswers, TypeOK, config
  <2>2. DialInv'
    BY <1>4 DEF LookupAnswers, DialInv, config
  <2>3. DialsToTarget' /\ ServesConnected'
    BY <1>4 DEF LookupAnswers, DialsToTarget, ServesConnected, config
  <2> QED
    BY <2>1, <2>2, <2>3
<1>5. CASE BeginDialling
  <2>1. TypeOK'
    BY <1>5 DEF BeginDialling, TypeOK, config
  <2>2. DialInv'
    BY <1>5 DEF BeginDialling, DialInv, config
  <2>3. DialsToTarget' /\ ServesConnected'
    BY <1>5 DEF BeginDialling, DialsToTarget, ServesConnected, config
  <2> QED
    BY <2>1, <2>2, <2>3
<1> QED
  BY <1>1, <1>2, <1>3, <1>4, <1>5

\* A dial moves an address from those to dial to those dialled, and counts
\* only while the loop has not had enough.
LEMMA DialPreserves ==
  ASSUME IInv, NEW p \in addrs, NEW counts \in BOOLEAN, Dial(p, counts)
  PROVE  IInv'
<1> USE DEF IInv
<1>1. /\ phase' = phase /\ phase = "dialling"
      /\ UNCHANGED <<config, names, misses, found, known, up>>
      /\ addrs' = addrs \ {p}
      /\ dialled' = dialled \cup {p}
      /\ connected' \in {connected, connected + 1}
  BY DEF Dial
<1>2. /\ IsFiniteSet(dialled)
      /\ Cardinality(dialled) \in Nat
      /\ Cardinality(dialled') = Cardinality(dialled) + 1
  <2>1. dialled \subseteq Peer \cup {Self}
    BY DEF TypeOK
  <2>2. IsFiniteSet(dialled)
    BY <2>1, NetworkSizeFacts, FS_Subset
  <2>3. p \notin dialled
    BY DEF DialInv
  <2> QED
    BY <1>1, <2>2, <2>3, FS_AddElement, FS_CardinalityType
<1>3. DialInv'
  BY <1>1, <1>2 DEF DialInv, TypeOK
<1>4. TypeOK'
  <2>1. dialled' \subseteq Peer \cup {Self}
    BY <1>1 DEF TypeOK
  <2>2. Cardinality(dialled') <= NetworkSize
    BY <2>1, NetworkSizeFacts, FS_Subset
  <2>3. connected' \in 0..NetworkSize
    BY <1>1, <1>2, <1>3, <2>2, NetworkSizeFacts DEF TypeOK, DialInv
  <2> QED
    BY <1>1, <2>1, <2>3 DEF TypeOK, config
<1>5. DialsToTarget'
  <2>1. target \in Nat /\ connected \in Nat
    BY DialerAssumption, NetworkSizeFacts DEF TypeOK
  <2> QED
    BY <1>1, <2>1 DEF Dial, Enough, DialsToTarget, config
<1>6. ServesConnected'
  BY <1>1 DEF ServesConnected
<1> QED
  BY <1>3, <1>4, <1>5, <1>6

\* The loop ends because it has had enough or because nothing is left to dial;
\* then the node serves, waits in its window, or ends for want of a connection.
LEMMA StopPreserves ==
  ASSUME IInv, StopDialling \/ EndWindow
  PROVE  IInv'
<1> USE DEF IInv
<1>1. /\ phase \in {"dialling", "window"}
      /\ phase' \in {"window", "serving", "ended"}
      /\ phase' = "serving" => ~EndsAlone
      /\ phase' = "ended" => EndsAlone
      /\ UNCHANGED <<config, names, misses, addrs, connected, dialled, found, known, up>>
  BY DEF StopDialling, EndWindow
<1>2. /\ target \in Nat /\ connected \in Nat
      /\ connected < target => ~Enough
  BY DialerAssumption, NetworkSizeFacts DEF TypeOK, Enough
<1>3. connected < target => dialled = found
  BY <1>2 DEF StopDialling, EndWindow, DialInv, DialsToTarget
<1>4. TypeOK'
  BY <1>1 DEF TypeOK, config
<1>5. DialInv'
  BY <1>1 DEF DialInv
<1>6. DialsToTarget'
  BY <1>1, <1>3 DEF DialsToTarget, config
<1>7. ServesConnected'
  BY <1>1, <1>2, <1>3 DEF ServesConnected, EndsAlone, config
<1> QED
  BY <1>4, <1>5, <1>6, <1>7

\* Names and peers change nothing that the node has done.
LEMMA SurroundingsPreserve ==
  ASSUME IInv, NamesChange \/ PeersChange \/ UNCHANGED vars
  PROVE  IInv'
<1> USE DEF IInv
<1>1. UNCHANGED <<config, nodeVars>>
  BY DEF NamesChange, PeersChange, vars
<1>2. known' \subseteq Peer \cup {Service} /\ up' \subseteq Peer
  BY DEF NamesChange, PeersChange, vars, TypeOK
<1>3. TypeOK'
  BY <1>1, <1>2 DEF TypeOK, config, nodeVars
<1>4. DialInv' /\ DialsToTarget' /\ ServesConnected'
  BY <1>1 DEF DialInv, DialsToTarget, ServesConnected, config, nodeVars
<1> QED
  BY <1>3, <1>4

-----------------------------------------------------------------------------

\* The inductive invariant holds of every behaviour: in particular every count
\* stands for an address of its own.
THEOREM Invariance == Spec => []IInv
<1>1. Init => IInv
  BY InitHolds
<1>2. IInv /\ [Next]_vars => IInv'
  BY LookupPreserves, DialPreserves, StopPreserves, SurroundingsPreserve DEF Next
<1> QED
  BY <1>1, <1>2, PTL DEF Spec

\* The variables keep their types: no node counts more connections than the
\* network has addresses, and none tries a name more often than it may.
THEOREM TypeCorrect == Spec => []TypeOK
<1>1. IInv => TypeOK
  BY DEF IInv
<1> QED
  BY <1>1, Invariance, PTL

\* A node counts one connection more than its target at most, and falls short
\* of it only when it has dialled all it found (main.rs:336-354, main.go:319,
\* main.nim:420-431).
THEOREM DialsAsTold == Spec => []DialsToTarget
<1>1. IInv => DialsToTarget
  BY DEF IInv
<1> QED
  BY <1>1, Invariance, PTL

\* A Rust or Nim node serves only with a connection counted, and ends alone
\* only after it has dialled all it found (main.rs:381-388, main.nim:432-437).
THEOREM ServesForAReason == Spec => []ServesConnected
<1>1. IInv => ServesConnected
  BY DEF IInv
<1> QED
  BY <1>1, Invariance, PTL
=============================================================================
