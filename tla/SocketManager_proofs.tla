------------------------- MODULE SocketManager_proofs -------------------------
(***************************************************************************)
(* Proofs about SocketManager for every value of its constants: the types *)
(* and the exactness of the reference counts.                             *)
(***************************************************************************)
EXTENDS SocketManager, FiniteSetTheorems, TLAPS

USE SocketManagerAssumption

(* Each operation keeps the types; the server model cites these for the  *)
(* SocketManager steps its own actions take.                              *)
LEMMA GetSocketTyped ==
    ASSUME TypeOK, NEW h \in Holders, NEW p \in Ports, GetSocket(h, p)
    PROVE  TypeOK'
BY DEF GetSocket, TypeOK, Entry, Stamp

LEMMA ReleaseSocketTyped ==
    ASSUME TypeOK, NEW h \in Holders, ReleaseSocket(h)
    PROVE  TypeOK'
<1>1. PICK p \in Ports : p = held[h]
  BY DEF ReleaseSocket, TypeOK
<1>2. held' \in [Holders -> Ports \cup {None}]
  BY DEF ReleaseSocket, TypeOK
<1>3. CASE p \notin DOMAIN sockets
  BY <1>1, <1>2, <1>3 DEF ReleaseSocket, TypeOK
<1>4. CASE p \in DOMAIN sockets
  <2>1. cleanup_tasks' \in [Ports \X Sleep -> Nat]
    BY <1>1, <1>4 DEF ReleaseSocket, TypeOK, Sleep
  <2>3. \/ sockets' = [sockets EXCEPT ![p] = [timestamp |-> 0, refs |-> 0]]
        \/ /\ sockets[p].refs - 1 > 0
           /\ sockets' = [sockets EXCEPT ![p] =
                            [timestamp |-> Unstamped, refs |-> sockets[p].refs - 1]]
    BY <1>1, <1>4 DEF ReleaseSocket
  <2>2. DOMAIN sockets' = DOMAIN sockets
        /\ \A q \in DOMAIN sockets' : sockets'[q] \in Entry
    BY <1>4, <2>3 DEF TypeOK, Entry, Stamp
  <2>. QED
    BY <1>2, <2>1, <2>2 DEF TypeOK
<1>. QED
  BY <1>3, <1>4

LEMMA CleanupSocketTyped ==
    ASSUME TypeOK, NEW p \in Ports, CleanupSocket(p)
    PROVE  TypeOK'
<1>1. cleanup_tasks' \in [Ports \X Sleep -> Nat]
  BY DEF CleanupSocket, TypeOK, Sleep
<1>2. DOMAIN sockets' \subseteq Ports /\ \A q \in DOMAIN sockets' : sockets'[q] \in Entry
  BY DEF CleanupSocket, TypeOK, Restrict
<1>. QED
  BY <1>1, <1>2 DEF CleanupSocket, TypeOK

LEMMA CloseAllTyped ==
    ASSUME TypeOK, CloseAll, UNCHANGED held
    PROVE  TypeOK'
BY DEF CloseAll, TypeOK

LEMMA TickTyped ==
    ASSUME TypeOK, Tick
    PROVE  TypeOK'
<1>1. cleanup_tasks' \in [Ports \X Sleep -> Nat]
  <2>1. ASSUME NEW x \in Ports \X Sleep PROVE cleanup_tasks'[x] \in Nat
    <3>1. PICK q \in Ports, l \in Sleep : x = <<q, l>>
      OBVIOUS
    <3>2. l # Grace /\ l # 0 => <<q, l + 1>> \in Ports \X Sleep
      BY DEF Sleep
    <3>3. <<q, 0>> \in Ports \X Sleep /\ <<q, 1>> \in Ports \X Sleep
      BY DEF Sleep
    <3>. QED
      BY <3>1, <3>2, <3>3 DEF Tick, TypeOK
  <2>. QED
    BY <2>1 DEF Tick
<1>2. \A ts \in Stamp : Age(ts) \in Stamp
  BY DEF Age, Stamp, Unstamped
<1>. QED
  BY <1>1, <1>2 DEF Tick, TypeOK, Entry

(* Every step keeps the types.                                            *)
LEMMA TypeStep == TypeOK /\ [Next]_vars => TypeOK'
<1> SUFFICES ASSUME TypeOK, [Next]_vars PROVE TypeOK'
  OBVIOUS
<1>1. CASE \E h \in Holders, p \in Ports : GetSocket(h, p)
  BY <1>1, GetSocketTyped
<1>2. CASE \E h \in Holders : ReleaseSocket(h)
  BY <1>2, ReleaseSocketTyped
<1>3. CASE \E p \in Ports : CleanupSocket(p)
  BY <1>3, CleanupSocketTyped
<1>4. CASE Close
  BY <1>4, CloseAllTyped DEF Close
<1>5. CASE Tick
  BY <1>5, TickTyped
<1>6. CASE UNCHANGED vars
  BY <1>6 DEF vars, TypeOK
<1>7. QED
  BY <1>1, <1>2, <1>3, <1>4, <1>5, <1>6 DEF Next

(* Type correctness of the socket map, the cleanup-task bag and holders.   *)
THEOREM TypeCorrect == Spec => []TypeOK
<1>1. Init => TypeOK
  BY DEF Init, TypeOK
<1>2. QED
  BY <1>1, TypeStep, PTL DEF Spec

-----------------------------------------------------------------------------
(* HoldersOf(p) is a finite set, so the counting lemmas apply to it.      *)
LEMMA HoldersOfFinite ==
    ASSUME NEW p
    PROVE  IsFiniteSet(HoldersOf(p)) /\ IsFiniteSet(HoldersOf(p)')
<1>1. HoldersOf(p) \in SUBSET Holders /\ HoldersOf(p)' \in SUBSET Holders
  BY DEF HoldersOf
<1>2. QED
  BY <1>1, FS_Subset

(* Holder h moving to v joins HoldersOf(v) and leaves every other set.   *)
LEMMA HoldersMove ==
    ASSUME TypeOK, NEW h \in Holders, NEW v, held' = [held EXCEPT ![h] = v],
           NEW q
    PROVE  HoldersOf(q)' = IF q = v THEN HoldersOf(q) \cup {h} ELSE HoldersOf(q) \ {h}
<1>1. \A g \in Holders : held'[g] = IF g = h THEN v ELSE held[g]
  BY DEF TypeOK
<1>2. QED
  BY <1>1 DEF HoldersOf

LEMMA HoldersStay ==
    ASSUME held' = held, NEW q
    PROVE  HoldersOf(q)' = HoldersOf(q)
BY DEF HoldersOf

(* Exact counts with the types: the states the step lemmas start from.  *)
IInv == TypeOK /\ RefCountExact

(* From a correctly counted state, every step but a close() while sockets *)
(* are held keeps the counts exact.                                       *)
LEMMA ExactStep ==
    ASSUME IInv, [Next]_vars, ~CloseWhileHeld
    PROVE  RefCountExact'
<1> USE DEF IInv
<1>1. ASSUME NEW h \in Holders, NEW p \in Ports, GetSocket(h, p) PROVE RefCountExact'
  <2>0. held' = [held EXCEPT ![h] = p]
    BY <1>1 DEF GetSocket
  <2>1. h \notin HoldersOf(p)
    BY <1>1 DEF GetSocket, HoldersOf
  <2>2. Cardinality(HoldersOf(p)') = Cardinality(HoldersOf(p)) + 1
    <3>1. HoldersOf(p)' = HoldersOf(p) \cup {h}
      BY <2>0, HoldersMove
    <3>2. QED
      BY <2>1, <3>1, HoldersOfFinite, FS_AddElement
  <2>3. ASSUME NEW q \in Ports, q # p PROVE HoldersOf(q)' = HoldersOf(q)
    <3>1. HoldersOf(q)' = HoldersOf(q) \ {h}
      BY <2>0, <2>3, HoldersMove
    <3>2. h \notin HoldersOf(q)
      BY <1>1 DEF GetSocket, HoldersOf
    <3>3. QED
      BY <3>1, <3>2
  <2>4. \A g \in Holders : held'[g] # None => held'[g] \in DOMAIN sockets'
    BY <1>1 DEF GetSocket, RefCountExact, TypeOK
  <2>5. CASE p \in DOMAIN sockets
    <3>1. sockets'[p].refs = Cardinality(HoldersOf(p)')
      BY <1>1, <2>2, <2>5 DEF GetSocket, RefCountExact, TypeOK, Entry
    <3>2. \A q \in DOMAIN sockets' \ {p} : sockets'[q].refs = Cardinality(HoldersOf(q)')
      BY <1>1, <2>3, <2>5 DEF GetSocket, RefCountExact, TypeOK
    <3>3. QED
      BY <2>4, <3>1, <3>2 DEF RefCountExact
  <2>6. CASE p \notin DOMAIN sockets
    <3>1. HoldersOf(p) = {}
      BY <2>6 DEF RefCountExact, HoldersOf, TypeOK
    <3>2. sockets'[p].refs = Cardinality(HoldersOf(p)')
      BY <1>1, <2>2, <2>6, <3>1, FS_EmptySet DEF GetSocket
    <3>3. \A q \in DOMAIN sockets' \ {p} : sockets'[q].refs = Cardinality(HoldersOf(q)')
      BY <1>1, <2>3, <2>6 DEF GetSocket, RefCountExact, TypeOK
    <3>4. QED
      BY <2>4, <3>2, <3>3 DEF RefCountExact
  <2>7. QED
    BY <2>5, <2>6
<1>2. ASSUME NEW h \in Holders, ReleaseSocket(h) PROVE RefCountExact'
  <2>0. PICK p \in Ports \cup {None} : p = held[h]
    BY DEF TypeOK
  <2>1. p \in Ports /\ p \in DOMAIN sockets /\ h \in HoldersOf(p)
    BY <1>2, <2>0 DEF ReleaseSocket, RefCountExact, TypeOK, HoldersOf
  <2>2. held' = [held EXCEPT ![h] = None]
    BY <1>2, <2>0 DEF ReleaseSocket
  <2>3. Cardinality(HoldersOf(p)') = Cardinality(HoldersOf(p)) - 1
    <3>1. HoldersOf(p)' = HoldersOf(p) \ {h}
      BY <2>1, <2>2, HoldersMove
    <3>2. QED
      BY <2>1, <3>1, HoldersOfFinite, FS_RemoveElement
  <2>4. ASSUME NEW q \in Ports, q # p PROVE HoldersOf(q)' = HoldersOf(q)
    <3>1. HoldersOf(q)' = HoldersOf(q) \ {h}
      BY <2>1, <2>2, HoldersMove
    <3>2. h \notin HoldersOf(q)
      BY <2>0, <2>4 DEF HoldersOf
    <3>3. QED
      BY <3>1, <3>2
  <2>5. sockets[p].refs = Cardinality(HoldersOf(p))
    BY <2>1 DEF RefCountExact
  <2>6. sockets'[p].refs = Cardinality(HoldersOf(p)') /\ DOMAIN sockets' = DOMAIN sockets
    <3>1. Cardinality(HoldersOf(p)') \in Nat
      BY HoldersOfFinite, FS_CardinalityType
    <3>2. QED
      BY <1>2, <2>0, <2>1, <2>3, <2>5, <3>1 DEF ReleaseSocket, TypeOK, Entry
  <2>7. \A q \in DOMAIN sockets' \ {p} : sockets'[q].refs = Cardinality(HoldersOf(q)')
    BY <1>2, <2>0, <2>1, <2>4 DEF ReleaseSocket, RefCountExact, TypeOK
  <2>8. \A g \in Holders : held'[g] # None => held'[g] \in DOMAIN sockets'
    BY <2>1, <2>2, <2>6 DEF RefCountExact, TypeOK
  <2>9. QED
    BY <2>6, <2>7, <2>8 DEF RefCountExact
<1>3. ASSUME NEW p \in Ports, CleanupSocket(p) PROVE RefCountExact'
  <2>1. CASE p \in DOMAIN sockets /\ InGrace(p)
    <3>1. HoldersOf(p) = {}
      <4>1. Cardinality(HoldersOf(p)) = 0
        BY <2>1 DEF InGrace, RefCountExact
      <4>2. QED
        BY <4>1, HoldersOfFinite, FS_EmptySet
    <3>2. \A g \in Holders : held[g] # p
      BY <3>1 DEF HoldersOf
    <3>3. \A q : HoldersOf(q)' = HoldersOf(q)
      BY <1>3, HoldersStay DEF CleanupSocket
    <3>4. QED
      BY <1>3, <2>1, <3>2, <3>3 DEF CleanupSocket, RefCountExact, Restrict
  <2>2. CASE ~(p \in DOMAIN sockets /\ InGrace(p))
    <3>1. \A q : HoldersOf(q)' = HoldersOf(q)
      BY <1>3, HoldersStay DEF CleanupSocket
    <3>2. QED
      BY <1>3, <2>2, <3>1 DEF CleanupSocket, RefCountExact
  <2>3. QED
    BY <2>1, <2>2
<1>4. ASSUME Close PROVE RefCountExact'
  <2>1. \A h \in Holders : held[h] = None
    BY <1>4 DEF CloseWhileHeld
  <2>. QED
    BY <1>4, <2>1 DEF Close, CloseAll, RefCountExact
<1>5. ASSUME Tick PROVE RefCountExact'
  <2>1. \A q : HoldersOf(q)' = HoldersOf(q)
    BY <1>5 DEF Tick, HoldersOf
  <2>2. QED
    BY <1>5, <2>1 DEF Tick, RefCountExact, TypeOK, Entry
<1>6. ASSUME UNCHANGED vars PROVE RefCountExact'
  <2>1. \A q : HoldersOf(q)' = HoldersOf(q)
    BY <1>6, HoldersStay DEF vars
  <2>2. QED
    BY <1>6, <2>1 DEF vars, RefCountExact
<1>7. QED
  BY <1>1, <1>2, <1>3, <1>4, <1>5, <1>6 DEF Next

(* Reference counts start exact and stay exact through every interleaving *)
(* of get_socket, release_socket, the cleanup tasks and the clock; only a *)
(* close() while sockets are held (serve()'s finally, line 416) breaks    *)
(* them.                                                                   *)
THEOREM RefCountsExact == Spec => RefCountExactKept
<1>1. Init => RefCountExact
  BY DEF Init, RefCountExact
<1>2. TypeOK /\ RefCountExact /\ ~CloseWhileHeld /\ [Next]_vars => RefCountExact'
  BY ExactStep DEF IInv
<1>. QED
  BY <1>1, <1>2, TypeCorrect, PTL DEF Spec, RefCountExactKept
-----------------------------------------------------------------------------
(* Refinement of SocketLifecycle under LifeOf.                            *)

(* An entry's life-cycle state changes only if its entry in _sockets does. *)
LEMMA LifeStay ==
    ASSUME NEW q, q \in DOMAIN sockets <=> q \in DOMAIN sockets',
           q \in DOMAIN sockets => sockets'[q].refs = sockets[q].refs
    PROVE  LifeOf(q)' = LifeOf(q)
BY DEF LifeOf

(* The holder releasing an active socket is its last holder exactly when *)
(* the socket's refs is 1.                                                *)
LEMMA LastHolder ==
    ASSUME IInv, NEW h \in Holders, NEW p \in DOMAIN sockets, held[h] = p
    PROVE  /\ sockets[p].refs >= 1
           /\ (SL!HeldBy(p) = {h}) <=> (sockets[p].refs = 1)
<1>1. h \in HoldersOf(p) /\ SL!HeldBy(p) = HoldersOf(p)
  BY DEF HoldersOf, SL!HeldBy
<1>2. sockets[p].refs = Cardinality(HoldersOf(p))
  BY DEF IInv, RefCountExact
<1>3. HoldersOf(p) # {}
  BY <1>1
<1>4. sockets[p].refs >= 1
  BY <1>2, <1>3, HoldersOfFinite, FS_EmptySet, FS_CardinalityType
<1>5. (HoldersOf(p) = {h}) <=> (Cardinality(HoldersOf(p)) = 1)
  BY <1>1, HoldersOfFinite, FS_Singleton
<1>. QED
  BY <1>1, <1>2, <1>4, <1>5

(* Every SocketManager step is a SocketLifecycle step or leaves it as is. *)
LEMMA LifeStep == IInv /\ [Next]_vars => [SL!Next]_SL!vars
<1> SUFFICES ASSUME IInv, [Next]_vars PROVE [SL!Next]_SL!vars
  OBVIOUS
<1>1. ASSUME NEW h \in Holders, NEW p \in Ports, GetSocket(h, p) PROVE SL!Get(h, p)
  <2>1. LifeOf(p)' = "active"
    BY <1>1 DEF GetSocket, LifeOf, IInv, TypeOK, Entry
  <2>2. \A q \in Ports \ {p} : LifeOf(q)' = LifeOf(q)
    BY <1>1, LifeStay DEF GetSocket
  <2>. QED
    BY <1>1, <2>1, <2>2 DEF SL!Get, GetSocket
<1>2. ASSUME NEW h \in Holders, ReleaseSocket(h) PROVE SL!Release(h)
  <2>1. PICK p \in Ports : p = held[h]
    BY <1>2 DEF ReleaseSocket, IInv, TypeOK
  <2>2. p \in DOMAIN sockets
    BY <1>2, <2>1 DEF ReleaseSocket, IInv, RefCountExact
  <2>3. sockets[p].refs >= 1 /\ ((SL!HeldBy(p) = {h}) <=> (sockets[p].refs = 1))
    BY <2>1, <2>2, LastHolder
  <2>4. LifeOf(p) = "active"
    BY <2>2, <2>3 DEF LifeOf, IInv, TypeOK, Entry
  <2>5. LifeOf(p)' = IF SL!HeldBy(p) = {h} THEN "grace" ELSE "active"
    BY <1>2, <2>1, <2>2, <2>3 DEF ReleaseSocket, LifeOf, IInv, TypeOK, Entry
  <2>6. \A q \in Ports \ {p} : LifeOf(q)' = LifeOf(q)
    BY <1>2, <2>1, <2>2, LifeStay DEF ReleaseSocket
  <2>. QED
    BY <1>2, <2>1, <2>4, <2>5, <2>6 DEF SL!Release, ReleaseSocket
<1>3. ASSUME NEW p \in Ports, CleanupSocket(p) PROVE [SL!Next]_SL!vars
  <2>1. CASE p \in DOMAIN sockets /\ InGrace(p)
    <3>1. LifeOf(p) = "grace" /\ LifeOf(p)' = "absent"
      BY <1>3, <2>1 DEF CleanupSocket, InGrace, LifeOf, Restrict
    <3>2. \A q \in Ports \ {p} : LifeOf(q)' = LifeOf(q)
      BY <1>3, <2>1, LifeStay DEF CleanupSocket, Restrict
    <3>3. SL!Expire(p)
      BY <1>3, <3>1, <3>2 DEF SL!Expire, CleanupSocket
    <3>. QED
      BY <3>3 DEF SL!Next
  <2>2. CASE ~(p \in DOMAIN sockets /\ InGrace(p))
    <3>1. sockets' = sockets /\ held' = held
      BY <1>3, <2>2 DEF CleanupSocket
    <3>. QED
      BY <3>1 DEF SL!vars, LifeOf
  <2>. QED
    BY <2>1, <2>2
<1>4. ASSUME Close PROVE SL!CloseAll
  BY <1>4 DEF Close, CloseAll, SL!CloseAll, LifeOf
<1>5. ASSUME Tick PROVE UNCHANGED SL!vars
  <2>1. \A q \in Ports : LifeOf(q)' = LifeOf(q)
    BY <1>5, LifeStay DEF Tick
  <2>. QED
    BY <1>5, <2>1 DEF Tick, SL!vars
<1>6. ASSUME UNCHANGED vars PROVE UNCHANGED SL!vars
  BY <1>6 DEF vars, SL!vars, LifeOf
<1>. QED
  BY <1>1, <1>2, <1>3, <1>4, <1>5, <1>6 DEF Next, SL!Next

(* While the counts are exact, get_socket, release_socket,               *)
(* _cleanup_socket, the clock and close() only ever take a SocketEntry    *)
(* along the transitions of spec section 3.                               *)
THEOREM ImplementsLifecycleThm == Spec => ImplementsLifecycle
<1>1. Init => SL!Init
  BY DEF Init, SL!Init, LifeOf
<1>2. TypeOK /\ RefCountExact /\ [Next]_vars => [SL!Next]_SL!vars
  BY LifeStep DEF IInv
<1>. QED
  BY <1>1, <1>2, TypeCorrect, PTL DEF Spec, ImplementsLifecycle
=============================================================================
