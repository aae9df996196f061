--------------------------- MODULE RoundRobin_proofs ---------------------------
(***************************************************************************)
(* Proofs about RoundRobin for every set of clients and every bound: the   *)
(* types, and the fairness of _get_next_websocket (Balanced).             *)
(***************************************************************************)
EXTENDS RoundRobin, SequenceLemmas, SequenceTheorems, TLAPS

USE RoundRobinAssumption

(* The cursor _get_next_websocket computes is a position of the list; from *)
(* a position in range it is the next one, wrapping to 0.                 *)
LEMMA NextCursor ==
    ASSUME NEW k \in Nat \ {0}, NEW x \in Nat
    PROVE  /\ (x + 1) % k \in 0..k-1
           /\ x \in 0..k-1 => (x + 1) % k = IF x = k - 1 THEN 0 ELSE x + 1
BY SMT

(* Every step keeps the types.                                            *)
LEMMA TypeStep == TypeOK /\ [Next]_vars => TypeOK'
<1> SUFFICES ASSUME TypeOK, [Next]_vars PROVE TypeOK'
  OBVIOUS
<1>1. ASSUME NEW c \in Clients, Join(c) PROVE TypeOK'
  BY <1>1 DEF Join, TypeOK, NoPicks
<1>2. ASSUME NEW c \in Clients, Leave(c) PROVE TypeOK'
  <2>1. PICK j \in 1..Len(clients) :
            /\ clients[j] = c
            /\ clients' = RemoveAt(clients, j)
            /\ index' = IF Len(clients) = 1 THEN 0 ELSE index
            /\ window' = NoPicks
            /\ picks' = 0
    BY <1>2 DEF Leave
  <2>2. clients' \in Seq(Clients)
    BY <2>1, RemoveAtElems DEF TypeOK
  <2>. QED
    BY <2>1, <2>2 DEF TypeOK, NoPicks
<1>3. ASSUME Select PROVE TypeOK'
  <2>1. Len(clients) \in Nat \ {0}
    BY <1>3 DEF Select, TypeOK
  <2>2. (index + 1) % Len(clients) \in 0..Len(clients)-1
    BY <2>1, NextCursor DEF TypeOK
  <2>3. Chosen((index + 1) % Len(clients)) \in Clients
    BY <2>2 DEF Chosen, TypeOK
  <2>. QED
    BY <1>3, <2>2, <2>3 DEF Select, TypeOK
<1>4. CASE UNCHANGED vars
  BY <1>4 DEF vars, TypeOK
<1>. QED
  BY <1>1, <1>2, <1>3, <1>4 DEF Next

(* Type correctness of the client list, cursor and selection counts.      *)
THEOREM TypeCorrect == Spec => []TypeOK
<1>1. Init => TypeOK
  BY DEF Init, TypeOK, NoPicks
<1>. QED
  BY <1>1, TypeStep, PTL DEF Spec
-----------------------------------------------------------------------------
(* Fairness.  Dist(x, p, k) is how far position p lies behind cursor x on *)
(* a ring of k positions.  Since the last change of the list, either no    *)
(* client was chosen, or every position has been chosen base times, plus  *)
(* one for the r positions nearest behind the cursor.                      *)
Dist(x, p, k) == IF p <= x THEN x - p ELSE x + k - p

Shape ==
    \/ window = NoPicks
    \/ /\ clients # <<>>
       /\ index \in 0..Len(clients) - 1
       /\ \E base \in Nat, r \in 0..Len(clients) :
             \A p \in 0..Len(clients) - 1 :
                window[clients[p + 1]]
                   = base + (IF Dist(index, p, Len(clients)) < r THEN 1 ELSE 0)

BInv == TypeOK /\ IsInjective(clients) /\ Shape

(* Distances on the ring lie in 0..k-1, and moving the cursor one place   *)
(* forward puts the new position at distance 0 (it was the farthest, at  *)
(* k-1) and every other one a place farther.                              *)
LEMMA DistNext ==
    ASSUME NEW k \in Nat \ {0}, NEW x \in 0..k-1, NEW p \in 0..k-1
    PROVE  LET y == IF x = k - 1 THEN 0 ELSE x + 1 IN
           /\ Dist(x, p, k) \in 0..k-1
           /\ Dist(y, p, k) = IF p = y THEN 0 ELSE Dist(x, p, k) + 1
           /\ p = y => Dist(x, p, k) = k - 1
BY DEF Dist

(* The step that matters: a selection keeps the shape of the counts.      *)
LEMMA SelectShape ==
    ASSUME TypeOK, IsInjective(clients), Shape, Select
    PROVE  Shape'
<1> DEFINE len == Len(clients)
           nxt == (index + 1) % len
<1>1. len \in Nat \ {0} /\ nxt \in 0..len-1
  BY NextCursor DEF Select, TypeOK, len, nxt
<1>2. clients' = clients /\ index' = nxt
  BY DEF Select, len, nxt
<1>3. ASSUME NEW p \in 0..len-1
      PROVE  window'[clients[p + 1]] = window[clients[p + 1]] + (IF p = nxt THEN 1 ELSE 0)
  <2>1. clients[p + 1] \in Clients /\ clients[nxt + 1] \in Clients
    BY <1>1 DEF TypeOK, len, nxt
  <2>2. clients[p + 1] = clients[nxt + 1] <=> p = nxt
    BY <1>1 DEF TypeOK, IsInjective, len, nxt
  <2>3. window' = [window EXCEPT ![clients[nxt + 1]] = @ + 1]
    <3>1. Chosen(nxt) = clients[nxt + 1]
      BY <1>1 DEF Chosen, len, nxt
    <3>. QED
      BY <3>1 DEF Select, len, nxt
  <2>. QED
    BY <2>1, <2>2, <2>3 DEF TypeOK, len, nxt
<1>4. CASE window = NoPicks
  <2>1. ASSUME NEW p \in 0..len-1
        PROVE  window'[clients[p + 1]] = 0 + (IF Dist(nxt, p, len) < 1 THEN 1 ELSE 0)
    BY <1>1, <1>3, <1>4 DEF Dist, NoPicks, TypeOK, len, nxt
  <2>2. 0 \in Nat /\ 1 \in 0..len /\ clients # <<>> /\ nxt \in 0..len-1
    BY <1>1 DEF len, nxt
  <2>. QED
    BY <1>2, <2>1, <2>2, Zenon DEF Shape, len, nxt
<1>5. CASE window # NoPicks
  <2>1. PICK base \in Nat, r \in 0..len :
          /\ index \in 0..len-1
          /\ \A p \in 0..len-1 : window[clients[p + 1]] = base + (IF Dist(index, p, len) < r THEN 1 ELSE 0)
    BY <1>5 DEF Shape, len, nxt
  <2>2. nxt = IF index = len - 1 THEN 0 ELSE index + 1
    BY <1>1, <2>1, NextCursor DEF len, nxt
  <2>3. ASSUME NEW p \in 0..len-1
        PROVE  /\ Dist(index, p, len) \in 0..len-1
               /\ Dist(nxt, p, len) = IF p = nxt THEN 0 ELSE Dist(index, p, len) + 1
               /\ p = nxt => Dist(index, p, len) = len - 1
               /\ window'[clients[p + 1]]
                    = base + (IF Dist(index, p, len) < r THEN 1 ELSE 0) + (IF p = nxt THEN 1 ELSE 0)
    <3>1. LET y == IF index = len - 1 THEN 0 ELSE index + 1 IN
          /\ Dist(index, p, len) \in 0..len-1
          /\ Dist(y, p, len) = IF p = y THEN 0 ELSE Dist(index, p, len) + 1
          /\ p = y => Dist(index, p, len) = len - 1
      BY <1>1, <2>1, DistNext DEF len, nxt
    <3>. QED
      BY <1>3, <2>1, <2>2, <3>1 DEF len, nxt
  <2>4. clients # <<>> /\ nxt \in 0..len-1
    BY <1>1 DEF len, nxt
  <2>5. CASE r = len
    <3>1. ASSUME NEW p \in 0..len-1
          PROVE  window'[clients[p + 1]] = (base + 1) + (IF Dist(nxt, p, len) < 1 THEN 1 ELSE 0)
      <4>1. /\ Dist(index, p, len) \in 0..len-1
            /\ Dist(nxt, p, len) = IF p = nxt THEN 0 ELSE Dist(index, p, len) + 1
            /\ p = nxt => Dist(index, p, len) = len - 1
            /\ window'[clients[p + 1]]
                 = base + (IF Dist(index, p, len) < r THEN 1 ELSE 0) + (IF p = nxt THEN 1 ELSE 0)
        BY <2>3
      <4>. QED
        BY <1>1, <4>1, <2>5
    <3>2. base + 1 \in Nat /\ 1 \in 0..len
      BY <1>1 DEF len, nxt
    <3>. QED
      BY <1>2, <2>4, <3>1, <3>2, Zenon DEF Shape, len, nxt
  <2>6. CASE r < len
    <3>1. ASSUME NEW p \in 0..len-1
          PROVE  window'[clients[p + 1]] = base + (IF Dist(nxt, p, len) < r + 1 THEN 1 ELSE 0)
      <4>1. /\ Dist(index, p, len) \in 0..len-1
            /\ Dist(nxt, p, len) = IF p = nxt THEN 0 ELSE Dist(index, p, len) + 1
            /\ p = nxt => Dist(index, p, len) = len - 1
            /\ window'[clients[p + 1]]
                 = base + (IF Dist(index, p, len) < r THEN 1 ELSE 0) + (IF p = nxt THEN 1 ELSE 0)
        BY <2>3
      <4>. QED
        BY <1>1, <4>1, <2>6
    <3>2. r + 1 \in 0..len
      BY <1>1, <2>6 DEF len, nxt
    <3>. QED
      BY <1>2, <2>4, <3>1, <3>2, Zenon DEF Shape, len, nxt
  <2>. QED
    BY <2>5, <2>6 DEF len
<1>. QED
  BY <1>4, <1>5
(* A client joins only if not yet in the list, and a cleanup removes one  *)
(* position: the list never holds a client twice.                         *)
LEMMA InjectiveStep ==
    ASSUME TypeOK, IsInjective(clients), [Next]_vars
    PROVE  IsInjective(clients')
<1>1. ASSUME NEW c \in Clients, Join(c) PROVE IsInjective(clients')
  <2>1. /\ clients' \in Seq(Clients)
        /\ Len(clients') = Len(clients) + 1
        /\ \A n \in 1..Len(clients) : clients'[n] = clients[n]
        /\ clients'[Len(clients) + 1] = c
    BY <1>1, AppendProperties DEF Join, TypeOK
  <2>2. \A n \in 1..Len(clients) : clients[n] # c
    BY <1>1 DEF Join, Range, TypeOK
  <2>3. /\ Len(clients) \in Nat
        /\ DOMAIN clients = 1..Len(clients)
        /\ DOMAIN clients' = 1..Len(clients')
    BY <2>1, LenProperties DEF TypeOK
  <2>4. SUFFICES ASSUME NEW x \in DOMAIN clients', NEW y \in DOMAIN clients',
                        clients'[x] = clients'[y]
                 PROVE  x = y
    BY DEF IsInjective
  <2>5. \A u, v \in 1..Len(clients) : clients[u] = clients[v] => u = v
    BY <2>3 DEF IsInjective
  <2>. QED
    BY <2>1, <2>2, <2>3, <2>4, <2>5
<1>2. ASSUME NEW c \in Clients, Leave(c) PROVE IsInjective(clients')
  <2>1. PICK j \in 1..Len(clients) : clients' = RemoveAt(clients, j)
    BY <1>2 DEF Leave
  <2>2. /\ Len(clients') = Len(clients) - 1
        /\ \A n \in 1..Len(clients) - 1 :
              clients'[n] = IF n < j THEN clients[n] ELSE clients[n + 1]
    BY <2>1, RemoveAtElems DEF TypeOK
  <2>3. /\ Len(clients) \in Nat
        /\ DOMAIN clients = 1..Len(clients)
        /\ DOMAIN clients' = 1..Len(clients')
    BY <2>1, RemoveAtElems, LenProperties DEF TypeOK
  <2>4. SUFFICES ASSUME NEW x \in DOMAIN clients', NEW y \in DOMAIN clients',
                        clients'[x] = clients'[y]
                 PROVE  x = y
    BY DEF IsInjective
  <2>5. \A u, v \in 1..Len(clients) : clients[u] = clients[v] => u = v
    BY <2>3 DEF IsInjective
  <2>. QED
    BY <2>2, <2>3, <2>4, <2>5
<1>3. ASSUME Select PROVE IsInjective(clients')
  BY <1>3 DEF Select
<1>4. CASE UNCHANGED vars
  BY <1>4 DEF vars
<1>. QED
  BY <1>1, <1>2, <1>3, <1>4 DEF Next

(* The invariant is inductive.                                            *)
LEMMA BInvStep == BInv /\ [Next]_vars => BInv'
<1> SUFFICES ASSUME BInv, [Next]_vars PROVE BInv'
  OBVIOUS
<1>1. TypeOK' /\ IsInjective(clients')
  BY TypeStep, InjectiveStep DEF BInv
<1>2. ASSUME NEW c \in Clients, Join(c) \/ Leave(c) PROVE Shape'
  <2>1. window' = NoPicks
    BY <1>2 DEF Join, Leave
  <2>. QED
    BY <2>1 DEF Shape, NoPicks
<1>3. ASSUME Select PROVE Shape'
  BY <1>3, SelectShape DEF BInv
<1>4. ASSUME UNCHANGED vars PROVE Shape'
  <2>1. clients' = clients /\ index' = index /\ window' = window
    BY <1>4 DEF vars
  <2>2. CASE window = NoPicks
    BY <2>1, <2>2 DEF Shape
  <2>3. CASE window # NoPicks
    <3>1. PICK base \in Nat, r \in 0..Len(clients) :
            /\ clients # <<>>
            /\ index \in 0..Len(clients) - 1
            /\ \A p \in 0..Len(clients) - 1 :
                  window[clients[p + 1]]
                     = base + (IF Dist(index, p, Len(clients)) < r THEN 1 ELSE 0)
      BY <2>3 DEF Shape, BInv
    <3>. QED
      BY <2>1, <3>1 DEF Shape
  <2>. QED
    BY <2>2, <2>3
<1>. QED
  BY <1>1, <1>2, <1>3, <1>4 DEF Next, BInv

(* Round-robin fairness: between two changes of a token's client list,    *)
(* _get_next_websocket chooses every client floor(m/k) or ceil(m/k)       *)
(* times, whatever the list's length, the bound and the cursor it started *)
(* from.                                                                   *)
THEOREM RoundRobinFair == Spec => []Balanced
<1>1. Init => BInv
  <2> SUFFICES ASSUME Init PROVE BInv
    OBVIOUS
  <2>1. TypeOK
    BY DEF Init, TypeOK, NoPicks
  <2>2. IsInjective(clients)
    BY DEF Init, IsInjective
  <2>3. Shape
    BY DEF Init, Shape
  <2>. QED
    BY <2>1, <2>2, <2>3 DEF BInv
<1>2. BInv => Balanced
  <2> SUFFICES ASSUME BInv, NEW a \in Range(clients), NEW b \in Range(clients)
               PROVE  window[a] <= window[b] + 1
    BY DEF Balanced
  <2>1. Len(clients) \in Nat /\ DOMAIN clients = 1..Len(clients)
    BY LenProperties DEF BInv, TypeOK
  <2>2. PICK xa \in DOMAIN clients, xb \in DOMAIN clients :
          a = clients[xa] /\ b = clients[xb]
    BY DEF Range
  <2>3. CASE window = NoPicks
    BY <2>1, <2>2, <2>3 DEF NoPicks, BInv, TypeOK
  <2>4. CASE window # NoPicks
    <3>1. PICK base \in Nat, r \in 0..Len(clients) :
            \A p \in 0..Len(clients) - 1 :
               window[clients[p + 1]]
                  = base + (IF Dist(index, p, Len(clients)) < r THEN 1 ELSE 0)
      BY <2>4 DEF BInv, Shape
    <3>2. xa - 1 \in 0..Len(clients) - 1 /\ xb - 1 \in 0..Len(clients) - 1
      BY <2>1
    <3>3. /\ window[clients[(xa - 1) + 1]] \in {base, base + 1}
          /\ window[clients[(xb - 1) + 1]] \in {base, base + 1}
      BY <3>1, <3>2
    <3>. QED
      BY <2>1, <2>2, <3>3
  <2>. QED
    BY <2>3, <2>4
<1>. QED
  BY <1>1, <1>2, BInvStep, PTL DEF Spec
=============================================================================
