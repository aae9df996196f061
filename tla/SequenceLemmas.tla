---------------------------- MODULE SequenceLemmas ----------------------------
(***************************************************************************)
(* Facts about the sequence operators the models use for the client lists *)
(* of a token (_token_clients[token] in src/pywssocks/server.py): append  *)
(* on authentication, RemoveAt / RemoveFirst on _cleanup_connection.  A    *)
(* list never holds a client twice, so the facts are stated for injective *)
(* sequences.                                                              *)
(***************************************************************************)
EXTENDS Sequences, SequencesExt, SequenceTheorems, TLAPS

(* RemoveAt(s, j) element by element.                                     *)
LEMMA RemoveAtElems ==
    ASSUME NEW S, NEW s \in Seq(S), NEW j \in 1..Len(s)
    PROVE  /\ RemoveAt(s, j) \in Seq(S)
           /\ Len(RemoveAt(s, j)) = Len(s) - 1
           /\ \A n \in 1..Len(s) - 1 :
                 RemoveAt(s, j)[n] = IF n < j THEN s[n] ELSE s[n + 1]
<1>1. /\ SubSeq(s, 1, j - 1) \in Seq(S) /\ Len(SubSeq(s, 1, j - 1)) = j - 1
      /\ \A i \in 1..j-1 : SubSeq(s, 1, j - 1)[i] = s[i]
  BY SubSeqProperties, ElementOfSeq
<1>2. /\ SubSeq(s, j + 1, Len(s)) \in Seq(S) /\ Len(SubSeq(s, j + 1, Len(s))) = Len(s) - j
      /\ \A i \in 1..Len(s)-j : SubSeq(s, j + 1, Len(s))[i] = s[j + i]
  BY SubSeqProperties, ElementOfSeq
<1>3. PICK a \in Seq(S), b \in Seq(S) :
        /\ RemoveAt(s, j) = a \o b
        /\ Len(a) = j - 1 /\ \A i \in 1..j-1 : a[i] = s[i]
        /\ Len(b) = Len(s) - j /\ \A i \in 1..Len(s)-j : b[i] = s[j + i]
  BY <1>1, <1>2, Zenon DEF RemoveAt
<1>4. /\ a \o b \in Seq(S)
      /\ Len(a \o b) = Len(a) + Len(b)
      /\ \A i \in 1..Len(a) + Len(b) :
            (a \o b)[i] = IF i <= Len(a) THEN a[i] ELSE b[i - Len(a)]
  BY ConcatProperties
<1>5. Len(s) \in Nat
  BY LenProperties
<1>6. ASSUME NEW n \in 1..Len(s) - 1
      PROVE  (a \o b)[n] = IF n < j THEN s[n] ELSE s[n + 1]
  <2>1. n \in 1..Len(a) + Len(b)
    BY <1>3, <1>5
  <2>2. CASE n < j
    BY <1>3, <1>4, <2>1, <2>2
  <2>3. CASE n >= j
    <3>1. n - (j - 1) \in 1..Len(s) - j /\ j + (n - (j - 1)) = n + 1
      BY <1>5, <2>3
    <3>. QED
      BY <1>3, <1>4, <2>1, <2>3, <3>1
  <2>4. n < j \/ n >= j
    BY <1>5
  <2>. QED
    BY <2>2, <2>3, <2>4, Zenon
<1>7. Len(a \o b) = Len(s) - 1
  BY <1>3, <1>4, <1>5
<1>. QED
  BY <1>3, <1>4, <1>6, <1>7, Zenon

(* The elements of a sequence over S are in S.                            *)
LEMMA RangeInSet ==
    ASSUME NEW S, NEW s \in Seq(S)
    PROVE  Range(s) \subseteq S
<1>1. DOMAIN s = 1..Len(s) /\ \A i \in 1..Len(s) : s[i] \in S
  BY LenProperties, ElementOfSeq
<1>. QED
  BY <1>1 DEF Range

(* A sequence is empty exactly when it has no elements.                  *)
LEMMA EmptyRange ==
    ASSUME NEW S, NEW s \in Seq(S)
    PROVE  s = <<>> <=> Range(s) = {}
<1>1. Len(s) \in Nat /\ DOMAIN s = 1..Len(s)
  BY LenProperties
<1>2. Len(s) = 0 <=> s = <<>>
  BY EmptySeq, LenProperties
<1>3. Len(s) = 0 => Range(s) = {}
  BY <1>1 DEF Range
<1>4. Len(s) # 0 => s[1] \in Range(s)
  BY <1>1 DEF Range
<1>. QED
  BY <1>2, <1>3, <1>4

(* Removing position j of an injective list removes its element s[j] and *)
(* nothing else, and the list stays injective.                           *)
LEMMA RemoveAtInjective ==
    ASSUME NEW S, NEW s \in Seq(S), IsInjective(s), NEW j \in 1..Len(s)
    PROVE  /\ RemoveAt(s, j) \in Seq(S)
           /\ IsInjective(RemoveAt(s, j))
           /\ Range(RemoveAt(s, j)) = Range(s) \ {s[j]}
<1> DEFINE r == RemoveAt(s, j)
<1>1. /\ r \in Seq(S) /\ Len(r) = Len(s) - 1
      /\ \A n \in 1..Len(s) - 1 : r[n] = IF n < j THEN s[n] ELSE s[n + 1]
  BY RemoveAtElems
<1>2. Len(s) \in Nat /\ DOMAIN s = 1..Len(s) /\ DOMAIN r = 1..Len(s) - 1
  BY <1>1, LenProperties
(* the position in s of position n of r *)
<1> DEFINE pos(n) == IF n < j THEN n ELSE n + 1
<1>3. \A n \in 1..Len(s) - 1 : pos(n) \in 1..Len(s) /\ pos(n) # j /\ r[n] = s[pos(n)]
  BY <1>1, <1>2
<1>4. \A n, m \in 1..Len(s) - 1 : pos(n) = pos(m) => n = m
  BY <1>2
<1>5. IsInjective(r)
  BY <1>2, <1>3, <1>4 DEF IsInjective
<1>6. Range(r) \subseteq Range(s) \ {s[j]}
  BY <1>2, <1>3 DEF Range, IsInjective
<1>7. Range(s) \ {s[j]} \subseteq Range(r)
  <2> SUFFICES ASSUME NEW i \in 1..Len(s), i # j PROVE s[i] \in Range(r)
    BY <1>2 DEF Range
  <2>1. CASE i < j
    BY <1>2, <1>3, <2>1 DEF Range
  <2>2. CASE i > j
    <3>1. i - 1 \in 1..Len(s) - 1 /\ pos(i - 1) = i
      BY <1>2, <2>2
    <3>. QED
      BY <1>2, <1>3, <3>1 DEF Range
  <2>. QED
    BY <1>2, <2>1, <2>2
<1>. QED
  BY <1>1, <1>5, <1>6, <1>7

(* Removing the first occurrence of e from an injective list removes e   *)
(* and nothing else; a list without e is left as it is.                  *)
LEMMA RemoveFirstInjective ==
    ASSUME NEW S, NEW s \in Seq(S), IsInjective(s), NEW e
    PROVE  /\ RemoveFirst(s, e) \in Seq(S)
           /\ IsInjective(RemoveFirst(s, e))
           /\ Range(RemoveFirst(s, e)) = Range(s) \ {e}
<1>1. DOMAIN s = 1..Len(s)
  BY LenProperties
<1>2. CASE \E i \in 1..Len(s) : s[i] = e
  <2>1. PICK i \in 1..Len(s) : s[i] = e
    BY <1>2
  <2>2. {k \in 1..Len(s) : s[k] = e} = {i}
    BY <1>1, <2>1 DEF IsInjective
  <2>3. Min({i}) = i
    BY DEF Min
  <2>4. SelectInSeq(s, LAMBDA v : v = e) = i
    BY <2>2, <2>3 DEF SelectInSeq
  <2>5. RemoveFirst(s, e) = RemoveAt(s, i)
    BY <1>2, <2>4 DEF RemoveFirst
  <2>. QED
    BY <2>1, <2>5, RemoveAtInjective
<1>3. CASE ~\E i \in 1..Len(s) : s[i] = e
  <2>1. RemoveFirst(s, e) = s
    BY <1>3 DEF RemoveFirst
  <2>2. e \notin Range(s)
    BY <1>1, <1>3 DEF Range
  <2>. QED
    BY <2>1, <2>2
<1>. QED
  BY <1>2, <1>3

(* Appending an element the list does not hold keeps it injective, adds *)
(* exactly that element, and leaves the list non-empty.                  *)
LEMMA AppendFresh ==
    ASSUME NEW S, NEW s \in Seq(S), IsInjective(s), NEW e \in S, e \notin Range(s)
    PROVE  /\ s \o <<e>> \in Seq(S)
           /\ s \o <<e>> # <<>>
           /\ IsInjective(s \o <<e>>)
           /\ Range(s \o <<e>>) = Range(s) \cup {e}
<1> DEFINE t == s \o <<e>>
<1>1. t = Append(s, e)
  BY AppendIsConcat
<1>2. /\ t \in Seq(S) /\ Len(t) = Len(s) + 1
      /\ \A i \in 1..Len(s) : t[i] = s[i]
      /\ t[Len(s) + 1] = e
  BY <1>1, AppendProperties
<1>3. Len(s) \in Nat /\ DOMAIN s = 1..Len(s) /\ DOMAIN t = 1..Len(s) + 1
  BY <1>2, LenProperties
<1>4. t # <<>>
  BY <1>2, <1>3, EmptySeq
<1>5. IsInjective(t)
  BY <1>2, <1>3 DEF IsInjective, Range
<1>6. Range(t) = Range(s) \cup {e}
  BY <1>2, <1>3 DEF Range
<1>. QED
  BY <1>2, <1>4, <1>5, <1>6
=============================================================================
