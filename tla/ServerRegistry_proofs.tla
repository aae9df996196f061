------------------------ MODULE ServerRegistry_proofs ------------------------
(***************************************************************************)
(* Proof that the client registry of WSSocksServer (_clients and          *)
(* _token_clients, module Server) lists exactly the live reverse sessions, *)
(* for every set of tokens, ports, connections and supervisor ids.        *)
(*                                                                         *)
(* RegistryConsistent alone is not inductive: _cleanup_connection's       *)
(* RemoveFirst takes only the first entry of a client, so a list must not *)
(* hold a client twice (ListsInjective), and the lists' elements must be  *)
(* connections with a session record (RegTypeOK).                         *)
(***************************************************************************)
EXTENDS Server, SequenceLemmas, TLAPS

RegTypeOK ==
    /\ \A t \in DOMAIN token_clients : token_clients[t] \in Seq(Conns)
    /\ session \in [Conns -> Sess]

(* No token list holds a connection twice.                                *)
ListsInjective == \A t \in DOMAIN token_clients : IsInjective(token_clients[t])

RInv == RegTypeOK /\ ListsInjective /\ RegistryConsistent

LEMMA InitRInv == Init => RInv
BY DEF Init, RInv, RegTypeOK, ListsInjective, RegistryConsistent, Sess, SessState

(* A listed connection is a live reverse session of its list's token,     *)
(* and a client.                                                           *)
LEMMA ListedIsLive ==
    ASSUME RInv, NEW t \in DOMAIN token_clients, NEW c \in Range(token_clients[t])
    PROVE  /\ c \in Conns /\ c \in clients
           /\ session[c].st \in {"running", "closing"}
           /\ session[c].token = t /\ session[c].reverse
<1>1. c \in Conns
  BY RangeInSet DEF RInv, RegTypeOK
<1>. QED
  BY <1>1 DEF RInv, RegistryConsistent

(* A step that leaves the lists and _clients alone and keeps every live   *)
(* reverse session live, with its token, keeps the invariant.             *)
LEMMA RegistryKept ==
    ASSUME RInv,
           token_clients' = token_clients, clients' = clients,
           session' \in [Conns -> Sess],
           \A c \in Conns :
              session[c].st \in {"running", "closing"} /\ session[c].reverse
                 => /\ session'[c].st \in {"running", "closing"}
                    /\ session'[c].token = session[c].token
                    /\ session'[c].reverse
    PROVE  RInv'
<1>1. RegTypeOK' /\ ListsInjective'
  BY DEF RInv, RegTypeOK, ListsInjective
<1>2. ASSUME NEW t \in DOMAIN token_clients', NEW c \in Range(token_clients'[t])
      PROVE  /\ session'[c].st \in {"running", "closing"}
             /\ session'[c].token = t /\ session'[c].reverse
  BY <1>2, ListedIsLive
<1>3. clients' = UNION {Range(token_clients'[t]) : t \in DOMAIN token_clients'}
  BY DEF RInv, RegistryConsistent
<1>. QED
  BY <1>1, <1>2, <1>3 DEF RInv, RegistryConsistent

(* Auth of a reverse client (lines 512-531): an idle connection is in no  *)
(* list, so appending it keeps the lists injective, and it becomes a live *)
(* reverse session of the token it joined.                                *)
LEMMA AuthReverseStep ==
    ASSUME RInv, NEW c \in Conns, NEW t \in Tokens, AuthReverse(c, t)
    PROVE  RInv'
<1>0. PICK old : old = IF t \in DOMAIN token_clients THEN token_clients[t] ELSE <<>>
  OBVIOUS
<1> DEFINE new == old \o <<c>>
<1>1. /\ token_clients' = Put(token_clients, t, new)
      /\ clients' = clients \cup {c}
      /\ session' = [session EXCEPT ![c] = [st |-> "running", token |-> t,
                                            reverse |-> TRUE]]
      /\ session[c].st = "idle"
  BY <1>0 DEF AuthReverse
<1>2. \A t2 \in DOMAIN token_clients : c \notin Range(token_clients[t2])
  BY <1>1, ListedIsLive
<1>3. old \in Seq(Conns) /\ IsInjective(old) /\ c \notin Range(old)
      /\ Range(old) \subseteq clients
  <2>1. CASE t \in DOMAIN token_clients
    BY <1>0, <1>2, <2>1 DEF RInv, RegTypeOK, ListsInjective, RegistryConsistent
  <2>2. CASE t \notin DOMAIN token_clients
    BY <1>0, <2>2 DEF IsInjective, Range
  <2>. QED
    BY <2>1, <2>2
<1>4. /\ new \in Seq(Conns) /\ new # <<>> /\ IsInjective(new)
      /\ Range(new) = Range(old) \cup {c}
  <2>1. old \in Seq(Conns) /\ IsInjective(old) /\ c \in Conns /\ c \notin Range(old)
    BY <1>3
  <2>. QED
    BY <2>1, AppendFresh DEF new
<1>5. /\ DOMAIN token_clients' = DOMAIN token_clients \cup {t}
      /\ token_clients'[t] = new
      /\ \A t2 \in DOMAIN token_clients \ {t} : token_clients'[t2] = token_clients[t2]
  BY <1>1 DEF Put
<1>6. RegTypeOK' /\ ListsInjective'
  <2>1. session' \in [Conns -> Sess]
    BY <1>1 DEF RInv, RegTypeOK, Sess, SessState
  <2>. QED
    BY <2>1, <1>4, <1>5 DEF RInv, RegTypeOK, ListsInjective
<1>7. clients' = UNION {Range(token_clients'[t2]) : t2 \in DOMAIN token_clients'}
  <2>1. ASSUME NEW x \in clients'
        PROVE  \E t2 \in DOMAIN token_clients' : x \in Range(token_clients'[t2])
    <3>1. CASE x = c
      BY <3>1, <1>4, <1>5
    <3>2. CASE x \in clients
      <4>1. PICK t2 \in DOMAIN token_clients : x \in Range(token_clients[t2])
        BY <3>2 DEF RInv, RegistryConsistent
      <4>2. CASE t2 = t
        <5>1. x \in Range(token_clients'[t])
          BY <1>0, <4>1, <4>2, <1>4, <1>5
        <5>. QED
          BY <5>1, <1>5
      <4>3. CASE t2 # t
        BY <4>1, <4>3, <1>5
      <4>. QED
        BY <4>2, <4>3
    <3>. QED
      BY <3>1, <3>2, <1>1
  <2>2. ASSUME NEW t2 \in DOMAIN token_clients', NEW x \in Range(token_clients'[t2])
        PROVE  x \in clients'
    <3>1. CASE t2 = t
      BY <3>1, <1>1, <1>3, <1>4, <1>5
    <3>2. CASE t2 # t
      BY <3>2, <1>1, <1>5 DEF RInv, RegistryConsistent
    <3>. QED
      BY <3>1, <3>2
  <2>. QED
    BY <2>1, <2>2
<1>8. ASSUME NEW t2 \in DOMAIN token_clients', NEW x \in Range(token_clients'[t2])
      PROVE  /\ session'[x].st \in {"running", "closing"}
             /\ session'[x].token = t2 /\ session'[x].reverse
  <2>1. CASE x = c
    <3>1. t2 = t
      BY <2>1, <1>2, <1>5
    <3>. QED
      BY <3>1, <2>1, <1>1 DEF RInv, RegTypeOK
  <2>2. CASE x # c
    <3>1. x \in Range(token_clients[t2]) /\ t2 \in DOMAIN token_clients
      <4>1. CASE t2 = t
        <5>1. x \in Range(old)
          BY <4>1, <2>2, <1>4, <1>5
        <5>. QED
          BY <1>0, <4>1, <5>1 DEF Range
      <4>2. CASE t2 # t
        BY <4>2, <1>5
      <4>. QED
        BY <4>1, <4>2
    <3>. QED
      BY <3>1, <2>2, <1>1, ListedIsLive DEF RInv, RegTypeOK
  <2>. QED
    BY <2>1, <2>2
<1>. QED
  BY <1>4, <1>5, <1>6, <1>7, <1>8 DEF RInv, RegistryConsistent

(* _cleanup_connection (lines 583-607): a connection is listed only under *)
(* its session's token, so removing its first entry from that list takes  *)
(* it out of the registry entirely; a list left empty goes with it.       *)
LEMMA SessionEndStep ==
    ASSUME RInv, NEW c \in Conns, SessionEnd(c)
    PROVE  RInv'
<1>0. PICK t : t = session[c].token
  OBVIOUS
<1>1. /\ token_clients' = CleanedClients(c, t)
      /\ clients' = clients \ {c}
      /\ session' = [session EXCEPT ![c].st = "done"]
  BY <1>0 DEF SessionEnd
<1>2. \A t2 \in DOMAIN token_clients : t2 # t => c \notin Range(token_clients[t2])
  BY <1>0, ListedIsLive
(* every list loses c and nothing else, and a list that goes held only c *)
<1>3. /\ DOMAIN token_clients' \subseteq DOMAIN token_clients
      /\ \A t2 \in DOMAIN token_clients' :
            /\ token_clients'[t2] \in Seq(Conns)
            /\ IsInjective(token_clients'[t2])
            /\ token_clients'[t2] # <<>>
            /\ Range(token_clients'[t2]) = Range(token_clients[t2]) \ {c}
      /\ \A t2 \in DOMAIN token_clients \ DOMAIN token_clients' :
            Range(token_clients[t2]) \subseteq {c}
  <2>1. CASE t \notin DOMAIN token_clients
    <3>1. token_clients' = token_clients
      BY <1>1, <2>1 DEF CleanedClients
    <3>. QED
      BY <3>1, <1>2, <2>1 DEF RInv, RegTypeOK, ListsInjective, RegistryConsistent
  <2>2. CASE t \in DOMAIN token_clients
    <3>0. PICK R : R = Remaining(c, t)
      OBVIOUS
    <3>1. R \in Seq(Conns) /\ IsInjective(R) /\ Range(R) = Range(token_clients[t]) \ {c}
      <4>1. token_clients[t] \in Seq(Conns) /\ IsInjective(token_clients[t])
        BY <2>2 DEF RInv, RegTypeOK, ListsInjective
      <4>. QED
        BY <3>0, <4>1, RemoveFirstInjective DEF Remaining
    <3>2. CASE R = <<>>
      <4>1. token_clients' = Drop(token_clients, t)
        BY <1>1, <2>2, <3>0, <3>2 DEF CleanedClients
      <4>2. DOMAIN token_clients' = DOMAIN token_clients \ {t}
            /\ \A t2 \in DOMAIN token_clients' : token_clients'[t2] = token_clients[t2]
        BY <4>1 DEF Drop, Restrict
      <4>3. Range(token_clients[t]) \subseteq {c}
        BY <3>1, <3>2 DEF Range
      <4>. QED
        BY <4>2, <4>3, <1>2 DEF RInv, RegTypeOK, ListsInjective, RegistryConsistent
    <3>3. CASE R # <<>>
      <4>1. token_clients' = [token_clients EXCEPT ![t] = R]
        BY <1>1, <2>2, <3>0, <3>3 DEF CleanedClients
      <4>. QED
        BY <4>1, <3>1, <3>3, <1>2 DEF RInv, RegTypeOK, ListsInjective, RegistryConsistent
    <3>. QED
      BY <3>2, <3>3
  <2>. QED
    BY <2>1, <2>2
<1>4. session' \in [Conns -> Sess]
  BY <1>1 DEF RInv, RegTypeOK, Sess, SessState
<1>5. clients' = UNION {Range(token_clients'[t2]) : t2 \in DOMAIN token_clients'}
  <2>1. ASSUME NEW x \in clients'
        PROVE  \E t2 \in DOMAIN token_clients' : x \in Range(token_clients'[t2])
    <3>1. x \in clients /\ x # c
      BY <1>1
    <3>2. PICK t2 \in DOMAIN token_clients : x \in Range(token_clients[t2])
      BY <3>1 DEF RInv, RegistryConsistent
    <3>. QED
      BY <3>1, <3>2, <1>3
  <2>2. ASSUME NEW t2 \in DOMAIN token_clients', NEW x \in Range(token_clients'[t2])
        PROVE  x \in clients'
    BY <1>1, <1>3 DEF RInv, RegistryConsistent
  <2>. QED
    BY <2>1, <2>2
<1>6. ASSUME NEW t2 \in DOMAIN token_clients', NEW x \in Range(token_clients'[t2])
      PROVE  /\ session'[x].st \in {"running", "closing"}
             /\ session'[x].token = t2 /\ session'[x].reverse
  <2>1. x # c /\ t2 \in DOMAIN token_clients /\ x \in Range(token_clients[t2])
    BY <1>3
  <2>. QED
    BY <2>1, <1>1, ListedIsLive DEF RInv, RegTypeOK
<1>. QED
  BY <1>3, <1>4, <1>5, <1>6 DEF RInv, RegTypeOK, ListsInjective, RegistryConsistent

(* Scheduling ws.close only moves running sessions to closing.           *)
LEMMA ClosingKeeps ==
    ASSUME session \in [Conns -> Sess], NEW C
    PROVE  /\ Closing(C) \in [Conns -> Sess]
           /\ \A c \in Conns :
                 /\ session[c].st \in {"running", "closing"}
                       => Closing(C)[c].st \in {"running", "closing"}
                 /\ Closing(C)[c].token = session[c].token
                 /\ Closing(C)[c].reverse = session[c].reverse
BY DEF Closing, Sess, SessState

(* remove_token, reverse branch (lines 312-353): the token's list and its *)
(* clients leave together; no other list shares a client with it.         *)
LEMMA RemoveReverseTokenStep ==
    ASSUME RInv, NEW t \in Tokens, RemoveReverseToken(t)
    PROVE  RInv'
<1>0. PICK C : C = IF t \in DOMAIN token_clients THEN Range(token_clients[t]) ELSE {}
  OBVIOUS
<1>1. /\ session' = Closing(C)
      /\ clients' = clients \ C
      /\ token_clients' = Drop(token_clients, t)
  BY <1>0 DEF RemoveReverseToken
<1>2. /\ DOMAIN token_clients' = DOMAIN token_clients \ {t}
      /\ \A t2 \in DOMAIN token_clients' : token_clients'[t2] = token_clients[t2]
  BY <1>1 DEF Drop, Restrict
<1>3. \A t2 \in DOMAIN token_clients \ {t} : \A x \in Range(token_clients[t2]) : x \notin C
  BY <1>0, ListedIsLive
<1>4. /\ session' \in [Conns -> Sess]
      /\ \A c \in Conns :
            /\ session[c].st \in {"running", "closing"}
                  => session'[c].st \in {"running", "closing"}
            /\ session'[c].token = session[c].token
            /\ session'[c].reverse = session[c].reverse
  BY <1>1, ClosingKeeps DEF RInv, RegTypeOK
<1>5. clients' = UNION {Range(token_clients'[t2]) : t2 \in DOMAIN token_clients'}
  <2>1. ASSUME NEW x \in clients'
        PROVE  \E t2 \in DOMAIN token_clients' : x \in Range(token_clients'[t2])
    <3>1. x \in clients /\ x \notin C
      BY <1>1
    <3>2. PICK t2 \in DOMAIN token_clients : x \in Range(token_clients[t2])
      BY <3>1 DEF RInv, RegistryConsistent
    <3>3. t2 # t
      BY <1>0, <3>1, <3>2
    <3>. QED
      BY <3>2, <3>3, <1>2
  <2>2. ASSUME NEW t2 \in DOMAIN token_clients', NEW x \in Range(token_clients'[t2])
        PROVE  x \in clients'
    BY <1>1, <1>2, <1>3 DEF RInv, RegistryConsistent
  <2>. QED
    BY <2>1, <2>2
<1>6. ASSUME NEW t2 \in DOMAIN token_clients', NEW x \in Range(token_clients'[t2])
      PROVE  /\ session'[x].st \in {"running", "closing"}
             /\ session'[x].token = t2 /\ session'[x].reverse
  BY <1>2, <1>4, ListedIsLive
<1>. QED
  BY <1>2, <1>4, <1>5, <1>6 DEF RInv, RegTypeOK, ListsInjective, RegistryConsistent

(* Every step keeps the strengthened invariant.                           *)
LEMMA RInvStep == RInv /\ [Next]_vars => RInv'
<1> SUFFICES ASSUME RInv, [Next]_vars PROVE RInv'
  OBVIOUS
<1>1. session \in [Conns -> Sess]
  BY DEF RInv, RegTypeOK
<1>2. CASE \E t \in Tokens, req \in Ports \cup {None} : AddReverseToken(t, req)
  BY <1>1, <1>2, RegistryKept DEF AddReverseToken
<1>3. CASE \/ \E t \in Tokens : AddForwardToken(t)
           \/ Serve
           \/ \E t \in Tokens : HandlePendingToken(t)
           \/ \E t \in Tokens : SelectClient(t)
           \/ \E s \in Sups : SupervisorRun(s) \/ SupervisorFinally(s)
           \/ SocketStep
  <2>1. UNCHANGED <<token_clients, clients, session>>
    BY <1>3 DEF AddForwardToken, Serve, HandlePendingToken, SelectClient,
                SupervisorRun, SupervisorFinally, SocketStep, server_vars
  <2>. QED
    BY <1>1, <2>1, RegistryKept
<1>4. CASE \E t \in Tokens : RemoveReverseToken(t)
  BY <1>4, RemoveReverseTokenStep
<1>5. CASE \E t \in Tokens : RemoveForwardToken(t)
  <2>1. PICK t \in Tokens : RemoveForwardToken(t)
    BY <1>5
  <2>2. /\ session' = Closing(forward_clients)
        /\ UNCHANGED <<token_clients, clients>>
    BY <2>1 DEF RemoveForwardToken
  <2>. QED
    BY <1>1, <2>2, ClosingKeeps, RegistryKept
<1>6. CASE Shutdown
  <2>1. UNCHANGED <<token_clients, clients>>
    BY <1>6 DEF Shutdown
  <2>2. /\ session' \in [Conns -> Sess]
        /\ \A c \in Conns :
              /\ session[c].st \in {"running", "closing"}
                    => session'[c].st \in {"running", "closing"}
              /\ session'[c].token = session[c].token
              /\ session'[c].reverse = session[c].reverse
    BY <1>1, <1>6 DEF Shutdown, Sess, SessState
  <2>. QED
    BY <2>1, <2>2, RegistryKept
<1>7. CASE \E c \in Conns, t \in Tokens : AuthReverse(c, t)
  BY <1>7, AuthReverseStep
(* auth of a forward client and a rejected auth touch one idle session   *)
<1>8. ASSUME NEW c \in Conns,
             (\E t \in Tokens : AuthForward(c, t)) \/ AuthRejected(c)
      PROVE  RInv'
  <2>1. /\ session[c].st = "idle"
        /\ UNCHANGED <<token_clients, clients>>
        /\ \E v \in Sess : session' = [session EXCEPT ![c] = v]
    BY <1>8, <1>1 DEF AuthForward, AuthRejected, Sess, SessState
  <2>. QED
    BY <1>1, <2>1, RegistryKept
<1>9. CASE \E c \in Conns : SessionEnd(c)
  BY <1>9, SessionEndStep
<1>10. CASE UNCHANGED vars
  BY <1>1, <1>10, RegistryKept DEF vars
<1>. QED
  BY <1>2, <1>3, <1>4, <1>5, <1>6, <1>7, <1>8, <1>9, <1>10, Zenon DEF Next

(* The registry lists exactly the live reverse sessions in every          *)
(* reachable state: auth, remove_token and _cleanup_connection keep       *)
(* _clients and _token_clients in step, so round robin (lines 418-441)    *)
(* never hands out a finished session and no token keeps an empty list.   *)
THEOREM RegistryConsistentThm == Spec => []RegistryConsistent
<1>1. RInv => RegistryConsistent
  BY DEF RInv
<1>. QED
  BY <1>1, InitRInv, RInvStep, PTL DEF Spec

-----------------------------------------------------------------------------
(* _loop is set while serve() runs and whenever there are clients: serve() *)
(* sets it and nothing clears it, and clients join only while serving.     *)
LoopInv == serving \/ clients # {} => loop_set

LEMMA LoopStep == RInv /\ LoopInv /\ [Next]_vars => LoopInv'
<1> SUFFICES ASSUME RInv, LoopInv, [Next]_vars PROVE LoopInv'
  OBVIOUS
<1>1. CASE Serve
  BY <1>1 DEF Serve, LoopInv
<1>2. CASE \E c \in Conns, t \in Tokens : AuthReverse(c, t) \/ AuthForward(c, t)
  BY <1>2 DEF AuthReverse, AuthForward, LoopInv
<1>3. CASE \/ \E t \in Tokens, req \in Ports \cup {None} : AddReverseToken(t, req)
           \/ \E t \in Tokens : AddForwardToken(t) \/ HandlePendingToken(t)
           \/ \E t \in Tokens : SelectClient(t) \/ RemoveForwardToken(t)
           \/ Shutdown \/ SocketStep
           \/ \E s \in Sups : SupervisorRun(s) \/ SupervisorFinally(s)
           \/ \E c \in Conns : AuthRejected(c)
  <2>1. ASSUME NEW t \in Tokens, NEW req \in Ports \cup {None},
               AddReverseToken(t, req)
        PROVE  loop_set' = loop_set /\ clients' = clients /\ (serving' => serving)
    BY <2>1 DEF AddReverseToken
  <2>2. ASSUME NEW t \in Tokens,
               \/ AddForwardToken(t) \/ HandlePendingToken(t)
               \/ SelectClient(t) \/ RemoveForwardToken(t)
        PROVE  loop_set' = loop_set /\ clients' = clients /\ (serving' => serving)
    BY <2>2 DEF AddForwardToken, HandlePendingToken, SelectClient,
                RemoveForwardToken
  <2>3. Shutdown => loop_set' = loop_set /\ clients' = clients /\ (serving' => serving)
    BY DEF Shutdown
  <2>4. SocketStep => loop_set' = loop_set /\ clients' = clients /\ (serving' => serving)
    BY DEF SocketStep, server_vars
  <2>5. ASSUME NEW s \in Sups, SupervisorRun(s) \/ SupervisorFinally(s)
        PROVE  loop_set' = loop_set /\ clients' = clients /\ (serving' => serving)
    BY <2>5 DEF SupervisorRun, SupervisorFinally
  <2>6. ASSUME NEW c \in Conns, AuthRejected(c)
        PROVE  loop_set' = loop_set /\ clients' = clients /\ (serving' => serving)
    BY <2>6 DEF AuthRejected
  <2>7. loop_set' = loop_set /\ clients' = clients /\ (serving' => serving)
    BY <1>3, <2>1, <2>2, <2>3, <2>4, <2>5, <2>6
  <2>. QED
    BY <2>7 DEF LoopInv
<1>4. CASE \/ \E t \in Tokens : RemoveReverseToken(t)
           \/ \E c \in Conns : SessionEnd(c)
  <2>1. UNCHANGED <<loop_set, serving>> /\ clients' \subseteq clients
    BY <1>4 DEF RemoveReverseToken, SessionEnd
  <2>. QED
    BY <2>1 DEF LoopInv
<1>5. CASE UNCHANGED vars
  BY <1>5 DEF vars, LoopInv
<1>. QED
  BY <1>1, <1>2, <1>3, <1>4, <1>5 DEF Next

(* The step form of ClientLeavesClosed.                                    *)
LEMMA LeaveStep ==
    ASSUME RInv, LoopInv, [Next]_vars
    PROVE  [\A c \in clients \ clients' :
               \/ session'[c].st = "done"
               \/ session'[c].st = "closing" /\ session[c].token \notin DOMAIN tokens']_vars
<1>1. ASSUME NEW t \in Tokens, RemoveReverseToken(t)
      PROVE  \A c \in clients \ clients' :
                session'[c].st = "closing" /\ session[c].token \notin DOMAIN tokens'
  <2> SUFFICES ASSUME NEW c \in clients \ clients'
               PROVE  session'[c].st = "closing" /\ session[c].token \notin DOMAIN tokens'
    OBVIOUS
  <2>1. t \in DOMAIN token_clients /\ c \in Range(token_clients[t])
    BY <1>1 DEF RemoveReverseToken
  <2>2. /\ c \in Conns /\ session[c].st \in {"running", "closing"}
        /\ session[c].token = t
    BY <2>1, ListedIsLive
  <2>3. loop_set
    BY DEF LoopInv
  <2>4. session'[c].st = "closing"
    BY <1>1, <2>1, <2>2, <2>3 DEF RemoveReverseToken, Closing
  <2>5. t \notin DOMAIN tokens'
    BY <1>1 DEF RemoveReverseToken, Drop, Restrict
  <2>. QED
    BY <2>2, <2>4, <2>5
<1>2. ASSUME NEW c0 \in Conns, SessionEnd(c0)
      PROVE  \A c \in clients \ clients' : session'[c].st = "done"
  BY <1>2 DEF SessionEnd, RInv, RegTypeOK
<1>3. CASE \/ \E t \in Tokens, req \in Ports \cup {None} : AddReverseToken(t, req)
           \/ \E t \in Tokens : AddForwardToken(t) \/ HandlePendingToken(t)
           \/ \E t \in Tokens : SelectClient(t) \/ RemoveForwardToken(t)
           \/ Serve \/ Shutdown \/ SocketStep
           \/ \E s \in Sups : SupervisorRun(s) \/ SupervisorFinally(s)
           \/ \E c \in Conns : AuthRejected(c)
           \/ \E c \in Conns, t \in Tokens : AuthReverse(c, t) \/ AuthForward(c, t)
  <2>1. clients \subseteq clients'
    BY <1>3 DEF AddReverseToken, AddForwardToken, HandlePendingToken,
                SelectClient, RemoveForwardToken, Serve, Shutdown, SocketStep,
                server_vars, SupervisorRun, SupervisorFinally, AuthRejected,
                AuthReverse, AuthForward
  <2>. QED
    BY <2>1
<1>4. CASE UNCHANGED vars
  BY <1>4
<1>. QED
  BY <1>1, <1>2, <1>3, <1>4 DEF Next

(* A client leaves the registry only when its session has ended or        *)
(* remove_token of its own token has scheduled the close of its websocket *)
(* (lines 318-325 and 583-607): no running session is forgotten by the    *)
(* registry, for every number of tokens, connections and serve() calls.   *)
THEOREM ClientLeavesClosedThm == Spec => ClientLeavesClosed
<1>1. Init => RInv /\ LoopInv
  BY InitRInv DEF Init, LoopInv
<1>2. RInv /\ LoopInv /\ [Next]_vars => (RInv /\ LoopInv)'
  BY RInvStep, LoopStep
<1>. QED
  BY <1>1, <1>2, LeaveStep, PTL DEF Spec, ClientLeavesClosed
=============================================================================
