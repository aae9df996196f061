--------------------------- MODULE ServerType_proofs ---------------------------
(***************************************************************************)
(* Type correctness of the server model (module Server), for every set of *)
(* tokens, ports, connections and supervisor ids.  TypeOK is not          *)
(* inductive alone: _get_next_websocket divides by the length of a token's *)
(* list (line 431), which is never empty (RegistryConsistent, module      *)
(* ServerRegistry_proofs), and a supervisor's first step binds its port,  *)
(* which is a port while the task is new (SupervisorOwnsPort, module      *)
(* Server_proofs).  The SocketManager steps reuse the per-operation type  *)
(* lemmas of SocketManager_proofs.                                         *)
(***************************************************************************)
EXTENDS Server_proofs, ServerRegistry_proofs, TLAPS

TInv == TypeOK /\ RInv /\ IInv

(* StartSupervisors gives each new task a port and a token of P.          *)
LEMMA StartTyped ==
    ASSUME TypeOK, NEW P \in SUBSET DOMAIN tokens, StartSupervisors(P)
    PROVE  /\ sup' \in [Sups -> Sup]
           /\ DOMAIN socks_tasks' \subseteq Ports
           /\ \A p \in DOMAIN socks_tasks' : socks_tasks'[p] \in Sups
<1>1. PICK f \in [P -> Sups] :
        /\ sup' = [s \in Sups |->
                     IF s \in Range(f)
                       THEN LET t == Inverse(f, P, Sups)[s] IN
                            [st |-> "new", port |-> tokens[t], token |-> t]
                       ELSE sup[s]]
        /\ socks_tasks' = [p \in DOMAIN socks_tasks \cup {tokens[t] : t \in P} |->
                             IF \E t \in P : tokens[t] = p
                               THEN f[CHOOSE t \in P : tokens[t] = p]
                               ELSE socks_tasks[p]]
  BY DEF StartSupervisors
<1>2. \A s \in Range(f) : Inverse(f, P, Sups)[s] \in P
  BY DEF Inverse, Range
<1>3. \A t \in P : tokens[t] \in Ports /\ t \in Tokens
  BY DEF TypeOK
<1>4. sup' \in [Sups -> Sup]
  BY <1>1, <1>2, <1>3 DEF TypeOK, Sup, SupState
<1>5. \A p \in DOMAIN socks_tasks' : socks_tasks'[p] \in Sups
  <2>1. ASSUME NEW p \in DOMAIN socks_tasks', \E t \in P : tokens[t] = p
        PROVE  f[CHOOSE t \in P : tokens[t] = p] \in Sups
    BY <2>1
  <2>. QED
    BY <1>1, <2>1 DEF TypeOK
<1>. QED
  BY <1>1, <1>3, <1>4, <1>5 DEF TypeOK

(* The two instances of SocketManager, Server's SM and SMP here, name the *)
(* same definitions.                                                      *)
(* The SocketManager part of the state is typed after every step; the    *)
(* argument of SocketManager_proofs, one case per SocketManager operation *)
(* the server's steps take.                                                *)
LEMMA SMTypeStep ==
    ASSUME TypeOK, IInv, [Next]_vars
    PROVE  SM!TypeOK'
<1>0. SM!TypeOK /\ Grace \in Nat \ {0}
  BY ServerAssumption DEF TypeOK
<1>1. CASE UNCHANGED sm_vars
  BY <1>0, <1>1 DEF sm_vars, SM!TypeOK
<1>2. ASSUME NEW s \in Sups, SupervisorRun(s) PROVE SM!TypeOK'
  <2>1. sup[s].port \in Ports
    BY <1>2 DEF SupervisorRun, IInv, SupervisorOwnsPort, TypeOK
  <2>2. CASE SM!GetSocket(s, sup[s].port)
    BY <1>0, <2>1, <2>2 DEF SM!GetSocket, SM!TypeOK, SM!Entry, SM!Stamp
  <2>3. CASE UNCHANGED sm_vars
    BY <1>1, <2>3
  <2>. QED
    BY <1>2, <2>2, <2>3 DEF SupervisorRun
<1>3. ASSUME NEW s \in Sups, SupervisorFinally(s) PROVE SM!TypeOK'
  <2>1. PICK p \in Ports : p = held[s]
    BY <1>0, <1>3 DEF SupervisorFinally, SM!ReleaseSocket, SM!TypeOK
  <2>2. held' \in [Sups -> Ports \cup {None}]
    BY <1>0, <1>3 DEF SupervisorFinally, SM!ReleaseSocket, SM!TypeOK
  <2>3. CASE p \notin DOMAIN sockets
    BY <1>0, <1>3, <2>1, <2>2, <2>3 DEF SupervisorFinally, SM!ReleaseSocket, SM!TypeOK
  <2>4. CASE p \in DOMAIN sockets
    <3>1. cleanup_tasks' \in [Ports \X SM!Sleep -> Nat]
      BY <1>0, <1>3, <2>1, <2>4 DEF SupervisorFinally, SM!ReleaseSocket,
                                    SM!TypeOK, SM!Sleep
    <3>2. DOMAIN sockets' = DOMAIN sockets
          /\ \A q \in DOMAIN sockets' : sockets'[q] \in SM!Entry
      BY <1>0, <1>3, <2>1, <2>4 DEF SupervisorFinally, SM!ReleaseSocket,
                                    SM!TypeOK, SM!Entry, SM!Stamp
    <3>. QED
      BY <1>0, <2>2, <3>1, <3>2 DEF SM!TypeOK
  <2>. QED
    BY <2>3, <2>4
<1>4. ASSUME NEW p \in Ports, SM!CleanupSocket(p) PROVE SM!TypeOK'
  <2>1. cleanup_tasks' \in [Ports \X SM!Sleep -> Nat]
    BY <1>0, <1>4 DEF SM!CleanupSocket, SM!TypeOK, SM!Sleep
  <2>2. DOMAIN sockets' \subseteq Ports /\ \A q \in DOMAIN sockets' : sockets'[q] \in SM!Entry
    BY <1>0, <1>4 DEF SM!CleanupSocket, SM!TypeOK, SM!Restrict
  <2>. QED
    BY <1>0, <1>4, <2>1, <2>2 DEF SM!CleanupSocket, SM!TypeOK
<1>5. CASE SM!Tick
  <2>1. cleanup_tasks' \in [Ports \X SM!Sleep -> Nat]
    <3>1. ASSUME NEW x \in Ports \X SM!Sleep PROVE cleanup_tasks'[x] \in Nat
      <4>1. PICK q \in Ports, l \in SM!Sleep : x = <<q, l>>
        OBVIOUS
      <4>2. l # Grace /\ l # 0 => <<q, l + 1>> \in Ports \X SM!Sleep
        BY <1>0 DEF SM!Sleep
      <4>3. <<q, 0>> \in Ports \X SM!Sleep /\ <<q, 1>> \in Ports \X SM!Sleep
        BY <1>0 DEF SM!Sleep
      <4>. QED
        BY <1>0, <1>5, <4>1, <4>2, <4>3 DEF SM!Tick, SM!TypeOK
    <3>. QED
      BY <1>5, <3>1 DEF SM!Tick
  <2>2. \A ts \in SM!Stamp : SM!Age(ts) \in SM!Stamp
    BY <1>0 DEF SM!Age, SM!Stamp, SM!Unstamped
  <2>. QED
    BY <1>0, <1>5, <2>1, <2>2 DEF SM!Tick, SM!TypeOK, SM!Entry
<1>6. CASE Shutdown
  BY <1>0, <1>6 DEF Shutdown, SM!CloseAll, SM!TypeOK
<1>. QED
  <2>1. \/ \E s \in Sups : SupervisorRun(s) \/ SupervisorFinally(s)
        \/ SocketStep \/ Shutdown
        \/ UNCHANGED sm_vars
    BY DEF Next, vars, sm_vars, AddReverseToken, AddForwardToken,
           RemoveReverseToken, RemoveForwardToken, Serve, HandlePendingToken,
           AuthReverse, AuthForward, AuthRejected, SessionEnd, SelectClient
  <2>. QED
    BY <2>1, <1>1, <1>2, <1>3, <1>4, <1>5, <1>6 DEF SocketStep

(* The conjuncts of TypeOK that RInv, IInv and SM!TypeOK do not give.     *)
TypeRest ==
    /\ tokens \in [DOMAIN tokens -> Ports]
    /\ pool \subseteq Ports
    /\ forward_tokens \subseteq Tokens
    /\ pending_tokens \subseteq Tokens /\ start_tasks \subseteq Tokens
    /\ loop_set \in BOOLEAN /\ serving \in BOOLEAN /\ serves \in 0..MaxServes
    /\ DOMAIN token_clients \subseteq Tokens
    /\ DOMAIN token_indexes \subseteq Tokens
    /\ \A t \in DOMAIN token_indexes : token_indexes[t] \in Nat
    /\ forward_clients \subseteq Conns
    /\ DOMAIN socks_tasks \subseteq Ports

(* After a step, the four parts make up TypeOK.                           *)
LEMMA TypeParts ==
    TypeRest' /\ RInv' /\ IInv' /\ SM!TypeOK' => TypeOK'
<1> SUFFICES ASSUME TypeRest', RInv', IInv', SM!TypeOK' PROVE TypeOK'
  OBVIOUS
<1>1. clients' \subseteq Conns
  <2>1. \A t \in DOMAIN token_clients' : Range(token_clients'[t]) \subseteq Conns
    BY RangeInSet DEF RInv, RegTypeOK
  <2>. QED
    BY <2>1 DEF RInv, RegistryConsistent
<1>. QED
  BY <1>1 DEF TypeRest, RInv, RegTypeOK, IInv, TypeOK

(* Every step keeps the conjuncts of TypeRest.                            *)
LEMMA RestStep ==
    ASSUME TInv, [Next]_vars
    PROVE  TypeRest'
<1>0. TypeRest /\ pending_tokens \subseteq DOMAIN tokens
      /\ \A t \in DOMAIN tokens : tokens[t] \in Ports
  BY DEF TInv, TypeOK, TypeRest, IInv
<1>1. ASSUME NEW t \in Tokens, NEW req \in Ports \cup {None}, AddReverseToken(t, req)
      PROVE  TypeRest'
  <2>1. PICK p \in PortGet(req) : tokens' = Put(tokens, t, p) /\ pool' = pool \ {p}
    BY <1>1 DEF AddReverseToken
  <2>2. p \in Ports
    BY <2>1, <1>0 DEF PortGet, TypeRest
  <2>. QED
    BY <1>0, <1>1, <2>1, <2>2 DEF AddReverseToken, TypeRest, Put
<1>2. ASSUME NEW t \in Tokens, RemoveReverseToken(t) PROVE TypeRest'
  <2>1. t \in DOMAIN tokens /\ tokens[t] \in Ports
    BY <1>0, <1>2 DEF RemoveReverseToken
  <2>2. DOMAIN socks_tasks' \subseteq DOMAIN socks_tasks
    BY <1>2 DEF RemoveReverseToken, Drop, Restrict
  <2>. QED
    BY <1>0, <1>2, <2>1, <2>2 DEF RemoveReverseToken, TypeRest, Drop, Restrict
<1>3. ASSUME NEW t \in Tokens, AddForwardToken(t) \/ RemoveForwardToken(t)
      PROVE  TypeRest'
  BY <1>0, <1>3 DEF AddForwardToken, RemoveForwardToken, TypeRest
(* a supervisor start adds a port of a token to _socks_tasks              *)
<1>4. ASSUME NEW P \in SUBSET DOMAIN tokens, StartSupervisors(P)
      PROVE  DOMAIN socks_tasks' \subseteq Ports
  BY <1>0, <1>4, StartTyped DEF TInv
<1>5. CASE Serve
  <2>1. DOMAIN socks_tasks' \subseteq Ports
    <3>1. CASE WaitClient
      BY <1>0, <1>5, <3>1 DEF Serve, TypeRest
    <3>2. CASE ~WaitClient
      BY <1>0, <1>4, <1>5, <3>2 DEF Serve, Unsupervised
    <3>. QED
      BY <3>1, <3>2
  <2>. QED
    BY <1>0, <1>5, <2>1, ServerAssumption DEF Serve, TypeRest
<1>6. ASSUME NEW t \in Tokens, HandlePendingToken(t) PROVE TypeRest'
  <2>1. DOMAIN socks_tasks' \subseteq Ports
    <3>1. CASE ~WaitClient /\ t \in DOMAIN tokens
      BY <1>0, <1>4, <1>6, <3>1 DEF HandlePendingToken, Unsupervised
    <3>2. CASE ~(~WaitClient /\ t \in DOMAIN tokens)
      BY <1>0, <1>6, <3>2 DEF HandlePendingToken, TypeRest
    <3>. QED
      BY <3>1, <3>2
  <2>. QED
    BY <1>0, <1>6, <2>1 DEF HandlePendingToken, TypeRest
<1>7. ASSUME NEW c \in Conns, NEW t \in Tokens, AuthReverse(c, t) PROVE TypeRest'
  <2>1. DOMAIN socks_tasks' \subseteq Ports
    BY <1>0, <1>4, <1>7 DEF AuthReverse, Unsupervised
  <2>. QED
    BY <1>0, <1>7, <2>1 DEF AuthReverse, TypeRest, Put
<1>8. ASSUME NEW c \in Conns,
             \/ \E t \in Tokens : AuthForward(c, t)
             \/ AuthRejected(c) \/ SessionEnd(c)
      PROVE  TypeRest'
  <2>1. CASE SessionEnd(c)
    <3>1. /\ DOMAIN token_clients' \subseteq DOMAIN token_clients
          /\ DOMAIN token_indexes' \subseteq DOMAIN token_indexes
          /\ \A t \in DOMAIN token_indexes' : token_indexes'[t] = token_indexes[t]
      BY <2>1 DEF SessionEnd, CleanedClients, CleanedIndexes, Drop, Restrict
    <3>. QED
      BY <1>0, <2>1, <3>1 DEF SessionEnd, TypeRest
  <2>2. CASE ~SessionEnd(c)
    BY <1>0, <1>8, <2>2 DEF AuthForward, AuthRejected, TypeRest
  <2>. QED
    BY <2>1, <2>2
(* the cursor is taken modulo the length of a list that is never empty   *)
<1>9. ASSUME NEW t \in Tokens, SelectClient(t) PROVE TypeRest'
  <2>1. t \in DOMAIN token_clients
    BY <1>9 DEF SelectClient
  <2>2. token_clients[t] \in Seq(Conns) /\ token_clients[t] # <<>>
    BY <2>1 DEF TInv, RInv, RegTypeOK, RegistryConsistent
  <2>3. Len(token_clients[t]) \in Nat \ {0}
    BY <2>2, EmptySeq, LenProperties
  <2>4. Cursor(t) \in Nat
    BY <1>0 DEF Cursor, TypeRest
  <2>5. (Cursor(t) + 1) % Len(token_clients[t]) \in Nat
    BY <2>3, <2>4
  <2>. QED
    BY <1>0, <1>9, <2>5 DEF SelectClient, TypeRest, Put
<1>10. CASE \/ Shutdown \/ SocketStep
            \/ \E s \in Sups : SupervisorRun(s) \/ SupervisorFinally(s)
  BY <1>0, <1>10 DEF Shutdown, SocketStep, server_vars, SupervisorRun,
                     SupervisorFinally, TypeRest
<1>11. CASE UNCHANGED vars
  BY <1>0, <1>11 DEF vars, TypeRest
<1>. QED
  BY <1>1, <1>2, <1>3, <1>4, <1>5, <1>6, <1>7, <1>8, <1>9, <1>10, <1>11 DEF Next

LEMMA TInvStep == TInv /\ [Next]_vars => TInv'
<1> SUFFICES ASSUME TInv, [Next]_vars PROVE TInv'
  OBVIOUS
<1>1. RInv' /\ IInv'
  BY RInvStep, OwnershipStep DEF TInv
<1>2. SM!TypeOK' /\ TypeRest'
  BY SMTypeStep, RestStep DEF TInv
<1>. QED
  BY <1>1, <1>2, TypeParts DEF TInv

(* The server's state is well typed in every reachable state.  Among      *)
(* other things, the round-robin cursor of _get_next_websocket is always  *)
(* a number: the modulo of line 431 never divides by an empty list.       *)
THEOREM ServerTypeCorrect == Spec => []TypeOK
<1>1. Init => TInv
  <2> SUFFICES ASSUME Init PROVE TInv
    OBVIOUS
  <2>1. RInv /\ IInv
    BY InitRInv DEF Init, IInv, PortsConserved, SupervisorOwnsPort, Range,
                    IsInjective, Sup, SupState
  <2>2. SM!TypeOK
    BY DEF Init, SM!Init, SM!TypeOK
  <2>3. sup \in [Sups -> Sup] /\ session \in [Conns -> Sess]
    BY DEF Init, Sup, SupState, Sess, SessState
  <2>4. serves \in 0..MaxServes
    BY ServerAssumption DEF Init
  <2>5. TypeOK
    BY <2>2, <2>3, <2>4 DEF Init, TypeOK
  <2>. QED
    BY <2>1, <2>5 DEF TInv
<1>2. TInv => TypeOK
  BY DEF TInv
<1>. QED
  BY <1>1, <1>2, TInvStep, PTL DEF Spec
=============================================================================
