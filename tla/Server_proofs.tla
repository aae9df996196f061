---------------------------- MODULE Server_proofs ----------------------------
(* Proofs about the server model of module Server, for every set of       *)
(* tokens, ports, connections and supervisor ids.                          *)
EXTENDS Server, TLAPS

-----------------------------------------------------------------------------
(* Only add_reverse_token and the reverse branch of remove_token change   *)
(* _tokens or the port pool.                                               *)
LEMMA OnlyAdminMovesPorts ==
    ASSUME [Next]_vars
    PROVE  \/ \E t \in Tokens, req \in Ports \cup {None} : AddReverseToken(t, req)
           \/ \E t \in Tokens : RemoveReverseToken(t)
           \/ UNCHANGED <<tokens, pool>>
<1>1. CASE \E t \in Tokens : RemoveReverseToken(t) \/ RemoveForwardToken(t)
  BY <1>1 DEF RemoveForwardToken
<1>2. CASE \E c \in Conns, t \in Tokens : AuthReverse(c, t) \/ AuthForward(c, t)
  BY <1>2 DEF AuthReverse, AuthForward
<1>3. CASE \E c \in Conns : AuthRejected(c) \/ SessionEnd(c)
  BY <1>3 DEF AuthRejected, SessionEnd
<1>4. CASE \E s \in Sups : SupervisorRun(s) \/ SupervisorFinally(s)
  BY <1>4 DEF SupervisorRun, SupervisorFinally
<1>5. CASE \/ \E t \in Tokens : AddForwardToken(t)
           \/ Serve \/ Shutdown
           \/ \E t \in Tokens : HandlePendingToken(t)
           \/ \E t \in Tokens : SelectClient(t)
           \/ SocketStep
  BY <1>5 DEF AddForwardToken, Serve, Shutdown, HandlePendingToken,
              SelectClient, SocketStep, server_vars
<1>6. CASE UNCHANGED vars
  BY <1>6 DEF vars
<1>. QED
  BY <1>1, <1>2, <1>3, <1>4, <1>5, <1>6 DEF Next

(* The pool and the tokens' ports partition the ports, and no two tokens  *)
(* share a port: the inductive step of PortsConserved.                    *)
LEMMA PortsStep == PortsConserved /\ [Next]_vars => PortsConserved'
<1> SUFFICES ASSUME PortsConserved, [Next]_vars PROVE PortsConserved'
  OBVIOUS
<1>1. CASE \E t \in Tokens, req \in Ports \cup {None} : AddReverseToken(t, req)
  <2>1. PICK t \in Tokens, req \in Ports \cup {None} : AddReverseToken(t, req)
    BY <1>1
  <2>2. PICK p \in PortGet(req) : tokens' = Put(tokens, t, p) /\ pool' = pool \ {p}
    BY <2>1 DEF AddReverseToken
  <2>3. p \in pool /\ t \notin DOMAIN tokens
    BY <2>1, <2>2 DEF PortGet, AddReverseToken
  <2>4. Range(tokens') = Range(tokens) \cup {p}
    BY <2>2, <2>3 DEF Put, Range
  <2>5. IsInjective(tokens')
    BY <2>2, <2>3 DEF PortsConserved, Put, IsInjective, Range
  <2>. QED
    BY <2>2, <2>3, <2>4, <2>5 DEF PortsConserved
<1>2. CASE \E t \in Tokens : RemoveReverseToken(t)
  <2>1. PICK t \in Tokens : RemoveReverseToken(t)
    BY <1>2
  <2> DEFINE p == tokens[t]
  <2>2. /\ t \in DOMAIN tokens
        /\ tokens' = Drop(tokens, t)
        /\ pool' = pool \cup {p}
    BY <2>1 DEF RemoveReverseToken
  <2>3. Range(tokens') = Range(tokens) \ {p}
    BY <2>2 DEF PortsConserved, Drop, Restrict, Range, IsInjective
  <2>4. IsInjective(tokens')
    BY <2>2 DEF PortsConserved, Drop, Restrict, IsInjective
  <2>5. p \in Range(tokens)
    BY <2>2 DEF Range
  <2>. QED
    BY <2>2, <2>3, <2>4, <2>5 DEF PortsConserved
<1>3. CASE UNCHANGED <<tokens, pool>>
  BY <1>3 DEF PortsConserved, Range, IsInjective
<1>. QED
  BY <1>1, <1>2, <1>3, OnlyAdminMovesPorts

(* Every port of the pool is free or owned by exactly one reverse token,  *)
(* in every reachable state, whatever the ports, tokens and interleaving  *)
(* of add_reverse_token, remove_token and the rest of the server (spec    *)
(* section 8 item 2).                                                      *)
THEOREM PortsAlwaysConserved == Spec => []PortsConserved
<1>1. Init => PortsConserved
  BY DEF Init, PortsConserved, Range, IsInjective
<1>. QED
  BY <1>1, PortsStep, PTL DEF Spec

-----------------------------------------------------------------------------
(* The invariant SupervisorOwnsPort rests on: ports are conserved (so a   *)
(* port names one token), pending tokens are live tokens, and the         *)
(* supervisor records are typed.                                           *)
IInv ==
    /\ PortsConserved
    /\ SupervisorOwnsPort
    /\ DOMAIN tokens \subseteq Tokens
    /\ pending_tokens \subseteq DOMAIN tokens
    /\ sup \in [Sups -> Sup]
    /\ \A p \in DOMAIN socks_tasks : socks_tasks[p] \in Sups

(* StartSupervisors(P) for tokens of P whose ports have no supervisor task *)
(* gives each a new task that _socks_tasks records for the token's port,   *)
(* and leaves every other task and entry as it was.                        *)
LEMMA StartKeepsOwnership ==
    ASSUME IInv,
           NEW P \in SUBSET DOMAIN tokens,
           \A t \in P : tokens[t] \notin DOMAIN socks_tasks,
           StartSupervisors(P),
           tokens' = tokens
    PROVE  /\ SupervisorOwnsPort'
           /\ sup' \in [Sups -> Sup]
           /\ \A p \in DOMAIN socks_tasks' : socks_tasks'[p] \in Sups
<1>1. PICK f \in [P -> Sups] :
        /\ IsInjective(f)
        /\ \A t \in P : Reusable(f[t])
        /\ sup' = [s \in Sups |->
                     IF s \in Range(f)
                       THEN LET t == Inverse(f, P, Sups)[s] IN
                            [st |-> "new", port |-> tokens[t], token |-> t]
                       ELSE sup[s]]
        /\ socks_tasks' = [p \in DOMAIN socks_tasks \cup {tokens[t] : t \in P} |->
                             IF \E t \in P : tokens[t] = p
                               THEN f[CHOOSE t \in P : tokens[t] = p]
                               ELSE socks_tasks[p]]
  BY DEF StartSupervisors
<1>2. \A t \in P : Inverse(f, P, Sups)[f[t]] = t
  BY <1>1 DEF Inverse, IsInjective, Range
<1>3. \A t \in P : /\ tokens[t] \in DOMAIN socks_tasks'
                   /\ socks_tasks'[tokens[t]] = f[t]
  BY <1>1 DEF IInv, PortsConserved, IsInjective
<1>4. \A p \in DOMAIN socks_tasks : /\ p \in DOMAIN socks_tasks'
                                    /\ socks_tasks'[p] = socks_tasks[p]
  BY <1>1
<1>5. \A t \in P : sup'[f[t]] = [st |-> "new", port |-> tokens[t], token |-> t]
  BY <1>1, <1>2 DEF Range
<1>6. \A s \in Sups : s \notin Range(f) => sup'[s] = sup[s]
  BY <1>1
<1>7. sup' \in [Sups -> Sup]
  <2>1. \A t \in P : tokens[t] \in Ports /\ t \in Tokens
    BY DEF IInv, PortsConserved, Range
  <2>. QED
    BY <1>1, <1>2, <2>1 DEF IInv, Sup, SupState, Range
<1>8. SupervisorOwnsPort'
  <2> SUFFICES ASSUME NEW s \in Sups, sup'[s].st \in {"new", "running"}
               PROVE  /\ sup'[s].port \in DOMAIN socks_tasks'
                      /\ socks_tasks'[sup'[s].port] = s
                      /\ sup'[s].token \in DOMAIN tokens'
                      /\ tokens'[sup'[s].token] = sup'[s].port
    BY DEF SupervisorOwnsPort
  <2>1. CASE s \in Range(f)
    <3>1. PICK t \in P : f[t] = s
      BY <2>1 DEF Range
    <3>2. sup'[s] = [st |-> "new", port |-> tokens[t], token |-> t]
      BY <3>1, <1>5
    <3>3. t \in DOMAIN tokens' /\ tokens'[t] = tokens[t]
      OBVIOUS
    <3>. QED
      BY <3>1, <3>2, <3>3, <1>3
  <2>2. CASE s \notin Range(f)
    <3>1. sup[s].st \in {"new", "running"}
      BY <2>2, <1>6
    <3>2. /\ sup[s].port \in DOMAIN socks_tasks
          /\ socks_tasks[sup[s].port] = s
          /\ sup[s].token \in DOMAIN tokens
          /\ tokens[sup[s].token] = sup[s].port
      BY <3>1 DEF IInv, SupervisorOwnsPort
    <3>. QED
      BY <2>2, <3>2, <1>4, <1>6
  <2>. QED
    BY <2>1, <2>2
<1>9. \A p \in DOMAIN socks_tasks' : socks_tasks'[p] \in Sups
  BY <1>1 DEF IInv
<1>. QED
  BY <1>7, <1>8, <1>9

(* A step that leaves the tokens, the pending list, the supervisor tasks  *)
(* and _socks_tasks alone keeps IInv.                                      *)
LEMMA QuietStep ==
    ASSUME IInv, PortsConserved',
           UNCHANGED <<tokens, pending_tokens, sup, socks_tasks>>
    PROVE  IInv'
BY DEF IInv, SupervisorOwnsPort

(* A supervisor task changing state to st, keeping its port and token.    *)
LEMMA SupStateStep ==
    ASSUME IInv, PortsConserved', NEW s \in Sups,
           NEW st \in SupState,
           sup[s].st \in {"new", "running"} \/ st \notin {"new", "running"},
           sup' = [sup EXCEPT ![s].st = st],
           UNCHANGED <<tokens, pending_tokens, socks_tasks>>
    PROVE  IInv'
BY DEF IInv, SupervisorOwnsPort, Sup

LEMMA OwnershipStep == IInv /\ [Next]_vars => IInv'
<1> SUFFICES ASSUME IInv, [Next]_vars PROVE IInv'
  OBVIOUS
<1>0. PortsConserved'
  BY PortsStep DEF IInv
<1>1. CASE \E t \in Tokens, req \in Ports \cup {None} : AddReverseToken(t, req)
  <2>1. PICK t \in Tokens, req \in Ports \cup {None} : AddReverseToken(t, req)
    BY <1>1
  <2>2. PICK p \in PortGet(req) : tokens' = Put(tokens, t, p)
    BY <2>1 DEF AddReverseToken
  <2>3. /\ t \notin DOMAIN tokens
        /\ pending_tokens' \subseteq pending_tokens \cup {t}
        /\ UNCHANGED <<sup, socks_tasks>>
    BY <2>1 DEF AddReverseToken
  <2>4. \A u \in DOMAIN tokens : u \in DOMAIN tokens' /\ tokens'[u] = tokens[u]
    BY <2>2, <2>3 DEF Put
  <2>5. DOMAIN tokens' = DOMAIN tokens \cup {t}
    BY <2>2 DEF Put
  <2>. QED
    BY <1>0, <2>3, <2>4, <2>5 DEF IInv, SupervisorOwnsPort
<1>2. CASE \E t \in Tokens : RemoveReverseToken(t)
  <2>1. PICK t \in Tokens : RemoveReverseToken(t)
    BY <1>2
  <2> DEFINE p == tokens[t]
  <2>2. /\ t \in DOMAIN tokens
        /\ tokens' = Drop(tokens, t)
        /\ pending_tokens' = pending_tokens \ {t}
    BY <2>1 DEF RemoveReverseToken
  <2>3. DOMAIN tokens' = DOMAIN tokens \ {t}
        /\ \A u \in DOMAIN tokens' : tokens'[u] = tokens[u]
    BY <2>2 DEF Drop, Restrict
  <2>4. CASE p \in DOMAIN socks_tasks
    <3> DEFINE q == socks_tasks[p]
    <3>1. sup' = Cancelled(q) /\ socks_tasks' = Drop(socks_tasks, p)
      BY <2>1, <2>4 DEF RemoveReverseToken
    <3>2. q \in Sups
      BY <2>4 DEF IInv
    <3>3. sup' \in [Sups -> Sup]
      BY <3>1, <3>2 DEF IInv, Cancelled, Sup, SupState
    <3>4. sup'[q].st \notin {"new", "running"}
      BY <3>1, <3>2 DEF IInv, Cancelled, Sup, SupState
    <3>5. \A s \in Sups \ {q} : sup'[s] = sup[s]
      BY <3>1 DEF IInv, Cancelled
    <3>6. SupervisorOwnsPort'
      <4> SUFFICES ASSUME NEW s \in Sups, sup'[s].st \in {"new", "running"}
                   PROVE  /\ sup'[s].port \in DOMAIN socks_tasks'
                          /\ socks_tasks'[sup'[s].port] = s
                          /\ sup'[s].token \in DOMAIN tokens'
                          /\ tokens'[sup'[s].token] = sup'[s].port
        BY DEF SupervisorOwnsPort
      <4>1. s # q /\ sup'[s] = sup[s]
        BY <3>4, <3>5
      <4>2. /\ sup[s].port \in DOMAIN socks_tasks
            /\ socks_tasks[sup[s].port] = s
            /\ sup[s].token \in DOMAIN tokens
            /\ tokens[sup[s].token] = sup[s].port
        BY <4>1 DEF IInv, SupervisorOwnsPort
      <4>3. sup[s].port # p /\ sup[s].token # t
        BY <4>1, <4>2
      <4>. QED
        BY <4>1, <4>2, <4>3, <3>1, <2>3 DEF Drop, Restrict
    <3>. QED
      BY <1>0, <2>2, <2>3, <3>1, <3>3, <3>6 DEF IInv, Drop, Restrict
  <2>5. CASE p \notin DOMAIN socks_tasks
    <3>1. UNCHANGED <<sup, socks_tasks>>
      BY <2>1, <2>5 DEF RemoveReverseToken
    <3>2. SupervisorOwnsPort'
      <4> SUFFICES ASSUME NEW s \in Sups, sup[s].st \in {"new", "running"}
                   PROVE  /\ sup[s].port \in DOMAIN socks_tasks
                          /\ socks_tasks[sup[s].port] = s
                          /\ sup[s].token \in DOMAIN tokens'
                          /\ tokens'[sup[s].token] = sup[s].port
        BY <3>1 DEF SupervisorOwnsPort
      <4>1. /\ sup[s].port \in DOMAIN socks_tasks
            /\ socks_tasks[sup[s].port] = s
            /\ sup[s].token \in DOMAIN tokens
            /\ tokens[sup[s].token] = sup[s].port
        BY DEF IInv, SupervisorOwnsPort
      <4>2. sup[s].token # t
        BY <4>1, <2>5
      <4>. QED
        BY <4>1, <4>2, <2>3
    <3>. QED
      BY <1>0, <2>2, <2>3, <3>1, <3>2 DEF IInv
  <2>. QED
    BY <2>4, <2>5
<1>3. CASE \E t \in Tokens : RemoveForwardToken(t)
  BY <1>0, <1>3, QuietStep DEF RemoveForwardToken
<1>4. CASE Serve
  <2>1. pending_tokens' = {} /\ tokens' = tokens
    BY <1>4 DEF Serve
  <2>2. CASE WaitClient
    BY <1>0, <1>4, <2>1, <2>2 DEF Serve, IInv, SupervisorOwnsPort
  <2>3. CASE ~WaitClient
    <3>1. StartSupervisors(Unsupervised(pending_tokens))
      BY <1>4, <2>3 DEF Serve
    <3>2. /\ Unsupervised(pending_tokens) \in SUBSET DOMAIN tokens
          /\ \A t \in Unsupervised(pending_tokens) : tokens[t] \notin DOMAIN socks_tasks
      BY DEF IInv, Unsupervised
    <3>3. /\ SupervisorOwnsPort' /\ sup' \in [Sups -> Sup]
          /\ \A p \in DOMAIN socks_tasks' : socks_tasks'[p] \in Sups
      BY <2>1, <3>1, <3>2, StartKeepsOwnership
    <3>. QED
      BY <1>0, <2>1, <3>3 DEF IInv
  <2>. QED
    BY <2>2, <2>3
<1>5. CASE Shutdown
  BY <1>0, <1>5, QuietStep DEF Shutdown
<1>6. CASE \E t \in Tokens : HandlePendingToken(t)
  <2>1. PICK t \in Tokens : HandlePendingToken(t)
    BY <1>6
  <2>2. UNCHANGED <<tokens, pending_tokens>>
    BY <2>1 DEF HandlePendingToken
  <2>3. CASE ~WaitClient /\ t \in DOMAIN tokens
    <3>1. StartSupervisors(Unsupervised({t}))
      BY <2>1, <2>3 DEF HandlePendingToken
    <3>2. /\ Unsupervised({t}) \in SUBSET DOMAIN tokens
          /\ \A u \in Unsupervised({t}) : tokens[u] \notin DOMAIN socks_tasks
      BY <2>3 DEF Unsupervised
    <3>3. /\ SupervisorOwnsPort' /\ sup' \in [Sups -> Sup]
          /\ \A p \in DOMAIN socks_tasks' : socks_tasks'[p] \in Sups
      BY <2>2, <3>1, <3>2, StartKeepsOwnership
    <3>. QED
      BY <1>0, <2>2, <3>3 DEF IInv
  <2>4. CASE ~(~WaitClient /\ t \in DOMAIN tokens)
    BY <1>0, <2>1, <2>2, <2>4, QuietStep DEF HandlePendingToken
  <2>. QED
    BY <2>3, <2>4
<1>7. CASE \E c \in Conns, t \in Tokens : AuthReverse(c, t)
  <2>1. PICK c \in Conns, t \in Tokens : AuthReverse(c, t)
    BY <1>7
  <2>2. UNCHANGED <<tokens, pending_tokens>> /\ t \in DOMAIN tokens
    BY <2>1 DEF AuthReverse
  <2>3. StartSupervisors(Unsupervised({t}))
    BY <2>1 DEF AuthReverse
  <2>4. /\ Unsupervised({t}) \in SUBSET DOMAIN tokens
        /\ \A u \in Unsupervised({t}) : tokens[u] \notin DOMAIN socks_tasks
    BY <2>2 DEF Unsupervised
  <2>5. /\ SupervisorOwnsPort' /\ sup' \in [Sups -> Sup]
        /\ \A p \in DOMAIN socks_tasks' : socks_tasks'[p] \in Sups
    BY <2>2, <2>3, <2>4, StartKeepsOwnership
  <2>. QED
    BY <1>0, <2>2, <2>5 DEF IInv
<1>8. CASE \/ \E t \in Tokens : AddForwardToken(t)
           \/ \E c \in Conns, t \in Tokens : AuthForward(c, t)
           \/ \E c \in Conns : AuthRejected(c) \/ SessionEnd(c)
           \/ \E t \in Tokens : SelectClient(t)
           \/ SocketStep
           \/ UNCHANGED vars
  BY <1>0, <1>8, QuietStep DEF AddForwardToken, AuthForward, AuthRejected,
     SessionEnd, SelectClient, SocketStep, server_vars, vars
<1>9. CASE \E s \in Sups : SupervisorRun(s)
  <2>1. PICK s \in Sups : SupervisorRun(s)
    BY <1>9
  <2>2. \E st \in {"running", "done"} : sup' = [sup EXCEPT ![s].st = st]
    BY <2>1 DEF SupervisorRun
  <2>3. sup[s].st = "new" /\ UNCHANGED <<tokens, pending_tokens, socks_tasks>>
    BY <2>1 DEF SupervisorRun
  <2>. QED
    BY <1>0, <2>2, <2>3, SupStateStep DEF SupState
<1>10. CASE \E s \in Sups : SupervisorFinally(s)
  <2>1. PICK s \in Sups : SupervisorFinally(s)
    BY <1>10
  <2>2. sup' = [sup EXCEPT ![s].st = "done"]
        /\ UNCHANGED <<tokens, pending_tokens, socks_tasks>>
    BY <2>1 DEF SupervisorFinally
  <2>. QED
    BY <1>0, <2>2, SupStateStep DEF SupState
<1>. QED
  BY <1>1, <1>2, <1>3, <1>4, <1>5, <1>6, <1>7, <1>8, <1>9, <1>10 DEF Next

(* At most one supervisor task of a port is live, it is the one           *)
(* _socks_tasks records, and its port still belongs to its token, in every *)
(* reachable state of the server, for every number of tokens, ports,      *)
(* connections and supervisor tasks (auth and _handle_pending_token       *)
(* against remove_token).                                                  *)
THEOREM SupervisorsOwnPorts == Spec => []SupervisorOwnsPort
<1>1. Init => IInv
  BY DEF Init, IInv, PortsConserved, SupervisorOwnsPort, Range, IsInjective,
         Sup, SupState
<1>2. IInv => SupervisorOwnsPort
  BY DEF IInv
<1>. QED
  BY <1>1, <1>2, OwnershipStep, PTL DEF Spec
=============================================================================
