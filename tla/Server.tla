-------------------------------- MODULE Server --------------------------------
(***************************************************************************)
(* Class WSSocksServer of src/pywssocks/server.py (lines 150-733): the     *)
(* token registry and port pool, the WebSocket sessions' authentication   *)
(* and cleanup, the SOCKS5 supervisors and the start and end of serve(),  *)
(* over the SocketManager of module SocketManager, whose holders are the  *)
(* supervisor tasks.                                                       *)
(*                                                                         *)
(* The server runs on one asyncio event loop.  A step is a segment of one *)
(* task between two suspension points; the token locks are never awaited  *)
(* while held, so a locked block is part of the step that takes it.  An    *)
(* admin call (add_*_token, remove_token) is synchronous and is one step.  *)
(* A client is identified by its connection: client_id is a fresh uuid4   *)
(* per authenticated connection.  Websocket frames after authentication,  *)
(* the relay and the SOCKS5 handlers are not modelled here.               *)
(***************************************************************************)
EXTENDS Naturals, Sequences, FiniteSets, Functions, SequencesExt

CONSTANTS
    Tokens,     \* token strings an admin or a client may use
    Ports,      \* the ports of the PortPool
    Conns,      \* websocket connections
    Sups,       \* bound: ids of _run_socks_server tasks (recycled when done)
    Grace,      \* SocketManager._grace, in clock ticks
    MaxCleanups,\* bound, see SocketManager
    MaxServes,  \* bound: number of calls of serve()
    WaitClient, \* _socks_wait_client
    None        \* no token, port or supervisor

ASSUME ServerAssumption ==
    /\ IsFiniteSet(Sups) /\ IsFiniteSet(Ports)
    /\ Grace \in Nat \ {0} /\ MaxCleanups \in Nat \ {0}
    /\ MaxServes \in Nat \ {0}
    /\ WaitClient \in BOOLEAN
    /\ None \notin Tokens \cup Ports \cup Sups

VARIABLES
    tokens,          \* _tokens: reverse token -> port
    pool,            \* the free ports of _socks_port_pool
    forward_tokens,  \* _forward_tokens
    pending_tokens,  \* _pending_tokens: tokens added before serve()
    start_tasks,     \* tokens of created, not yet run _handle_pending_token tasks
    loop_set,        \* _loop is not None
    serving,         \* serve() is between its start and its finally
    serves,          \* number of serve() calls so far
    token_clients,   \* _token_clients: token -> sequence of connections
    token_indexes,   \* _token_indexes: token -> round-robin cursor
    clients,         \* DOMAIN _clients
    forward_clients, \* DOMAIN _forward_clients
    socks_tasks,     \* _socks_tasks: port -> supervisor
    sup,             \* sup[s]: state, port and token of supervisor task s
    session,         \* session[c]: state, token and kind of connection c
    sockets, cleanup_tasks, held   \* the SocketManager's

sm_vars == <<sockets, cleanup_tasks, held>>
vars == <<tokens, pool, forward_tokens, pending_tokens, start_tasks, loop_set,
          serving, serves, token_clients, token_indexes, clients,
          forward_clients, socks_tasks, sup, session, sockets, cleanup_tasks,
          held>>

SM == INSTANCE SocketManager WITH Holders <- Sups

(* A supervisor task is "new" until its first step, "running" while it    *)
(* holds its socket, "cancelled" between cancel() and its finally block.  *)
SupState == {"free", "new", "running", "cancelled", "done"}
SessState == {"idle", "running", "closing", "done"}
Sup == [st : SupState, port : Ports \cup {None}, token : Tokens \cup {None}]
Sess == [st : SessState, token : Tokens \cup {None}, reverse : BOOLEAN]

(* Dictionary update and deletion. *)
Put(f, k, v) == [x \in DOMAIN f \cup {k} |-> IF x = k THEN v ELSE f[x]]
Drop(f, k) == Restrict(f, DOMAIN f \ {k})

TypeOK ==
    /\ tokens \in [DOMAIN tokens -> Ports] /\ DOMAIN tokens \subseteq Tokens
    /\ pool \subseteq Ports
    /\ forward_tokens \subseteq Tokens
    /\ pending_tokens \subseteq Tokens /\ start_tasks \subseteq Tokens
    /\ loop_set \in BOOLEAN /\ serving \in BOOLEAN /\ serves \in 0..MaxServes
    /\ DOMAIN token_clients \subseteq Tokens
    /\ \A t \in DOMAIN token_clients : token_clients[t] \in Seq(Conns)
    /\ DOMAIN token_indexes \subseteq Tokens
    /\ \A t \in DOMAIN token_indexes : token_indexes[t] \in Nat
    /\ clients \subseteq Conns /\ forward_clients \subseteq Conns
    /\ DOMAIN socks_tasks \subseteq Ports
    /\ \A p \in DOMAIN socks_tasks : socks_tasks[p] \in Sups
    /\ sup \in [Sups -> Sup]
    /\ session \in [Conns -> Sess]
    /\ SM!TypeOK

(* PortPool.get(port) (pywssocks.common, spec section 4.1): the ports it  *)
(* may return for a request of port req, None asking for any free port.   *)
PortGet(req) == IF req = None THEN pool ELSE pool \cap {req}

(* A supervisor id the model may give a new task: its last task is over.  *)
Reusable(s) ==
    /\ sup[s].st \in {"free", "done"}
    /\ s \notin Range(socks_tasks)

(* asyncio.create_task(self._run_socks_server(t, tokens[t])) for each     *)
(* token t of P, each recorded in _socks_tasks.                           *)
StartSupervisors(P) ==
    \E f \in [P -> Sups] :
        /\ IsInjective(f)
        /\ \A t \in P : Reusable(f[t])
        /\ sup' = [s \in Sups |->
                     IF s \in Range(f)
                       THEN LET t == Inverse(f, P, Sups)[s] IN
                            [st |-> "new", port |-> tokens[t], token |-> t]
                       ELSE sup[s]]
        /\ socks_tasks' = [p \in DOMAIN socks_tasks \cup {tokens[t] : t \in P} |->
                             IF \E t \in P : tokens[t] = p
                               THEN f[CHOOSE t \in P : tokens[t] = p]
                               ELSE socks_tasks[p]]

(* The tokens of P whose port has no supervisor task yet (the check of    *)
(* lines 484 and 522).                                                     *)
Unsupervised(P) == {t \in P : tokens[t] \notin DOMAIN socks_tasks}

-----------------------------------------------------------------------------
Init ==
    /\ tokens = [t \in {} |-> None]
    /\ pool = Ports
    /\ forward_tokens = {}
    /\ pending_tokens = {} /\ start_tasks = {}
    /\ loop_set = FALSE /\ serving = FALSE /\ serves = 0
    /\ token_clients = [t \in {} |-> <<>>]
    /\ token_indexes = [t \in {} |-> 0]
    /\ clients = {} /\ forward_clients = {}
    /\ socks_tasks = [p \in {} |-> None]
    /\ sup = [s \in Sups |-> [st |-> "free", port |-> None, token |-> None]]
    /\ session = [c \in Conns |-> [st |-> "idle", token |-> None, reverse |-> FALSE]]
    /\ SM!Init

(* Mutant of AddReverseToken: the requested port, not the reserved one,  *)
(* is recorded (get() reuses the name port).                              *)
AddReverseTokenArgPort(t, req) ==
    /\ t \notin DOMAIN tokens
    /\ \E p \in PortGet(req) :
        /\ tokens' = Put(tokens, t, req)
        /\ pool' = pool \ {p}
        /\ IF loop_set
             THEN /\ start_tasks' = start_tasks \cup {t}
                  /\ UNCHANGED pending_tokens
             ELSE /\ pending_tokens' = pending_tokens \cup {t}
                  /\ UNCHANGED start_tasks
    /\ UNCHANGED <<forward_tokens, loop_set, serving, serves, token_clients,
                   token_indexes, clients, forward_clients, socks_tasks, sup,
                   session, sm_vars>>

(* add_reverse_token(t, req), lines 239-279: a known token is returned    *)
(* unchanged; otherwise a port is reserved and its supervisor start is     *)
(* scheduled (a _handle_pending_token task) or left pending until serve(). *)
(* When the pool has no such port nothing changes (None, None).           *)
AddReverseToken(t, req) ==
    /\ t \notin DOMAIN tokens
    /\ \E p \in PortGet(req) :
        /\ tokens' = Put(tokens, t, p)
        /\ pool' = pool \ {p}
        /\ IF loop_set
             THEN /\ start_tasks' = start_tasks \cup {t}
                  /\ UNCHANGED pending_tokens
             ELSE /\ pending_tokens' = pending_tokens \cup {t}
                  /\ UNCHANGED start_tasks
    /\ UNCHANGED <<forward_tokens, loop_set, serving, serves, token_clients,
                   token_indexes, clients, forward_clients, socks_tasks, sup,
                   session, sm_vars>>

(* add_forward_token(t), lines 281-296.  Nothing checks _tokens.           *)
AddForwardToken(t) ==
    /\ forward_tokens' = forward_tokens \cup {t}
    /\ UNCHANGED <<tokens, pool, pending_tokens, start_tasks, loop_set, serving,
                   serves, token_clients, token_indexes, clients,
                   forward_clients, socks_tasks, sup, session, sm_vars>>

(* ws.close(1000, "Token removed") scheduled on the connections C (only   *)
(* once _loop is set); the session then ends.                              *)
Closing(C) ==
    [c \in Conns |-> IF loop_set /\ c \in C /\ session[c].st = "running"
                       THEN [session[c] EXCEPT !.st = "closing"]
                       ELSE session[c]]

(* Task.cancel() on supervisor s: a task that never ran is done at once,  *)
(* a running one goes on to its finally block, a finished one is left.    *)
Cancelled(s) ==
    [sup EXCEPT ![s].st = CASE @ = "new"     -> "done"
                            [] @ = "running" -> "cancelled"
                            [] OTHER         -> @]

(* Mutant of RemoveReverseToken: the port is not put back in the pool.   *)
RemoveReverseTokenNoPut(t) ==
    LET p == tokens[t]
        C == IF t \in DOMAIN token_clients THEN Range(token_clients[t]) ELSE {}
    IN
    /\ t \in DOMAIN tokens
    /\ session' = Closing(C)
    /\ clients' = clients \ C
    /\ token_clients' = Drop(token_clients, t)
    /\ tokens' = Drop(tokens, t)
    /\ token_indexes' = Drop(token_indexes, t)
    /\ pending_tokens' = pending_tokens \ {t}
    /\ IF p \in DOMAIN socks_tasks
         THEN /\ sup' = Cancelled(socks_tasks[p])
              /\ socks_tasks' = Drop(socks_tasks, p)
         ELSE UNCHANGED <<sup, socks_tasks>>
    /\ UNCHANGED <<pool, forward_tokens, start_tasks, loop_set, serving, serves,
                   forward_clients, sm_vars>>

(* Mutant of RemoveReverseToken: the clients are dropped from the        *)
(* registry but their websockets are not closed.                          *)
RemoveReverseTokenNoClose(t) ==
    LET p == tokens[t]
        C == IF t \in DOMAIN token_clients THEN Range(token_clients[t]) ELSE {}
    IN
    /\ t \in DOMAIN tokens
    /\ UNCHANGED session
    /\ clients' = clients \ C
    /\ token_clients' = Drop(token_clients, t)
    /\ tokens' = Drop(tokens, t)
    /\ token_indexes' = Drop(token_indexes, t)
    /\ pending_tokens' = pending_tokens \ {t}
    /\ IF p \in DOMAIN socks_tasks
         THEN /\ sup' = Cancelled(socks_tasks[p])
              /\ socks_tasks' = Drop(socks_tasks, p)
         ELSE UNCHANGED <<sup, socks_tasks>>
    /\ pool' = pool \cup {p}
    /\ UNCHANGED <<forward_tokens, start_tasks, loop_set, serving, serves,
                   forward_clients, sm_vars>>

(* remove_token(t), lines 298-375, reverse branch (lines 312-353).        *)
RemoveReverseToken(t) ==
    LET p == tokens[t]
        C == IF t \in DOMAIN token_clients THEN Range(token_clients[t]) ELSE {}
    IN
    /\ t \in DOMAIN tokens
    /\ session' = Closing(C)
    /\ clients' = clients \ C
    /\ token_clients' = Drop(token_clients, t)
    /\ tokens' = Drop(tokens, t)
    /\ token_indexes' = Drop(token_indexes, t)
    /\ pending_tokens' = pending_tokens \ {t}
    /\ IF p \in DOMAIN socks_tasks
         THEN /\ sup' = Cancelled(socks_tasks[p])
              /\ socks_tasks' = Drop(socks_tasks, p)
         ELSE UNCHANGED <<sup, socks_tasks>>
    /\ pool' = pool \cup {p}
    /\ UNCHANGED <<forward_tokens, start_tasks, loop_set, serving, serves,
                   forward_clients, sm_vars>>

(* remove_token(t), forward branch (lines 356-372), taken only when t is  *)
(* not a reverse token: every forward client, of any token, is closed and *)
(* forgotten.                                                              *)
RemoveForwardToken(t) ==
    /\ t \notin DOMAIN tokens
    /\ t \in forward_tokens
    /\ session' = Closing(forward_clients)
    /\ forward_clients' = {}
    /\ forward_tokens' = forward_tokens \ {t}
    /\ UNCHANGED <<tokens, pool, pending_tokens, start_tasks, loop_set, serving,
                   serves, token_clients, token_indexes, clients, socks_tasks,
                   sup, sm_vars>>

(* serve(), lines 387-413: set _loop, run _handle_pending_token for every *)
(* pending token (none of which suspends), empty the list and accept      *)
(* websocket connections.                                                  *)
Serve ==
    /\ ~serving
    /\ serves < MaxServes
    /\ loop_set' = TRUE
    /\ serving' = TRUE
    /\ serves' = serves + 1
    /\ pending_tokens' = {}
    /\ IF WaitClient
         THEN UNCHANGED <<sup, socks_tasks>>
         ELSE StartSupervisors(Unsupervised(pending_tokens))
    /\ UNCHANGED <<tokens, pool, forward_tokens, start_tasks, token_clients,
                   token_indexes, clients, forward_clients, session, sm_vars>>

(* The finally block of serve(), lines 415-416, once its task is          *)
(* cancelled: the websocket server closes every connection and the        *)
(* SocketManager closes every socket.  The supervisors are not cancelled  *)
(* and _loop stays set.                                                    *)
Shutdown ==
    /\ serving
    /\ serving' = FALSE
    /\ session' = [c \in Conns |-> IF session[c].st = "running"
                                     THEN [session[c] EXCEPT !.st = "closing"]
                                     ELSE session[c]]
    /\ SM!CloseAll
    /\ UNCHANGED <<tokens, pool, forward_tokens, pending_tokens, start_tasks,
                   loop_set, serves, token_clients, token_indexes, clients,
                   forward_clients, socks_tasks, sup, held>>

(* A _handle_pending_token(t) task runs, lines 477-490.  With             *)
(* _socks_wait_client it does nothing; a removed token makes it fail      *)
(* (KeyError on _token_locks) before anything changes.                    *)
HandlePendingToken(t) ==
    /\ t \in start_tasks
    /\ start_tasks' = start_tasks \ {t}
    /\ IF ~WaitClient /\ t \in DOMAIN tokens
         THEN StartSupervisors(Unsupervised({t}))
         ELSE UNCHANGED <<sup, socks_tasks>>
    /\ UNCHANGED <<tokens, pool, forward_tokens, pending_tokens, loop_set,
                   serving, serves, token_clients, token_indexes, clients,
                   forward_clients, session, sm_vars>>

(* Mutant of AuthReverse: the supervisor is started without the check   *)
(* that _socks_tasks has none for the port.                               *)
AuthReverseAlwaysStart(c, t) ==
    /\ serving
    /\ session[c].st = "idle"
    /\ t \in DOMAIN tokens
    /\ token_clients' = Put(token_clients, t,
                            (IF t \in DOMAIN token_clients
                               THEN token_clients[t] ELSE <<>>) \o <<c>>)
    /\ StartSupervisors({t})
    /\ clients' = clients \cup {c}
    /\ session' = [session EXCEPT ![c] = [st |-> "running", token |-> t,
                                          reverse |-> TRUE]]
    /\ UNCHANGED <<tokens, pool, forward_tokens, pending_tokens, start_tasks,
                   loop_set, serving, serves, token_indexes, forward_clients,
                   sm_vars>>

(* _handle_websocket(c), lines 492-547, on a connection accepted while    *)
(* serve() runs: the first frame names reverse token t.  The client joins *)
(* the token's list and the token's supervisor is started if its port has *)
(* none (under the token lock), then auth_response is sent.               *)
AuthReverse(c, t) ==
    /\ serving
    /\ session[c].st = "idle"
    /\ t \in DOMAIN tokens
    /\ token_clients' = Put(token_clients, t,
                            (IF t \in DOMAIN token_clients
                               THEN token_clients[t] ELSE <<>>) \o <<c>>)
    /\ StartSupervisors(Unsupervised({t}))
    /\ clients' = clients \cup {c}
    /\ session' = [session EXCEPT ![c] = [st |-> "running", token |-> t,
                                          reverse |-> TRUE]]
    /\ UNCHANGED <<tokens, pool, forward_tokens, pending_tokens, start_tasks,
                   loop_set, serving, serves, token_indexes, forward_clients,
                   sm_vars>>

(* The same, lines 533-539, for forward token t.                          *)
AuthForward(c, t) ==
    /\ serving
    /\ session[c].st = "idle"
    /\ t \in forward_tokens
    /\ forward_clients' = forward_clients \cup {c}
    /\ session' = [session EXCEPT ![c] = [st |-> "running", token |-> t,
                                          reverse |-> FALSE]]
    /\ UNCHANGED <<tokens, pool, forward_tokens, pending_tokens, start_tasks,
                   loop_set, serving, serves, token_clients, token_indexes,
                   clients, socks_tasks, sup, sm_vars>>

(* The same, lines 503-505 and 541-546: a first frame that is not auth or *)
(* names no valid token; the connection is closed with 1008.              *)
AuthRejected(c) ==
    /\ serving
    /\ session[c].st = "idle"
    /\ session' = [session EXCEPT ![c].st = "done"]
    /\ UNCHANGED <<tokens, pool, forward_tokens, pending_tokens, start_tasks,
                   loop_set, serving, serves, token_clients, token_indexes,
                   clients, forward_clients, socks_tasks, sup, sm_vars>>

(* _cleanup_connection(c, t), lines 583-607, as it changes _token_clients *)
(* and _token_indexes: c leaves t's list, and an emptied list is deleted  *)
(* with its cursor.  _forward_clients is not touched.  The comprehension  *)
(* of lines 593-595 drops every entry of c; c joins a list only from an   *)
(* idle session (fresh uuid4 client ids), so a list holds it at most once *)
(* (ListsInjective in ServerRegistry_proofs) and that is its first entry.         *)
Remaining(c, t) == RemoveFirst(token_clients[t], c)

CleanedClients(c, t) ==
    IF t \notin DOMAIN token_clients THEN token_clients
    ELSE IF Remaining(c, t) = <<>> THEN Drop(token_clients, t)
    ELSE [token_clients EXCEPT ![t] = Remaining(c, t)]

CleanedIndexes(c, t) ==
    IF t \in DOMAIN token_clients /\ Remaining(c, t) = <<>>
      THEN Drop(token_indexes, t)
      ELSE token_indexes

(* Mutant of SessionEnd: _cleanup_connection leaves _clients alone.      *)
SessionEndKeepsClient(c) ==
    LET t == session[c].token IN
    /\ session[c].st \in {"running", "closing"}
    /\ token_clients' = CleanedClients(c, t)
    /\ token_indexes' = CleanedIndexes(c, t)
    /\ session' = [session EXCEPT ![c].st = "done"]
    /\ UNCHANGED <<tokens, pool, forward_tokens, pending_tokens, start_tasks,
                   loop_set, serving, serves, clients, forward_clients,
                   socks_tasks, sup, sm_vars>>

(* An authenticated session ends, lines 549-581: its dispatcher or its    *)
(* heartbeat stopped (the peer closed, a ping failed, a recv timed out and *)
(* the probe failed, or the server closed the connection), and the        *)
(* finally block runs _cleanup_connection.                                 *)
SessionEnd(c) ==
    LET t == session[c].token IN
    /\ session[c].st \in {"running", "closing"}
    /\ token_clients' = CleanedClients(c, t)
    /\ token_indexes' = CleanedIndexes(c, t)
    /\ clients' = clients \ {c}
    /\ session' = [session EXCEPT ![c].st = "done"]
    /\ UNCHANGED <<tokens, pool, forward_tokens, pending_tokens, start_tasks,
                   loop_set, serving, serves, forward_clients, socks_tasks, sup,
                   sm_vars>>

(* _get_next_websocket(t), lines 418-441, called by a SOCKS5 handler of a *)
(* supervisor of t (line 462) once t has a client: the cursor advances     *)
(* modulo the number of clients.                                           *)
Cursor(t) == IF t \in DOMAIN token_indexes THEN token_indexes[t] ELSE 0

SelectClient(t) ==
    /\ \E s \in Sups : sup[s].st \in {"running", "cancelled"} /\ sup[s].token = t
    /\ t \in DOMAIN token_clients
    /\ token_indexes' = Put(token_indexes, t,
                            (Cursor(t) + 1) % Len(token_clients[t]))
    /\ UNCHANGED <<tokens, pool, forward_tokens, pending_tokens, start_tasks,
                   loop_set, serving, serves, token_clients, clients,
                   forward_clients, socks_tasks, sup, session, sm_vars>>

(* _run_socks_server, lines 690-718, first step: get_socket for its port. *)
(* Binding a new socket may fail (the port is taken); the exception ends  *)
(* the task, whose finally releases a port that has no socket (a warning) *)
(* and whose entry stays in _socks_tasks.                                 *)
SupervisorRun(s) ==
    LET p == sup[s].port IN
    /\ sup[s].st = "new"
    /\ \/ /\ SM!GetSocket(s, p)
          /\ sup' = [sup EXCEPT ![s].st = "running"]
       \/ /\ p \notin DOMAIN sockets
          /\ sup' = [sup EXCEPT ![s].st = "done"]
          /\ UNCHANGED sm_vars
    /\ UNCHANGED <<tokens, pool, forward_tokens, pending_tokens, start_tasks,
                   loop_set, serving, serves, token_clients, token_indexes,
                   clients, forward_clients, socks_tasks, session>>

(* Its finally block after cancellation, lines 719-733: the handlers are  *)
(* cancelled and the socket released.                                     *)
SupervisorFinally(s) ==
    /\ sup[s].st = "cancelled"
    /\ SM!ReleaseSocket(s)
    /\ sup' = [sup EXCEPT ![s].st = "done"]
    /\ UNCHANGED <<tokens, pool, forward_tokens, pending_tokens, start_tasks,
                   loop_set, serving, serves, token_clients, token_indexes,
                   clients, forward_clients, socks_tasks, session>>

server_vars == <<tokens, pool, forward_tokens, pending_tokens, start_tasks,
                 loop_set, serving, serves, token_clients, token_indexes,
                 clients, forward_clients, socks_tasks, sup, session>>

(* A grace-period cleanup task, and the clock, of the SocketManager.      *)
SocketStep ==
    /\ \/ \E p \in Ports : SM!CleanupSocket(p)
       \/ SM!Tick
    /\ UNCHANGED server_vars

Next ==
    \/ \E t \in Tokens, req \in Ports \cup {None} : AddReverseToken(t, req)
    \/ \E t \in Tokens : AddForwardToken(t)
    \/ \E t \in Tokens : RemoveReverseToken(t) \/ RemoveForwardToken(t)
    \/ Serve \/ Shutdown
    \/ \E t \in Tokens : HandlePendingToken(t)
    \/ \E c \in Conns, t \in Tokens : AuthReverse(c, t) \/ AuthForward(c, t)
    \/ \E c \in Conns : AuthRejected(c) \/ SessionEnd(c)
    \/ \E t \in Tokens : SelectClient(t)
    \/ \E s \in Sups : SupervisorRun(s) \/ SupervisorFinally(s)
    \/ SocketStep

Spec == Init /\ [][Next]_vars

(* The event loop runs every task that is ready: a created supervisor or  *)
(* _handle_pending_token task gets its step, a cancelled supervisor its   *)
(* finally block, and the SocketManager's clock and cleanup tasks go on.  *)
(* Admin calls and websocket peers are not obliged to do anything.        *)
Fairness ==
    /\ \A s \in Sups : WF_vars(SupervisorRun(s)) /\ WF_vars(SupervisorFinally(s))
    /\ \A t \in Tokens : WF_vars(HandlePendingToken(t))
    /\ WF_vars(SocketStep)

FairSpec == Spec /\ Fairness

-----------------------------------------------------------------------------
(* Every port of the pool is either free or the port of exactly one       *)
(* reverse token, through any sequence of add_reverse_token and           *)
(* remove_token calls (spec section 8, item 2).                           *)
PortsConserved ==
    /\ pool \cap Range(tokens) = {}
    /\ pool \cup Range(tokens) = Ports
    /\ IsInjective(tokens)

(* A supervisor task that has not been cancelled or finished is the one   *)
(* _socks_tasks records for its port, and that port is still its token's: *)
(* the start checks of auth (line 522) and of _handle_pending_token (line *)
(* 484) against remove_token never leave two supervisors on one port.     *)
SupervisorOwnsPort ==
    \A s \in Sups :
        sup[s].st \in {"new", "running"} =>
            /\ sup[s].port \in DOMAIN socks_tasks
            /\ socks_tasks[sup[s].port] = s
            /\ sup[s].token \in DOMAIN tokens
            /\ tokens[sup[s].token] = sup[s].port

(* The registry lists exactly the live reverse sessions: every client of  *)
(* _clients is in one token list, and every listed connection is a live   *)
(* session of that token, so round robin never picks a finished session   *)
(* (auth, remove_token and _cleanup_connection together).                 *)
RegistryConsistent ==
    /\ clients = UNION {Range(token_clients[t]) : t \in DOMAIN token_clients}
    /\ \A t \in DOMAIN token_clients :
          /\ token_clients[t] # <<>>
          /\ \A c \in Range(token_clients[t]) :
                /\ session[c].st \in {"running", "closing"}
                /\ session[c].token = t /\ session[c].reverse

(* A client leaves _clients only when its session ends                    *)
(* (_cleanup_connection) or when remove_token of its own token has        *)
(* scheduled the close of its websocket (lines 318-325): the registry     *)
(* never forgets a session that is left running.                          *)
ClientLeavesClosed ==
    [][\A c \in clients \ clients' :
          \/ session'[c].st = "done"
          \/ session'[c].st = "closing" /\ session[c].token \notin DOMAIN tokens']_vars

(* A token is never both a reverse and a forward token (spec section 3:   *)
(* the two kinds are disjoint); add_reverse_token and add_forward_token   *)
(* are the only ways in.                                                   *)
TokensDisjoint == DOMAIN tokens \cap forward_tokens = {}

(* The round-robin cursor of a token with clients indexes its client list *)
(* (spec section 3, reverse token record), whatever clients leave through *)
(* _cleanup_connection between two selections.                            *)
CursorInRange ==
    \A t \in DOMAIN token_indexes \cap DOMAIN token_clients :
        token_indexes[t] < Len(token_clients[t])

(* A forward client stays in _forward_clients only while its session is   *)
(* alive: a session's cleanup removes it from the global client map (spec *)
(* section 4.5, cleanup).                                                  *)
ForwardClientsLive ==
    \A c \in forward_clients : session[c].st \in {"running", "closing"}

(* No listen socket a supervisor holds is closed, other than by the       *)
(* SocketManager.close() of serve()'s shutdown (spec section 8 item 4),   *)
(* across remove_token, supervisor cancellation and shutdown.             *)
SocketKeptWhileHeld ==
    [][\A p \in DOMAIN sockets :
          (p \notin DOMAIN sockets' /\ \E s \in Sups : held'[s] = p) => Shutdown]_vars

(* A token that has a connected client eventually has a supervisor       *)
(* serving its port: only cancellation or token removal stops a           *)
(* supervisor (spec section 7), and auth starts one when _socks_tasks has *)
(* none (line 522).                                                        *)
SupervisorServes ==
    \A t \in Tokens :
        t \in DOMAIN token_clients
            ~> \/ t \notin DOMAIN token_clients
               \/ \E s \in Sups : sup[s].st = "running" /\ sup[s].token = t
=============================================================================
