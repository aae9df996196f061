---------------------------- MODULE SocketManager ----------------------------
(***************************************************************************)
(* Class SocketManager of src/pywssocks/server.py (lines 22-148): the      *)
(* SOCKS5 listen sockets, shared by reference count and kept open for a   *)
(* grace period after the last reference is released.                     *)
(*                                                                         *)
(* Every method runs under SocketManager._lock and, apart from the sleep   *)
(* of _cleanup_socket, never suspends inside it, so each method is one     *)
(* atomic step.  Time is a discrete clock: one Tick is one unit of the     *)
(* event loop's clock, and the grace period lasts Grace ticks.  The        *)
(* callers of get_socket/release_socket are the SOCKS5 supervisors         *)
(* (WSSocksServer._run_socks_server), abstracted here as Holders that get *)
(* a socket and later release the same port.  Backlog sizes (listen(n))    *)
(* and the socket objects themselves are not modelled.                     *)
(***************************************************************************)
EXTENDS Naturals, Integers, FiniteSets, Functions

CONSTANTS
    Ports,      \* ports a SOCKS5 listen socket can be bound to
    Holders,    \* tasks that get and release sockets (SOCKS5 supervisors)
    Grace,      \* SocketManager._grace, in clock ticks
    MaxCleanups,\* bound: a last release waits while a port has this many
                \* sleeping cleanup tasks with the same time left
    None        \* no port

ASSUME SocketManagerAssumption ==
    /\ IsFiniteSet(Holders)
    /\ Grace \in Nat \ {0}
    /\ MaxCleanups \in Nat \ {0}
    /\ None \notin Ports

VARIABLES
    sockets,        \* SocketManager._sockets: port -> [timestamp, refs]
    cleanup_tasks,  \* SocketManager._cleanup_tasks, a bag: number of sleeping
                    \* _cleanup_socket tasks per <<port, ticks left to sleep>>
    held            \* held[h]: the port whose socket holder h has got, or None

vars == <<sockets, cleanup_tasks, held>>

(* The code's timestamp 0, "not in a grace period".  A stamped socket      *)
(* records instead the ticks elapsed since the stamp, capped at Grace      *)
(* (all the code ever compares is whether Grace has elapsed).              *)
Unstamped == -1
Stamp == {Unstamped} \cup 0..Grace
Entry == [timestamp : Stamp, refs : Nat]
Sleep == 0..Grace

TypeOK ==
    /\ DOMAIN sockets \subseteq Ports
    /\ \A p \in DOMAIN sockets : sockets[p] \in Entry
    /\ cleanup_tasks \in [Ports \X Sleep -> Nat]
    /\ held \in [Holders -> Ports \cup {None}]

HoldersOf(p) == {h \in Holders : held[h] = p}

(* The socket of p is in its grace period: no reference and a stamp, the  *)
(* condition under which _cleanup_socket closes it (line 126).            *)
InGrace(p) == sockets[p].refs = 0 /\ sockets[p].timestamp # Unstamped

-----------------------------------------------------------------------------
Init ==
    /\ sockets = [p \in {} |-> [timestamp |-> Unstamped, refs |-> 0]]
    /\ cleanup_tasks = [x \in Ports \X Sleep |-> 0]
    /\ held = [h \in Holders |-> None]

(* Mutant of GetSocket: a reused socket gets no new reference.          *)
GetSocketNoRef(h, p) ==
    /\ held[h] = None
    /\ \/ /\ p \in DOMAIN sockets
          /\ UNCHANGED sockets
       \/ /\ p \notin DOMAIN sockets
          /\ sockets' = [q \in DOMAIN sockets \cup {p} |->
                            IF q = p THEN [timestamp |-> Unstamped, refs |-> 1]
                                     ELSE sockets[q]]
    /\ held' = [held EXCEPT ![h] = p]
    /\ UNCHANGED cleanup_tasks

(* Mutant of ReleaseSocket: the last release starts no cleanup task.      *)
ReleaseSocketNoCleanup(h) ==
    LET p == held[h] IN
    /\ p # None
    /\ held' = [held EXCEPT ![h] = None]
    /\ IF p \notin DOMAIN sockets
          THEN UNCHANGED <<sockets, cleanup_tasks>>
          ELSE \/ /\ sockets[p].refs - 1 <= 0
                  /\ \A l \in Sleep : cleanup_tasks[<<p, l>>] < MaxCleanups
                  /\ sockets' = [sockets EXCEPT ![p] = [timestamp |-> 0, refs |-> 0]]
                  /\ UNCHANGED cleanup_tasks
               \/ /\ sockets[p].refs - 1 > 0
                  /\ sockets' = [sockets EXCEPT ![p] =
                                    [timestamp |-> Unstamped, refs |-> @.refs - 1]]
                  /\ UNCHANGED cleanup_tasks

(* get_socket(port), lines 41-69: reuse the socket of p, adding a          *)
(* reference and keeping its timestamp, or bind a new one with one         *)
(* reference.  A failed bind changes nothing here.                         *)
GetSocket(h, p) ==
    /\ held[h] = None
    /\ \/ /\ p \in DOMAIN sockets
          /\ sockets' = [sockets EXCEPT ![p].refs = @ + 1]
       \/ /\ p \notin DOMAIN sockets
          /\ sockets' = [q \in DOMAIN sockets \cup {p} |->
                            IF q = p THEN [timestamp |-> Unstamped, refs |-> 1]
                                     ELSE sockets[q]]
    /\ held' = [held EXCEPT ![h] = p]
    /\ UNCHANGED cleanup_tasks

(* release_socket(port), lines 71-97, called by holder h for the port it  *)
(* holds.  The last reference starts the grace period: timestamp set to    *)
(* now, refs 0, and a _cleanup_socket task created.  Any other release     *)
(* writes timestamp 0.  A port no longer in _sockets only logs a warning.  *)
ReleaseSocket(h) ==
    LET p == held[h] IN
    /\ p # None
    /\ held' = [held EXCEPT ![h] = None]
    /\ IF p \notin DOMAIN sockets
          THEN UNCHANGED <<sockets, cleanup_tasks>>
          ELSE \/ /\ sockets[p].refs - 1 <= 0
                  /\ \A l \in Sleep : cleanup_tasks[<<p, l>>] < MaxCleanups
                  /\ sockets' = [sockets EXCEPT ![p] = [timestamp |-> 0, refs |-> 0]]
                  /\ cleanup_tasks' = [cleanup_tasks EXCEPT ![<<p, Grace>>] = @ + 1]
               \/ /\ sockets[p].refs - 1 > 0
                  /\ sockets' = [sockets EXCEPT ![p] =
                                    [timestamp |-> Unstamped, refs |-> @.refs - 1]]
                  /\ UNCHANGED cleanup_tasks

(* Mutant of CleanupSocket: the socket is closed without checking that   *)
(* it is still unreferenced and stamped.                                   *)
CleanupSocketNoGraceCheck(p) ==
    /\ cleanup_tasks[<<p, 0>>] > 0
    /\ cleanup_tasks' = [cleanup_tasks EXCEPT ![<<p, 0>>] = @ - 1]
    /\ sockets' = Restrict(sockets, DOMAIN sockets \ {p})
    /\ UNCHANGED held

(* _cleanup_socket(port), lines 115-131, once its sleep is over: close    *)
(* and forget the socket if it is still unreferenced and stamped.  The     *)
(* task then leaves _cleanup_tasks (its done callback, line 94).          *)
CleanupSocket(p) ==
    /\ cleanup_tasks[<<p, 0>>] > 0
    /\ cleanup_tasks' = [cleanup_tasks EXCEPT ![<<p, 0>>] = @ - 1]
    /\ \/ /\ p \in DOMAIN sockets
          /\ InGrace(p)
          /\ sockets' = Restrict(sockets, DOMAIN sockets \ {p})
       \/ /\ p \in DOMAIN sockets
          /\ ~InGrace(p)
          /\ UNCHANGED sockets
       \/ /\ p \notin DOMAIN sockets
          /\ UNCHANGED sockets
    /\ UNCHANGED held

(* close(), lines 133-148: cancel every cleanup task, close every socket. *)
CloseAll ==
    /\ sockets' = [p \in {} |-> [timestamp |-> Unstamped, refs |-> 0]]
    /\ cleanup_tasks' = [x \in Ports \X Sleep |-> 0]

(* close() called by a caller: serve()'s finally (line 416) calls it      *)
(* while supervisors, which it does not cancel, may still hold sockets.    *)
(* Their holds are left as they are: a holder later releases its port.    *)
Close ==
    /\ CloseAll
    /\ UNCHANGED held

(* A close() that closes sockets some holder still holds.                  *)
CloseWhileHeld == Close /\ \E h \in Holders : held[h] # None

(* One tick of the event loop's clock while some cleanup task sleeps: the *)
(* sleeps count down and every timestamp ages.                            *)
Age(ts) == IF ts = Unstamped \/ ts = Grace THEN ts ELSE ts + 1

Tick ==
    /\ \E p \in Ports, l \in 1..Grace : cleanup_tasks[<<p, l>>] > 0
    /\ cleanup_tasks' = [x \in Ports \X Sleep |->
                            LET p == x[1]  l == x[2] IN
                            CASE l = 0     -> cleanup_tasks[<<p, 0>>] + cleanup_tasks[<<p, 1>>]
                              [] l = Grace -> 0
                              [] OTHER     -> cleanup_tasks[<<p, l + 1>>]]
    /\ sockets' = [p \in DOMAIN sockets |->
                      [sockets[p] EXCEPT !.timestamp = Age(@)]]
    /\ UNCHANGED held

Next ==
    \/ \E h \in Holders, p \in Ports : GetSocket(h, p)
    \/ \E h \in Holders : ReleaseSocket(h)
    \/ \E p \in Ports : CleanupSocket(p)
    \/ Close
    \/ Tick

(* The event loop keeps its clock running and runs every task whose sleep *)
(* is over; holders are not obliged to release anything.                  *)
Fairness ==
    /\ WF_vars(Tick)
    /\ \A p \in Ports : WF_vars(CleanupSocket(p))

Spec == Init /\ [][Next]_vars /\ Fairness

-----------------------------------------------------------------------------
(* Reference counts are exact: the refs of every open socket equal the    *)
(* number of holders that got it and have not released it, and every      *)
(* holder's socket is still open.                                          *)
RefCountExact ==
    /\ \A p \in DOMAIN sockets : sockets[p].refs = Cardinality(HoldersOf(p))
    /\ \A h \in Holders : held[h] # None => held[h] \in DOMAIN sockets

(* The counts start exact, and no get_socket, release_socket, cleanup task *)
(* or clock tick, in any interleaving, makes them wrong (spec section 8    *)
(* items 3 and 4): only a close() while sockets are held does, as serve()  *)
(* does when it ends (run server_stale_release shows what follows).        *)
RefCountExactKept ==
    /\ RefCountExact
    /\ [][RefCountExact /\ ~CloseWhileHeld => RefCountExact']_vars

(* A socket whose last reference was released is eventually closed by a   *)
(* cleanup task, unless it is got again (release_socket's grace period,   *)
(* spec section 8 item 5).                                                 *)
GraceEnds ==
    \A p \in Ports :
        (p \in DOMAIN sockets /\ sockets[p].refs = 0)
            ~> (p \notin DOMAIN sockets \/ sockets[p].refs > 0)

(* A cleanup task closes a socket only after a whole grace period has     *)
(* passed since its last reference was released (spec glossary, "grace    *)
(* period"; scenario 2 of section 8).                                     *)
GraceRespected ==
    [][\A p \in DOMAIN sockets :
          (p \notin DOMAIN sockets' /\ ~Close) => sockets[p].timestamp = Grace]_vars

(* The life-cycle state of p's SocketEntry (spec section 3): absent from  *)
(* _sockets, active with refs > 0, or in its grace period with refs = 0.   *)
LifeOf(p) ==
    IF p \notin DOMAIN sockets THEN "absent"
    ELSE IF sockets[p].refs > 0 THEN "active" ELSE "grace"

SL == INSTANCE SocketLifecycle WITH life <- [p \in Ports |-> LifeOf(p)]

(* While its counts are exact, the SocketManager implements the socket    *)
(* life cycle it promises: starting from the abstract initial state, every *)
(* get_socket, release_socket, _cleanup_socket, tick and close() taken     *)
(* from a correctly counted state is a step of SocketLifecycle (a release  *)
(* goes to grace exactly with the last holder, a cleanup closes only a     *)
(* socket in grace) or leaves the life cycle as it is.  With               *)
(* RefCountExactKept: the behaviour is one of SocketLifecycle up to the    *)
(* first close() while sockets are held.                                   *)
ImplementsLifecycle ==
    /\ SL!Init
    /\ [][RefCountExact => [SL!Next]_SL!vars]_vars
=============================================================================
