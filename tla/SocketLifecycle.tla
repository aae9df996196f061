--------------------------- MODULE SocketLifecycle ---------------------------
(***************************************************************************)
(* What the SocketManager of src/pywssocks/server.py promises its callers, *)
(* written as the life cycle of one SocketEntry (spec section 3): a        *)
(* port's listen socket is absent, active (some holder has got it) or in   *)
(* its grace period (open, held by nobody).  Reference counts and clocks   *)
(* are left out: refs is the number of holders, and the grace period may   *)
(* end at any moment.  SocketManager.tla is shown to implement this        *)
(* module under the mapping SocketManager!LifeOf.                          *)
(***************************************************************************)
CONSTANTS Ports, Holders, None

VARIABLES
    life,   \* life[p]: "absent", "active" or "grace"
    held    \* held[h]: the port holder h has got, or None

vars == <<life, held>>

States == {"absent", "active", "grace"}

TypeOK ==
    /\ life \in [Ports -> States]
    /\ held \in [Holders -> Ports \cup {None}]

HeldBy(p) == {h \in Holders : held[h] = p}

Init ==
    /\ life = [p \in Ports |-> "absent"]
    /\ held = [h \in Holders |-> None]

(* get: from any state the socket becomes active, one holder more.        *)
Get(h, p) ==
    /\ held[h] = None
    /\ life' = [life EXCEPT ![p] = "active"]
    /\ held' = [held EXCEPT ![h] = p]

(* release: the socket of an active entry loses a holder; with the last   *)
(* one it enters its grace period.                                        *)
Release(h) ==
    LET p == held[h] IN
    /\ p # None
    /\ life[p] = "active"
    /\ held' = [held EXCEPT ![h] = None]
    /\ life' = [life EXCEPT ![p] = IF HeldBy(p) = {h} THEN "grace" ELSE "active"]

(* the grace period ends: the socket, still unheld, is closed.            *)
Expire(p) ==
    /\ life[p] = "grace"
    /\ life' = [life EXCEPT ![p] = "absent"]
    /\ UNCHANGED held

(* a holder whose socket close() has closed lets go of it: only a warning. *)
Forget(h) ==
    /\ held[h] # None
    /\ life[held[h]] = "absent"
    /\ held' = [held EXCEPT ![h] = None]
    /\ UNCHANGED life

(* close: every socket closed, held or not; holders keep their ports.     *)
CloseAll ==
    /\ life' = [p \in Ports |-> "absent"]
    /\ UNCHANGED held

Next ==
    \/ \E h \in Holders, p \in Ports : Get(h, p)
    \/ \E h \in Holders : Release(h) \/ Forget(h)
    \/ \E p \in Ports : Expire(p)
    \/ CloseAll

Spec == Init /\ [][Next]_vars
=============================================================================
