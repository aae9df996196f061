------------------------------- MODULE Session -------------------------------
(***************************************************************************)
(* One authenticated WebSocket session of src/pywssocks/server.py after   *)
(* authentication: the three tasks of _handle_websocket (lines 548-580),   *)
(* i.e. the receiver _message_dispatcher (lines 632-688), the heartbeat   *)
(* _ws_heartbeat (lines 609-630) and the handler task itself, which waits *)
(* for the first of the two to finish, cancels both, gathers them and     *)
(* runs _cleanup_connection.  Network handler tasks spawned for "connect"  *)
(* frames belong to the receiver.                                          *)
(*                                                                         *)
(* The event loop is single-threaded: each step below is the code between *)
(* two suspensions of one task.  Each task's position is a program        *)
(* counter naming the await it is suspended in.  A cancel() lands on the  *)
(* await its target is suspended in, and is modelled in the step of the   *)
(* cancelling task.                                                        *)
(*                                                                         *)
(* The environment: the peer sends frames, closes the connection or       *)
(* vanishes without closing it ("silent": a half-open TCP connection).    *)
(* The websockets library's keepalive, left at its defaults by serve()    *)
(* (line 405), and the kernel eventually declare a silent connection      *)
(* closed.  Frames are abstracted to their effect on the session:         *)
(*   "data"    data or connect_response: delivered to a queue or dropped; *)
(*   "connect" a connect request;                                          *)
(*   "other"   any other type: ignored;                                    *)
(*   "bad"     not JSON, or lacking a key its branch reads (KeyError).    *)
(***************************************************************************)
EXTENDS Naturals, Sequences

CONSTANTS
    MaxFrames   \* bound: frames the peer sends; also the handler ids

ASSUME SessionAssumption == MaxFrames \in Nat \ {0}

VARIABLES
    conn,       \* "open", "silent" (peer vanished) or "closed"
    inbox,      \* frames received by the library, not yet returned by recv()
    sent,       \* number of frames the peer has sent
    forward,    \* client_id \in _forward_clients: a forward session
    rcv,        \* receiver task: "recv", "probe", "put", "drain" or "done"
    hb,         \* heartbeat task: "ping", "sleep", "close" or "done"
    main,       \* _handle_websocket: "wait", "gather" or "ended"
    handler     \* handler[n]: the task spawned for the n-th frame

vars == <<conn, inbox, sent, forward, rcv, hb, main, handler>>

Frames == {"data", "connect", "other", "bad"}
HandlerIds == 1..MaxFrames
Live == {"run", "cancelling"}    \* handler states of a task not yet done

TypeOK ==
    /\ conn \in {"open", "silent", "closed"}
    /\ inbox \in Seq(Frames)
    /\ sent \in 0..MaxFrames
    /\ forward \in BOOLEAN
    /\ rcv \in {"recv", "probe", "put", "drain", "done"}
    /\ hb \in {"ping", "sleep", "close", "done"}
    /\ main \in {"wait", "gather", "ended"}
    /\ handler \in [HandlerIds -> {"none", "run", "cancelling", "done"}]

(* Lines 548-555: both tasks created right after a successful auth.       *)
Init ==
    /\ conn = "open"
    /\ inbox = <<>>
    /\ sent = 0
    /\ forward \in BOOLEAN
    /\ rcv = "recv"
    /\ hb = "ping"
    /\ main = "wait"
    /\ handler = [n \in HandlerIds |-> "none"]

-----------------------------------------------------------------------------
(* The peer and the library (websockets, not under src/).                  *)

PeerSend(f) ==
    /\ conn = "open"
    /\ sent < MaxFrames
    /\ inbox' = Append(inbox, f)
    /\ sent' = sent + 1
    /\ UNCHANGED <<conn, forward, rcv, hb, main, handler>>

PeerClose ==
    /\ conn = "open"
    /\ conn' = "closed"
    /\ UNCHANGED <<inbox, sent, forward, rcv, hb, main, handler>>

PeerVanish ==
    /\ conn = "open"
    /\ conn' = "silent"
    /\ UNCHANGED <<inbox, sent, forward, rcv, hb, main, handler>>

(* Keepalive: no pong within ping_timeout, the connection is closed.      *)
Keepalive ==
    /\ conn = "silent"
    /\ conn' = "closed"
    /\ UNCHANGED <<inbox, sent, forward, rcv, hb, main, handler>>

-----------------------------------------------------------------------------
(* The receiver, _message_dispatcher.                                      *)

(* Mutant of Cancelled: the finally block does not cancel the handlers.   *)
CancelledNone == handler

(* The for loop of the finally block (lines 685-687): every handler task  *)
(* not yet done is cancelled; one already cancelling stays so.            *)
Cancelled == [n \in HandlerIds |-> IF handler[n] = "run" THEN "cancelling" ELSE handler[n]]

(* recv() returns the next frame (lines 642-669).  A "data" frame for a   *)
(* registered channel whose queue is full suspends in put() (lines 651,   *)
(* 660); any other data frame is delivered or dropped without suspending. *)
(* A "connect" frame of a forward session spawns the handler task for     *)
(* this frame, n (lines 661-669); of a reverse session it is ignored.  A  *)
(* "bad" frame raises out of the loop (lines 680-683) into the finally.   *)
RecvFrame ==
    LET f == Head(inbox)
        n == sent - Len(inbox) + 1
    IN
    /\ rcv = "recv"
    /\ inbox # <<>>
    /\ inbox' = Tail(inbox)
    /\ \/ f = "bad" /\ rcv' = "drain" /\ handler' = Cancelled
       \/ f = "data" /\ rcv' \in {"recv", "put"} /\ UNCHANGED handler
       \/ f = "connect" /\ forward /\ handler' = [handler EXCEPT ![n] = "run"]
          /\ UNCHANGED rcv
       \/ f = "connect" /\ ~forward /\ UNCHANGED <<rcv, handler>>
       \/ f = "other" /\ UNCHANGED <<rcv, handler>>
    /\ UNCHANGED <<conn, sent, forward, hb, main>>

(* recv() raises ConnectionClosed (lines 677-679): break into the finally. *)
(* Whether frames still buffered are returned first is the library's      *)
(* choice, so this step is enabled as soon as the connection is closed.   *)
RecvClosed ==
    /\ rcv = "recv"
    /\ conn = "closed"
    /\ rcv' = "drain"
    /\ handler' = Cancelled
    /\ UNCHANGED <<conn, inbox, sent, forward, hb, main>>

(* wait_for times out after 60 s without a frame (line 670).              *)
RecvTimeout ==
    /\ rcv = "recv"
    /\ inbox = <<>>
    /\ conn # "closed"
    /\ rcv' = "probe"
    /\ UNCHANGED <<conn, inbox, sent, forward, hb, main, handler>>

(* The probe, await websocket.ping() (lines 672-676).  ping() returns once *)
(* the ping frame is written and does not wait for the pong: it raises    *)
(* only on a closed connection, and then the loop breaks.                 *)
Probe ==
    /\ rcv = "probe"
    /\ \/ conn = "closed" /\ rcv' = "drain" /\ handler' = Cancelled
       \/ conn # "closed" /\ rcv' = "recv" /\ UNCHANGED handler
    /\ UNCHANGED <<conn, inbox, sent, forward, hb, main>>

(* The relay's consumer takes from the full queue; put() returns.         *)
QueueTaken ==
    /\ rcv = "put"
    /\ rcv' = "recv"
    /\ UNCHANGED <<conn, inbox, sent, forward, hb, main, handler>>

(* Mutant of DrainDone: the finally block does not await the handlers.    *)
DrainDoneNoWait ==
    /\ rcv = "drain"
    /\ rcv' = "done"
    /\ UNCHANGED <<conn, inbox, sent, forward, hb, main, handler>>

(* await asyncio.gather of network_handler_tasks (line 688) returns     *)
(* once every handler task is done; the receiver task then finishes.     *)
DrainDone ==
    /\ rcv = "drain"
    /\ \A n \in HandlerIds : handler[n] \notin Live
    /\ rcv' = "done"
    /\ UNCHANGED <<conn, inbox, sent, forward, hb, main, handler>>

(* A network handler task (the relay's _handle_network_connection, not    *)
(* under src/) ends by itself, or, once cancelled, finishes its cleanup.  *)
HandlerEnd(n) ==
    /\ handler[n] = "run"
    /\ handler' = [handler EXCEPT ![n] = "done"]
    /\ UNCHANGED <<conn, inbox, sent, forward, rcv, hb, main>>

HandlerExit(n) ==
    /\ handler[n] = "cancelling"
    /\ handler' = [handler EXCEPT ![n] = "done"]
    /\ UNCHANGED <<conn, inbox, sent, forward, rcv, hb, main>>

-----------------------------------------------------------------------------
(* The heartbeat, _ws_heartbeat.                                           *)

(* await websocket.ping() (line 615): on a closed connection it raises and *)
(* the loop breaks into the finally; otherwise the task sleeps 30 s.      *)
HbPing ==
    /\ hb = "ping"
    /\ hb' = IF conn = "closed" THEN "close" ELSE "sleep"
    /\ UNCHANGED <<conn, inbox, sent, forward, rcv, main, handler>>

(* await asyncio.sleep(30) (line 616) returns.                            *)
HbWake ==
    /\ hb = "sleep"
    /\ hb' = "ping"
    /\ UNCHANGED <<conn, inbox, sent, forward, rcv, main, handler>>

(* Mutant of HbClose: the finally block does not close the websocket.     *)
HbCloseSkip ==
    /\ hb = "close"
    /\ hb' = "done"
    /\ UNCHANGED <<conn, inbox, sent, forward, rcv, main, handler>>

(* The finally block's await websocket.close() (lines 625-630) completes: *)
(* the closing handshake, or its timeout, leaves the connection closed.   *)
HbClose ==
    /\ hb = "close"
    /\ hb' = "done"
    /\ conn' = "closed"
    /\ UNCHANGED <<inbox, sent, forward, rcv, main, handler>>

-----------------------------------------------------------------------------
(* The session's own task, _handle_websocket after authentication.         *)

(* task.cancel() on the receiver: CancelledError is no Exception, so from *)
(* recv, the probe (whose bare except breaks the loop) or put it reaches  *)
(* the finally, which cancels the handlers; a receiver already awaiting   *)
(* its gather keeps waiting, since a cancelled gather still waits for its *)
(* children.                                                               *)
RcvCancelled ==
    IF rcv \in {"recv", "probe", "put"} THEN "drain" ELSE rcv

(* task.cancel() on the heartbeat: from ping or sleep it reaches the      *)
(* finally; in the finally the bare except swallows the cancellation of   *)
(* close(), and the task returns.                                          *)
HbCancelled ==
    CASE hb \in {"ping", "sleep"} -> "close"
      [] hb \in {"close", "done"} -> "done"

(* asyncio.wait(FIRST_COMPLETED) returns (lines 557-568), and the finally *)
(* cancels both tasks (lines 569-571).                                     *)
FirstCompleted ==
    /\ main = "wait"
    /\ rcv = "done" \/ hb = "done"
    /\ main' = "gather"
    /\ rcv' = RcvCancelled
    /\ handler' = IF rcv \in {"recv", "probe", "put"} THEN Cancelled ELSE handler
    /\ hb' = HbCancelled
    /\ UNCHANGED <<conn, inbox, sent, forward>>

(* asyncio.gather of both tasks returns (line 572); _cleanup_connection *)
(* runs without suspending (lines 576-581).                              *)
Gathered ==
    /\ main = "gather"
    /\ rcv = "done"
    /\ hb = "done"
    /\ main' = "ended"
    /\ UNCHANGED <<conn, inbox, sent, forward, rcv, hb, handler>>

-----------------------------------------------------------------------------
Environment ==
    \/ \E f \in Frames : PeerSend(f)
    \/ PeerClose \/ PeerVanish
    \/ \E n \in HandlerIds : HandlerEnd(n)
    \/ QueueTaken

Next ==
    \/ Environment
    \/ Keepalive
    \/ RecvFrame \/ RecvClosed \/ RecvTimeout \/ Probe \/ DrainDone
    \/ \E n \in HandlerIds : HandlerExit(n)
    \/ HbPing \/ HbWake \/ HbClose
    \/ FirstCompleted \/ Gathered

(* The event loop runs every ready task, and its timers fire: each step   *)
(* of the three tasks is weakly fair, as are the 60 s recv timeout and    *)
(* the 30 s sleep.  A cancelled handler is assumed to finish its cleanup. *)
(* The peer, a handler that has not been cancelled and the consumer of a  *)
(* full queue get no fairness: they may never act.                        *)
TaskFairness ==
    /\ WF_vars(RecvFrame) /\ WF_vars(RecvClosed) /\ WF_vars(RecvTimeout)
    /\ WF_vars(Probe) /\ WF_vars(DrainDone)
    /\ \A n \in HandlerIds : WF_vars(HandlerExit(n))
    /\ WF_vars(HbPing) /\ WF_vars(HbWake) /\ WF_vars(HbClose)
    /\ WF_vars(FirstCompleted) /\ WF_vars(Gathered)

(* The library's keepalive (ping_interval and ping_timeout at their       *)
(* defaults of 20 s) is a timer of the event loop too.                    *)
Spec == Init /\ [][Next]_vars /\ TaskFairness /\ WF_vars(Keepalive)

-----------------------------------------------------------------------------
(* When _cleanup_connection runs, no network handler task of the session  *)
(* is still running: however the session ended (peer close, vanished     *)
(* peer, a bad frame, a heartbeat failure) and whichever await the        *)
(* receiver was cancelled in, its finally cancelled and awaited every     *)
(* handler it spawned (spec 5: in-flight work drained).                   *)
HandlersDrained ==
    main = "ended" => \A n \in HandlerIds : handler[n] \notin Live

(* When _cleanup_connection runs the websocket is closed, also when the   *)
(* receiver ended on a bad frame with the connection still open: the      *)
(* heartbeat, cancelled then, closes it in its finally before the gather  *)
(* returns (spec 4.5: on termination, ensure WS is closed).               *)
ClosedAtEnd ==
    main = "ended" => conn = "closed"

(* A session whose connection is lost (closed by the peer, or vanished    *)
(* and then dropped by the keepalive) eventually runs its cleanup, even   *)
(* when the receiver is blocked in put() on a queue nobody drains.        *)
SessionEnds ==
    conn # "open" ~> main = "ended"

(* The comment of the probe (line 671): after 60 s without a frame the    *)
(* ping checks "if connection is still alive", and spec 8 has a failing   *)
(* ping end the session.  So a probe that lets the receiver go back to    *)
(* recv() should only pass on a connection whose peer is still there.    *)
ProbeMeansAlive ==
    [][rcv = "probe" /\ rcv' = "recv" => conn = "open"]_vars
=============================================================================
