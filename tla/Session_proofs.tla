---------------------------- MODULE Session_proofs ----------------------------
(***************************************************************************)
(* Proofs about Session for every bound on the frames: the types, and the *)
(* two facts that hold when _cleanup_connection runs (no handler task of  *)
(* the session live, the websocket closed).                               *)
(***************************************************************************)
EXTENDS Session, TLAPS

USE SessionAssumption

(* A receiver that has finished has no live handler task: it only        *)
(* finishes through the gather of its finally block.                      *)
Drained == rcv = "done" => \A n \in HandlerIds : handler[n] \notin Live

(* The session's task ends only after both of its tasks have finished.    *)
EndsAfterTasks == main = "ended" => rcv = "done" /\ hb = "done"

(* A finished heartbeat has closed the websocket, and so has one that     *)
(* reached its finally on its own, before any cancel: cancelled in its    *)
(* finally it returns without closing, and that can only happen to one    *)
(* whose ping had already found the connection closed.                    *)
HbClosed ==
    /\ hb = "done" => conn = "closed"
    /\ hb = "close" /\ main = "wait" => conn = "closed"

IInv == TypeOK /\ Drained /\ EndsAfterTasks /\ HbClosed

LEMMA InitIInv == Init => IInv
BY DEF Init, IInv, TypeOK, Drained, EndsAfterTasks, HbClosed, HandlerIds

(* Every step keeps the types.                                            *)
LEMMA TypeStep == TypeOK /\ [Next]_vars => TypeOK'
<1> SUFFICES ASSUME TypeOK, [Next]_vars PROVE TypeOK'
  OBVIOUS
<1>1. ASSUME NEW f \in Frames, PeerSend(f) PROVE TypeOK'
  BY <1>1 DEF PeerSend, TypeOK
<1>2. CASE RecvFrame
  <2>1. inbox # <<>> /\ inbox' = Tail(inbox)
    BY <1>2 DEF RecvFrame
  <2>2. inbox' \in Seq(Frames)
    BY <2>1 DEF TypeOK
  <2>3. Cancelled \in [HandlerIds -> {"none", "run", "cancelling", "done"}]
    BY DEF Cancelled, TypeOK
  <2>4. handler' \in [HandlerIds -> {"none", "run", "cancelling", "done"}]
    BY <1>2, <2>3 DEF RecvFrame, TypeOK
  <2>5. QED
    BY <1>2, <2>2, <2>4 DEF RecvFrame, TypeOK
<1>3. CASE FirstCompleted
  <2>1. Cancelled \in [HandlerIds -> {"none", "run", "cancelling", "done"}]
    BY DEF Cancelled, TypeOK
  <2>2. QED
    BY <1>3, <2>1 DEF FirstCompleted, RcvCancelled, HbCancelled, TypeOK
<1>4. CASE RecvClosed \/ Probe
  <2>1. Cancelled \in [HandlerIds -> {"none", "run", "cancelling", "done"}]
    BY DEF Cancelled, TypeOK
  <2>2. QED
    BY <1>4, <2>1 DEF RecvClosed, Probe, TypeOK
<1>5. ASSUME NEW n \in HandlerIds, HandlerEnd(n) \/ HandlerExit(n) PROVE TypeOK'
  BY <1>5 DEF HandlerEnd, HandlerExit, TypeOK
<1>6. CASE PeerClose \/ PeerVanish \/ QueueTaken \/ Keepalive \/ RecvTimeout
           \/ DrainDone \/ HbPing \/ HbWake \/ HbClose \/ Gathered
  BY <1>6 DEF PeerClose, PeerVanish, QueueTaken, Keepalive, RecvTimeout,
              DrainDone, HbPing, HbWake, HbClose, Gathered, TypeOK
<1>7. CASE UNCHANGED vars
  BY <1>7 DEF vars, TypeOK
<1>8. QED
  BY <1>1, <1>2, <1>3, <1>4, <1>5, <1>6, <1>7 DEF Next, Environment

(* Every step keeps the strengthened invariant.                           *)
LEMMA IInvStep == IInv /\ [Next]_vars => IInv'
<1> SUFFICES ASSUME IInv, [Next]_vars PROVE IInv'
  OBVIOUS
<1>1. TypeOK'
  BY TypeStep DEF IInv
<1>3. ASSUME NEW f \in Frames, PeerSend(f) PROVE IInv'
  BY <1>1, <1>3 DEF PeerSend, IInv, Drained, EndsAfterTasks, HbClosed
<1>4. CASE PeerClose \/ PeerVanish \/ Keepalive
  BY <1>1, <1>4 DEF PeerClose, PeerVanish, Keepalive, IInv, Drained,
                    EndsAfterTasks, HbClosed
<1>5. CASE RecvFrame \/ RecvClosed \/ RecvTimeout \/ Probe \/ QueueTaken
  <2>1. rcv' # "done" /\ UNCHANGED <<conn, main, hb>>
    BY <1>5 DEF RecvFrame, RecvClosed, RecvTimeout, Probe, QueueTaken
  <2>2. rcv # "done"
    BY <1>5 DEF RecvFrame, RecvClosed, RecvTimeout, Probe, QueueTaken
  <2>3. QED
    BY <1>1, <2>1, <2>2 DEF IInv, Drained, EndsAfterTasks, HbClosed
<1>6. CASE DrainDone
  BY <1>1, <1>6 DEF DrainDone, IInv, Drained, EndsAfterTasks, HbClosed
<1>7. ASSUME NEW n \in HandlerIds, HandlerEnd(n) \/ HandlerExit(n) PROVE IInv'
  BY <1>1, <1>7 DEF HandlerEnd, HandlerExit, IInv, TypeOK, Drained,
                    EndsAfterTasks, HbClosed, Live
<1>8. CASE HbPing \/ HbWake \/ HbClose
  BY <1>1, <1>8 DEF HbPing, HbWake, HbClose, IInv, Drained,
                    EndsAfterTasks, HbClosed
<1>9. CASE FirstCompleted
  <2>1. Drained'
    <3>1. CASE rcv \in {"recv", "probe", "put"}
      BY <1>9, <3>1 DEF FirstCompleted, RcvCancelled, Drained
    <3>2. CASE rcv \notin {"recv", "probe", "put"}
      BY <1>9, <3>2 DEF FirstCompleted, RcvCancelled, Drained, IInv
    <3>3. QED
      BY <3>1, <3>2
  <2>2. HbClosed'
    BY <1>9 DEF FirstCompleted, HbCancelled, IInv, TypeOK, HbClosed
  <2>3. QED
    BY <1>1, <1>9, <2>1, <2>2 DEF FirstCompleted, IInv, EndsAfterTasks
<1>10. CASE Gathered
  BY <1>1, <1>10 DEF Gathered, IInv, Drained, EndsAfterTasks, HbClosed
<1>11. CASE UNCHANGED vars
  BY <1>1, <1>11 DEF vars, IInv, Drained, EndsAfterTasks, HbClosed
<1>12. QED
  BY <1>3, <1>4, <1>5, <1>6, <1>7, <1>8, <1>9, <1>10, <1>11 DEF Next, Environment

(* The types hold in every reachable state.                               *)
THEOREM TypeCorrect == Spec => []TypeOK
<1>1. Init => TypeOK
  BY InitIInv DEF IInv
<1>2. QED
  BY <1>1, TypeStep, PTL DEF Spec

(* _cleanup_connection never runs while a network handler task of the    *)
(* session is live: the receiver's finally cancels and gathers them all,  *)
(* and the session's task gathers the receiver (lines 569-572, 684-688).   *)
THEOREM HandlersDrainedThm == Spec => []HandlersDrained
<1>1. IInv => HandlersDrained
  BY DEF IInv, Drained, EndsAfterTasks, HandlersDrained
<1>2. QED
  BY <1>1, InitIInv, IInvStep, PTL DEF Spec

(* When _cleanup_connection runs the websocket is closed: the heartbeat's *)
(* finally (lines 625-630) closed it, or its ping found it closed.        *)
THEOREM ClosedAtEndThm == Spec => []ClosedAtEnd
<1>1. IInv => ClosedAtEnd
  BY DEF IInv, HbClosed, EndsAfterTasks, ClosedAtEnd
<1>2. QED
  BY <1>1, InitIInv, IInvStep, PTL DEF Spec
=============================================================================
