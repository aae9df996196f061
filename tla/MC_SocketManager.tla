--------------------------- MODULE MC_SocketManager ---------------------------
(* SocketManager on two ports and two supervisors, a grace period of two  *)
(* ticks and fewer than two sleeping cleanup tasks per port and time left.                      *)
EXTENDS SocketManager

CONSTANTS p1, p2, h1, h2

MCPorts == {p1, p2}
MCHolders == {h1, h2}
=============================================================================
