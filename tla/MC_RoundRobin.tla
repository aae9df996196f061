----------------------------- MODULE MC_RoundRobin -----------------------------
(* Round robin over three clients of one token, up to five selections per *)
(* window: enough for every cursor position of every list length, and for *)
(* two full turns over two clients.                                       *)
EXTENDS RoundRobin

CONSTANTS a, b, c

MCClients == {a, b, c}
=============================================================================
