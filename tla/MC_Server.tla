------------------------------ MODULE MC_Server ------------------------------
(* The server with two tokens, one SOCKS5 port, two websocket connections *)
(* and two supervisor ids: a token can be removed and added again while    *)
(* the cancelled supervisor of its port has not yet released the socket,  *)
(* and serve() can be stopped and started again once.                     *)
EXTENDS Server, TLC

CONSTANTS t1, t2, p1, c1, c2, s1, s2

MCTokens == {t1, t2}
MCPorts == {p1}
MCConns == {c1, c2}
MCSups == {s1, s2}

(* Connections, supervisor ids and tokens are interchangeable: the spec   *)
(* only compares them for equality, and each CHOOSE picks a unique value. *)
MCSymmetry == Permutations(MCConns) \cup Permutations(MCSups)
                \cup Permutations(MCTokens)
=============================================================================
