----------------------------- MODULE RoundRobin -----------------------------
(***************************************************************************)
(* Round-robin selection of a reverse token's clients in                   *)
(* src/pywssocks/server.py: the list _token_clients[token], the cursor     *)
(* _token_indexes[token], and the three places that change them: the      *)
(* append of an authenticated reverse client (line 519),                   *)
(* _get_next_websocket (lines 418-441) and _cleanup_connection (lines      *)
(* 591-601).  All three run under the token's lock without suspending, so *)
(* each is one step.  One token is modelled; a client is its connection.  *)
(*                                                                         *)
(* To state fairness (spec section 8 item 1) the module counts, per       *)
(* client, the selections made since the list last changed (a join or a  *)
(* leave): the "window" of selections the property is about.              *)
(***************************************************************************)
EXTENDS Naturals, Sequences, SequencesExt

CONSTANTS
    Clients,    \* the connections that can authenticate with the token
    MaxPicks    \* bound: selections in one window

ASSUME RoundRobinAssumption == MaxPicks \in Nat \ {0}

VARIABLES
    clients,    \* _token_clients[token] (<<>> when the key is absent)
    index,      \* _token_indexes[token] (0 when the key is absent, as .get(token, 0))
    window,     \* window[c]: selections of c since the list last changed
    picks       \* number of selections since the list last changed

vars == <<clients, index, window, picks>>

NoPicks == [c \in Clients |-> 0]

TypeOK ==
    /\ clients \in Seq(Clients)
    /\ index \in Nat
    /\ window \in [Clients -> Nat]
    /\ picks \in 0..MaxPicks

Init ==
    /\ clients = <<>>
    /\ index = 0
    /\ window = NoPicks
    /\ picks = 0

(* Authentication of reverse client c (lines 516-519): append it.         *)
Join(c) ==
    /\ c \notin Range(clients)
    /\ clients' = Append(clients, c)
    /\ window' = NoPicks
    /\ picks' = 0
    /\ UNCHANGED index

(* _cleanup_connection (lines 591-601): the comprehension of lines        *)
(* 593-595 drops c's entry from the list; client ids are fresh uuid4s     *)
(* (line 512), so that entry is the single position j holding c.  An      *)
(* emptied list loses its key and its cursor.                             *)
Leave(c) ==
    \E j \in 1..Len(clients) :
        /\ clients[j] = c
        /\ clients' = RemoveAt(clients, j)
        /\ index' = IF Len(clients) = 1 THEN 0 ELSE index
        /\ window' = NoPicks
        /\ picks' = 0

(* The client _get_next_websocket returns for cursor i: clients[i], or     *)
(* clients[0] when i is out of range (the bare except, lines 438-441).     *)
(* Sequences here are 1-based.                                             *)
Chosen(i) == IF i < Len(clients) THEN clients[i + 1] ELSE clients[1]

(* Mutant of Select: the cursor is advanced without the modulo.           *)
SelectNoModulo ==
    /\ clients # <<>>
    /\ picks < MaxPicks
    /\ index' = index + 1
    /\ window' = [window EXCEPT ![Chosen(index + 1)] = @ + 1]
    /\ picks' = picks + 1
    /\ UNCHANGED clients

(* _get_next_websocket (lines 418-441): no client gives None; otherwise    *)
(* the cursor moves to (cursor + 1) % len and that client is returned.    *)
Select ==
    LET i == (index + 1) % Len(clients) IN
    /\ clients # <<>>
    /\ picks < MaxPicks
    /\ index' = i
    /\ window' = [window EXCEPT ![Chosen(i)] = @ + 1]
    /\ picks' = picks + 1
    /\ UNCHANGED clients

Next ==
    \/ \E c \in Clients : Join(c) \/ Leave(c)
    \/ Select

Spec == Init /\ [][Next]_vars

-----------------------------------------------------------------------------
(* Round-robin fairness (spec section 8 item 1): over the selections of   *)
(* _get_next_websocket since the last join or leave, any two clients of   *)
(* the list have been chosen a number of times differing by at most one,  *)
(* i.e. floor(m/k) or ceil(m/k) each, whatever cursor the window started  *)
(* from after a cleanup shortened the list.                               *)
Balanced ==
    \A a, b \in Range(clients) : window[a] <= window[b] + 1
=============================================================================
