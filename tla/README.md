# TLA+ models of the pywssocks server

These modules model `src/pywssocks/server.py`: the SOCKS5-over-WebSocket
server (class `WSSocksServer`) and its listen-socket manager (class
`SocketManager`). TLC model-checks them on small instances. TLAPS proves their main safety
properties for every instance: reference counts, the refinement of the
socket life cycle, the port pool, supervisor ownership, the client registry,
the server's types, the closing of dropped clients and round-robin
fairness.

## The system and its parts

The server runs on one asyncio event loop. Its tasks interleave only at
`await`s that really suspend:

- The token locks and `SocketManager._lock` are never awaited while they are
  held, apart from `close()`. Each locked block is therefore atomic.
- The admin calls `add_reverse_token`, `add_forward_token` and `remove_token`
  are synchronous, so each one is a single atomic step.

| Part (spec §2) | Code | Module | Status |
|---|---|---|---|
| C1 PortPool | `pywssocks.common.PortPool`, not under src/ | `Server` (`PortGet`, `pool`), modelled from spec §4.1 | partly |
| C2 SocketManager | `SocketManager`, lines 22-148 | `SocketManager` | modelled |
| C3 TokenRegistry | `_tokens`, `_forward_tokens`, `_token_clients`, `_token_indexes`, `_clients`, `_forward_clients`, `_socks_tasks`; `add_*_token`, `remove_token`, `_get_next_websocket`, `_cleanup_connection` | `Server` | modelled |
| C5 WSSession | `_handle_websocket`, `_ws_heartbeat`, `_message_dispatcher` | `Server` (authentication, end of session, cleanup on the registries); `Session` (the session's tasks after authentication) | modelled |
| C6 SocksSupervisor | `_run_socks_server`, `_handle_socks_request` | `Server` (start, get_socket and bind failure, cancellation, release; handlers are reduced to their selection) | partly |
| C8 ServerCoordinator | `serve()` | `Server` (`Serve`, `Shutdown`) | partly |
| C4 ChannelBus | `_message_queues` | `Session` (a delivery completes, or suspends on a full queue) | partly: register, take and unregister belong to the relay |
| C7 RelayCore | `pywssocks.relay.Relay` | none | not modelled: external, not under src/ |
| C9 HTTPFrontend | `_process_request` | none | not modelled: stateless |

How the parts interact:

- An admin call adds a reverse token, which reserves a port from the pool.
- The token's supervisor (`_run_socks_server`) is started by one of two
  things:
  - the first authenticated client of the token (lazy start);
  - a `_handle_pending_token` task (eager start, when `socks_wait_client` is
    false).
- The supervisor gets the port's listen socket from the SocketManager, which
  counts references.
- When the supervisor is cancelled by `remove_token`, it releases the socket.
  The socket then stays open for a grace period, in case the port is taken
  again.
- A SOCKS5 connection accepted by the supervisor is handed to a client chosen
  round robin from the token's list.
- When a session ends, `_cleanup_connection` removes its client from that
  list.

## Modules

### `SocketManager.tla`

State:

- `sockets`: port -> [timestamp, refs], i.e. `_sockets`.
- `cleanup_tasks`: a bag counting the sleeping `_cleanup_socket` tasks per
  port and ticks left.
- `held`: for each holder (a supervisor), the port it got.

Each method is one action:

- `GetSocket`, `ReleaseSocket`, `CleanupSocket`.
- `CloseAll`, which is `close()`'s effect on the sockets and tasks.
- `Close`: `close()` called by a caller. Holders keep the port they got.
  `serve()`'s `finally` (line 416) calls it while supervisors, which it does
  not cancel, may still hold sockets. Spec §5 has them cancelled first, but
  the code does not, so `Close` has no guard.
- `Tick`: the event loop's clock. Timestamps age up to `Grace`, and cleanup
  tasks sleep `Grace` ticks.

The code's timestamp 0 is `Unstamped`. A stamp is the number of ticks since
`release_socket`, capped at `Grace`. That is all `_cleanup_socket` can ever
tell apart.

### `SocketLifecycle.tla`

This is the abstract specification of what the SocketManager promises: the
life cycle of a SocketEntry from spec §3.

- Each port is `absent`, `active` (some holder has got it) or `grace` (open,
  held by nobody).
- The actions are `Get`, `Release` (to `grace` exactly with the last holder),
  `Expire` (from `grace` only), `CloseAll` (everything closed, held or not)
  and `Forget` (a holder lets go of a socket that `close()` has closed).
- It has no reference counts and no clock.

`SocketManager` maps onto it by `LifeOf`. A port is:

- `absent` when it is not in `_sockets`;
- `active` when its `refs > 0`;
- `grace` otherwise.

The refinement property is `ImplementsLifecycle`. It says that the initial
state maps to `SL!Init`, and that every step taken from a state whose counts
are exact (`RefCountExact`) is an `SL!Next` step or a stutter. It is not the
plain `SL!Spec`, because the code does not implement that:

- after a `close()` while a socket is held, a new supervisor may get the port
  again;
- the old holder's late release then decrements the new socket's count, and
  can put a held socket into grace.

`RefCountExactKept` says that only such a `close()` leaves the correctly
counted states. The two properties together say that the SocketManager
refines `SocketLifecycle` up to the first `close()` while sockets are held.
What happens after that is run `server_stale_release`.

### `Server.tla`

Its variables are the registry's dictionaries, with these abstractions:

- Each is a function or a set. A client is its connection.
- Per supervisor task, its state: new, running, cancelled or done.
- Per connection, its session state: idle, running, closing or done.
- The SocketManager is an `INSTANCE` with the supervisors as its holders.

Actions:

- `AddReverseToken`, `AddForwardToken`.
- `RemoveReverseToken` and `RemoveForwardToken` (the two branches of
  `remove_token`).
- `Serve`, and `Shutdown` (serve's `finally`).
- `HandlePendingToken`.
- `AuthReverse`, `AuthForward`, `AuthRejected`.
- `SessionEnd`: every way a session ends, followed by `_cleanup_connection`.
- `SelectClient`: a SOCKS5 handler's `_get_next_websocket`.
- `SupervisorRun`: `get_socket`, including a failed bind.
- `SupervisorFinally`.
- `SocketStep`: the SocketManager's cleanup tasks and clock.

`_cleanup_connection` rebuilds a token's list without the client (the
comprehension of lines 593-595). The model writes this as SequencesExt
`RemoveFirst`, which drops the first entry equal to the client. The two agree
because a list never holds a client twice (`ListsInjective`, proved in
`ServerRegistry_proofs`). TLC found no difference between this form and a
`SelectSeq` filter on `MC_Server`. `RemoveFirst` is used because the provers
can reason about it and cannot reason about `SelectSeq`.

Cancelling a supervisor that never ran finishes it at once, without its
`finally` (asyncio does not start a task cancelled before its first step).

### `RoundRobin.tla`

This module isolates one token's round-robin selection:

- `clients` is `_token_clients[token]`.
- `index` is `_token_indexes[token]`.
- The actions are:
  - `Join`: the append when a reverse client authenticates.
  - `Leave`: `_cleanup_connection` removing the client's single entry, since
    client ids are fresh `uuid4`s. An emptied list also loses its cursor.
  - `Select`: `_get_next_websocket`, including the fallback of its bare
    `except` to the first client.
- `window` counts the selections of each client since the list last changed.
  It is the ghost state that spec §8 item 1 speaks about.

### `Session.tla`

This module models one authenticated session after `auth_response` (lines
548-581, 609-688). It has three tasks, each with a program counter naming
the `await` it is suspended in:

- `rcv` is `_message_dispatcher`:
  - `RecvFrame`: `recv()` returns a frame. The frame is one of four kinds:
    - `"data"`: data or connect_response. The frame is delivered or dropped,
      or it suspends in `put()` on a full queue, until `QueueTaken`.
    - `"connect"`: a forward session spawns a handler task for the frame; a
      reverse session ignores it.
    - `"other"`: ignored.
    - `"bad"`: not JSON, or a missing key. This raises into the `finally`.
  - `RecvClosed`: `ConnectionClosed` is raised.
  - `RecvTimeout` and `Probe`: the 60 s timeout and the ping probe.
  - `DrainDone`: the `finally`'s gather of the handler tasks returns.
  - `Cancelled` is that `finally`'s cancel loop.
- `hb` is `_ws_heartbeat`: `HbPing`, `HbWake` (the 30 s sleep), and `HbClose`
  (the `finally`'s `close()`).
- `main` is `_handle_websocket`:
  - `FirstCompleted`: `asyncio.wait(FIRST_COMPLETED)` returns, and the
    `finally` cancels both tasks. The effect of a cancel depends on the
    `await` its target is in (`RcvCancelled`, `HbCancelled`):
    - a cancelled gather still waits for its children;
    - the heartbeat's bare `except` swallows a cancellation of `close()`.
  - `Gathered`: the gather returns and `_cleanup_connection` runs.
- The environment has these actions:
  - the peer sends frames (`PeerSend`), closes (`PeerClose`) or vanishes
    without closing (`PeerVanish`, a half-open connection);
  - the websockets keepalive, which `serve()` leaves at its defaults, closes
    a silent connection (`Keepalive`);
  - a network handler (the relay) ends by itself (`HandlerEnd`), or after a
    cancel (`HandlerExit`).
- `ping()` returns once the ping frame is written, without waiting for the
  pong. It therefore fails only on a closed connection.

## Runs

| Run | Result | What it shows |
|---|---|---|
| `socketmanager_refcounts` (`MC_SocketManager.cfg`) | pass | `close()` is unguarded here. Reference counts start equal to the number of holders, with held sockets open, and every get, release, cleanup and tick keeps them so; only a `close()` while sockets are held breaks them (`RefCountExactKept`). A socket in grace is eventually closed or reused (`GraceEnds`). Every step from a correctly counted state is a step of the abstract life cycle (`ImplementsLifecycle`). |
| `socketmanager_grace` | violation of `GraceRespected` | A socket can be closed before a full grace period has passed since its last release. The sequence is: get, release, get, tick, release, tick, cleanup. |
| `roundrobin_fairness` (`MC_RoundRobin.cfg`) | pass | Three clients join and leave, with up to five selections between changes. Every listed client is chosen floor(m/k) or ceil(m/k) times (`Balanced`). This also holds when a cleanup leaves the cursor past the end of a shortened list. |
| `session_tasks` (`MC_Session.cfg`) | pass | When `_cleanup_connection` runs, no handler task is live (`HandlersDrained`) and the websocket is closed (`ClosedAtEnd`). A lost connection always leads to cleanup (`SessionEnds`), even with the receiver stuck in `put()`: the heartbeat's ping then finds the connection closed. |
| `session_probe_alive` (`MC_Session_probe.cfg`) | violation of `ProbeMeansAlive` | The sequence is: the peer vanishes without closing, `recv()` times out after 60 s, and the probe's `ping()` passes. `ping()` does not wait for the pong, so the probe does not check that the connection "is still alive", as the comment at line 671 says. Such a session still ends, through the library keepalive or the kernel (`SessionEnds`), but never through the probe. |
| `server_registry` (`MC_Server.cfg`) | pass | The checked invariants are `PortsConserved` (spec §8 item 2), `SupervisorOwnsPort` (at most one live supervisor per port, owning its token's port) and `RegistryConsistent` (the lists hold exactly the live reverse sessions). The action property `ClientLeavesClosed` says that a client leaves `_clients` only when its session has ended, or when `remove_token` of its own token has scheduled its close. All of these hold under all interleavings of admin calls, sessions, supervisors, serve restarts and socket cleanup. |
| `server_tokens_disjoint` | violation | A token can be both reverse and forward. |
| `server_cursor` | violation | The round-robin cursor stays past the end of a shortened list. This is harmless, thanks to the modulo. |
| `server_forward_clients` | violation | Forward clients are never removed when their session ends. |
| `server_stale_release` | violation | The sequence is: serve() ends, then remove and re-add a token on the same port. The old supervisor's late release then closes the new supervisor's socket. |
| `server_supervisor_restart` | violation of the liveness `SupervisorServes` | After a failed bind, the port never gets a supervisor again. |

The findings in `PROJECT.json` describe what each violation means for the
code.

Bounds:

- SocketManager: two ports, two holders, `Grace = 2`. `MaxCleanups` bounds
  the cleanup tasks: a last release, which creates one, waits while its port
  already has `MaxCleanups` tasks sleeping with the same time left. That is
  the only place a bound is needed, so `get_socket` is never held back, and a
  socket in grace can always be reused. `MaxCleanups = 2` allows the two
  overlapping grace periods of one port that the stale-timer trace needs.
- RoundRobin: three clients and `MaxPicks = 5` per window. That covers
  every cursor position for lists of one to three clients, and more than two
  full turns over two clients. The proof covers every size.
- Server: two tokens, one port, two connections, two supervisor ids,
  `MaxServes = 2`, `Grace = 1` and `MaxCleanups = 1`. These bounds are
  enough for these cases:
  - two tokens competing for one port;
  - two clients of one token;
  - a cancelled supervisor that is still to release while a new one starts;
  - a restart of serve();
  - a socket in grace that is got again before its cleanup task runs.

  The runs set `WaitClient = FALSE`, so that eager starts happen. This is
  not the code's default. With `socks_wait_client = True`, supervisors start
  only on auth, which is a subset of these start paths. The theorems of
  `Server_proofs`, `ServerRegistry_proofs` and `ServerType_proofs` hold for
  both values.
- Session: up to three peer frames. That allows two live handler tasks when
  the session ends, and a bad frame or a blocking data frame after them. Both
  kinds of session (forward and reverse) are covered.
- Symmetry over connections, supervisor ids and tokens is used in the safety
  runs. Every CHOOSE in the spec picks a unique value, so symmetry is sound
  there. The liveness runs do not use symmetry. `MC_Server.cfg` checks the
  action property `ClientLeavesClosed` under symmetry. That is sound because
  the property treats every connection and token alike.

Fairness (`Server.Fairness`, `SocketManager.Fairness`) is weak fairness on the
tasks the event loop runs by itself:

- created supervisor and pending-token tasks;
- a cancelled supervisor's `finally`;
- the clock;
- cleanup tasks.

Admin calls and websocket peers are never obliged to act.

In `Session` (`TaskFairness`), every step of the three tasks is weakly fair,
and so are the 60 s and 30 s timers. A cancelled handler is assumed to
finish its cleanup. `Spec` adds weak fairness on `Keepalive`: it is a timer of
the same loop (ping_interval and ping_timeout are left at 20 s by `serve()`).
The following get no fairness:

- the peer;
- a handler that was not cancelled;
- the consumer of a full queue.

`Keepalive` stands for both the library keepalive and the kernel, which
aborts a connection whose pings go unanswered. The model keeps its fairness
in every run: without it, a session on a vanished peer would never end, and
the code does not behave that way.

## Proofs

`SocketManager_proofs.tla` assumes only `SocketManagerAssumption` (finite
holders, positive grace and bound). It proves two theorems:

- `TypeCorrect`: `Spec => []TypeOK`.
- `RefCountsExact`: `Spec => RefCountExactKept`.

`RefCountExact` is not an invariant, since `close()` can run while sockets
are held. The theorem therefore states the step form:

- `RefCountExact` holds initially.
- Lemma `ExactStep`: under `TypeOK /\ RefCountExact`, every step other than a
  `close()` while sockets are held leaves `RefCountExact` true.

The argument:

- A get adds the holder to `HoldersOf(p)` and a release removes it (lemma
  `HoldersMove`), so the cardinality moves with `refs`.
- A cleanup closes a socket only when `refs = 0`, that is when no holder holds
  it.
- A `close()` with nothing held leaves no socket and no holder.

`SocketManager_proofs.tla` also proves `ImplementsLifecycleThm`:
`Spec => ImplementsLifecycle`.

- The initial state maps to the abstract initial state.
- Under `TypeOK /\ RefCountExact`, every step maps to an abstract step or a
  stutter (lemma `LifeStep`). `TypeOK` is an invariant, and `RefCountExact`
  is the hypothesis of the property:
  - `GetSocket` maps to `Get`.
  - `ReleaseSocket` maps to `Release`. Its holder is the last one exactly when
    `refs = 1`, by the exact count (lemma `LastHolder`).
  - A cleanup that closes a socket maps to `Expire`, since `refs = 0` means
    the socket is in `grace`.
  - `Close` maps to `CloseAll`.
  - `Tick` and a no-op cleanup leave every `LifeOf` as it is.
- The abstract spec allows a grace period to end at any time. So the proof
  says nothing about the timing that `GraceRespected` is about.

`RoundRobin_proofs.tla` proves `RoundRobinFair`: `Spec => []Balanced`, for
any clients and any bound.

- The invariant `BInv` adds two facts to the types:
  - the list is injective;
  - `Shape`: since the last change, either nothing was chosen, or every
    position was chosen `base` times, plus one for the `r` positions nearest
    behind the cursor on the ring (`Dist`).
- A join or a leave resets the counts.
- A selection moves the cursor one place forward (lemma `NextCursor`: the
  only facts about `%` it needs). The new position was the farthest behind
  and becomes the nearest (lemma `DistNext`). So `r` grows by one, or wraps
  with `base + 1`.
- Injectivity survives a leave through `RemoveAtElems`, which gives
  `RemoveAt` element-wise.
- `Shape` is stated without `%` once a selection has happened. This keeps the
  arithmetic linear for the SMT solver.

`Server_proofs.tla` proves two theorems for any tokens, ports, connections and
supervisor ids:

- `PortsAlwaysConserved`: `Spec => []PortsConserved`.
  - The lemma `OnlyAdminMovesPorts` shows that only `AddReverseToken` and
    `RemoveReverseToken` change the tokens or the pool.
  - `PortsConserved` is inductive by itself. The pool port taken by an add is
    in no token's range. The port given back by a remove belongs to exactly
    one token, by injectivity.
- `SupervisorsOwnPorts`: `Spec => []SupervisorOwnsPort`.
  - It uses the invariant `IInv`, which adds four facts:
    - `PortsConserved`, so a port identifies its token;
    - pending tokens are still tokens, which is needed when `serve()` starts
      their supervisors;
    - the supervisor records are typed;
    - `_socks_tasks` names supervisor ids.
  - The lemma `StartKeepsOwnership` covers the three places that start
    supervisors: serve, the pending task and auth. A new task is recorded for
    a port that had none, and every other task is left alone.
  - The removal step uses injectivity: the live supervisors of other tokens
    sit on other ports, so they keep their entries.
  - TLC also checked `IInv` as an invariant on the `MC_Server` instance before
    it was proved.

`Session_proofs.tla` proves three theorems for any bound on the frames:

- `TypeCorrect`.
- `HandlersDrainedThm`: `Spec => []HandlersDrained`.
- `ClosedAtEndThm`: `Spec => []ClosedAtEnd`.

Both rest on the invariant `IInv`, which adds three facts to the types:

- `Drained`: a finished receiver has no live handler. Handlers are spawned
  only in `recv`, and `DrainDone` waits for all of them.
- `EndsAfterTasks`: the session ends only after both of its tasks have
  finished.
- `HbClosed`: a finished heartbeat has closed the connection. So has a
  heartbeat in its `finally` before any cancel. That fact is needed because a
  cancel in `close()` returns without closing. It is harmless only because
  the heartbeat gets there on its own after its ping has found the connection
  closed, and `main` cancels only once.

`SequenceLemmas.tla` states the facts about the list operators that the
server's proofs need. All of them are about injective sequences:

- `RemoveAt` and `RemoveFirst` remove exactly one element and keep the list
  injective.
- Appending a fresh element adds exactly that element.
- A sequence is empty exactly when its range is empty.

`ServerRegistry_proofs.tla` proves two theorems:

- `RegistryConsistentThm`: `Spec => []RegistryConsistent`.
  - `RegistryConsistent` alone is not inductive. A cleanup must remove its
    client and leave the other clients listed. So the invariant `RInv` adds
    two facts:
    - `RegTypeOK`: the lists are sequences of connections, and the sessions
      are typed;
    - `ListsInjective`.
  - The main cases are the following:
    - An auth appends a connection whose session was idle. That connection
      is therefore in no list, and `AppendFresh` applies.
    - `_cleanup_connection` removes exactly its own client
      (`RemoveFirstInjective`). A list that becomes empty is deleted.
    - `remove_token` drops the token's list and the clients in it. Any other
      step leaves every live reverse session live with the same token
      (lemma `RegistryKept`).
- `ClientLeavesClosedThm`: `Spec => ClientLeavesClosed`.
  - `remove_token` schedules `ws.close` only `if self._loop`.
  - The invariant `LoopInv` says that `_loop` is set while serving or while
    there are clients. `serve()` sets `_loop`, nothing clears it, and clients
    join only while serving.
  - So every client that `remove_token` drops is closing (lemma
    `LeaveStep`), and `_cleanup_connection` drops only its own ended
    session.
  - TLC checked `LoopInv` on `MC_Server` before it was proved.

`ServerType_proofs.tla` proves `ServerTypeCorrect`: `Spec => []TypeOK`.

- The invariant is `TypeOK /\ RInv /\ IInv`.
- Two facts need the other invariants:
  - `SelectClient`'s cursor `(i + 1) % Len(list)` is a natural number only
    because a listed token's list is never empty (from `RInv`).
  - The ports that supervisors hand to the SocketManager are ports (from
    `IInv`).
- As a result, the empty-list checks of `_get_next_websocket` (line 423,
  second half, and lines 427-428) can never fire. `SelectClient`'s guard
  keeps only the `token not in self._token_clients` check.
- The SocketManager's typing is proved again for the instance, by expanding
  its actions (`SM!GetSocket` and the others). The typing lemmas of
  `SocketManager_proofs` cannot be used here: taken through an `INSTANCE`,
  they carry that module's assumption as a hypothesis that cannot be
  discharged.
- `ServerAssumption` requires `Grace` and `MaxCleanups` to be positive,
  which is what the SocketManager needs.

Only model-checked, and out of the prover's reach:

- The liveness properties (`GraceEnds`, `SupervisorServes`, `SessionEnds`).
  They rest on fairness and `ENABLED`, which TLAPS does not handle here.
- The remaining properties are all violated by the code. A run finds the
  counterexample, and there is nothing true to prove about them.

## Not modelled

- The relay, and the ChannelBus it owns.
- Timing inside a session: a timer is only an event that can fire. The
  10 s, 100 ms poll of `_handle_socks_request` for a client is left out too,
  since Server has no clock.
- Payloads, and the channel ids of the frames.
- SOCKS5 credentials.
- The HTTP front end.
- Backlog sizes.
