# bevy_renet_dtls in TLA+

A specification of the transport of bevy_renet_dtls: the DTLS server and client
resources of `bevy_dtls`, the tasks they spawn, the Bevy systems that drive them, both
sides of the renet integration, and the applications of the repository that restart for
ever or only send. The modules are translated from the Rust source; TLC checks them on
small instances, and TLAPS proves every safety invariant the runs check, of the
transports, of the messages' history and of the applications, and that the server
implements an abstract specification, for all instances.

    cd tla
    tlc -config ServerTwoConns.cfg MCDtlsServer.tla
    tlapm DirtyServerProofs.tla

## The system

### Components, their state and operations

| component | source | state | operations |
|---|---|---|---|
| `DtlsServer` | `bevy_dtls/src/server/dtls_server.rs:378-868` | Options for the listener, the acceptor's handle and the ends of five channels; `conn_map` behind a RwLock | `start`, `acpt`, `start_conn`, `send`, `broadcast`, `recv`, `timeout_check`, `health_check`, `disconnect`, `disconnect_all`, `close`, `is_closed` |
| `DtlsConn` | `:351-376` | `is_running`, two JoinHandles, a send channel, two close channels | written by the operations above |
| acceptor task | `:112-176` | its local `index`, where it is in its loop | accept, admit, announce, insert; ends on a close signal or any error |
| receive task, one per connection | `:221-267` | where it is in its loop | forwards datagrams, reports timeouts; ends on a close signal or any error; closes the connection |
| send task, one per connection | `:306-348` | where it is, the message it is sending | sends, hands a message back on timeout; ends likewise |
| server systems | `server/plugin.rs`, `server/event.rs` | none | `accept_system` in PreUpdate, `health_event_system` then `timeout_event_system` in PostUpdate |
| `DtlsClient` and its two tasks | `bevy_dtls/src/client/dtls_client.rs` | as one connection of the server, without a map | `start` (blocks until connected), `send`, `recv`, `timeout_check`, `health_check`, `disconnect`, `is_closed` |
| client systems | `client/plugin.rs`, `client/event.rs` | none | `health_event_system`, `timeout_event_system` |
| renet client integration | `bevy_renet_dtls/src/client.rs` | none of its own; joins `RenetClient` and `DtlsClient` | `start_dtls`, `disconnect_dtls`, `send_system`, `recv_system` |
| renet server integration | `bevy_renet_dtls/src/server.rs` | none of its own; joins `RenetServer` and `DtlsServer` | `disconnect_dtls`, `disconnect_all_dtls`, `acpt_system`, `recv_system`, `send_system` |
| `RenetServer` (external) | | for each connection: connected, or disconnected and not removed | `add_connection`, `process_packet_from`, `get_packets_to_send`, `disconnect`, `remove_connection`; disconnects by itself on an error |
| restarting applications | `bin/dirty_client.rs`, `bin/dirty_server.rs` | `Restart`, a counter | `handle_net_event`, `handle_restart`, `send_hellooon_system` |
| certificate options | `*/cert_option.rs`, `cert/loader.rs` | none | options to a webrtc_dtls configuration |
| simple demos | `bin/unreliable_*`, `bin/reliable_*` | none of interest | start once, send in every frame, log the events |
| replicon demo | `replicon_demo` | a game | as the simple demos, over bevy_replicon |

### How they interact

The Bevy main loop is one thread and owns the resources. Each task owns its end of a
few unbounded channels. There are exactly four ways they meet:

- data channels: received datagrams, messages to send, timeouts, accepted indices;
- close channels, one per task, used at most once: `disconnect` and `close` put a
  signal in and drop their end;
- `conn_map` under a RwLock, shared by the main loop and the acceptor;
- JoinHandles: `health_check` asks `is_finished()`, joins and takes the handle. It is
  the only place where the main loop learns that a task has ended, and the only place
  where an entry leaves `conn_map`.

Besides, the two tasks of a connection share the DTLS connection itself: whichever
ends first closes it, and the other notices at its next use.

Over renet there is a second table of connections beside `conn_map`, under the same
indices. Nothing keeps the two equal: `acpt_system` adds to renet what it could start,
`disconnect_dtls` removes from renet what it disconnects, and everything else (a
connection that leaves `conn_map`, a datagram or a packet without a counterpart) becomes
an event, on which the application must act.

### What is hard

Tasks and main loop interleave freely; close signals meet busy tasks; the acceptor's
check, announcement and insertion are three steps under different locks; the health
check looks and acts under different locks; channels are dropped under running tasks;
one task of a connection can end without the other; a restart reuses indices while the
old run may not be over; events are read a frame after they are sent, by systems that
also restart. `PROJECT.json` lists these hazards, each at its line, with the property
that would catch it going wrong.

### What makes each component correct

- server: a task, a handle and an entry always belong together; closed means that
  nothing of the old run is left; `max_clients` is kept; indices are fresh; the health
  check neither panics nor blocks; nothing leaves the map half open; disconnect and
  close complete; lost connections are evicted; a task ends silently only when asked to;
- client: the same for one connection, and disconnect is all a closed run needs to be
  started again;
- client with renet: events of one run never reach the next, a restart that was asked
  for is not refused, every lost connection and every disconnect leads to a new run;
- server with renet: a renet connection whose DTLS connection is gone is about to be
  removed; an error event never hits a healthy connection; a run starts with no event and
  no client of the one before; every lost connection is evicted, that of a peer that
  vanished included; the application accepts again, however its acceptor ended;
- messages to send: never reordered, never twice on the network, and lost without the
  application being told in one way only (a close that drops unread timeouts);
- simple demos: sending alone is enough to notice a lost connection.

## Modules

| module | what it is |
|---|---|
| `ConnLifecycle` | abstract specification of the server: the places for connections |
| `DtlsServer` | server resource, acceptor, loops, systems |
| `DtlsServerLifecycle` (extends `DtlsServer`) | the refinement mapping to `ConnLifecycle` |
| `MCDtlsServer`, `ServerTwoConns.cfg`, `ServerProgress.cfg`, `ServerRestart.cfg` | their runs |
| `DtlsServerIo` (extends `DtlsServer`) | with the history of the messages sent |
| `MCDtlsServerIo`, `ServerIo.cfg` | its run |
| `DtlsServerProofs` | inductive invariant, theorems |
| `DtlsServerLifecycleProofs` | the refinement, proved |
| `DtlsServerIoProofs` | order and fate of messages, proved |
| `RenetDtlsServer` (extends `DtlsServer`) | renet integration of the server, peers that vanish |
| `DirtyServer` (extends `RenetDtlsServer`) | dirty_server |
| `MCDirtyServer`, `DirtyServer.cfg`, `DirtyEviction.cfg`, `DirtyAccepts.cfg`, `DirtyRestart.cfg` | its runs |
| `DemoServer` (extends `RenetDtlsServer`), `DemoServer.cfg` | unreliable_server and reliable_server |
| `RenetServerProofs` | what the next two share: the server's invariant and its lifecycle under the systems of the integration, which indices are still to be given, who an event is about |
| `DirtyServerProofs`, `DemoServerProofs` | inductive invariants, theorems |
| `DtlsClient` | client resource, loops, systems |
| `MCDtlsClient`, `Client.cfg` | its run |
| `DtlsClientProofs` | inductive invariant, theorems |
| `RenetDtlsClient` (extends `DtlsClient`) | renet integration of the client |
| `DirtyClient` (extends `RenetDtlsClient`) | dirty_client |
| `MCDirtyClient`, `DirtyClient.cfg` | its run |
| `DirtyClientProofs` | inductive invariant, theorems |
| `DemoClient` (extends `RenetDtlsClient`), `DemoClient.cfg` | unreliable_client and reliable_client |

Operators marked `mutant` in the modules are wrong variants of the definition below
them. Nothing uses them; `PROJECT.json` names, for every property of every passing run,
one that breaks it when it takes the place of the right one.

### From code to state

- An `Option` is a Boolean (is it `Some`). Options that are always written together are
  one variable: `opened` stands for `acpt_rx`, `close_acpt_tx`, `recv_tx`, `recv_rx`,
  `timeout_tx` and `timeout_rx`; `acpt_handle` for the handle and `listener`; `send_tx`
  of an entry for `send_tx` and `close_send_tx`.
- `conn_map` is a function on the indices present. The loops' program counters, results
  and queues are functions on all indices; they are only meaningful for indices in the
  map, which is what `LoopsAreOwned` says.
- A task is a program counter: `none` (no uncollected task), the points of its loop
  where others can interfere, `closing` (the loop is left, `conn.close()` follows) and
  `done` (`is_finished()`). `*_err` tells whether the result is `Err`.
- A channel is a sequence; its receiver being dropped is the Boolean of the owner, its
  sender being dropped never matters, as every loop also owns what it needs to end.
  Dropping a receiver empties the sequence.
- The histories of `DtlsServerIo` are not in the code: `next` numbers the messages in the
  order of the application's calls, `sent` has those that `send` or `broadcast` accepted
  for a connection, `wire` what its send loop gave to the network, `back` what a timeout
  event returned to the application, `dropped` what was in a timeout that nobody had read
  when `close` dropped the channel, and `told` the number below which the application knows
  that messages may be lost. A send whose timer elapsed may or may not be on the network.
- `renet` is the status of each connection in `RenetServer` (not there, connected, or
  disconnected and not yet removed) or of the one `RenetClient`; `events` what the
  application has still to read; `silent` the connections whose peer has vanished.
- `ServerStatus` and `PlaceStatus` in `DtlsServerLifecycle` are the refinement mapping: a
  server is closed when `is_closed` says so, open while it has an `acpt_rx`, closing
  otherwise; a place is taken when its index is in `conn_map`, running once started, and
  ending once disconnected or once its send loop is left.
- `over_renet` in the demos' modules says which of two programs this is. It is chosen in
  the initial state and never changes.
- `phase` (server, client) and `turn` (with renet) put the systems in the order of the
  frame. The application's calls are made from Update, any number of them in any order.
- Indices are `1 .. MaxIndex`, with `MaxIndex` in the place of `u64::MAX`: the overflow
  of `checked_add` happens in the model.

### From code to actions

Every action stands for the code between two points where another actor can interfere;
`map` in `PROJECT.json` gives the lines of each. Where a longer piece of code is one
action, the reason is:

- `start_conn` (both loops) and `start`: the new tasks can run before the function
  returns, but what they do does not depend on what is still to be written.
- `disconnect`, `disconnect_all`, `broadcast`: a task that ends between two signals
  could as well have ended before the first or after the last; a signal for an ended
  task is lost either way. A connection accepted in between is not started and has
  nothing to signal.
- `HealthSnapshot` and `HealthReap` are two actions, because the read lock is released
  between them. `health_check_acpt` is part of the first; nothing in between reads what
  it writes.
- `timeout_event_system` and `recv_system` empty a queue in one step: what arrives while
  they pop is as if it had arrived before.
- One poll of a biased `select!` in a receive loop is two actions: the close channel
  (`RecvClose`, `RecvPoll`), then the connection and the timer, so that a signal that
  arrives in between can lose against a datagram once. `RecvWake` is the wake-up of a
  pending `select!`. For the acceptor and the send loop the two polls are one action:
  a connection or message taken is as if it had been taken before the signal came.
- The `else` arms of the `select!`s are unreachable: `accept`, `recv_from` and `sleep`
  always match, and `send_loop` never sees both of its channels closed without a close
  signal first, since `disconnect` sends one before it drops them and the application
  does not drop the resource.
- `conn.close()` can fail, `accept`, `recv_from` and `send` can fail at any time: every
  one of these is a choice. A `send` on a connection this side has closed always fails
  (`refused`), before its timer is looked at.
- `RecvSystem` and `SendSystem` of the server are one action each, as is the
  `handle_net_event` of an application: the loops over connections and events touch
  different connections, or set what is set already, and a task step in between commutes
  with the rest of the loop. Where the order of connections is that of a map, the events
  come in any order (`Orders`), those of one connection together. Of renet's packets at most one for each client and frame is kept.
- In the demos that do not use renet, the events are read after the datagrams and not
  before them; they are only logged.

Left out: payload bytes, addresses, log output, the acceptor's handshake, the read-only
queries. In `DtlsServer` itself the events its systems send are left out, being outputs;
`RenetDtlsServer` and the modules over it have them.

### External code

webrtc_dtls appears as: `accept` returns a connection or an error or nothing for ever;
a connection delivers data, fails, or is silent; after `close` the other task's `recv` can still
deliver what had arrived and then fails. tokio's channels are unbounded and reliable, a dropped receiver makes `send`
fail, and `is_finished()` is true once the task has returned. A peer over renet may also
vanish (`Vanish`): nothing of it arrives any more, no close alert either, and only the
receive timer runs.

renet is a status for each connection, connected or disconnected, that its own errors
(`RenetMayFail`, `MayFail`) and `disconnect` change. `add_connection` does nothing for a
client that is in the table; a disconnected connection stays in the table until it is
removed, has no packets to send and is left out of `clients_id` and `connected_clients`.

## What the runs check

| run | instance | states | what it shows |
|---|---|---|---|
| `server_two_conns` | `MaxClients = 2`, `MaxIndex = 3`, one message | 977,884 | two started connections and a third one being accepted or refused, the overflow of the index, restarts with index 1 again. Type correctness, `InsertIsFresh`, `LoopsAreOwned`, `ClosedMeansQuiet`, `HealthUnwrapsSucceed`, `CleanEndWasRequested`, `AnnouncedOnce`, `RemovedOnlyWhenOver` |
| `server_progress` | `MaxClients = 1`, `MaxIndex = 3`, receive timeouts | 44,399 | `CapacityRespected`; under fairness `CloseCompletes`, `DisconnectCompletes`, `LostConnEvicted`; the server implements `ConnLifecycle`, step by step (`StepsOfLifecycle`) and with its liveness (`ImplementsLifecycle`) |
| `server_restart` | `MaxClients = 1`, `MaxIndex = 3` | | `CloseAllowsRestart` is violated, see below |
| `server_io` | `MaxClients = 1`, `MaxIndex = 2`, messages 1 and 2 | 217,708 | `SentInOrder`, `SilentLossOnlyByClose`; under fairness `EveryMessageEnds`: with every way a connection can end, each message is at last on the network, returned by a timeout event, or covered by an error or a disconnect the application knows of, except those that `close` drops with their unread timeouts, see below |
| `dirty_server` | `MaxClients = 1`, `MaxIndex = 3`, `Period = 2` | 339,743 | `GhostsAreReported`, `ErrorsAreDeserved`, `RunsStartClean`: no event hits the wrong connection and none reaches the next run |
| `dirty_server_eviction` | the same, `MaxIndex = 2` | 104,678 | under fairness `LostIsEvicted`, also when the peer vanished without a word |
| `dirty_server_accepts` | the same, `MaxIndex = 2` | 104,678 | under fairness `AcceptsAgain`: dirty_server closes, restarts and accepts again, unless a connection is stranded |
| `dirty_server_restart` | the same, `MaxIndex = 2` | | `RestartClosesAll` is violated, see below |
| `demo_server` | `MaxClients = 1`, `MaxIndex = 2` | 106,391 | for unreliable_server and reliable_server: `EveryEndIsAnError`, `SendersAreKnown`; under fairness `BroadcastEvictsLost` |
| `client` | two messages, queues up to 2 | 16,016 | `ClosedMeansQuiet`, `LoopsAreOwned`, `CleanEndWasRequested`, `DisconnectAllowsRestart`, `LossIsKnown`; under fairness `DisconnectCompletes`, `LostConnEnds` |
| `dirty_client` | one message, queues up to 2, `Period = 3` | 5,645 | `RestartNotRefused`, `RenetInStep`, `RunsStartClean`; under fairness `LoopEndEndsRun`, `DisconnectRestarts` |
| `demo_client` | two messages, queues up to 2 | 86,708 | for unreliable_client and reliable_client: under fairness `MessagesEndLostRun` |

Bounds. `MaxIndex` bounds the connections accepted in one run of the server, in the
model as `u64::MAX` does in the code; a restart begins again at 1, so runs are unbounded.
`MaxClients` is the code's parameter; two is the least number for which connections
interfere, one the least for which a refused connection and a full map happen often.
The index that overflows is never used, so `MaxIndex = 3` has two connections one after
the other in a run, and `MaxIndex = 2` one connection in each run, under the same index
again and again: the case in which something of the old run could hit the new one.
`Period` is the number of broadcasts, or sends, after which a restarting application
disconnects, 100 in the code; two leaves a frame in which a connection can be lost before
it is disconnected. Both of unreliable_server's and reliable_server's runs have the
receive timer of the former; its reports are only logged. In `server_io` one message can be
queued behind one that is being sent, the least for which order says something.
`QueueBound` bounds the data queues in the guards of `Send`, `Broadcast`, `RecvData`,
`RecvTimeout` and `SendTimeout`; no property depends on how many messages wait beyond
the first, since the control only asks whether a queue is empty. With two connections
the constraint `OneMessage` in `MCDtlsServer` also stops the search at states with more
than one message on its way anywhere; it is used for safety properties only. The indices
are not symmetric (they are ordered and reused), so no symmetry set is used.
`CHECK_DEADLOCK` is never switched off: a frame can always go on.

### Fairness

- `WF(Frame)`, `WF(Systems)`: Bevy runs frame after frame. `accept_system` pops until the
  queue is empty; it ends because a run accepts finitely many connections.
- `WF(Acceptor)`, `WF(Sender(i))`, `WF(RecverRuns(i))`: the multi-thread runtime runs a
  task that can run. For the send loop this includes the end of `conn.send`, which is
  guarded by a timeout in the code.
- `SF(~conn_open[i] /\ RecvError(i))`: once this side has closed the connection, its
  `recv_from` fails, however often the receive timer fires or data received before the
  close is delivered first: what is buffered is finite.
- `SF(i \in silent /\ RecvTimeout(i))` in `RenetDtlsServer`: a receive loop whose peer has
  vanished has nothing but its timer, which elapses. Without a receive timeout nothing is
  assumed: such a connection stays for ever, in the model as in the code.
- `SF(Restarted)` in `DirtyClient` and `DirtyServer`: a server that is reachable again and
  again is reached in the end, and an address that can be bound is bound. Only
  `DisconnectRestarts` and `AcceptsAgain` need it.
- `SF` of a packet in `DemoClient`: reliable_client gives renet a message in every frame,
  and a connected renet client makes packets of them in the end.
- `DtlsServerIo` has the fairness of `DtlsServer`. `ConnLifecycle` promises `WF` of freeing
  an ending place and of becoming closed; `ImplementsLifecycle` shows that the fairness of
  the tasks and frames implies it.

Nothing is assumed of the network (`accept` may never return, datagrams and errors may
never come), nor of the application in `DtlsServer` and `DtlsClient`: it need not call
anything.

### What was found

`server_restart`: after `disconnect_all` and `close`, the server does not always become
closed. The comments of `is_closed` say that `conn_map` is "set closed by conn healtch
check" and the rest "by call ing close", and dirty_server restarts on that ground ("just
make sure close all again before restart"). But `acpt_loop` announces an index before it
inserts the connection. TLC's shortest trace: accept, announce 1, `close` drops `acpt_rx`
and with it the 1, the acceptor inserts connection 1 and only then sees the close
signal. `start_conn` never runs for connection 1, so it has no loops: `disconnect` has
nothing to signal, `health_check` only looks at entries with a finished loop, the entry
stays for ever and `is_closed` is false for ever. The same happens when `close` finds the
index still queued, and when `accept_system` pops the index before the insertion: then
a place among `max_clients` is lost as well, while the server runs. `CloseCompletes` shows that a
stranded connection is the only way in which `close` can fail to complete.

`dirty_server_restart`: the comment on dirty_server's arm of `ListenerClosed`, "just make
sure close all again before restart", is not true of renet's connections. (Of the DTLS
connections it is true but for the stranded ones of `server_restart`.) A connection
that renet disconnected by itself stays in renet's table when its DTLS connection is
disconnected there and then ends without an error event. `handle_restart` starts the next
run with it, the acceptor counts from 1 again, `add_connection` does nothing for an index
in the table, and the new client of that index is connected but never served, until it is
disconnected with all the others. `RunsStartClean` shows that no *connected* client is
left over that way.

When renet disconnects a client by itself, nothing in the repository tells the transport.
In the demos the connection then has no more packets, and if one of its loops has ended
the other one never notices: `BroadcastEvictsLost` and `MessagesEndLostRun` except
exactly this case. For reliable_server, with `max_clients: 1` and no receive timeout,
such a connection keeps every other client out.

`server_io` reaches a loss of which the application is not told. Nothing in the repository
claims otherwise, so there is no run for it; `SilentLossOnlyByClose` and `EveryMessageEnds`
except it by name (`m \in dropped[i]`), and TLC refutes both without the exception: the
application sends message 1, the timer of its send elapses, the message goes into the
timeout channel, and the application calls `close` from Update before
`timeout_event_system` reads it in PostUpdate. `close` drops `timeout_rx`
(`dtls_server.rs:645`): no event returns the message, no error and no disconnect covers it,
and it need not be on the network; the connection itself may stay healthy. An application
that disconnects everybody before it closes, as dirty_server does, has given its messages up
itself. On the client the channel is dropped by `disconnect` only.

The server's and the client's half-closed states are by design of the channels, and the
properties say how far they go: without a message to send, a send loop does not notice
that the receive loop of its connection has ended (`LostConnEvicted` and `LostConnEnds`
therefore ask for a queued message). dirty_client closes this gap by disconnecting on
every error event (`LoopEndEndsRun`), and so does dirty_server (`LostIsEvicted`).
The disconnect in its arm of `ConnClosed` ("this event can be emitted even before
disconnect() is called") is a second line: in the model a run that was not disconnected
ends with an error event before `ConnClosed` (`CleanEndWasRequested`), and the arm of
`Error` has disconnected by then.

## What is proved

`DtlsServerProofs` proves, for every `MaxClients`, `MaxIndex`, `Msg`, `QueueBound` and
with or without receive timeouts (`ServerAssumption` is all that is assumed):

| theorem | property |
|---|---|
| `TypeCorrect` | `TypeOK` |
| `InsertsAreFresh` | `InsertIsFresh` |
| `CapacityIsRespected` | `CapacityRespected` |
| `NoLoopIsLost` | `LoopsAreOwned` |
| `HealthCheckIsSafe` | `HealthUnwrapsSucceed` |
| `CleanEndsAreRequested` | `CleanEndWasRequested` |
| `ClosedIsQuiet` | `ClosedMeansQuiet` |
| `RemovalsAreOver` | `RemovedOnlyWhenOver` |
| `AnnouncementsAreOnce` | `AnnouncedOnce` |
| `Inductive` | `IInv`, the invariant as a whole |

None of the properties is inductive by itself. `IInv` is built in layers, each proved
with the ones below as hypotheses:

1. `TypeInv`: types; `CounterAhead`, the acceptor's counter is ahead of every index in
   the map, and of the announced one (from it follows that an insertion is fresh; a
   restart may reset the counter because the map is empty then); `FlightHeld`, a loop in
   `conn.send` holds its message.
2. `PlaceLeft`: between the check of `max_clients` and the insertion there is a place
   left. Only the acceptor adds entries, so others can only make room.
3. `OwnedInv`: the acceptor's handle, the loops' handles, and what the health check noted
   under the read lock. Needed together: reaping is safe only because the noted handles
   are still there, and they are still there because only the health check takes them.
4. `QuietInv`: an open DTLS connection belongs to an entry whose loops have not ended; a
   signal in a close channel belongs to a live loop and was sent by disconnect or close;
   hence a clean end was requested, and closed is quiet.
5. `QueueInv`: announced indices ascend, and each belongs to no entry or to a fresh one.

Each layer has a lemma for `Init` and one for a step, with one step of the proof per
action; the theorems combine them with PTL. `RemovalsAreOver` follows from layers 1, 3
and 4, as only `HealthReap` shrinks the map.

`DtlsServerLifecycleProofs` proves with `IInv` that the server implements `ConnLifecycle`
(`LifecycleIsKept`, the property `StepsOfLifecycle`): the initial state is an initial state
of it, and every step, seen through `ServerStatus` and `PlaceStatus`, is one of its steps
or a stutter. There is one lemma for each kind of step: those that leave the abstract
state alone, `AcptInsert` as `Accept`, `AcceptOne` as `Begin` or nothing, the disconnects
and the ends of a send loop as `End`, `HealthReap` as `Free`, `Close` as `StartClosing`,
`Start` as `Open`. `IInv` gives the guards of the abstract steps: the capacity left at an
insertion, the fresh index, and that what is reaped has come to its end before.

`DtlsClientProofs` proves for every `Msg` and `QueueBound` (`ClientAssumption`):

| theorem | property |
|---|---|
| `ClientTypeCorrect` | `TypeOK` (no run checks it) |
| `ClientLoopsAreOwned` | `LoopsAreOwned` |
| `ClientCleanEndsAreRequested` | `CleanEndWasRequested` |
| `ClientClosedIsQuiet` | `ClosedMeansQuiet` |
| `ClientDisconnectAllowsRestart` | `DisconnectAllowsRestart` |
| `ClientLossIsKnown` | `LossIsKnown` |
| `ClientInductive` | `ClientInv`, the invariant as a whole |

`ClientInv` is the first three with `QuietInv`: signals and messages wait only for loops
that live, channels that were dropped are empty, the DTLS connection is open at most
while both loops run, and the send loop holds a message only in `conn.send`.
`ClosedMeansQuiet` and, since a disconnect touches nothing that the health check has
cleared, `DisconnectAllowsRestart` follow. `LossIsKnown` counts the messages in the queue,
in the send and in the timeout channel: only a step that sends one, reads the timeouts,
ends the send loop or follows a disconnect makes them fewer, and a send loop that ends
without an error was asked to (`CleanEndWasRequested`).

`DtlsServerIoProofs` proves of the messages, for every `Msg` that is a set of numbers and
not empty (`NumbersAssumption`; `Msg` is the bound on the application's calls, and the
numbers stand for their order):

| theorem | property |
|---|---|
| `MessagesInOrder` | `SentInOrder` |
| `NothingElseIsLostSilently` | `SilentLossOnlyByClose` |
| `IoInductive` | `IoInv` |

A step of `DtlsServerIo` is a step of `DtlsServer` that also writes the histories, so `IInv`
holds. `SentInOrder` looks at the network only; to be kept by a send it needs `OrderInv`:
`wire`, `flight` and `send_q` of a connection ascend, each is below the next, and all are
below `next`. `SilentLossOnlyByClose` says what may have become of each accepted
message; that `close` may have dropped its timeout unread is one of the cases, not something
the proof excludes. It needs `SendSideIdle` (a loop that has ended has nothing in its queue, so clearing it later
loses nothing) and `DisconnectTold` (what a signalled loop still had when the signal came
was written off by the application's own disconnect, and nothing is accepted afterwards).
The lemmas before that are about sequences: what `Append`, `Tail` and concatenation do to
ascending sequences and their elements.

`DirtyClientProofs` proves for every `Msg`, `QueueBound` and `Period`:

| theorem | property |
|---|---|
| `AppTypeCorrect` | `AppTypeOK` |
| `RestartIsNeverRefused` | `RestartNotRefused` |
| `RenetIsInStep` | `RenetInStep` |
| `AppRunsStartClean` | `RunsStartClean` |
| `AppClosedIsQuiet` | `ClosedMeansQuiet`, of the client under this application |
| `AppInductive` | `AppInv` |

`AppInv` is `ClientInv` and the types with `RenetInStep` and three facts no property states.
`ReadBeforeStart`: from `handle_net_event` to the sending no event is unread, which is
why a run starts clean. `ClosedIsOver`: while `ConnClosed` waits to be read the client is
not running, so that the `disconnect` it leads to leaves a closed client.
`RestartIsClosed`: from then on, also through frames whose start fails, the client stays
closed.

Over the server's integration the invariant of `DtlsServer` has to be proved again: the
systems of the plugin and of dirty_server make several of its calls in one step
(`Signals`, `KeptBySignals`), `recv_system` and `send_system` move many messages at once
(`KeptByQueues`), the other steps are steps of `DtlsServer`. `RenetServerProofs` does this,
so that `DirtyServerIsSafe` and `DemoServerIsSafe` carry capacity, fresh indices, owned
loops, the health check's unwraps and `ClosedMeansQuiet` over to both. It also proves two
things the applications' invariants rest on. `Errors`, the set of indices an unread
`ConnError` is about, changes as the loops over clients, datagrams and loops say, in
whatever order these come (`RecvErrors`, `SendErrors`, `ReapErrors`, `NoErrors`). And an index
that is `Fresh` (not given yet, on its way to `accept_system`, or not started) never becomes
so again within a run (`FreshStaysPast`), and nothing that runs is (`RunningIsPast`).

`DirtyServerProofs` proves for every value of the constants:

| theorem | property |
|---|---|
| `DirtyTypeCorrect` | `DirtyTypeOK` |
| `GhostsAreAlwaysReported` | `GhostsAreReported` |
| `ErrorsAreAlwaysDeserved` | `ErrorsAreDeserved` |
| `DirtyRunsStartClean` | `RunsStartClean` |
| `DirtyServerIsSafe` | the safety of `DtlsServer`, under this application |
| `DirtyLifecycleIsKept` | `StepsOfApplication` (below) |
| `DirtyInductive` | `DirtyInv` |

`DirtyInv` relates three tables that nothing in the code keeps together:

1. `ServedIsKnown` and `SignalledTogether`: a connection that can be sent to is in renet's
   table, because whatever removes it there disconnects it in the same system; and
   disconnect signals both of its loops.
2. `EventsRead` and `ServedOrReported`: how the tables stand at each turn of the frame. From
   `handle_net_event` on, renet's clients are all in `conn_map`; `send_system` reports the
   ones that cannot be sent to; and from there to the next `handle_net_event` every client
   can be sent to or an error is waiting. `ReapSystem` is where it could break, since
   `health_check` takes connections out of `conn_map` without a word to renet: it keeps it
   because a connection that can be sent to was not disconnected, so its loop has ended
   with an error (`CleanEndWasRequested`, part of `IInv`), and the same system reports it.
3. `OldIsPast`: no datagram, client or error is of a fresh index. `close` and `start` empty
   `recv_q`, and at the start of a run there are no clients and errors (2); afterwards only
   what runs adds any.
4. `Deserved`, which is `ErrorsAreDeserved` of `Errors`. It needs 1 for datagrams without a
   client, 2 for packets, and 3 for a connection that is started while errors wait: they
   are not of its index.

`DemoServerProofs` proves for every value of the constants `SendersAreAlwaysKnown`
(`SendersAreKnown`), `EveryEndIsReported` (`EveryEndIsAnError`) and `DemoServerIsSafe`, from
`DemoInv` (`DemoInductive`): with `IInv`, that the server is opened once (`OpenedOnce`), that
nothing is ever signalled (`NeverSignalled`), and that renet, which forgets nobody in these
programs, knows what runs (`RunningIsKnown`) and what has sent something. By
`CleanEndWasRequested` an end without an error would have been asked for, and nobody asks.

Both applications also implement `ConnLifecycle` (`DemoLifecycleIsKept`,
`DirtyLifecycleIsKept`). A step of theirs that is a step of `DtlsServer` is one of
`ConnLifecycle` by `LifecycleStep`; those that only move data are stutters (`DataSteps`). What
remains is `Signals`, and it is why dirty_server implements `StepsOfApplication` and not
`StepsOfLifecycle`: one of its systems disconnects everybody and closes, which ends all
running places and the server's open state at once (`Stop` in `ConnLifecycle`). A close
that left somebody connected would be no step of it: `SignalSteps` needs that `CloseServer`
comes with a signal to all of `conn_map`, as in `CloseAll`. No run has these two as
properties; what they are made of, `StepsOfLifecycle`, is a property of `server_progress`.

Only model-checked:

- all liveness properties: fairness and ENABLED are outside what the prover does;
- `DemoClient`, whose only property is one of them;
- `CloseAllowsRestart` and `RestartClosesAll`, which do not hold.

## Not modelled

- Certificate options and the loader: sequential, without state; their failure is a
  failure of `start`, which changes nothing.
- The replicon demo: its use of the transport is that of reliable_server and
  reliable_client; the rest is a game whose entities bevy_replicon synchronises.
- What renet does with messages: channels, packets, acknowledgements. Only the status of
  its connections, and whether it may have a packet, matter here.
- Server and client in one model, over a network: the product of the two is out of TLC's
  reach. Each side's model lets the peer and the network do anything instead: deliver,
  fail, close, fall silent.
- Poisoned locks and panics inside tasks: no task of the code can panic while it holds
  the lock, except by the `debug_assert!` that `InsertsAreFresh` proves to hold.
- Dropping the resources when the application exits.

## Plan

Done: the server, its abstract specification and the proofs that it and the applications
over it implement it; the history of its messages with its proofs; the client and its
proofs; the renet integration on both sides; the applications of the repository except
the game; the proofs of every safety invariant that a run checks.

Next, in this order:

1. `DtlsClient` and a one-place instance of `ConnLifecycle`, in the way of
   `DtlsServerLifecycle`.
2. The safety of `DtlsClient` under `DemoClient`, in the way of `AppClosedIsQuiet`.
3. An abstract network between two ends that have the promises of `ConnLifecycle` only:
   who notices the end of the other, under which timeouts.
