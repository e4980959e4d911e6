--------------------------- MODULE RenetDtlsServer ---------------------------
(***************************************************************************)
(* DtlsServer as the transport of a RenetServer                            *)
(* (bevy_renet_dtls/src/server.rs, with the events of                      *)
(* bevy_dtls/src/server/event.rs).                                         *)
(*                                                                         *)
(* Two tables of connections under the same indices are kept side by side: *)
(* conn_map of DtlsServer and the connections of RenetServer.  The systems *)
(* of RenetDtlsServerPlugin carry connections, datagrams and errors from   *)
(* one to the other.  Every frame runs acpt_system, recv_system, the       *)
(* application's systems, send_system, health_event_system and             *)
(* timeout_event_system.  The application's systems are in the modules     *)
(* that extend this one; the tasks of DtlsServer run all the time.         *)
(***************************************************************************)
EXTENDS DtlsServer

VARIABLES
  turn,     \* the system that runs next
  renet,    \* RenetServer: the status of the connection of each index
  events,   \* Events<DtlsServerEvent>, not yet read by the application
  silent    \* started connections whose peer vanished: nothing of it arrives any more

renetVars == <<turn, renet, events, silent>>
baseVars  == <<vars, renetVars>>

Turns == {"build", "acpt", "recv", "event", "restart", "app", "send",
          "health", "reap", "timeout"}

\* "disconnected" is a connection that is in error, or was disconnected, and has
\* not been removed.
RenetStatus == {"none", "connected", "disconnected"}

DtlsServerEvent ==
  [kind : {"Error", "ListenerClosed"}]
    \cup [kind : {"SendTimeout", "RecvTimeout", "ConnError", "ConnClosed"}, conn : Index]

ConnError(i) == [kind |-> "ConnError", conn |-> i]

RenetTypeOK ==
  /\ turn \in Turns
  /\ turn = "acpt" <=> phase = "accept"
  /\ turn = "reap" <=> phase = "health"
  /\ turn = "timeout" <=> phase = "timeout"
  /\ renet \in [Index -> RenetStatus]
  /\ events \in Seq(DtlsServerEvent)
  /\ silent \in SUBSET {i \in DOMAIN conn_map : conn_map[i].is_running}

RenetInit ==
  /\ Init
  /\ turn = "build"
  /\ renet = [i \in Index |-> "none"]
  /\ events = << >>
  /\ silent = {}

-----------------------------------------------------------------------------
(* RenetServer, as far as its connections' status goes.                    *)

\* add_connection does nothing for a client that is in the table.
AddNever(i) == UNCHANGED renet  \* mutant: renet is not told
AddConnection(i) ==
  renet' = [renet EXCEPT ![i] = IF @ = "none" THEN "connected" ELSE @]

\* The connections of C may disconnect by themselves, a packet or a channel being in
\* error; they stay in the table.
MayFail(C) ==
  \E bad \in SUBSET {i \in C : renet[i] = "connected"} :
    renet' = [i \in Index |-> IF i \in bad THEN "disconnected" ELSE renet[i]]

\* clients_id and connected_clients leave out the disconnected ones.
Clients == {i \in Index : renet[i] = "connected"}

\* EventWriter::send, for a sequence of events.
SendEvents(es) == events' = events \o es

When(cond, e) == IF cond THEN <<e>> ELSE << >>

\* The orders in which a system can come to the elements of S: there are as many turns
\* as elements, and each has one.
Orders(S) ==
  {order \in [1 .. Cardinality(S) -> S] :
     \A x \in S : \E k \in 1 .. Cardinality(S) : order[k] = x}

-----------------------------------------------------------------------------
(* RenetServerDtlsExt.                                                     *)

\* disconnect_dtls, for each of the connections in C: the renet connection is
\* disconnected, the transport is, unless it is gone, and the renet connection is
\* removed.
Removed(C) == renet' = [i \in Index |-> IF i \in C THEN "none" ELSE renet[i]]

DisconnectDtls(C) ==
  /\ DisconnectEach(C \cap DOMAIN conn_map)
  /\ Removed(C)

-----------------------------------------------------------------------------
(* The systems of RenetDtlsServerPlugin.                                   *)

\* acpt_system, one turn of its loop: a connection that could be started is added to
\* renet; one that could not is an error event.
AcptSystem ==
  /\ turn = "acpt"
  /\ AcceptOne
  /\ LET i == Head(acpt_q)
     IN  \/ CanStart(i) /\ AddConnection(i) /\ UNCHANGED events
         \/ ~CanStart(i) /\ SendEvents(<<[kind |-> "Error"]>>) /\ UNCHANGED renet
  /\ UNCHANGED <<turn, silent>>

AcptSystemDone ==
  /\ turn = "acpt"
  /\ turn' = "recv"
  /\ AcceptDone
  /\ UNCHANGED <<renet, events, silent>>

\* recv_system: every datagram goes to renet; one of a client that is not in its
\* table is an error event.
RecvSystem ==
  /\ turn = "recv"
  /\ turn' = "event"
  /\ recv_q' = << >>
  /\ MayFail({recv_q[k][1] : k \in 1 .. Len(recv_q)})
  /\ \E order \in Orders({k \in 1 .. Len(recv_q) : renet[recv_q[k][1]] = "none"}) :
       /\ \A j, k \in DOMAIN order : j < k => order[j] < order[k]
       /\ SendEvents([k \in DOMAIN order |-> ConnError(recv_q[order[k]][1])])
  /\ UNCHANGED <<mainVars, conn_map, acptVars, recvVars, sendVars, conn_open, timeout_q>>
  /\ UNCHANGED silent

\* send_system: the packets renet has for its connected clients, at most one for each
\* in a frame; what is not accepted is an error event and ends the client's turn.
\* renet lists its clients in any order.
RefusedOnceOver(busy) == {i \in busy : i \notin DOMAIN conn_map}  \* mutant
Refused(busy) == {i \in busy : ~CanSend(i)}

SendSystem(busy, m) ==
  /\ turn = "send"
  /\ turn' = "health"
  /\ ~IsClosed
  /\ send_q' = [i \in Index |->
                  IF i \in busy /\ CanSend(i) /\ Len(send_q[i]) < QueueBound
                  THEN Append(send_q[i], m) ELSE send_q[i]]
  /\ \E order \in Orders(Refused(busy)) :
       SendEvents([k \in DOMAIN order |-> ConnError(order[k])])
  /\ UNCHANGED <<mainVars, conn_map, acptVars, recvVars>>
  /\ UNCHANGED <<send_pc, send_err, send_close, flight, conn_open, outVars>>
  /\ UNCHANGED <<renet, silent>>

\* is_closed: send_system returns at once.
SendSystemClosed ==
  /\ turn = "send"
  /\ turn' = "health"
  /\ IsClosed
  /\ UNCHANGED <<vars, renet, events, silent>>

\* health_event_system.  The acceptor's events come first ...
HealthEventSystem ==
  /\ turn = "health"
  /\ turn' = "reap"
  /\ HealthSnapshot
  /\ SendEvents(When(acpt_handle /\ ~acpt_handle' /\ acpt_err, [kind |-> "Error"])
                  \o When(acpt_handle /\ ~acpt_handle', [kind |-> "ListenerClosed"]))
  /\ UNCHANGED <<renet, silent>>

\* ... then, connection by connection in any order, the error of its send loop (1), of
\* its receive loop (2), and its end (3).
Ended(removed) ==
  {<<i, 1>> : i \in {j \in send_fin : send_err[j]}}
    \cup {<<i, 2>> : i \in {j \in recv_fin : recv_err[j]}}
    \cup {<<i, 3>> : i \in removed}

\* What is told of one connection is told together, and its end last.
ByConnection(order) ==
  \A j, k \in DOMAIN order : j < k /\ order[j][1] = order[k][1] =>
    /\ order[j][2] < order[k][2]
    /\ \A l \in j .. k : order[l][1] = order[j][1]

EndEvent(x) == IF x[2] = 3 THEN [kind |-> "ConnClosed", conn |-> x[1]] ELSE ConnError(x[1])

ReapSystem ==
  /\ turn = "reap"
  /\ turn' = "timeout"
  /\ HealthReap
  /\ \E order \in Orders(Ended(DOMAIN conn_map \ DOMAIN conn_map')) :
       /\ ByConnection(order)
       /\ SendEvents([k \in DOMAIN order |-> EndEvent(order[k])])
  /\ silent' = silent \cap DOMAIN conn_map'
  /\ UNCHANGED renet

\* timeout_event_system: an event for every timeout reported.
TimeoutEventSystem ==
  /\ turn = "timeout"
  /\ turn' = "acpt"
  /\ TimeoutEvents
  /\ SendEvents([k \in 1 .. Len(timeout_q) |->
       [kind |-> IF timeout_q[k].kind = "send" THEN "SendTimeout" ELSE "RecvTimeout",
        conn |-> timeout_q[k].conn]])
  /\ UNCHANGED <<renet, silent>>

PluginSystems ==
  \/ AcptSystem \/ AcptSystemDone \/ RecvSystem \/ SendSystemClosed
  \/ HealthEventSystem \/ ReapSystem \/ TimeoutEventSystem

-----------------------------------------------------------------------------
(* The tasks and the network.                                              *)

\* A peer crashes, or its close alert is lost: this side is not told.
Vanish(i) ==
  /\ i \in DOMAIN conn_map \ silent
  /\ conn_map[i].is_running
  /\ silent' = silent \cup {i}
  /\ UNCHANGED <<vars, turn, renet, events>>

Tasks ==
  /\ \/ Acceptor \/ Network
     \/ \E i \in Index :
          \/ Sender(i) \/ RecverRuns(i) \/ RecvError(i) \/ RecvTimeout(i)
          \/ i \notin silent /\ \E m \in Msg : RecvData(i, m)
  /\ UNCHANGED renetVars

\* The fairness of DtlsServer.  A receive loop whose peer has vanished has nothing but
\* its timer: a queue that is full for now, which it never is in the code, or the poll
\* in between does not keep it from elapsing.
TaskFairness ==
  /\ WF_baseVars(Acceptor /\ UNCHANGED renetVars)
  /\ \A i \in Index :
       /\ WF_baseVars(Sender(i) /\ UNCHANGED renetVars)
       /\ WF_baseVars(RecverRuns(i) /\ UNCHANGED renetVars)
       /\ SF_baseVars(~conn_open[i] /\ RecvError(i) /\ UNCHANGED renetVars)
       /\ SF_baseVars(i \in silent /\ RecvTimeout(i) /\ UNCHANGED renetVars)

=============================================================================
