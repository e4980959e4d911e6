----------------------------- MODULE DirtyServer -----------------------------
(***************************************************************************)
(* The application bevy_renet_dtls/src/bin/dirty_server.rs over the renet  *)
(* integration: it broadcasts in every frame, disconnects everybody and    *)
(* closes after Period broadcasts, and starts again when everything is     *)
(* closed.  Its systems run in Update in the order handle_net_event,       *)
(* handle_restart, send_hellooon_system.                                   *)
(***************************************************************************)
EXTENDS RenetDtlsServer

CONSTANT Period   \* broadcasts before everybody is disconnected, 100 in the code

ASSUME PeriodAssumption == Period \in Nat \ {0}

VARIABLES
  restart,   \* the resource Restart
  counter    \* the resource ServerHellooonCounter

ownVars == <<restart, counter>>
allVars == <<baseVars, ownVars>>

DirtyTypeOK ==
  /\ RenetTypeOK
  /\ restart \in BOOLEAN
  /\ counter \in 0 .. Period - 1

DirtyInit ==
  /\ RenetInit
  /\ restart = FALSE
  /\ counter = 0

\* ServerPlugin::build; if the first start fails the application panics.
Build ==
  /\ turn = "build"
  /\ turn' = "recv"
  /\ Start
  /\ UNCHANGED <<renet, events, silent, restart, counter>>

-----------------------------------------------------------------------------
(* handle_net_event.                                                       *)

\* The events on which a connection is disconnected.
EndsConnOnError(e) == e.kind = "ConnError"  \* mutant: a receive timeout is only logged
EndsConn(e) == e.kind \in {"RecvTimeout", "ConnError"}

\* disconnect_all and close; renet is not told.
ClosesOnly ==  \* mutant: the connections are not disconnected
  /\ CloseServer
  /\ UNCHANGED <<phase, acpt_handle, send_fin, recv_fin, conn_map>>
  /\ UNCHANGED <<acpt_pc, acpt_index, acpt_err, recvVars, sendVars, conn_open>>
CloseAll ==
  /\ SignalEach(DOMAIN conn_map)
  /\ CloseServer
  /\ UNCHANGED <<phase, acpt_handle, send_fin, recv_fin, acpt_pc, acpt_index, acpt_err>>
  /\ UNCHANGED <<recv_pc, recv_err, send_pc, send_err, send_q, flight, conn_open>>

\* What is left of the events when the loop ends.
UnreadOnceClosed ==  \* mutant: stops at ListenerClosed
  LET closed == {k \in 1 .. Len(events) : events[k].kind = "ListenerClosed"}
  IN  IF closed = {} THEN << >>
      ELSE SubSeq(events, 1 + (CHOOSE k \in closed : TRUE), Len(events))
Unread == << >>

\* The whole loop: the connections with an error or a receive timeout are
\* disconnected, and after ListenerClosed all of them: "this event can be emitted even
\* while conns are alive, just make sure close all again before restart".
HandleNetEvent ==
  LET read   == {events[k] : k \in 1 .. Len(events) - Len(Unread)}
      ended  == {e.conn : e \in {x \in read : EndsConn(x)}}
      closed == \E e \in read : e.kind = "ListenerClosed"
  IN  /\ turn = "event"
      /\ turn' = "restart"
      /\ IF closed THEN CloseAll /\ Removed(ended) ELSE DisconnectDtls(ended)
      /\ restart' = (restart \/ closed)
      /\ events' = Unread
      /\ UNCHANGED <<silent, counter>>

-----------------------------------------------------------------------------
\* handle_restart: nothing happens before is_closed, and a failed start is tried again
\* in the next frame.
Restarted ==
  /\ turn = "restart"
  /\ restart
  /\ Start
  /\ restart' = FALSE
  /\ turn' = "app"
  /\ UNCHANGED <<renet, events, silent, counter>>

NotRestarted ==
  /\ turn = "restart"
  /\ turn' = "app"
  /\ UNCHANGED <<vars, renet, events, silent, restart, counter>>

\* disconnect_all_dtls goes over the indices of conn_map, then close.
StopAll == CloseAll /\ Removed(DOMAIN conn_map)

CountedOn == counter + 1  \* mutant: the counter is not reset
Counted == (counter + 1) % Period

\* send_hellooon_system: nothing without a connected client; a broadcast, in which a
\* connection whose channel is full disconnects; every Period broadcasts the end of
\* the run.
SendHellooon ==
  /\ turn = "app"
  /\ turn' = "send"
  /\ \/ Clients = {} /\ UNCHANGED <<vars, renet, counter>>
     \/ /\ Clients # {}
        /\ counter' = Counted
        /\ \/ counter' = 0 /\ StopAll
           \/ counter' # 0 /\ MayFail(Clients) /\ UNCHANGED vars
  /\ UNCHANGED <<events, silent, restart>>

\* The broadcast of this frame is a packet for every client that is still connected.
SendBroadcast ==
  /\ \E m \in Msg : SendSystem(Clients, m)
  /\ UNCHANGED ownVars

-----------------------------------------------------------------------------
Systems ==
  \/ PluginSystems /\ UNCHANGED ownVars
  \/ Build \/ HandleNetEvent \/ Restarted \/ NotRestarted
  \/ SendHellooon \/ SendBroadcast

DirtyNext ==
  \/ Systems
  \/ Tasks /\ UNCHANGED ownVars
  \/ \E i \in Index : Vanish(i) /\ UNCHANGED ownVars

DirtySpec == DirtyInit /\ [][DirtyNext]_allVars

\* Frames go on, the tasks run, and a start that can succeed again and again does.
FairDirtySpec ==
  /\ DirtySpec
  /\ WF_allVars(Systems)
  /\ SF_allVars(Restarted)
  /\ TaskFairness

-----------------------------------------------------------------------------
(* Safety.                                                                 *)

\* A connection renet still serves although its DTLS connection is gone is about to be
\* removed: the error event that does it has been sent already.  So no broadcast is
\* wasted on it for longer than a frame, although renet is not told when a connection
\* leaves conn_map, nor when ListenerClosed disconnects all of them.
GhostsAreReported ==
  \A i \in Clients \ DOMAIN conn_map :
    \E k \in 1 .. Len(events) : events[k] = ConnError(i)

\* ConnError never hits a healthy connection: if it is not disconnected yet, one of its
\* loops has ended.  In particular a datagram is never taken for one of an unknown
\* client while its connection is good, and a late event never hits a new connection
\* under an old index.
ErrorsAreDeserved ==
  \A k \in 1 .. Len(events) :
    LET i == events[k].conn
    IN  events[k].kind = "ConnError" /\ i \in DOMAIN conn_map /\ conn_map[i].send_tx
          => recv_pc[i] \in {"none", "done"} \/ send_pc[i] \in {"none", "done"}

\* A run starts with no event of an earlier run unread, and with no client that renet
\* takes for connected: what the application does first, it does to the new run.
RunsStartClean ==
  [][~opened /\ opened' => events = << >> /\ Clients = {}]_allVars

\* What the comment in handle_net_event says, "just make sure close all again before
\* restart", of renet as well: after it no connection of the old run is left.
RestartClosesAll ==
  [][restart /\ ~restart' => \A i \in Index : renet[i] = "none"]_allVars

-----------------------------------------------------------------------------
(* Liveness.                                                               *)

\* A connection that is lost, in whatever way, leaves conn_map and gives its place
\* back.  When one of its loops has ended the other does not notice, but an error event
\* disconnects it; when its peer vanished without a word neither notices, but a receive
\* timeout does, also when it is reported to a server that is being closed.
LostIsEvicted ==
  \A i \in Index :
    (send_pc[i] = "done" \/ recv_pc[i] = "done" \/ i \in silent)
      ~> i \notin DOMAIN conn_map

\* However the acceptor came to end, by an error or by close, the server accepts
\* connections again, unless a connection is stranded (see DtlsServer).
Accepting == opened /\ acpt_pc \notin {"none", "closing", "done"}
AcceptsAgain == ~Accepting ~> (Accepting \/ \E i \in Index : Stranded(i))

=============================================================================
