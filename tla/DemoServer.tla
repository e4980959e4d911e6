----------------------------- MODULE DemoServer -----------------------------
(***************************************************************************)
(* The two applications that only broadcast: bevy_dtls/src/bin/            *)
(* unreliable_server.rs on DtlsServer, and bevy_renet_dtls/src/bin/        *)
(* reliable_server.rs over the renet integration.  Both start once,        *)
(* broadcast in every frame and log the events.  They never disconnect     *)
(* anybody and never close, so renet's table only grows.                   *)
(***************************************************************************)
EXTENDS RenetDtlsServer

VARIABLE over_renet   \* which of the two programs this is

allVars == <<baseVars, over_renet>>

DemoInit == RenetInit /\ over_renet \in BOOLEAN

\* SereverPlugin::build and ServerPlugin::build; if start fails the application panics.
Build ==
  /\ turn = "build"
  /\ turn' = "recv"
  /\ Start
  /\ UNCHANGED <<renet, events, silent>>

-----------------------------------------------------------------------------
(* unreliable_server; it has no renet server and no renet systems.         *)

\* accept_system, one turn of its loop, and its end.
AcceptSystem ==
  /\ turn = "acpt"
  /\ \/ AcceptOne /\ UNCHANGED turn
     \/ AcceptDone /\ turn' = "recv"
  /\ SendEvents(When(acpt_q # << >> /\ ~CanStart(Head(acpt_q)), [kind |-> "Error"]))
  /\ UNCHANGED <<renet, silent>>

\* recv_hellooon_system: until nothing is left.
RecvHellooon ==
  /\ turn = "recv"
  /\ turn' = "event"
  /\ recv_q' = << >>
  /\ UNCHANGED <<mainVars, conn_map, acptVars, recvVars, sendVars, conn_open, timeout_q>>
  /\ UNCHANGED <<renet, events, silent>>

\* send_hellooon_system: a broadcast, unless conn_map is empty.
SendHellooon ==
  /\ turn = "app"
  /\ turn' = "health"
  /\ \E m \in Msg :
       send_q' = [i \in Index |-> IF CanSend(i) /\ Len(send_q[i]) < QueueBound
                                  THEN Append(send_q[i], m) ELSE send_q[i]]
  /\ UNCHANGED <<mainVars, conn_map, acptVars, recvVars>>
  /\ UNCHANGED <<send_pc, send_err, send_close, flight, conn_open, outVars>>
  /\ UNCHANGED <<renet, events, silent>>

-----------------------------------------------------------------------------
(* reliable_server.                                                        *)

\* send_hellooon_system: a broadcast, if a client is connected, in which a connection
\* whose channel is full disconnects.
SendHellooonOverRenet ==
  /\ turn = "app"
  /\ turn' = "send"
  /\ MayFail(Clients)
  /\ UNCHANGED <<vars, events, silent>>

\* handle_net_event, in both programs; reliable_server's recv_hellooon_system takes
\* messages out of renet.
HandleNetEvent ==
  /\ turn = "event"
  /\ turn' = "app"
  /\ events' = << >>
  /\ UNCHANGED <<vars, renet, silent>>

-----------------------------------------------------------------------------
Systems ==
  /\ \/ Build \/ HandleNetEvent
     \/ HealthEventSystem \/ ReapSystem \/ TimeoutEventSystem
     \/ ~over_renet /\ (AcceptSystem \/ RecvHellooon \/ SendHellooon)
     \/ over_renet /\ (\/ AcptSystem \/ AcptSystemDone \/ RecvSystem
                       \/ SendHellooonOverRenet
                       \/ \E m \in Msg : SendSystem(Clients, m))
  /\ UNCHANGED over_renet

DemoNext ==
  \/ Systems
  \/ (Tasks \/ \E i \in Index : Vanish(i)) /\ UNCHANGED over_renet

DemoSpec == DemoInit /\ [][DemoNext]_allVars /\ WF_allVars(Systems) /\ TaskFairness

-----------------------------------------------------------------------------
\* Nothing that is received is refused: renet knows every connection that ever was
\* started, also when it is over and a datagram of it is still in recv_rx.
SendersAreKnown ==
  over_renet => \A k \in 1 .. Len(recv_q) : renet[recv_q[k][1]] # "none"

\* Nobody asked a loop to end, so every end is an error, the acceptor's as well: the log
\* tells of each connection that is lost.
EveryEndIsAnError ==
  /\ acpt_pc \in {"closing", "done"} => acpt_err
  /\ \A i \in Index :
       /\ recv_pc[i] \in {"closing", "done"} => recv_err[i]
       /\ send_pc[i] \in {"closing", "done"} => send_err[i]

\* A connection of which one loop has ended leaves the map although the application
\* never disconnects it: the broadcasts make the send loop run into the closed
\* connection, and its end makes the receive loop fail.  Over renet the packets stop when
\* renet has disconnected the client by itself; then nothing ends the other loop.
BroadcastEvictsLost ==
  \A i \in Index :
    (send_pc[i] = "done" \/ recv_pc[i] = "done")
      ~> \/ i \notin DOMAIN conn_map
         \/ over_renet /\ renet[i] = "disconnected"

=============================================================================
