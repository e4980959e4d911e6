-------------------------- MODULE RenetDtlsClient --------------------------
(***************************************************************************)
(* DtlsClient as the transport of a RenetClient                            *)
(* (bevy_renet_dtls/src/client.rs, with the events of                      *)
(* bevy_dtls/src/client/event.rs).                                         *)
(*                                                                         *)
(* Every frame runs recv_system, the application's systems, send_system,   *)
(* health_event_system and timeout_event_system.  The events the last      *)
(* three send are read by the application in the next frame.  The          *)
(* application's systems are in the modules that extend this one; the two  *)
(* tasks of DtlsClient run at any time between and during these.           *)
(***************************************************************************)
EXTENDS DtlsClient

VARIABLES
  turn,    \* the system that runs next
  renet,   \* the status of RenetClient
  events   \* Events<DtlsClientEvent>, not yet read by the application

renetVars == <<turn, renet, events>>
baseVars  == <<vars, renetVars>>

Turns == {"build", "recv", "event", "restart", "app", "send", "health", "timeout"}
Events == {"SendTimeout", "Error", "ConnClosed"}

RenetTypeOK ==
  /\ turn \in Turns
  /\ turn = "timeout" <=> phase = "timeout"
  /\ renet \in {"connected", "disconnected"}
  /\ events \in Seq(Events)

RenetInit ==
  /\ Init
  /\ turn = "build"
  /\ renet = "disconnected"
  /\ events = << >>

-----------------------------------------------------------------------------
(* RenetClientDtlsExt.                                                     *)

\* start_dtls, when DtlsClient::start succeeds.
StartDtls ==
  /\ Start
  /\ renet' = "connected"

DisconnectDtlsOnly ==  \* mutant: the renet client is not told
  /\ Disconnect
  /\ UNCHANGED renet

\* disconnect_dtls: the renet client first, then the transport.
DisconnectDtls ==
  /\ Disconnect
  /\ renet' = "disconnected"

\* renet disconnects by itself when a channel or a packet is in error.
RenetMayFail == renet' \in {renet, "disconnected"}

-----------------------------------------------------------------------------
(* The systems of RenetDtlsClientPlugin.                                   *)

\* recv_system: everything received is handed to renet.
RecvSystem ==
  /\ turn = "recv"
  /\ turn' = "event"
  /\ recv_q' = << >>
  /\ IF recv_q = << >> THEN UNCHANGED renet ELSE RenetMayFail
  /\ UNCHANGED <<mainVars, recvVars, sendVars, conn_open, timeout_q>>
  /\ UNCHANGED events

\* send_system: a disconnected renet client has no packets; a connected one may
\* have some, here at most one in a frame.  When the send loop refuses it, because
\* it has ended, an error event is sent and the rest of the packets is dropped.
SendSystem ==
  /\ turn = "send"
  /\ turn' = "health"
  /\ \/ UNCHANGED <<vars, events>>
     \/ /\ ~IsClosed
        /\ renet = "connected"
        /\ \/ \E m \in Msg : Send(m) /\ UNCHANGED events
           \/ /\ ~(send_tx /\ SenderAlive)
              /\ events' = Append(events, "Error")
              /\ UNCHANGED vars
  /\ UNCHANGED renet

\* health_event_system: the errors of the loops, then ConnClosed.
HealthEvents ==
  LET When(cond, e) == IF cond THEN <<e>> ELSE << >>
  IN  When(SenderEnded /\ send_err, "Error")
        \o When(RecverEnded /\ recv_err, "Error")
        \o When(is_running /\ ~is_running', "ConnClosed")

HealthEventSystem ==
  /\ turn = "health"
  /\ turn' = "timeout"
  /\ HealthCheck
  /\ events' = events \o HealthEvents
  /\ UNCHANGED renet

\* timeout_event_system: an event for every message handed back.
TimeoutEventSystem ==
  /\ turn = "timeout"
  /\ turn' = "recv"
  /\ TimeoutEvents
  /\ events' = events \o [k \in 1 .. Len(timeout_q) |-> "SendTimeout"]
  /\ UNCHANGED renet

PluginSystems == RecvSystem \/ SendSystem \/ HealthEventSystem \/ TimeoutEventSystem

-----------------------------------------------------------------------------
Tasks == (Recver \/ Sender) /\ UNCHANGED renetVars

\* The fairness of DtlsClient.
TaskFairness ==
  /\ WF_baseVars(Sender /\ UNCHANGED renetVars)
  /\ WF_baseVars(RecverRuns /\ UNCHANGED renetVars)
  /\ SF_baseVars(~conn_open /\ RecvError /\ UNCHANGED renetVars)

=============================================================================
