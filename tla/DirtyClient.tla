---------------------------- MODULE DirtyClient ----------------------------
(***************************************************************************)
(* The application bevy_renet_dtls/src/bin/dirty_client.rs over the renet  *)
(* integration: it disconnects after Period messages and starts again when *)
(* the connection is over.  Its systems run in Update in the order         *)
(* handle_net_event, handle_restart, send_hellooon_system.                 *)
(***************************************************************************)
EXTENDS RenetDtlsClient

CONSTANT Period   \* messages sent before dirty_client disconnects, 10 in the code

ASSUME PeriodAssumption == Period \in Nat \ {0}

VARIABLES
  restart,   \* the resource Restart
  counter    \* the resource ClientHellooonCounter

ownVars == <<restart, counter>>
allVars == <<baseVars, ownVars>>

AppTypeOK ==
  /\ RenetTypeOK
  /\ restart \in BOOLEAN
  /\ counter \in 0 .. Period - 1

AppInit ==
  /\ RenetInit
  /\ restart = FALSE
  /\ counter = 0

-----------------------------------------------------------------------------
\* ClientPlugin::build; if the first start fails the application panics.
Build ==
  /\ turn = "build"
  /\ turn' = "recv"
  /\ StartDtls
  /\ UNCHANGED <<events, restart, counter>>

\* An error ends the connection, and ConnClosed, which can come before disconnect,
\* makes sure that it is ended before the restart.
EndsConnOnClosed(e) == e = "ConnClosed"  \* mutant: errors are only logged
EndsConn(e) == e \in {"Error", "ConnClosed"}

WantsRestartIfConnected(e) == e = "ConnClosed" /\ renet = "connected"  \* mutant
WantsRestartOnError(e) == e \in {"Error", "ConnClosed"}  \* mutant: too early
WantsRestart(e) == e = "ConnClosed"

AllReadOnceClosed == events = << >> \/ restart  \* mutant: stops at ConnClosed
AllRead == events = << >>

\* handle_net_event, one turn of its loop ...
HandleNetEvent ==
  /\ turn = "event"
  /\ ~AllRead
  /\ LET e == Head(events)
     IN  /\ IF EndsConn(e) THEN DisconnectDtls ELSE UNCHANGED <<vars, renet>>
         /\ restart' = (restart \/ WantsRestart(e))
  /\ events' = Tail(events)
  /\ UNCHANGED <<turn, counter>>

\* ... and its end.
HandleNetEventDone ==
  /\ turn = "event"
  /\ AllRead
  /\ turn' = "restart"
  /\ UNCHANGED <<vars, renet, events, restart, counter>>

\* handle_restart: a failed start leaves the old renet client and tries again in
\* the next frame.
Restarted ==
  /\ turn = "restart"
  /\ restart
  /\ StartDtls
  /\ restart' = FALSE
  /\ turn' = "app"
  /\ UNCHANGED <<events, counter>>

NotRestarted ==
  /\ turn = "restart"
  /\ turn' = "app"
  /\ UNCHANGED <<vars, renet, events, restart, counter>>

CountedOn == counter + 1  \* mutant: the counter is not reset
Counted == (counter + 1) % Period

\* send_hellooon_system: one message, and every Period messages a disconnect.
SendHellooon ==
  /\ turn = "app"
  /\ turn' = "send"
  /\ IF renet = "disconnected"
     THEN UNCHANGED <<vars, renet, counter>>
     ELSE /\ counter' = Counted
          /\ \/ counter' = 0 /\ DisconnectDtls
             \/ counter' # 0 /\ RenetMayFail /\ UNCHANGED vars
  /\ UNCHANGED <<events, restart>>

-----------------------------------------------------------------------------
Systems ==
  \/ PluginSystems /\ UNCHANGED ownVars
  \/ Build \/ HandleNetEvent \/ HandleNetEventDone
  \/ Restarted \/ NotRestarted \/ SendHellooon

AppNext == Systems \/ (Tasks /\ UNCHANGED ownVars)

AppSpec == AppInit /\ [][AppNext]_allVars

\* Frames go on, the tasks run, and a server that can be reached again and again is
\* reached in the end.
FairAppSpec ==
  /\ AppSpec
  /\ WF_allVars(Systems)
  /\ SF_allVars(Restarted)
  /\ TaskFairness

-----------------------------------------------------------------------------
(* Safety.                                                                 *)

\* When handle_restart finds Restart set, the client is closed: both loops have been
\* joined and the disconnect of handle_net_event has done the rest, so that the early
\* return of handle_restart on a client that is not closed is never taken.
RestartNotRefused == turn = "restart" /\ restart => IsClosed

\* renet never takes the transport for connected after it has been disconnected, so
\* that send_system reports no error an application has caused itself.
RenetInStep == renet = "connected" => send_tx /\ recv_rx

\* A run starts with no event of an earlier run unread: an old Error would
\* disconnect the new connection at once, an old ConnClosed restart it.
RunsStartClean ==
  [][~is_running /\ is_running' => events = << >> /\ events' = << >>]_allVars

-----------------------------------------------------------------------------
(* Liveness, under FairAppSpec.                                            *)

\* When either loop has ended, the run ends: the error event makes the application
\* disconnect the other loop, also when it never sends again.
LoopEndEndsRun == (send_pc = "done" \/ recv_pc = "done") ~> ~is_running

\* After a disconnect, whoever asked for it, the client is connected again.
DisconnectRestarts == ~send_tx ~> send_tx

=============================================================================
