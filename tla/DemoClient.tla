----------------------------- MODULE DemoClient -----------------------------
(***************************************************************************)
(* The two applications that only send: bevy_dtls/src/bin/                 *)
(* unreliable_client.rs on DtlsClient, and bevy_renet_dtls/src/bin/        *)
(* reliable_client.rs over the renet integration.  Both start once, send   *)
(* in every frame, log the events and never disconnect.                    *)
(***************************************************************************)
EXTENDS RenetDtlsClient

VARIABLE over_renet   \* which of the two programs this is

allVars == <<baseVars, over_renet>>

DemoInit == RenetInit /\ over_renet \in BOOLEAN

-----------------------------------------------------------------------------
(* unreliable_client; it has no renet client and no renet systems.         *)

\* ClientPlugin::build; if start fails the application panics.
Build ==
  /\ turn = "build"
  /\ turn' = "recv"
  /\ Start
  /\ UNCHANGED <<renet, events>>

\* recv_hellooon_system: until nothing is left.
RecvHellooon ==
  /\ turn = "recv"
  /\ turn' = "event"
  /\ recv_q' = << >>
  /\ UNCHANGED <<mainVars, recvVars, sendVars, conn_open, timeout_q, renet, events>>

\* send_hellooon_system: an error of send is logged.  A channel that is full, which it
\* never is in the code, takes the message and drops it.
SendHellooon ==
  /\ turn = "app"
  /\ turn' = "health"
  /\ \/ \E m \in Msg : Send(m)
     \/ ~(send_tx /\ SenderAlive /\ Len(send_q) < QueueBound) /\ UNCHANGED vars
  /\ UNCHANGED <<renet, events>>

-----------------------------------------------------------------------------
(* reliable_client.                                                        *)

\* ClientPlugin::build; if start_dtls fails the application panics.
BuildOverRenet ==
  /\ turn = "build"
  /\ turn' = "recv"
  /\ StartDtls
  /\ UNCHANGED events

\* send_hellooon_system: a channel that is full disconnects renet.
SendHellooonOverRenet ==
  /\ turn = "app"
  /\ turn' = "send"
  /\ RenetMayFail
  /\ UNCHANGED <<vars, events>>

\* handle_net_event, in both programs; reliable_client's recv_hellooon_system takes
\* messages out of renet.
HandleNetEvent ==
  /\ turn = "event"
  /\ turn' = "app"
  /\ events' = << >>
  /\ UNCHANGED <<vars, renet>>

-----------------------------------------------------------------------------
Systems ==
  /\ \/ HandleNetEvent \/ HealthEventSystem \/ TimeoutEventSystem
     \/ ~over_renet /\ (Build \/ RecvHellooon \/ SendHellooon)
     \/ over_renet /\ (BuildOverRenet \/ RecvSystem \/ SendHellooonOverRenet \/ SendSystem)
  /\ UNCHANGED over_renet

DemoNext == Systems \/ (Tasks /\ UNCHANGED over_renet)

\* Frames go on, the tasks run, and the message of each frame, in the end, is a packet:
\* renet has always something to send again.
DemoSpec ==
  /\ DemoInit
  /\ [][DemoNext]_allVars
  /\ WF_allVars(Systems)
  /\ SF_allVars(over_renet /\ SendSystem /\ (send_q' # send_q \/ events' # events)
                  /\ UNCHANGED over_renet)
  /\ TaskFairness

-----------------------------------------------------------------------------
\* When one loop has ended the run ends, although the application ignores the error and
\* never disconnects: its messages make the send loop run into the closed connection.
\* Over renet they stop when renet has disconnected by itself; then nothing ends the
\* other loop.
MessagesEndLostRun ==
  (send_pc = "done" \/ recv_pc = "done")
    ~> (~is_running \/ (over_renet /\ renet = "disconnected"))

=============================================================================
