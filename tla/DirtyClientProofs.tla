-------------------------- MODULE DirtyClientProofs --------------------------
(***************************************************************************)
(* The safety properties of DirtyClient, for every set of messages and     *)
(* every Period.                                                           *)
(***************************************************************************)
EXTENDS DirtyClient, DtlsClientProofs

ClosedReported == \E k \in 1 .. Len(events) : events[k] = "ConnClosed"

\* Where the events are read to the end before the frame goes on, none is left; only
\* send_system and the systems of the plugin add events.
ReadBeforeStart == turn \in {"build", "restart", "app"} => events = << >>

\* ConnClosed is reported of a run that is over, and read before the next one starts.
ClosedIsOver == ClosedReported => ~is_running

\* Restart is set together with the disconnect that leaves the client closed, and reset
\* by the start; so it may also outlive a frame whose start fails.
RestartIsClosed ==
  /\ turn = "build" => ~restart
  /\ restart => IsClosed

\* The inductive invariant: that of DtlsClient, the types, and what relates the
\* application's and renet's state to that of the transport.
AppInv ==
  /\ ClientInv
  /\ AppTypeOK
  /\ ReadBeforeStart
  /\ ClosedIsOver
  /\ RestartIsClosed
  /\ RenetInStep

USE PeriodAssumption

-----------------------------------------------------------------------------
(* The event queue.                                                        *)

LEMMA EventsRead ==
  ASSUME NEW q \in Seq(Events), q # << >>
  PROVE  /\ Head(q) \in Events
         /\ Tail(q) \in Seq(Events)
         /\ Head(q) = q[1] /\ 1 \in 1 .. Len(q)
         /\ \A k \in 1 .. Len(Tail(q)) : k + 1 \in 1 .. Len(q) /\ Tail(q)[k] = q[k + 1]
  OBVIOUS

LEMMA EventsJoined ==
  ASSUME NEW q \in Seq(Events), NEW r \in Seq(Events)
  PROVE  /\ q \o r \in Seq(Events)
         /\ \A k \in 1 .. Len(q \o r) :
              \/ k \in 1 .. Len(q) /\ (q \o r)[k] = q[k]
              \/ k - Len(q) \in 1 .. Len(r) /\ (q \o r)[k] = r[k - Len(q)]
  OBVIOUS

\* health_event_system sends ConnClosed when the run has just ended, and never else.
LEMMA HealthEventsSent ==
  ASSUME is_running \in BOOLEAN, is_running' \in BOOLEAN
  PROVE  /\ HealthEvents \in Seq(Events)
         /\ \A k \in 1 .. Len(HealthEvents) :
              HealthEvents[k] = "ConnClosed" => ~is_running'
<1> DEFINE S == {<< >>, <<"Error">>}
           T == {<< >>, <<"ConnClosed">>}
<1>1. \E a \in S, b \in S, c \in T :
        /\ HealthEvents = a \o b \o c
        /\ c = <<"ConnClosed">> => ~is_running'
  BY DEF HealthEvents
<1>2. PICK a \in S, b \in S, c \in T :
        /\ HealthEvents = a \o b \o c
        /\ c = <<"ConnClosed">> => ~is_running'
  BY <1>1
<1>3. a \in Seq(Events) /\ b \in Seq(Events) /\ c \in Seq(Events)
  <2>1. "Error" \in Events /\ "ConnClosed" \in Events
    BY DEF Events
  <2>2. << >> \in Seq(Events) /\ <<"Error">> \in Seq(Events) /\ <<"ConnClosed">> \in Seq(Events)
    BY <2>1
  <2> QED BY <2>2
<1>4. \A k \in 1 .. Len(a \o b) : (a \o b)[k] # "ConnClosed"
  OBVIOUS
<1>5. a \o b \in Seq(Events)
  BY <1>3, EventsJoined
<1>6. \A k \in 1 .. Len(c) : c[k] = "ConnClosed" => ~is_running'
  BY <1>2
<1> HIDE DEF S, T
<1> QED
  BY <1>2, <1>3, <1>4, <1>5, <1>6, EventsJoined

-----------------------------------------------------------------------------
(* The part of the transport: every step of the application's program is a *)
(* step of DtlsClient, but for recv_system, which takes all of recv_q.     *)

LEMMA TransportInit == AppInit => ClientInv
  BY InitClientInv DEF AppInit, RenetInit

\* A call that does nothing else leaves the invariant as it is.
LEMMA TransportUnchanged == ClientInv /\ UNCHANGED vars => ClientInv'
  BY StepClientInv

LEMMA TransportStep == ClientInv /\ [AppNext]_allVars => ClientInv'
<1> SUFFICES ASSUME ClientInv, [AppNext]_allVars PROVE ClientInv'
  OBVIOUS
<1>1. [Next]_vars => ClientInv'
  BY StepClientInv
<1>2. CASE RecvSystem
  <2>1. recv_q' = << >> /\ UNCHANGED <<mainVars, recvVars, sendVars, conn_open, timeout_q>>
    BY <1>2 DEF RecvSystem
  <2>2. recv_q' \in Seq(Msg)
    BY <2>1, EmptyQueue
  <2> QED
    BY <2>1, <2>2
       DEF ClientInv, TypeOK, LoopsAreOwned, CleanEndWasRequested, QuietInv,
           RecverAlive, SenderAlive, mainVars, recvVars, sendVars
<1>3. CASE SendSystem
  BY <1>1, <1>3 DEF SendSystem, Next, App
<1>4. CASE HealthEventSystem \/ TimeoutEventSystem
  BY <1>1, <1>4 DEF HealthEventSystem, TimeoutEventSystem, Next, Frame
<1>5. CASE Build \/ Restarted
  BY <1>1, <1>5 DEF Build, Restarted, StartDtls, Next, App
<1>6. CASE HandleNetEvent \/ SendHellooon
  BY <1>1, <1>6 DEF HandleNetEvent, SendHellooon, DisconnectDtls, Next, App
<1>7. CASE HandleNetEventDone \/ NotRestarted
  BY <1>1, <1>7 DEF HandleNetEventDone, NotRestarted
<1>8. CASE Tasks
  BY <1>1, <1>8 DEF Tasks, Next
<1>9. CASE UNCHANGED allVars
  BY <1>1, <1>9 DEF allVars, baseVars
<1> QED
  BY <1>2, <1>3, <1>4, <1>5, <1>6, <1>7, <1>8, <1>9 DEF AppNext, Systems, PluginSystems

-----------------------------------------------------------------------------
(* The parts of renet and of the application.                              *)

OwnInv == AppTypeOK /\ ReadBeforeStart /\ ClosedIsOver /\ RestartIsClosed /\ RenetInStep

LEMMA OwnInit == AppInit => OwnInv
<1> SUFFICES ASSUME AppInit PROVE OwnInv
  OBVIOUS
<1>1. events = << >> /\ events \in Seq(Events)
  BY DEF AppInit, RenetInit
<1>2. 0 \in 0 .. Period - 1
  OBVIOUS
<1>3. AppTypeOK
  BY <1>1, <1>2 DEF AppInit, RenetInit, Init, AppTypeOK, RenetTypeOK, Turns
<1>4. ReadBeforeStart /\ ClosedIsOver /\ RestartIsClosed /\ RenetInStep
  BY <1>1 DEF AppInit, RenetInit, Init, ReadBeforeStart, ClosedIsOver, ClosedReported,
              RestartIsClosed, RenetInStep
<1> QED BY <1>3, <1>4 DEF OwnInv

LEMMA PluginStep == AppInv /\ PluginSystems /\ UNCHANGED ownVars => OwnInv'
<1> SUFFICES ASSUME AppInv, PluginSystems, UNCHANGED ownVars PROVE OwnInv'
  OBVIOUS
<1>0. is_running \in BOOLEAN /\ events \in Seq(Events)
  BY DEF AppInv, ClientInv, TypeOK, AppTypeOK, RenetTypeOK
<1> USE DEF AppInv, OwnInv, AppTypeOK, RenetTypeOK, Turns, ReadBeforeStart, ClosedIsOver,
            RestartIsClosed, RenetInStep, IsClosed, ownVars, mainVars
<1>1. CASE RecvSystem
  BY <1>1 DEF RecvSystem, RenetMayFail, ClosedReported
<1>2. CASE SendSystem
  <2>1. CASE UNCHANGED <<vars, events>>
    BY <1>2, <2>1 DEF SendSystem, vars, ClosedReported
  <2>2. CASE \E m \in Msg : Send(m) /\ UNCHANGED events
    BY <1>2, <2>2 DEF SendSystem, Send, ClosedReported
  <2>3. CASE events' = Append(events, "Error") /\ UNCHANGED vars
    <3>1. events' \in Seq(Events)
      BY <1>0, <2>3 DEF Events
    <3>2. ClosedReported' => ClosedReported
      BY <1>0, <2>3 DEF ClosedReported
    <3> QED BY <1>2, <2>3, <3>1, <3>2 DEF SendSystem, vars
  <2> QED BY <1>2, <2>1, <2>2, <2>3 DEF SendSystem
<1>3. CASE HealthEventSystem
  <2>1. is_running' \in BOOLEAN /\ (is_running' => is_running)
    BY <1>0, <1>3 DEF HealthEventSystem, HealthCheck
  <2>2. events' = events \o HealthEvents
    BY <1>3 DEF HealthEventSystem
  <2>3. events' \in Seq(Events)
    BY <1>0, <2>1, <2>2, HealthEventsSent, EventsJoined
  <2>4. ClosedReported' => ~is_running'
    BY <1>0, <2>1, <2>2, HealthEventsSent, EventsJoined DEF ClosedReported
  <2>5. IsClosed => IsClosed'
    BY <1>3 DEF HealthEventSystem, HealthCheck
  <2> QED BY <1>3, <2>3, <2>4, <2>5 DEF HealthEventSystem, HealthCheck
<1>4. CASE TimeoutEventSystem
  <2> DEFINE ts == [k \in 1 .. Len(timeout_q) |-> "SendTimeout"]
  <2>1. timeout_q \in Seq(Msg)
    BY DEF ClientInv, TypeOK
  <2>2. ts \in Seq(Events) /\ \A k \in 1 .. Len(ts) : ts[k] # "ConnClosed"
    BY <2>1 DEF Events
  <2>3. events' = events \o ts
    BY <1>4 DEF TimeoutEventSystem
  <2> HIDE DEF ts
  <2>4. events' \in Seq(Events)
    BY <1>0, <2>2, <2>3, EventsJoined
  <2>5. ClosedReported' => ClosedReported
    BY <1>0, <2>2, <2>3, EventsJoined DEF ClosedReported
  <2> QED BY <1>4, <2>4, <2>5 DEF TimeoutEventSystem, TimeoutEvents
<1> QED BY <1>1, <1>2, <1>3, <1>4 DEF PluginSystems

LEMMA ApplicationStep ==
  AppInv /\ (\/ Build \/ HandleNetEvent \/ HandleNetEventDone
             \/ Restarted \/ NotRestarted \/ SendHellooon) => OwnInv'
<1> SUFFICES ASSUME AppInv,
                    \/ Build \/ HandleNetEvent \/ HandleNetEventDone
                    \/ Restarted \/ NotRestarted \/ SendHellooon
             PROVE  OwnInv'
  OBVIOUS
<1>0. events \in Seq(Events)
  BY DEF AppInv, AppTypeOK, RenetTypeOK
<1> USE DEF AppInv, OwnInv, AppTypeOK, RenetTypeOK, Turns, ReadBeforeStart, ClosedIsOver,
            RestartIsClosed, RenetInStep, ownVars
<1>1. CASE Build
  BY <1>1 DEF Build, StartDtls, Start, ClosedReported
<1>2. CASE Restarted
  <2>1. events = << >> /\ events' = << >>
    BY <1>2 DEF Restarted
  <2>2. ~ClosedReported'
    BY <2>1 DEF ClosedReported
  <2>3. /\ UNCHANGED <<phase, counter>> /\ restart' = FALSE /\ turn' = "app" /\ phase = "update"
        /\ renet' = "connected" /\ send_tx' /\ recv_rx'
    BY <1>2 DEF Restarted, StartDtls, Start
  <2> QED BY <1>0, <2>1, <2>2, <2>3
<1>3. CASE NotRestarted
  BY <1>3 DEF NotRestarted, vars, mainVars, IsClosed, ClosedReported
<1>4. CASE HandleNetEventDone
  BY <1>4 DEF HandleNetEventDone, AllRead, vars, mainVars, IsClosed, ClosedReported
<1>5. CASE HandleNetEvent
  <2>1. events # << >> /\ events' = Tail(events)
    BY <1>5 DEF HandleNetEvent, AllRead
  <2>2. events' \in Seq(Events) /\ (ClosedReported' => ClosedReported)
    BY <1>0, <2>1, EventsRead DEF ClosedReported
  <2>3. CASE EndsConn(Head(events))
    <3>1. Disconnect /\ renet' = "disconnected"
      BY <1>5, <2>3 DEF HandleNetEvent, DisconnectDtls
    <3>2. UNCHANGED <<phase, conn, is_running, send_handle, recv_handle>>
            /\ ~send_tx' /\ ~recv_rx'
      BY <3>1 DEF Disconnect, CloseSendLoop, CloseRecvLoop
    <3>3. ~is_running => IsClosed'
      BY <3>2 DEF IsClosed, ClientInv, LoopsAreOwned
    <3>4. Head(events) = "ConnClosed" => ClosedReported
      BY <1>0, <2>1, EventsRead DEF ClosedReported
    <3>5. restart' => IsClosed'
      BY <1>5, <3>3, <3>4 DEF HandleNetEvent, WantsRestart, IsClosed
    <3> QED BY <1>5, <2>2, <3>1, <3>2, <3>5 DEF HandleNetEvent
  <2>4. CASE ~EndsConn(Head(events))
    <3>1. UNCHANGED <<vars, renet, restart>>
      BY <1>5, <2>4 DEF HandleNetEvent, EndsConn, WantsRestart
    <3> QED BY <1>5, <2>2, <3>1 DEF HandleNetEvent, vars, mainVars, IsClosed
  <2> QED BY <2>3, <2>4
<1>6. CASE SendHellooon
  <2>1. counter' \in 0 .. Period - 1
    BY <1>6 DEF SendHellooon, Counted
  <2>2. CASE UNCHANGED vars /\ renet' \in {renet, "disconnected"}
    BY <1>6, <2>1, <2>2 DEF SendHellooon, vars, mainVars, IsClosed, ClosedReported
  <2>3. CASE DisconnectDtls
    BY <1>6, <2>1, <2>3
       DEF SendHellooon, DisconnectDtls, Disconnect, CloseSendLoop, CloseRecvLoop, IsClosed,
           ClosedReported
  <2> QED BY <1>6, <2>2, <2>3 DEF SendHellooon, RenetMayFail
<1> QED BY <1>1, <1>2, <1>3, <1>4, <1>5, <1>6

\* The tasks touch nothing the main loop owns.
LEMMA TaskStep == AppInv /\ Tasks /\ UNCHANGED ownVars => OwnInv'
<1> SUFFICES ASSUME AppInv, Tasks, UNCHANGED ownVars PROVE OwnInv'
  OBVIOUS
<1>1. UNCHANGED mainVars
  BY DEF Tasks, Recver, RecvClose, RecvPoll, RecvWake, RecvError, RecvFinish, RecvData,
         Sender, SendClose, SendTake, SendOk, SendError, SendTimeout, SendFinish
<1> QED
  BY <1>1 DEF Tasks, AppInv, OwnInv, AppTypeOK, RenetTypeOK, ReadBeforeStart, ClosedIsOver,
              ClosedReported, RestartIsClosed, RenetInStep, IsClosed, mainVars, renetVars,
              ownVars

LEMMA AppInvStep == AppInv /\ [AppNext]_allVars => AppInv'
<1> SUFFICES ASSUME AppInv, [AppNext]_allVars PROVE AppInv'
  OBVIOUS
<1>0. OwnInv
  BY DEF AppInv, OwnInv
<1>1. ClientInv'
  BY TransportStep DEF AppInv
<1>2. CASE AppNext
  <2>1. \/ PluginSystems /\ UNCHANGED ownVars
        \/ \/ Build \/ HandleNetEvent \/ HandleNetEventDone
           \/ Restarted \/ NotRestarted \/ SendHellooon
        \/ Tasks /\ UNCHANGED ownVars
    BY <1>2, Zenon DEF AppNext, Systems
  <2> QED BY <1>1, <2>1, PluginStep, ApplicationStep, TaskStep DEF AppInv, OwnInv
<1>3. CASE UNCHANGED allVars
  <2>1. UNCHANGED <<mainVars, renetVars, ownVars>>
    BY <1>3 DEF allVars, baseVars, vars
  <2>2. OwnInv'
    BY <1>0, <2>1
       DEF mainVars, renetVars, ownVars, OwnInv, AppTypeOK, RenetTypeOK, ReadBeforeStart,
           ClosedIsOver, ClosedReported, RestartIsClosed, RenetInStep, IsClosed
  <2> QED BY <1>1, <2>2 DEF AppInv, OwnInv
<1> QED
  BY <1>1, <1>2, <1>3 DEF AppInv, OwnInv

\* The invariant holds in every reachable state of the application.
THEOREM AppInductive == AppSpec => []AppInv
<1>1. AppInit => AppInv
  BY TransportInit, OwnInit DEF AppInv, OwnInv
<1> QED
  BY <1>1, AppInvStep, PTL DEF AppSpec

-----------------------------------------------------------------------------
\* The application's own state keeps its type, and its turn is in step with the frame of
\* DtlsClient.
THEOREM AppTypeCorrect == AppSpec => []AppTypeOK
<1>1. AppInv => AppTypeOK
  BY DEF AppInv
<1> QED
  BY <1>1, AppInductive, PTL

\* handle_restart never finds Restart set and the client not closed.
THEOREM RestartIsNeverRefused == AppSpec => []RestartNotRefused
<1>1. AppInv => RestartNotRefused
  BY DEF AppInv, RestartIsClosed, RestartNotRefused
<1> QED
  BY <1>1, AppInductive, PTL

\* While renet takes the transport for connected, it has not been disconnected.
THEOREM RenetIsInStep == AppSpec => []RenetInStep
<1>1. AppInv => RenetInStep
  BY DEF AppInv
<1> QED
  BY <1>1, AppInductive, PTL

\* What is_closed means holds of the transport also under recv_system and the
\* application's own order of calls: no task, signal, message or connection of an
\* earlier run is left when handle_restart may start the next.
THEOREM AppClosedIsQuiet == AppSpec => []ClosedMeansQuiet
<1>1. ClientInv => ClosedMeansQuiet
  BY ClosedFromInv
<1>2. AppInv => ClientInv
  BY DEF AppInv
<1> QED
  BY <1>1, <1>2, AppInductive, PTL

\* No run starts with an event of an earlier one unread.
THEOREM AppRunsStartClean == AppSpec => RunsStartClean
<1>1. AppInv /\ [AppNext]_allVars =>
        [~is_running /\ is_running' => events = << >> /\ events' = << >>]_allVars
  <2> SUFFICES ASSUME AppInv, AppNext, ~is_running, is_running'
               PROVE  events = << >> /\ events' = << >>
    BY DEF allVars
  <2>1. CASE Build \/ Restarted
    BY <2>1 DEF Build, Restarted, AppInv, ReadBeforeStart
  <2>2. CASE PluginSystems
    BY <2>2 DEF PluginSystems, RecvSystem, SendSystem, HealthEventSystem, TimeoutEventSystem,
                Send, HealthCheck, TimeoutEvents, vars, mainVars
  <2>3. CASE HandleNetEvent \/ HandleNetEventDone \/ NotRestarted \/ SendHellooon
    BY <2>3 DEF HandleNetEvent, HandleNetEventDone, NotRestarted, SendHellooon,
                DisconnectDtls, Disconnect, vars, mainVars
  <2>4. CASE Tasks
    <3>1. UNCHANGED mainVars
      BY <2>4
         DEF Tasks, Recver, RecvClose, RecvPoll, RecvWake, RecvError, RecvFinish, RecvData,
             Sender, SendClose, SendTake, SendOk, SendError, SendTimeout, SendFinish
    <3> QED BY <3>1 DEF mainVars
  <2> QED BY <2>1, <2>2, <2>3, <2>4 DEF AppNext, Systems
<1> QED
  BY <1>1, AppInductive, PTL DEF AppSpec, RunsStartClean

=============================================================================
