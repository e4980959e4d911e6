-------------------------- MODULE DemoServerProofs --------------------------
(***************************************************************************)
(* The safety properties of DemoServer, proved for every value of the      *)
(* constants.  The applications never disconnect and never close, which no *)
(* single state shows; DemoInv says what this leaves true of every state.  *)
(***************************************************************************)
EXTENDS DemoServer, RenetServerProofs

\* The server is opened once, by the first system, and stays open; before it there is
\* nothing.
OpenedOnce ==
  /\ turn = "build" => acpt_pc = "none" /\ DOMAIN conn_map = {}
  /\ turn # "build" => opened

\* No close signal has been sent: what is started can still be told to stop.
NeverSignalled ==
  \A i \in DOMAIN conn_map :
    conn_map[i].is_running => conn_map[i].close_recv_tx /\ conn_map[i].send_tx

\* What is started is added to renet in the same system, and renet forgets nobody.
RunningIsKnown ==
  over_renet => \A i \in DOMAIN conn_map : conn_map[i].is_running => renet[i] # "none"

RenetTyped == renet \in [Index -> RenetStatus]

DemoParts == RenetTyped /\ OpenedOnce /\ NeverSignalled /\ RunningIsKnown /\ SendersAreKnown

DemoInv == IInv /\ DemoParts

\* The steps of the frame, by what they do to DtlsServer.
LEMMA DemoCases ==
  [DemoNext]_allVars =>
    \/ Tasks /\ UNCHANGED over_renet
    \/ Build /\ UNCHANGED over_renet
    \/ /\ AcceptOne
       /\ (~over_renet /\ UNCHANGED renet) \/ (over_renet /\ AcptSystem)
       /\ UNCHANGED <<turn, over_renet>>
    \/ HealthReap /\ turn = "reap" /\ turn' = "timeout" /\ UNCHANGED <<renet, over_renet>>
    \/ /\ turn # "build" /\ turn' # "build"
       /\ UNCHANGED over_renet
       /\ RecvHellooon \/ SendHellooon \/ RecvSystem \/ \E m \in Msg : SendSystem(Clients, m)
    \/ /\ turn # "build" /\ turn' # "build"
       /\ UNCHANGED over_renet
       /\ UNCHANGED renet \/ MayFail(Clients)
       /\ AcceptDone \/ HealthSnapshot \/ TimeoutEvents \/ UNCHANGED vars
    \/ UNCHANGED <<vars, turn, renet, over_renet>>
<1>1. CASE Systems
  <2>1. CASE Build \/ HandleNetEvent
    BY <1>1, <2>1 DEF Systems, Build, HandleNetEvent
  <2>2. CASE HealthEventSystem
    BY <1>1, <2>2 DEF Systems, HealthEventSystem
  <2>3. CASE ReapSystem
    BY <1>1, <2>3 DEF Systems, ReapSystem
  <2>4. CASE TimeoutEventSystem
    BY <1>1, <2>4 DEF Systems, TimeoutEventSystem
  <2>5. CASE ~over_renet /\ AcceptSystem
    <3>1. /\ turn = "acpt" /\ UNCHANGED <<renet, over_renet>>
          /\ (AcceptOne /\ UNCHANGED turn) \/ (AcceptDone /\ turn' = "recv")
      BY <1>1, <2>5 DEF Systems, AcceptSystem
    <3>2. CASE AcceptOne /\ UNCHANGED turn
      BY <2>5, <3>1, <3>2
    <3>3. CASE AcceptDone /\ turn' = "recv"
      BY <3>1, <3>3
    <3> QED BY <3>1, <3>2, <3>3
  <2>6. CASE ~over_renet /\ (RecvHellooon \/ SendHellooon)
    BY <1>1, <2>6 DEF Systems, RecvHellooon, SendHellooon
  <2>7. CASE over_renet /\ AcptSystem
    BY <1>1, <2>7 DEF Systems, AcptSystem
  <2>8. CASE over_renet /\ AcptSystemDone
    BY <1>1, <2>8 DEF Systems, AcptSystemDone
  <2>9. CASE over_renet /\ RecvSystem
    BY <1>1, <2>9 DEF Systems, RecvSystem
  <2>10. CASE over_renet /\ SendHellooonOverRenet
    BY <1>1, <2>10 DEF Systems, SendHellooonOverRenet
  <2>11. CASE over_renet /\ \E m \in Msg : SendSystem(Clients, m)
    BY <1>1, <2>11 DEF Systems, SendSystem
  <2> QED BY <1>1, <2>1, <2>2, <2>3, <2>4, <2>5, <2>6, <2>7, <2>8, <2>9, <2>10, <2>11 DEF Systems
<1>2. CASE (Tasks \/ \E i \in Index : Vanish(i)) /\ UNCHANGED over_renet
  BY <1>2 DEF Vanish
<1>3. CASE UNCHANGED allVars
  BY <1>3 DEF allVars, baseVars, renetVars
<1> QED BY <1>1, <1>2, <1>3 DEF DemoNext

\* The invariant of DtlsServer holds in both programs.
LEMMA DemoKeepsServer == IInv /\ [DemoNext]_allVars => IInv'
<1> SUFFICES ASSUME IInv, [DemoNext]_allVars PROVE IInv'
  OBVIOUS
<1>1. send_q \in [Index -> Seq(Msg)] /\ recv_q \in Seq(Index \X Msg) /\ << >> \in Seq(Index \X Msg)
  BY EmptyQueues DEF IInv, TypeInv, TypeOK
<1>2. CASE Tasks
  BY <1>2, TasksAreSteps, KeptByStep
<1>3. CASE Build \/ AcceptOne \/ AcceptDone \/ HealthSnapshot \/ HealthReap \/ TimeoutEvents
  <2>1. Next
    BY <1>3 DEF Next, App, Frame, Build
  <2> QED BY <2>1, KeptByStep
<1>4. CASE UNCHANGED vars
  BY <1>4, KeptByStep
<1>5. CASE RecvHellooon \/ RecvSystem
  BY <1>1, <1>5, KeptByQueues, RecvSystemKeeps DEF RecvHellooon, sendVars
<1>6. CASE SendHellooon
  <2>1. send_q' \in [Index -> Seq(Msg)]
    <3>1. PICK m \in Msg :
            send_q' = [i \in Index |-> IF CanSend(i) /\ Len(send_q[i]) < QueueBound
                                       THEN Append(send_q[i], m) ELSE send_q[i]]
      BY <1>6 DEF SendHellooon
    <3> QED BY <1>1, <3>1
  <2> QED BY <1>1, <1>6, <2>1, KeptByQueues DEF SendHellooon, outVars
<1>7. ASSUME NEW m \in Msg, SendSystem(Clients, m) PROVE IInv'
  BY <1>7, SendSystemKeeps
<1> QED BY <1>2, <1>3, <1>4, <1>5, <1>6, <1>7, DemoCases

-----------------------------------------------------------------------------
LEMMA DemoInitInv == DemoInit => DemoInv
<1> SUFFICES ASSUME DemoInit PROVE DemoInv
  OBVIOUS
<1>1. Init
  BY DEF DemoInit, RenetInit
<1>2. IInv
  BY <1>1, InitInv
<1>3. /\ turn = "build" /\ renet = [i \in Index |-> "none"]
      /\ DOMAIN conn_map = {} /\ acpt_pc = "none" /\ Len(recv_q) = 0
  BY <1>1 DEF DemoInit, RenetInit, Init
<1>4. DemoParts
  BY <1>3 DEF DemoParts, RenetTyped, RenetStatus, OpenedOnce, NeverSignalled, RunningIsKnown,
              SendersAreKnown
<1> QED BY <1>2, <1>4 DEF DemoInv

LEMMA RenetGrows ==
  ASSUME RenetTyped, \/ UNCHANGED renet \/ \E C : MayFail(C) \/ \E i \in Index : AddConnection(i)
  PROVE  RenetTyped' /\ \A i \in Index : renet[i] # "none" => renet'[i] # "none"
<1>1. ASSUME NEW C, MayFail(C) PROVE RenetTyped' /\ \A i \in Index : renet[i] # "none" => renet'[i] # "none"
  <2>1. PICK bad : renet' = [i \in Index |-> IF i \in bad THEN "disconnected" ELSE renet[i]]
    BY <1>1 DEF MayFail
  <2> QED BY <2>1 DEF RenetTyped, RenetStatus
<1>2. ASSUME NEW i \in Index, AddConnection(i)
      PROVE  RenetTyped' /\ \A j \in Index : renet[j] # "none" => renet'[j] # "none"
  BY <1>2 DEF AddConnection, RenetTyped, RenetStatus
<1> QED BY <1>1, <1>2 DEF RenetTyped

LEMMA DemoStep == DemoInv /\ [DemoNext]_allVars => DemoInv'
<1> SUFFICES ASSUME DemoInv, [DemoNext]_allVars PROVE DemoInv'
  OBVIOUS
<1>1. IInv /\ IInv' /\ RenetTyped /\ OpenedOnce /\ NeverSignalled /\ RunningIsKnown /\ SendersAreKnown
  BY DemoKeepsServer DEF DemoInv, DemoParts
<1>2. recv_q \in Seq(Index \X Msg) /\ DOMAIN conn_map \subseteq Index
  BY <1>1 DEF IInv, TypeInv, TypeOK
\* A step that leaves the entries and recv_q alone.
<1>3. ASSUME RenetTyped', \A i \in Index : renet[i] # "none" => renet'[i] # "none",
             UNCHANGED <<conn_map, over_renet>>, OpenedOnce', recv_q' \in {recv_q, << >>}
      PROVE  DemoParts'
  <2>1. NeverSignalled' /\ RunningIsKnown'
    BY <1>1, <1>2, <1>3 DEF NeverSignalled, RunningIsKnown
  <2>2. SendersAreKnown'
    <3>1. \A k \in 1 .. Len(recv_q) : recv_q[k][1] \in Index
      BY <1>2
    <3>2. CASE recv_q' = recv_q
      BY <1>1, <1>3, <3>1, <3>2 DEF SendersAreKnown
    <3>3. CASE recv_q' = << >>
      BY <3>3 DEF SendersAreKnown
    <3> QED BY <1>3, <3>2, <3>3
  <2> QED BY <1>3, <2>1, <2>2 DEF DemoParts
<1>4. CASE Tasks /\ UNCHANGED over_renet
  <2>1. UNCHANGED <<turn, renet>> /\ UNCHANGED opened
    BY <1>1, <1>4, TasksKeepEntries DEF Tasks, renetVars
  <2>2. OpenedOnce'
    BY <1>1, <1>4, <2>1, TasksKeepEntries DEF OpenedOnce
  <2>3. NeverSignalled' /\ RunningIsKnown'
    BY <1>1, <1>4, <2>1, TasksKeepEntries DEF NeverSignalled, RunningIsKnown, NewConn
  <2>4. SendersAreKnown'
    <3>1. CASE recv_q' = recv_q
      BY <1>1, <1>4, <2>1, <3>1 DEF SendersAreKnown
    <3>2. ASSUME NEW i \in Index, NEW m \in Msg, recv_q' = Append(recv_q, <<i, m>>), recv_pc[i] = "poll"
          PROVE  SendersAreKnown'
      <4>1. over_renet => renet[i] # "none"
        BY <1>1, <3>2, LoopsRun DEF RunningIsKnown
      <4>2. \A k \in 1 .. Len(recv_q') :
              \/ k \in 1 .. Len(recv_q) /\ recv_q'[k] = recv_q[k]
              \/ recv_q'[k] = <<i, m>>
        BY <1>2, <3>2
      <4> QED BY <1>1, <1>4, <2>1, <4>1, <4>2 DEF SendersAreKnown
    <3> QED BY <1>1, <1>4, <3>1, <3>2, TasksReceive
  <2> QED BY <1>1, <2>1, <2>2, <2>3, <2>4 DEF DemoInv, DemoParts, RenetTyped
<1>5. CASE Build /\ UNCHANGED over_renet
  <2>1. OpenedOnce' /\ UNCHANGED <<conn_map, renet>> /\ recv_q' = << >>
    BY <1>5 DEF Build, Start, OpenedOnce
  <2> QED BY <1>1, <1>3, <1>5, <2>1 DEF DemoInv, RenetTyped
<1>6. CASE /\ AcceptOne
           /\ (~over_renet /\ UNCHANGED renet) \/ (over_renet /\ AcptSystem)
           /\ UNCHANGED <<turn, over_renet>>
  <2> DEFINE i == Head(acpt_q)
  <2>1. /\ i \in Index /\ DOMAIN conn_map' = DOMAIN conn_map
        /\ \A j \in DOMAIN conn_map : j # i => conn_map'[j] = conn_map[j]
        /\ CanStart(i) => i \in DOMAIN conn_map /\ conn_map'[i] = StartedConn
        /\ ~CanStart(i) => conn_map' = conn_map
        /\ UNCHANGED <<opened, acpt_pc, recv_q>>
    BY <1>1, <1>6, AcceptEntries
  <2>2. RenetTyped' /\ \A j \in Index : renet[j] # "none" => renet'[j] # "none"
    BY <1>1, <1>6, <2>1, RenetGrows DEF AcptSystem
  <2>3. over_renet /\ CanStart(i) => renet'[i] # "none"
    BY <1>1, <1>6, <2>1 DEF AcptSystem, AddConnection, RenetTyped
  <2> HIDE DEF i
  <2>4. OpenedOnce'
    BY <1>1, <1>6, <2>1 DEF OpenedOnce
  <2>5. NeverSignalled'
    BY <1>1, <2>1 DEF NeverSignalled, StartedConn
  <2>6. RunningIsKnown'
    BY <1>1, <1>2, <1>6, <2>1, <2>2, <2>3 DEF RunningIsKnown
  <2>7. SendersAreKnown'
    <3>1. \A k \in 1 .. Len(recv_q) : recv_q[k][1] \in Index
      BY <1>2
    <3> QED BY <1>1, <1>6, <2>1, <2>2, <3>1 DEF SendersAreKnown
  <2> QED BY <1>1, <2>2, <2>4, <2>5, <2>6, <2>7 DEF DemoInv, DemoParts
<1>7. CASE HealthReap /\ turn = "reap" /\ turn' = "timeout" /\ UNCHANGED <<renet, over_renet>>
  <2>1. UNCHANGED <<opened, recv_q>>
    BY <1>7 DEF HealthReap, outVars
  <2>2. OpenedOnce' /\ NeverSignalled' /\ RunningIsKnown'
    BY <1>1, <1>7, <2>1, ReapEntries DEF OpenedOnce, NeverSignalled, RunningIsKnown
  <2>3. SendersAreKnown'
    BY <1>1, <1>7, <2>1 DEF SendersAreKnown
  <2> QED BY <1>1, <1>7, <2>2, <2>3 DEF DemoInv, DemoParts, RenetTyped
<1>8. CASE /\ turn # "build" /\ turn' # "build"
           /\ UNCHANGED over_renet
           /\ RecvHellooon \/ SendHellooon \/ RecvSystem \/ \E m \in Msg : SendSystem(Clients, m)
  <2>1. /\ UNCHANGED <<conn_map, opened>> /\ recv_q' \in {recv_q, << >>}
        /\ UNCHANGED renet \/ \E C : MayFail(C)
    BY <1>8 DEF RecvHellooon, SendHellooon, RecvSystem, SendSystem, mainVars, outVars
  <2>2. OpenedOnce'
    BY <1>1, <1>8, <2>1 DEF OpenedOnce
  <2>3. RenetTyped' /\ \A i \in Index : renet[i] # "none" => renet'[i] # "none"
    BY <1>1, <2>1, RenetGrows
  <2> QED BY <1>1, <1>3, <1>8, <2>1, <2>2, <2>3 DEF DemoInv
<1>9. CASE /\ turn # "build" /\ turn' # "build"
           /\ UNCHANGED over_renet
           /\ UNCHANGED renet \/ MayFail(Clients)
           /\ AcceptDone \/ HealthSnapshot \/ TimeoutEvents \/ UNCHANGED vars
  <2>1. UNCHANGED <<conn_map, opened, recv_q>>
    BY <1>9 DEF AcceptDone, HealthSnapshot, TimeoutEvents, vars, mainVars, outVars
  <2>2. OpenedOnce'
    BY <1>1, <1>9, <2>1 DEF OpenedOnce
  <2>3. RenetTyped' /\ \A i \in Index : renet[i] # "none" => renet'[i] # "none"
    BY <1>1, <1>9, RenetGrows
  <2> QED BY <1>1, <1>3, <1>9, <2>1, <2>2, <2>3 DEF DemoInv
<1>10. CASE UNCHANGED <<vars, turn, renet, over_renet>>
  <2>1. OpenedOnce' /\ RenetTyped' /\ UNCHANGED <<conn_map, recv_q>>
    BY <1>1, <1>10 DEF OpenedOnce, RenetTyped, vars, mainVars, acptVars, outVars
  <2> QED BY <1>1, <1>3, <1>10, <2>1 DEF DemoInv
<1> QED BY <1>4, <1>5, <1>6, <1>7, <1>8, <1>9, <1>10, DemoCases

\* The server in the two programs keeps its invariant, is opened once and never signals
\* a loop, and renet's table has whoever runs or has sent something.
THEOREM DemoInductive == DemoSpec => []DemoInv
  BY DemoInitInv, DemoStep, PTL DEF DemoSpec

\* The systems of the two programs, with and without renet, break no promise of
\* DtlsServer.
THEOREM DemoServerIsSafe == DemoSpec => []ServerSafety
<1>1. DemoInv => ServerSafety
  BY InvIsSafe DEF DemoInv
<1> QED BY <1>1, DemoInductive, PTL

\* Over renet a datagram always finds its sender in renet's table, also when the
\* connection has been lost before the datagram is read.
THEOREM SendersAreAlwaysKnown == DemoSpec => []SendersAreKnown
<1>1. DemoInv => SendersAreKnown
  BY DEF DemoInv, DemoParts
<1> QED BY <1>1, DemoInductive, PTL

\* No loop, and not the acceptor, ends without an error that is reported: neither
\* program calls disconnect or close, and only these end a loop with Ok.
THEOREM EveryEndIsReported == DemoSpec => []EveryEndIsAnError
<1>1. DemoInv => EveryEndIsAnError
  <2> SUFFICES ASSUME DemoInv PROVE EveryEndIsAnError
    OBVIOUS
  <2>1. IInv /\ OpenedOnce /\ NeverSignalled /\ CleanEndWasRequested
    BY DEF DemoInv, DemoParts, IInv, QuietInv
  <2>2. acpt_pc \in {"closing", "done"} => acpt_err
    BY <2>1 DEF OpenedOnce, CleanEndWasRequested
  <2>3. ASSUME NEW i \in Index, recv_pc[i] \in {"closing", "done"} PROVE recv_err[i]
    BY <2>1, <2>3, LoopsRun DEF NeverSignalled, CleanEndWasRequested
  <2>4. ASSUME NEW i \in Index, send_pc[i] \in {"closing", "done"} PROVE send_err[i]
    BY <2>1, <2>4, LoopsRun DEF NeverSignalled, CleanEndWasRequested
  <2> QED BY <2>2, <2>3, <2>4 DEF EveryEndIsAnError
<1> QED BY <1>1, DemoInductive, PTL

-----------------------------------------------------------------------------
(* The places for connections.                                             *)

LEMMA DemoLifecycleStep ==
  DemoInv /\ AnnouncedOpen /\ [DemoNext]_allVars =>
    AnnouncedOpen' /\ [Lifecycle!Next]_(Lifecycle!vars)
<1> DEFINE Goal == AnnouncedOpen' /\ [Lifecycle!Next]_(Lifecycle!vars)
<1> SUFFICES ASSUME DemoInv, AnnouncedOpen, [DemoNext]_allVars PROVE Goal
  OBVIOUS
<1>1. [Next]_vars => Goal
  BY AnnouncedOpenStep, LifecycleStep DEF DemoInv
<1>2. CASE \/ Tasks \/ Build \/ AcceptOne \/ HealthReap
           \/ AcceptDone \/ HealthSnapshot \/ TimeoutEvents
  <2>1. Next
    BY <1>2, TasksAreSteps DEF Build, Next, App, Frame
  <2> QED BY <1>1, <2>1
<1>3. CASE UNCHANGED vars
  BY <1>1, <1>3
<1>4. CASE RecvHellooon \/ SendHellooon
  <2>1. UNCHANGED <<opened, acpt_handle, conn_map, send_pc, acpt_q>>
    BY <1>4 DEF RecvHellooon, SendHellooon, mainVars, acptVars, sendVars
  <2>2. AnnouncedOpen'
    BY <2>1 DEF AnnouncedOpen
  <2> QED BY <2>1, <2>2, QuietSteps
<1>5. CASE RecvSystem \/ \E m \in Msg : SendSystem(Clients, m)
  BY <1>5, AnnouncedOpenKept, DataSteps
<1> QED BY <1>2, <1>3, <1>4, <1>5, DemoCases

\* In both programs a place for a connection goes through the life ConnLifecycle gives
\* it: the systems of renet's plugin and the broadcasts do nothing to it that DtlsServer
\* does not.
THEOREM DemoLifecycleIsKept == DemoSpec => StepsOfLifecycle
<1>1. DemoInit => Lifecycle!Init /\ AnnouncedOpen
  BY LifecycleInit DEF DemoInit, RenetInit, Init, AnnouncedOpen
<1>2. DemoSpec => []AnnouncedOpen
  BY <1>1, DemoInductive, DemoLifecycleStep, PTL DEF DemoSpec
<1> QED
  BY <1>1, <1>2, DemoInductive, DemoLifecycleStep, PTL
     DEF DemoSpec, StepsOfLifecycle, Lifecycle!Spec

=============================================================================
