------------------------- MODULE DirtyServerProofs -------------------------
(***************************************************************************)
(* The safety properties of DirtyServer, proved for every value of the     *)
(* constants.  They relate three tables that no lock and no transaction    *)
(* keeps together: conn_map, renet's connections, and the events that are  *)
(* still to be read.  DirtyInv says how they stand to each other at each   *)
(* turn of the frame.                                                      *)
(***************************************************************************)
EXTENDS DirtyServer, RenetServerProofs

\* A connection that can be sent to is in renet's table: whatever takes it out of the
\* table disconnects it too.
ServedIsKnown == \A i \in DOMAIN conn_map : conn_map[i].send_tx => renet[i] # "none"

\* disconnect signals both loops or none.
SignalledTogether ==
  \A i \in DOMAIN conn_map : conn_map[i].send_tx = conn_map[i].close_recv_tx

\* handle_net_event reads all events, and until the packets are sent none is added.
EventsRead == turn \in {"build", "restart", "app", "send"} => events = << >>

\* From one handle_net_event to the next sending of packets renet serves nobody who is
\* not in conn_map; afterwards whoever it serves can be sent to, or an error is reported.
ServedOrReported ==
  /\ turn \in {"restart", "app", "send"} => Clients \subseteq DOMAIN conn_map
  /\ turn \notin {"restart", "app", "send"} =>
       \A i \in Clients : i \in Errors \/ (i \in DOMAIN conn_map /\ conn_map[i].send_tx)

\* Clients, datagrams and errors are of connections that have been started: what is
\* left of an earlier run never meets a connection of this one under the same index.
OldIsPast ==
  /\ \A k \in 1 .. Len(recv_q) : ~Fresh(recv_q[k][1])
  /\ \A i \in Errors \cup Clients : ~Fresh(i)

\* ErrorsAreDeserved, of the indices in Errors.
Deserved ==
  \A i \in Errors :
    i \in DOMAIN conn_map /\ conn_map[i].send_tx
      => recv_pc[i] \in {"none", "done"} \/ send_pc[i] \in {"none", "done"}

TableInv == ServedIsKnown /\ SignalledTogether
ReportInv == EventsRead /\ ServedOrReported
DirtyInv == IInv /\ DirtyTypeOK /\ TableInv /\ ReportInv /\ OldIsPast /\ Deserved

LEMMA DeservedDef ==
  ASSUME events \in Seq(DtlsServerEvent)
  PROVE  ErrorsAreDeserved <=> Deserved
<1>1. \A k \in 1 .. Len(events) : events[k] \in DtlsServerEvent
  OBVIOUS
<1>2. ASSUME ErrorsAreDeserved PROVE Deserved
  BY <1>2, EventTypes DEF ErrorsAreDeserved, Deserved, Errors
<1>3. ASSUME Deserved PROVE ErrorsAreDeserved
  <2> SUFFICES ASSUME NEW k \in 1 .. Len(events), events[k].kind = "ConnError"
               PROVE  events[k].conn \in Errors
    BY <1>3 DEF Deserved, ErrorsAreDeserved
  <2> QED BY <1>1, EventTypes DEF Errors
<1> QED BY <1>2, <1>3

-----------------------------------------------------------------------------
(* The steps, and what they do to the tables.                              *)

LEMMA DirtyCases ==
  [DirtyNext]_allVars =>
    \/ Tasks /\ UNCHANGED ownVars
    \/ \E i \in Index : Vanish(i) /\ UNCHANGED ownVars
    \/ Build \/ Restarted \/ NotRestarted \/ HandleNetEvent \/ SendHellooon
    \/ \E m \in Msg : SendSystem(Clients, m) /\ UNCHANGED ownVars
    \/ AcptSystem /\ UNCHANGED ownVars
    \/ AcptSystemDone /\ UNCHANGED ownVars
    \/ RecvSystem /\ UNCHANGED ownVars
    \/ SendSystemClosed /\ UNCHANGED ownVars
    \/ HealthEventSystem /\ UNCHANGED ownVars
    \/ ReapSystem /\ UNCHANGED ownVars
    \/ TimeoutEventSystem /\ UNCHANGED ownVars
    \/ UNCHANGED allVars
  BY Zenon DEF DirtyNext, Systems, PluginSystems, SendBroadcast

LEMMA ClientsFail ==
  ASSUME renet \in [Index -> RenetStatus], UNCHANGED renet \/ \E C : MayFail(C)
  PROVE  /\ renet' \in [Index -> RenetStatus] /\ Clients' \subseteq Clients
         /\ \A i \in Index : renet'[i] = "none" <=> renet[i] = "none"
<1>1. CASE UNCHANGED renet
  BY <1>1 DEF Clients
<1>2. ASSUME NEW C, MayFail(C)
      PROVE  /\ renet' \in [Index -> RenetStatus] /\ Clients' \subseteq Clients
             /\ \A i \in Index : renet'[i] = "none" <=> renet[i] = "none"
  <2>1. PICK bad \in SUBSET {i \in C : renet[i] = "connected"} :
          renet' = [i \in Index |-> IF i \in bad THEN "disconnected" ELSE renet[i]]
    BY <1>2 DEF MayFail
  <2> QED BY <2>1 DEF Clients, RenetStatus
<1> QED BY <1>1, <1>2

LEMMA ClientsRemoved ==
  ASSUME renet \in [Index -> RenetStatus], NEW C, Removed(C)
  PROVE  /\ renet' \in [Index -> RenetStatus] /\ Clients' = Clients \ C
         /\ \A i \in Index : renet'[i] = "none" <=> renet[i] = "none" \/ i \in C
<1>1. renet' = [i \in Index |-> IF i \in C THEN "none" ELSE renet[i]]
  BY DEF Removed
<1> QED BY <1>1 DEF Clients, RenetStatus

LEMMA ClientAdded ==
  ASSUME renet \in [Index -> RenetStatus], NEW i \in Index, AddConnection(i)
  PROVE  /\ renet' \in [Index -> RenetStatus] /\ Clients' \subseteq Clients \cup {i}
         /\ \A j \in Index : renet'[j] = "none" <=> renet[j] = "none" /\ j # i
  BY DEF AddConnection, Clients, RenetStatus

\* handle_net_event disconnects everybody it takes out of renet, and takes out everybody
\* an error is reported of.
LEMMA NetEventStep ==
  ASSUME IInv, DirtyTypeOK, HandleNetEvent
  PROVE  \E ended : \E C \in SUBSET DOMAIN conn_map :
           /\ Signals(C)
           /\ UNCHANGED opened \/ C = DOMAIN conn_map
           /\ Removed(ended)
           /\ ended \cap DOMAIN conn_map \subseteq C
           /\ Errors \subseteq ended
<1> DEFINE read   == {events[k] : k \in 1 .. Len(events) - Len(Unread)}
           ended  == {e.conn : e \in {x \in read : EndsConn(x)}}
           closed == \E e \in read : e.kind = "ListenerClosed"
<1>1. IF closed THEN CloseAll /\ Removed(ended) ELSE DisconnectDtls(ended)
  BY DEF HandleNetEvent
<1>2. Errors \subseteq ended
  <2> SUFFICES ASSUME NEW i \in Errors PROVE i \in ended
    OBVIOUS
  <2>1. PICK k \in 1 .. Len(events) : events[k] = ConnError(i)
    BY DEF Errors
  <2>2. Len(Unread) = 0 /\ Len(events) \in Nat
    BY DEF Unread, DirtyTypeOK, RenetTypeOK
  <2>3. events[k] \in read
    BY <2>2
  <2>4. EndsConn(events[k]) /\ events[k].conn = i
    BY <2>1, EventTypes DEF EndsConn
  <2> QED BY <2>3, <2>4
<1> HIDE DEF read, ended, closed
<1>3. CASE closed
  <2>1. Signals(DOMAIN conn_map)
    BY <1>1, <1>3 DEF CloseAll, Signals
  <2> QED BY <1>1, <1>2, <1>3, <2>1
<1>4. CASE ~closed
  <2>1. DisconnectEach(ended \cap DOMAIN conn_map) /\ Removed(ended)
    BY <1>1, <1>4 DEF DisconnectDtls
  <2>2. Signals(ended \cap DOMAIN conn_map) /\ UNCHANGED opened
    BY <2>1 DEF DisconnectEach, Signals, mainVars, acptVars
  <2> QED BY <1>2, <2>1, <2>2
<1> QED BY <1>3, <1>4

\* A frame of the application stops everybody, or marks some clients, or does nothing.
LEMMA HellooonStep ==
  ASSUME SendHellooon
  PROVE  \/ Signals(DOMAIN conn_map) /\ Removed(DOMAIN conn_map)
         \/ UNCHANGED vars /\ (UNCHANGED renet \/ MayFail(Clients))
<1>1. CASE UNCHANGED <<vars, renet>>
  BY <1>1
<1>2. CASE StopAll
  BY <1>2 DEF StopAll, CloseAll, Signals
<1>3. CASE MayFail(Clients) /\ UNCHANGED vars
  BY <1>3
<1> QED BY <1>1, <1>2, <1>3 DEF SendHellooon

-----------------------------------------------------------------------------
(* The server and the types.                                               *)

LEMMA DirtyKeepsServer == IInv /\ DirtyTypeOK /\ [DirtyNext]_allVars => IInv'
<1> SUFFICES ASSUME IInv, DirtyTypeOK, [DirtyNext]_allVars PROVE IInv'
  OBVIOUS
<1>1. CASE Tasks
  BY <1>1, TasksAreSteps, KeptByStep
<1>2. CASE Start \/ AcceptOne \/ AcceptDone \/ HealthSnapshot \/ HealthReap \/ TimeoutEvents
  <2>1. Next
    BY <1>2 DEF Next, App, Frame
  <2> QED BY <2>1, KeptByStep
<1>3. CASE UNCHANGED vars
  BY <1>3, KeptByStep
<1>4. CASE HandleNetEvent
  BY <1>4, NetEventStep, KeptBySignals
<1>5. CASE SendHellooon
  BY <1>3, <1>5, HellooonStep, KeptBySignals
<1> QED
  BY <1>1, <1>2, <1>3, <1>4, <1>5, RecvSystemKeeps, SendSystemKeeps, DirtyCases
     DEF Build, Restarted, NotRestarted, Vanish, AcptSystem, AcptSystemDone, SendSystemClosed,
         HealthEventSystem, ReapSystem, TimeoutEventSystem, allVars, baseVars

LEMMA DirtyTypeStep == IInv /\ DirtyTypeOK /\ [DirtyNext]_allVars => DirtyTypeOK'
<1> SUFFICES ASSUME IInv, DirtyTypeOK, [DirtyNext]_allVars PROVE DirtyTypeOK'
  OBVIOUS
<1> DEFINE Phases == /\ turn' \in Turns
                     /\ turn' = "acpt" <=> phase' = "accept"
                     /\ turn' = "reap" <=> phase' = "health"
                     /\ turn' = "timeout" <=> phase' = "timeout"
           Rest   == restart' \in BOOLEAN /\ counter' \in 0 .. Period - 1
           Quiet  == silent' \in SUBSET {i \in DOMAIN conn_map' : conn_map'[i].is_running}
<1>1. /\ renet \in [Index -> RenetStatus] /\ events \in Seq(DtlsServerEvent)
      /\ turn \in Turns
      /\ turn = "acpt" <=> phase = "accept"
      /\ turn = "reap" <=> phase = "health"
      /\ turn = "timeout" <=> phase = "timeout"
      /\ silent \subseteq DOMAIN conn_map
      /\ \A i \in silent : conn_map[i].is_running
      /\ restart \in BOOLEAN /\ counter \in 0 .. Period - 1
      /\ TypeOK /\ DOMAIN conn_map \subseteq Index /\ << >> \in Seq(DtlsServerEvent)
  BY EmptySeq DEF DirtyTypeOK, RenetTypeOK, IInv, TypeInv, TypeOK
<1>2. ASSUME Phases, Rest, Quiet, renet' \in [Index -> RenetStatus], events' \in Seq(DtlsServerEvent)
      PROVE  DirtyTypeOK'
  BY <1>2 DEF DirtyTypeOK, RenetTypeOK
<1>3. UNCHANGED ownVars => Rest
  BY <1>1 DEF ownVars
<1>4. UNCHANGED <<silent, conn_map>> => Quiet
  BY <1>1
<1> USE DEF Turns
<1>5. CASE Tasks /\ UNCHANGED ownVars
  <2>1. UNCHANGED <<turn, renet, events, silent>> /\ UNCHANGED phase
    BY <1>5, TasksKeepEntries DEF Tasks, renetVars
  <2>2. Quiet
    BY <1>1, <1>5, <2>1, TasksKeepEntries
  <2> QED BY <1>1, <1>2, <1>3, <1>5, <2>1, <2>2
<1>6. ASSUME NEW i \in Index, Vanish(i) /\ UNCHANGED ownVars PROVE DirtyTypeOK'
  BY <1>1, <1>2, <1>3, <1>6 DEF Vanish, vars, mainVars
<1>7. CASE Build \/ Restarted \/ NotRestarted
  BY <1>1, <1>2, <1>4, <1>7 DEF Build, Restarted, NotRestarted, Start, vars, mainVars
<1>8. CASE HandleNetEvent
  <2>1. PICK ended : \E C \in SUBSET DOMAIN conn_map : Signals(C) /\ Removed(ended)
    BY <1>8, NetEventStep
  <2>2. PICK C \in SUBSET DOMAIN conn_map : Signals(C) /\ Removed(ended)
    BY <2>1
  <2>3. /\ turn = "event" /\ turn' = "restart" /\ events' = << >> /\ UNCHANGED <<silent, counter>>
        /\ restart' \in BOOLEAN
    BY <1>8, <1>1 DEF HandleNetEvent, Unread
  <2>4. Quiet /\ UNCHANGED phase
    BY <1>1, <2>2, <2>3, SignalledEntries DEF Signals
  <2>5. renet' \in [Index -> RenetStatus]
    BY <1>1, <2>2, ClientsRemoved
  <2> QED BY <1>1, <1>2, <2>3, <2>4, <2>5
<1>9. CASE SendHellooon
  <2>1. counter' \in 0 .. Period - 1
    <3>1. (counter + 1) % Period \in 0 .. Period - 1
      BY <1>1, PeriodAssumption
    <3> QED BY <1>1, <1>9, <3>1 DEF SendHellooon, Counted
  <2>2. /\ turn = "app" /\ turn' = "send" /\ UNCHANGED <<events, silent, restart>>
    BY <1>9 DEF SendHellooon
  <2>3. renet' \in [Index -> RenetStatus]
    BY <1>1, <1>9, HellooonStep, ClientsRemoved, ClientsFail
  <2>4. Quiet /\ UNCHANGED phase
    <3>1. CASE Signals(DOMAIN conn_map)
      BY <1>1, <2>2, <3>1, SignalledEntries DEF Signals
    <3>2. CASE UNCHANGED vars
      BY <1>4, <2>2, <3>2 DEF vars, mainVars
    <3> QED BY <1>9, <3>1, <3>2, HellooonStep
  <2> QED BY <1>1, <1>2, <2>1, <2>2, <2>3, <2>4
<1>10. ASSUME NEW m \in Msg, SendSystem(Clients, m), UNCHANGED ownVars PROVE DirtyTypeOK'
  <2>1. Clients \in SUBSET Index
    BY DEF Clients
  <2>2. events' \in Seq(DtlsServerEvent)
    BY <1>1, <1>10, <2>1, SendErrors
  <2>3. turn = "send" /\ turn' = "health" /\ UNCHANGED <<phase, conn_map, renet, silent>>
    BY <1>10 DEF SendSystem, mainVars
  <2> QED BY <1>1, <1>2, <1>3, <1>4, <1>10, <2>2, <2>3
<1>11. CASE AcptSystem /\ UNCHANGED ownVars
  <2> DEFINE i == Head(acpt_q)
  <2>1. events' \in Seq(DtlsServerEvent)
    BY <1>1, <1>11, NoErrors
  <2>2. AcceptOne /\ UNCHANGED <<turn, phase, silent>>
    BY <1>11 DEF AcptSystem, AcceptOne, mainVars
  <2>3. /\ i \in Index /\ DOMAIN conn_map' = DOMAIN conn_map
        /\ \A j \in DOMAIN conn_map : j # i => conn_map'[j] = conn_map[j]
        /\ conn_map' = conn_map \/ conn_map'[i] = StartedConn
    BY <2>2, AcceptEntries
  <2>4. renet' \in [Index -> RenetStatus]
    BY <1>1, <1>11, <2>3, ClientAdded DEF AcptSystem
  <2> HIDE DEF i
  <2>5. Quiet
    BY <1>1, <2>2, <2>3 DEF StartedConn
  <2> QED BY <1>1, <1>2, <1>3, <1>11, <2>1, <2>2, <2>4, <2>5
<1>12. CASE RecvSystem /\ UNCHANGED ownVars
  <2>1. events' \in Seq(DtlsServerEvent)
    BY <1>1, <1>12, RecvErrors
  <2>2. renet' \in [Index -> RenetStatus]
    BY <1>1, <1>12, ClientsFail DEF RecvSystem
  <2>3. turn = "recv" /\ turn' = "event" /\ UNCHANGED <<phase, conn_map, silent>>
    BY <1>12 DEF RecvSystem, mainVars
  <2> QED BY <1>1, <1>2, <1>3, <1>4, <1>12, <2>1, <2>2, <2>3
<1>13. CASE ReapSystem /\ UNCHANGED ownVars
  <2>1. events' \in Seq(DtlsServerEvent)
    BY <1>1, <1>13, ReapErrors
  <2>2. /\ turn = "reap" /\ turn' = "timeout" /\ UNCHANGED renet
        /\ silent' = silent \cap DOMAIN conn_map' /\ HealthReap /\ phase' = "timeout"
    BY <1>13 DEF ReapSystem, HealthReap
  <2>3. Quiet
    BY <1>1, <2>2, ReapEntries
  <2> QED BY <1>1, <1>2, <1>3, <1>13, <2>1, <2>2, <2>3
<1>14. CASE (HealthEventSystem \/ TimeoutEventSystem) /\ UNCHANGED ownVars
  <2>1. events' \in Seq(DtlsServerEvent)
    BY <1>1, <1>14, NoErrors
  <2>2. /\ \/ turn' = "reap" /\ phase' = "health"
           \/ turn' = "acpt" /\ phase' = "accept"
        /\ UNCHANGED <<conn_map, renet, silent>>
    BY <1>14 DEF HealthEventSystem, HealthSnapshot, TimeoutEventSystem, TimeoutEvents
  <2> QED BY <1>1, <1>2, <1>3, <1>4, <1>14, <2>1, <2>2
<1>15. CASE (AcptSystemDone \/ SendSystemClosed) /\ UNCHANGED ownVars
  BY <1>1, <1>2, <1>3, <1>4, <1>15
     DEF AcptSystemDone, AcceptDone, SendSystemClosed, vars, mainVars
<1>16. CASE UNCHANGED allVars
  BY <1>1, <1>2, <1>3, <1>4, <1>16 DEF allVars, baseVars, renetVars, vars, mainVars
<1> QED
  BY <1>5, <1>6, <1>7, <1>8, <1>9, <1>10, <1>11, <1>12, <1>13, <1>14, <1>15, <1>16, DirtyCases

-----------------------------------------------------------------------------
(* conn_map and renet's table.                                             *)

LEMMA EntriesAndRenet ==
  ASSUME IInv, DirtyTypeOK
  PROVE  /\ renet \in [Index -> RenetStatus] /\ events \in Seq(DtlsServerEvent)
         /\ TypeOK /\ DOMAIN conn_map \subseteq Index /\ Clients \in SUBSET Index
  BY DEF DirtyTypeOK, RenetTypeOK, IInv, TypeInv, TypeOK, Clients

LEMMA TableStep == IInv /\ DirtyTypeOK /\ TableInv /\ [DirtyNext]_allVars => TableInv'
<1> SUFFICES ASSUME IInv, DirtyTypeOK, TableInv, [DirtyNext]_allVars PROVE TableInv'
  OBVIOUS
<1> USE DEF TableInv, ServedIsKnown, SignalledTogether
<1>1. /\ renet \in [Index -> RenetStatus] /\ TypeOK /\ DOMAIN conn_map \subseteq Index
      /\ Clients \in SUBSET Index
  BY EntriesAndRenet
<1>2. ASSUME \A i \in DOMAIN conn_map' :
               \/ conn_map'[i] = NewConn
               \/ /\ i \in DOMAIN conn_map
                  /\ conn_map'[i].send_tx = conn_map[i].send_tx
                  /\ conn_map'[i].close_recv_tx = conn_map[i].close_recv_tx,
             \A i \in Index : renet[i] # "none" => renet'[i] # "none"
      PROVE  TableInv'
  <2>1. ~NewConn.send_tx /\ ~NewConn.close_recv_tx /\ NewConn.send_tx = NewConn.close_recv_tx
    BY DEF NewConn
  <2>2. ASSUME NEW i \in DOMAIN conn_map', conn_map'[i].send_tx PROVE renet'[i] # "none"
    <3>1. i \in DOMAIN conn_map /\ conn_map[i].send_tx
      BY <1>2, <2>1, <2>2
    <3> QED BY <1>1, <1>2, <3>1
  <2>3. ASSUME NEW i \in DOMAIN conn_map'
        PROVE  conn_map'[i].send_tx = conn_map'[i].close_recv_tx
    <3>1. CASE conn_map'[i] = NewConn
      BY <2>1, <3>1
    <3>2. CASE conn_map'[i] # NewConn
      BY <1>2, <3>2
    <3> QED BY <3>1, <3>2
  <2> QED BY <2>2, <2>3
<1>3. ASSUME UNCHANGED conn_map, UNCHANGED renet \/ \E C : MayFail(C) PROVE TableInv'
  BY <1>1, <1>2, <1>3, ClientsFail
<1>4. ASSUME NEW C \in SUBSET DOMAIN conn_map, NEW ended, Signals(C), Removed(ended),
             ended \cap DOMAIN conn_map \subseteq C
      PROVE  TableInv'
  <2>1. /\ DOMAIN conn_map' = DOMAIN conn_map
        /\ \A i \in DOMAIN conn_map :
             /\ conn_map'[i].send_tx <=> conn_map[i].send_tx /\ i \notin C
             /\ conn_map'[i].close_recv_tx <=> conn_map[i].close_recv_tx /\ i \notin C
             /\ conn_map'[i] \in DtlsConn
    BY <1>1, <1>4, SignalledEntries DEF Signals
  <2>2. \A i \in Index : renet'[i] = "none" <=> renet[i] = "none" \/ i \in ended
    BY <1>1, <1>4, ClientsRemoved
  <2>3. ServedIsKnown'
    BY <1>1, <1>4, <2>1, <2>2
  <2>4. SignalledTogether'
    <3>1. \A i \in DOMAIN conn_map' : /\ conn_map'[i].send_tx \in BOOLEAN
                                      /\ conn_map'[i].close_recv_tx \in BOOLEAN
      BY <2>1 DEF DtlsConn
    <3> QED BY <2>1, <3>1
  <2> QED BY <2>3, <2>4
<1>5. CASE Tasks
  BY <1>2, <1>5, TasksKeepEntries DEF Tasks, renetVars
<1>6. ASSUME NEW i \in Index, Vanish(i) PROVE TableInv'
  BY <1>3, <1>6 DEF Vanish, vars
<1>7. CASE Build \/ Restarted \/ NotRestarted
  BY <1>3, <1>7 DEF Build, Restarted, NotRestarted, Start, vars
<1>8. CASE HandleNetEvent
  BY <1>4, <1>8, NetEventStep
<1>9. CASE SendHellooon
  BY <1>3, <1>4, <1>9, HellooonStep DEF vars
<1>10. CASE \/ \E m \in Msg : SendSystem(Clients, m)
            \/ AcptSystemDone \/ RecvSystem \/ SendSystemClosed \/ HealthEventSystem
            \/ TimeoutEventSystem \/ UNCHANGED allVars
  BY <1>3, <1>10
     DEF SendSystem, AcptSystemDone, AcceptDone, RecvSystem, SendSystemClosed,
         HealthEventSystem, HealthSnapshot, TimeoutEventSystem, TimeoutEvents, allVars,
         baseVars, renetVars, vars
<1>11. CASE ReapSystem
  <2>1. HealthReap /\ UNCHANGED renet
    BY <1>11 DEF ReapSystem
  <2> QED BY <1>2, <2>1, ReapEntries
<1>12. CASE AcptSystem
  <2> DEFINE i == Head(acpt_q)
  <2>1. /\ i \in Index /\ DOMAIN conn_map' = DOMAIN conn_map
        /\ \A j \in DOMAIN conn_map : j # i => conn_map'[j] = conn_map[j]
        /\ CanStart(i) => conn_map'[i] = StartedConn
        /\ ~CanStart(i) => conn_map' = conn_map
    BY <1>12, AcceptEntries DEF AcptSystem
  <2>2. \/ CanStart(i) /\ AddConnection(i)
        \/ ~CanStart(i) /\ UNCHANGED renet
    BY <1>12 DEF AcptSystem
  <2> HIDE DEF i
  <2>3. CASE CanStart(i) /\ AddConnection(i)
    <3>1. StartedConn.send_tx = StartedConn.close_recv_tx
      BY DEF StartedConn
    <3>2. \A j \in Index : renet'[j] = "none" <=> renet[j] = "none" /\ j # i
      BY <1>1, <2>1, <2>3, ClientAdded
    <3>3. \A j \in DOMAIN conn_map' : j \in Index /\ (j = i \/ conn_map'[j] = conn_map[j])
      BY <1>1, <2>1
    <3>4. ServedIsKnown'
      BY <2>1, <3>2, <3>3
    <3>5. SignalledTogether'
      BY <2>1, <2>3, <3>1, <3>3
    <3> QED BY <3>4, <3>5
  <2>4. CASE ~CanStart(i) /\ UNCHANGED renet
    BY <1>3, <2>1, <2>4
  <2> QED BY <2>2, <2>3, <2>4
<1> QED
  BY <1>5, <1>6, <1>7, <1>8, <1>9, <1>10, <1>11, <1>12, DirtyCases

-----------------------------------------------------------------------------
(* The events and the clients, from turn to turn.                          *)

LEMMA NoEvents ==
  /\ events = << >> => Errors = {}
  /\ events' = << >> => Errors' = {}
  BY DEF Errors

\* Every connection reaped while it could be sent to has failed, and is reported.
LEMMA ReapedAreReported ==
  ASSUME IInv, DirtyTypeOK, TableInv, ReapSystem,
         NEW i \in DOMAIN conn_map \ DOMAIN conn_map', conn_map[i].send_tx
  PROVE  i \in Errors'
<1>1. /\ CleanEndWasRequested /\ HealthUnwrapsSucceed /\ conn_map[i].close_recv_tx
      /\ i \in Index
  BY EntriesAndRenet DEF IInv, QuietInv, OwnedInv, TableInv, SignalledTogether
<1>2. i \in send_fin \cup recv_fin
  BY DEF ReapSystem, HealthReap
<1>3. i \in send_fin => send_err[i]
  BY <1>1 DEF CleanEndWasRequested, HealthUnwrapsSucceed
<1>4. i \in recv_fin => recv_err[i]
  BY <1>1 DEF CleanEndWasRequested, HealthUnwrapsSucceed
<1>5. Errors' = Errors \cup {j \in send_fin : send_err[j]} \cup {j \in recv_fin : recv_err[j]}
  BY EntriesAndRenet, ReapErrors
<1> QED BY <1>2, <1>3, <1>4, <1>5

LEMMA ReportStep ==
  IInv /\ DirtyTypeOK /\ TableInv /\ ReportInv /\ [DirtyNext]_allVars => ReportInv'
<1> SUFFICES ASSUME IInv, DirtyTypeOK, TableInv, ReportInv, [DirtyNext]_allVars
             PROVE  ReportInv'
  OBVIOUS
<1> DEFINE Served(i) == i \in Errors \/ (i \in DOMAIN conn_map /\ conn_map[i].send_tx)
<1> USE DEF ReportInv, EventsRead, ServedOrReported
<1>1. /\ renet \in [Index -> RenetStatus] /\ events \in Seq(DtlsServerEvent) /\ TypeOK
      /\ DOMAIN conn_map \subseteq Index /\ Clients \in SUBSET Index
  BY EntriesAndRenet
\* From handle_net_event to the sending of the packets.
<1>2. ASSUME turn \in {"restart", "app", "send"}, turn' \in {"restart", "app", "send"},
             UNCHANGED events, Clients' \subseteq Clients, DOMAIN conn_map \subseteq DOMAIN conn_map'
      PROVE  ReportInv'
  BY <1>2
\* From there to handle_net_event.
<1>3. ASSUME turn \notin {"build", "restart", "app", "send"},
             turn' \notin {"build", "restart", "app", "send"},
             Clients' \subseteq Clients,
             \A i \in Clients : Served(i) => Served(i)'
      PROVE  ReportInv'
  BY <1>3
<1>4. ASSUME UNCHANGED <<turn, renet, events>>,
             \A i \in DOMAIN conn_map : i \in DOMAIN conn_map' /\ conn_map'[i] = conn_map[i]
      PROVE  ReportInv'
  <2>1. Clients' = Clients /\ Errors' = Errors
    BY <1>4, ErrorsKept DEF Clients
  <2> QED BY <1>4, <2>1
<1>5. CASE Tasks
  BY <1>4, <1>5, TasksKeepEntries DEF Tasks, renetVars
<1>6. ASSUME NEW i \in Index, Vanish(i) PROVE ReportInv'
  BY <1>4, <1>6 DEF Vanish, vars
<1>7. CASE Build
  <2>1. /\ turn = "build" /\ turn' = "recv" /\ DOMAIN conn_map = {}
        /\ UNCHANGED <<renet, events>>
    BY <1>7 DEF Build, Start, IsClosed
  <2>2. Clients' = Clients /\ Errors = {}
    BY <2>1, NoEvents DEF Clients
  <2> QED BY <2>1, <2>2
<1>8. CASE Restarted \/ NotRestarted
  <2>1. /\ turn = "restart" /\ turn' = "app" /\ UNCHANGED <<renet, events, conn_map>>
    BY <1>8 DEF Restarted, NotRestarted, Start, vars
  <2> QED BY <1>2, <2>1 DEF Clients
<1>9. CASE HandleNetEvent
  <2>1. turn = "event" /\ turn' = "restart" /\ events' = << >>
    BY <1>9 DEF HandleNetEvent, Unread
  <2>2. PICK ended : \E C \in SUBSET DOMAIN conn_map :
                       Signals(C) /\ Removed(ended) /\ Errors \subseteq ended
    BY <1>9, NetEventStep
  <2>3. PICK C \in SUBSET DOMAIN conn_map : Signals(C) /\ Removed(ended) /\ Errors \subseteq ended
    BY <2>2
  <2>4. Clients' = Clients \ ended /\ DOMAIN conn_map' = DOMAIN conn_map
    BY <1>1, <2>3, ClientsRemoved, SignalledEntries DEF Signals
  <2> QED BY <2>1, <2>3, <2>4
<1>10. CASE SendHellooon
  <2>1. turn = "app" /\ turn' = "send" /\ UNCHANGED events
    BY <1>10 DEF SendHellooon
  <2>2. CASE Signals(DOMAIN conn_map) /\ Removed(DOMAIN conn_map)
    BY <1>1, <1>2, <2>1, <2>2, ClientsRemoved, SignalledEntries DEF Signals
  <2>3. CASE UNCHANGED vars /\ (UNCHANGED renet \/ MayFail(Clients))
    BY <1>1, <1>2, <2>1, <2>3, ClientsFail DEF vars
  <2> QED BY <1>10, <2>2, <2>3, HellooonStep
<1>11. ASSUME NEW m \in Msg, SendSystem(Clients, m) PROVE ReportInv'
  <2>1. Errors' = Errors \cup Refused(Clients)
    BY <1>1, <1>11, SendErrors
  <2>2. turn = "send" /\ turn' = "health" /\ UNCHANGED <<conn_map, renet>> /\ Clients' = Clients
    BY <1>11 DEF SendSystem, Clients
  <2>3. \A i \in Clients : i \in Errors' \/ CanSend(i)
    BY <2>1 DEF Refused
  <2> QED BY <2>2, <2>3 DEF CanSend
<1>12. CASE SendSystemClosed
  <2>1. turn = "send" /\ turn' = "health" /\ Clients = {} /\ Clients' = Clients
    BY <1>12 DEF SendSystemClosed, IsClosed, Clients
  <2> QED BY <2>1
<1>13. CASE AcptSystem
  <2> DEFINE i == Head(acpt_q)
  <2>1. /\ i \in Index /\ DOMAIN conn_map' = DOMAIN conn_map
        /\ \A j \in DOMAIN conn_map : j # i => conn_map'[j] = conn_map[j]
        /\ CanStart(i) => i \in DOMAIN conn_map /\ conn_map'[i] = StartedConn
        /\ ~CanStart(i) => conn_map' = conn_map
    BY <1>13, AcceptEntries DEF AcptSystem
  <2>2. \/ CanStart(i) /\ AddConnection(i)
        \/ ~CanStart(i) /\ UNCHANGED renet
    BY <1>13 DEF AcptSystem
  <2>3. turn = "acpt" /\ turn' = "acpt" /\ Errors' = Errors
    BY <1>1, <1>13, NoErrors DEF AcptSystem
  <2> HIDE DEF i
  <2>4. CASE CanStart(i) /\ AddConnection(i)
    <3>1. Clients' \subseteq Clients \cup {i}
      BY <1>1, <2>1, <2>4, ClientAdded
    <3>2. i \in DOMAIN conn_map' /\ conn_map'[i].send_tx
      BY <2>1, <2>4 DEF StartedConn
    <3>3. \A j \in Clients : j # i => (Served(j) => Served(j)')
      BY <2>1, <2>3
    <3> QED BY <2>3, <3>1, <3>2, <3>3
  <2>5. CASE ~CanStart(i) /\ UNCHANGED renet
    BY <1>3, <2>1, <2>3, <2>5 DEF Clients
  <2> QED BY <2>2, <2>4, <2>5
<1>14. CASE RecvSystem
  <2>1. turn = "recv" /\ turn' = "event" /\ UNCHANGED conn_map /\ Clients' \subseteq Clients
    BY <1>1, <1>14, ClientsFail DEF RecvSystem
  <2>2. Errors \subseteq Errors'
    BY <1>1, <1>14, RecvErrors
  <2> QED BY <1>3, <2>1, <2>2
<1>15. CASE HealthEventSystem \/ TimeoutEventSystem
  <2>1. /\ \/ turn = "health" /\ turn' = "reap"
           \/ turn = "timeout" /\ turn' = "acpt"
        /\ UNCHANGED <<conn_map, renet>>
    BY <1>15 DEF HealthEventSystem, HealthSnapshot, TimeoutEventSystem, TimeoutEvents
  <2>2. Errors' = Errors
    BY <1>1, <1>15, NoErrors
  <2> QED BY <1>3, <2>1, <2>2 DEF Clients
<1>16. CASE AcptSystemDone
  <2>1. turn = "acpt" /\ turn' = "recv" /\ UNCHANGED <<conn_map, renet, events>>
    BY <1>16 DEF AcptSystemDone, AcceptDone
  <2> QED BY <1>3, <2>1, ErrorsKept DEF Clients
<1>17. CASE ReapSystem
  <2>1. /\ turn = "reap" /\ turn' = "timeout" /\ UNCHANGED renet /\ HealthReap
    BY <1>17 DEF ReapSystem
  <2>2. Errors \subseteq Errors'
    BY <1>1, <1>17, ReapErrors
  <2>3. ASSUME NEW i \in Clients, Served(i) PROVE Served(i)'
    <3>1. CASE i \in Errors
      BY <2>2, <3>1
    <3>2. CASE i \in DOMAIN conn_map' /\ i \in DOMAIN conn_map /\ conn_map[i].send_tx
      BY <2>1, <3>2, ReapEntries
    <3>3. CASE i \in DOMAIN conn_map \ DOMAIN conn_map' /\ conn_map[i].send_tx
      BY <1>17, <3>3, ReapedAreReported
    <3> QED BY <2>3, <3>1, <3>2, <3>3
  <2> QED BY <1>3, <2>1, <2>3 DEF Clients
<1>18. CASE UNCHANGED allVars
  BY <1>4, <1>18 DEF allVars, baseVars, renetVars, vars
<1> HIDE DEF ReportInv
<1> QED
  BY <1>5, <1>6, <1>7, <1>8, <1>9, <1>10, <1>11, <1>12, <1>13, <1>14, <1>15, <1>16, <1>17,
     <1>18, DirtyCases

-----------------------------------------------------------------------------
(* What is left of an earlier run.                                         *)

\* A connection whose loops run after a step has been given and started.
LEMMA RunningWillBePast ==
  ASSUME IInv', NEW i \in Index, i \in DOMAIN conn_map', conn_map'[i].is_running
  PROVE  ~Fresh(i)'
<1>1. /\ i \in Int /\ acpt_index' \in Int
      /\ i < acpt_index'
      /\ acpt_pc' = "insert" => i < acpt_index' - 1
  BY ServerAssumption DEF IInv, TypeInv, TypeOK, CounterAhead, Index
<1>2. \A k \in 1 .. Len(acpt_q') : acpt_q'[k] # i
  BY DEF IInv, QueueInv, QueueAscends, NewConn
<1> QED BY <1>1, <1>2 DEF Fresh

LEMMA FreshKept ==
  ASSUME UNCHANGED <<acpt_pc, acpt_index, conn_map>>, acpt_q' = acpt_q \/ acpt_q' = << >>,
         NEW i, Fresh(i)'
  PROVE  Fresh(i)
<1>1. CASE acpt_q' = acpt_q
  BY <1>1 DEF Fresh
<1>2. CASE acpt_q' = << >>
  BY <1>2 DEF Fresh
<1> QED BY <1>1, <1>2

LEMMA FreshUnderSignals ==
  ASSUME IInv, NEW C \in SUBSET DOMAIN conn_map, Signals(C)
  PROVE  /\ recv_q' = recv_q \/ recv_q' = << >>
         /\ \A i \in Index : Fresh(i)' => Fresh(i)
<1>1. /\ acpt_q' = acpt_q \/ acpt_q' = << >>
      /\ recv_q' = recv_q \/ recv_q' = << >>
  BY DEF Signals, CloseServer, CloseAcptLoop, outVars
<1>2. TypeOK /\ C \in SUBSET Index
  BY DEF IInv, TypeInv, TypeOK
<1>3. /\ DOMAIN conn_map' = DOMAIN conn_map
      /\ \A i \in DOMAIN conn_map : conn_map'[i].is_running = conn_map[i].is_running
      /\ UNCHANGED <<acpt_pc, acpt_index>>
  BY <1>2, SignalledEntries DEF Signals
<1>4. \A i : (\E k \in 1 .. Len(acpt_q') : acpt_q'[k] = i) =>
               \E k \in 1 .. Len(acpt_q) : acpt_q[k] = i
  BY <1>1
<1> QED BY <1>1, <1>3, <1>4 DEF Fresh

LEMMA PastStep ==
  IInv /\ DirtyTypeOK /\ ReportInv /\ OldIsPast /\ [DirtyNext]_allVars => OldIsPast'
<1> SUFFICES ASSUME IInv, DirtyTypeOK, ReportInv, OldIsPast, [DirtyNext]_allVars
             PROVE  OldIsPast'
  OBVIOUS
<1>1. /\ renet \in [Index -> RenetStatus] /\ events \in Seq(DtlsServerEvent) /\ TypeOK
      /\ DOMAIN conn_map \subseteq Index /\ Clients \in SUBSET Index
      /\ recv_q \in Seq(Index \X Msg) /\ Errors \in SUBSET Index
  BY EntriesAndRenet DEF TypeOK, Errors
<1>2. /\ \A k \in 1 .. Len(recv_q) : recv_q[k][1] \in Index /\ ~Fresh(recv_q[k][1])
      /\ \A i \in Errors \cup Clients : i \in Index /\ ~Fresh(i)
  BY <1>1 DEF OldIsPast
<1>3. IInv'
  BY DirtyKeepsServer
<1>4. ASSUME recv_q' = recv_q \/ recv_q' = << >>,
             \A i \in Index : i \in Errors' \cup Clients' => i \in Errors \cup Clients \/ ~Fresh(i)',
             \A i \in Index : Fresh(i)' => Fresh(i)
      PROVE  OldIsPast'
  <2>1. (\A k \in 1 .. Len(recv_q) : ~Fresh(recv_q[k][1]))'
    <3>1. CASE recv_q' = recv_q
      <4>1. \A k \in 1 .. Len(recv_q') : recv_q'[k][1] \in Index /\ ~Fresh(recv_q'[k][1])
        BY <1>2, <3>1
      <4> QED BY <1>4, <4>1
    <3>2. CASE recv_q' = << >>
      BY <3>2
    <3> QED BY <1>4, <3>1, <3>2
  <2>2. (\A i \in Errors \cup Clients : ~Fresh(i))'
    <3>1. \A i \in Errors' \cup Clients' : i \in Index
      BY DEF Errors, Clients
    <3>2. \A i \in Index : i \in Errors \cup Clients => ~Fresh(i)
      BY <1>2
    <3> QED BY <1>4, <3>1, <3>2
  <2> QED BY <2>1, <2>2 DEF OldIsPast
<1>5. ASSUME UNCHANGED <<acpt_pc, acpt_index, conn_map>>,
             acpt_q' = acpt_q \/ acpt_q' = << >>,
             recv_q' = recv_q \/ recv_q' = << >>,
             \A i \in Errors' \cup Clients' : i \in Errors \cup Clients
      PROVE  OldIsPast'
  BY <1>4, <1>5, FreshKept
<1>6. CASE Tasks
  <2>1. Errors' = Errors /\ Clients' = Clients
    BY <1>6, ErrorsKept DEF Tasks, renetVars, Clients
  <2>2. \A i \in Index : Fresh(i)' => Fresh(i)
    BY <1>6, FreshStaysPast
  <2>3. CASE recv_q' = recv_q
    BY <1>4, <2>1, <2>2, <2>3
  <2>4. ASSUME NEW i \in Index, NEW m \in Msg, recv_q' = Append(recv_q, <<i, m>>),
               recv_pc[i] = "poll"
        PROVE  OldIsPast'
    <3>1. ~Fresh(i)
      BY <2>4, LoopsRun, RunningIsPast
    <3>2. \A k \in 1 .. Len(recv_q') :
            \/ k \in 1 .. Len(recv_q) /\ recv_q'[k] = recv_q[k]
            \/ recv_q'[k] = <<i, m>>
      BY <1>1, <2>4
    <3>3. <<i, m>>[1] = i
      OBVIOUS
    <3>4. (\A k \in 1 .. Len(recv_q) : ~Fresh(recv_q[k][1]))'
      BY <1>2, <2>2, <3>1, <3>2, <3>3
    <3>5. (\A j \in Errors \cup Clients : ~Fresh(j))'
      BY <1>2, <2>1, <2>2
    <3> QED BY <3>4, <3>5 DEF OldIsPast
  <2> QED BY <1>6, <2>3, <2>4, TasksReceive
<1>7. ASSUME NEW i \in Index, Vanish(i) PROVE OldIsPast'
  <2>1. Errors' = Errors /\ Clients' = Clients
    BY <1>7, ErrorsKept DEF Vanish, Clients
  <2> QED BY <1>5, <1>7, <2>1 DEF Vanish, vars, acptVars, outVars
<1>8. CASE Build \/ Restarted
  <2>1. /\ turn \in {"build", "restart"} /\ DOMAIN conn_map = {} /\ recv_q' = << >>
        /\ UNCHANGED <<renet, events>>
    BY <1>8 DEF Build, Restarted, Start, IsClosed
  <2>2. Errors = {} /\ Clients = {}
    BY <2>1, NoEvents DEF ReportInv, EventsRead, ServedOrReported
  <2>3. Errors' = {} /\ Clients' = {}
    BY <2>1, <2>2, ErrorsKept DEF Clients
  <2> QED BY <2>1, <2>3 DEF OldIsPast
<1>9. CASE NotRestarted \/ AcptSystemDone \/ SendSystemClosed \/ UNCHANGED allVars
  <2>1. UNCHANGED <<acpt_pc, acpt_index, conn_map, acpt_q, recv_q, renet, events>>
    BY <1>9 DEF NotRestarted, AcptSystemDone, AcceptDone, SendSystemClosed, allVars, baseVars,
                renetVars, vars, acptVars, outVars
  <2> QED BY <1>5, <2>1, ErrorsKept DEF Clients
<1>10. CASE HandleNetEvent
  <2>1. Errors' = {}
    BY <1>10, NoEvents DEF HandleNetEvent, Unread
  <2>2. PICK ended : \E C \in SUBSET DOMAIN conn_map : Signals(C) /\ Removed(ended)
    BY <1>10, NetEventStep
  <2>3. PICK C \in SUBSET DOMAIN conn_map : Signals(C) /\ Removed(ended)
    BY <2>2
  <2>4. Clients' \subseteq Clients
    BY <1>1, <2>3, ClientsRemoved
  <2> QED BY <1>4, <2>1, <2>3, <2>4, FreshUnderSignals
<1>11. CASE SendHellooon
  <2>1. Errors' = Errors
    BY <1>11, ErrorsKept DEF SendHellooon
  <2>2. CASE Signals(DOMAIN conn_map) /\ Removed(DOMAIN conn_map)
    <3>1. Clients' \subseteq Clients
      BY <1>1, <2>2, ClientsRemoved
    <3> QED BY <1>4, <2>1, <2>2, <3>1, FreshUnderSignals
  <2>3. CASE UNCHANGED vars /\ (UNCHANGED renet \/ MayFail(Clients))
    <3>1. Clients' \subseteq Clients
      BY <1>1, <2>3, ClientsFail
    <3> QED BY <1>5, <2>1, <2>3, <3>1 DEF vars, acptVars, outVars
  <2> QED BY <1>11, <2>2, <2>3, HellooonStep
<1>12. ASSUME NEW m \in Msg, SendSystem(Clients, m) PROVE OldIsPast'
  <2>1. Errors' = Errors \cup Refused(Clients) /\ Refused(Clients) \subseteq Clients
    BY <1>1, <1>12, SendErrors DEF Refused
  <2>2. UNCHANGED <<acpt_pc, acpt_index, conn_map, acpt_q, recv_q, renet>> /\ Clients' = Clients
    BY <1>12 DEF SendSystem, Clients, acptVars, outVars
  <2> QED BY <1>5, <2>1, <2>2
<1>13. CASE AcptSystem
  <2>1. AcceptOne /\ Errors' = Errors
    BY <1>1, <1>13, NoErrors DEF AcptSystem
  <2>2. PICK i \in Index : i = Head(acpt_q)
    BY <2>1, AcceptEntries
  <2>3. /\ UNCHANGED recv_q
        /\ CanStart(i) => i \in DOMAIN conn_map' /\ conn_map'[i] = StartedConn
        /\ \/ CanStart(i) /\ AddConnection(i)
           \/ ~CanStart(i) /\ UNCHANGED renet
    BY <1>13, <2>1, <2>2, AcceptEntries DEF AcptSystem
  <2>4. \A j \in Index : Fresh(j)' => Fresh(j)
    BY <2>1, FreshStaysPast
  <2>5. CASE CanStart(i) /\ AddConnection(i)
    <3>1. StartedConn.is_running
      BY DEF StartedConn
    <3>2. ~Fresh(i)'
      BY <1>3, <2>3, <2>5, <3>1, RunningWillBePast
    <3>3. Clients' \subseteq Clients \cup {i}
      BY <1>1, <2>5, ClientAdded
    <3> QED BY <1>4, <2>1, <2>3, <2>4, <3>2, <3>3
  <2>6. CASE ~CanStart(i) /\ UNCHANGED renet
    BY <1>4, <2>1, <2>3, <2>4, <2>6 DEF Clients
  <2> QED BY <2>3, <2>5, <2>6
<1>14. CASE RecvSystem
  <2>1. UNCHANGED <<acpt_pc, acpt_index, conn_map, acpt_q>> /\ recv_q' = << >>
    BY <1>14 DEF RecvSystem, acptVars
  <2>2. Clients' \subseteq Clients
    BY <1>1, <1>14, ClientsFail DEF RecvSystem
  <2>3. \A i \in Index : Fresh(i)' => Fresh(i)
    BY <2>1, FreshKept
  <2>4. \A i \in Errors' \ Errors : \E k \in 1 .. Len(recv_q) : recv_q[k][1] = i
    BY <1>1, <1>14, RecvErrors
  <2>5. \A i \in Errors' \ Errors : ~Fresh(i)'
    BY <1>2, <2>3, <2>4
  <2> QED BY <1>4, <2>1, <2>2, <2>3, <2>5
<1>15. CASE ReapSystem
  <2>1. HealthReap /\ Clients' = Clients /\ UNCHANGED recv_q
    BY <1>15 DEF ReapSystem, HealthReap, Clients, outVars
  <2>2. \A i \in Index : Fresh(i)' => Fresh(i)
    BY <2>1, FreshStaysPast
  <2>3. Errors' = Errors \cup {i \in send_fin : send_err[i]} \cup {i \in recv_fin : recv_err[i]}
    BY <1>1, <1>15, ReapErrors
  <2>4. \A i \in send_fin \cup recv_fin : i \in Index /\ ~Fresh(i)
    <3>1. /\ \A i \in send_fin : send_pc[i] = "done"
          /\ \A i \in recv_fin : recv_pc[i] = "done"
          /\ send_fin \cup recv_fin \subseteq Index
      BY DEF IInv, OwnedInv, HealthUnwrapsSucceed, TypeInv, TypeOK
    <3> QED BY <3>1, LoopsRun, RunningIsPast
  <2> QED BY <1>4, <2>1, <2>2, <2>3, <2>4
<1>16. CASE HealthEventSystem \/ TimeoutEventSystem
  <2>1. Errors' = Errors
    BY <1>1, <1>16, NoErrors
  <2>2. /\ UNCHANGED <<acpt_index, conn_map, acpt_q, recv_q, renet>>
        /\ acpt_pc' = "insert" => acpt_pc = "insert"
    BY <1>16 DEF HealthEventSystem, HealthSnapshot, HealthCheckAcpt, TimeoutEventSystem,
                 TimeoutEvents, acptVars, outVars
  <2>3. \A i \in Index : Fresh(i)' => Fresh(i)
    BY <2>2 DEF Fresh
  <2> QED BY <1>4, <2>1, <2>2, <2>3 DEF Clients
<1> QED
  BY <1>6, <1>7, <1>8, <1>9, <1>10, <1>11, <1>12, <1>13, <1>14, <1>15, <1>16, DirtyCases

-----------------------------------------------------------------------------
(* No healthy connection is reported.                                      *)

LEMMA DeservedStep ==
  ASSUME IInv, DirtyTypeOK, TableInv, ReportInv, OldIsPast, Deserved, [DirtyNext]_allVars
  PROVE  Deserved'
<1> DEFINE Sendable(i) == i \in DOMAIN conn_map /\ conn_map[i].send_tx
           Ending(i)   == recv_pc[i] \in {"none", "done"} \/ send_pc[i] \in {"none", "done"}
<1>1. /\ renet \in [Index -> RenetStatus] /\ events \in Seq(DtlsServerEvent) /\ TypeOK
      /\ DOMAIN conn_map \subseteq Index /\ Clients \in SUBSET Index /\ Errors \in SUBSET Index
  BY EntriesAndRenet DEF Errors
<1>2. \A i \in Errors : Sendable(i) => Ending(i)
  BY DEF Deserved
<1>3. ASSUME \A i \in Index : i \in Errors' =>
               \/ ~Sendable(i)'
               \/ Ending(i)'
               \/ i \in Errors /\ Sendable(i) /\ (Ending(i) => Ending(i)')
      PROVE  Deserved'
  <2>1. (\A i \in Index : i \in Errors => (Sendable(i) => Ending(i)))'
    BY <1>2, <1>3
  <2> QED BY <2>1 DEF Deserved, Errors
<1>4. ASSUME Errors' = Errors, UNCHANGED <<conn_map, recv_pc, send_pc>> PROVE Deserved'
  BY <1>4 DEF Deserved
<1>5. ASSUME events' = << >> PROVE Deserved'
  BY <1>5, NoEvents DEF Deserved
<1>6. CASE Tasks
  <2>1. Errors' = Errors
    BY <1>6, ErrorsKept DEF Tasks, renetVars
  <2>2. \A i \in Index : Ending(i) => Ending(i)'
    BY <1>6, TasksStartNoLoop
  <2>3. ~NewConn.send_tx
    BY DEF NewConn
  <2>4. \A i \in Index : Sendable(i)' => Sendable(i)
    BY <1>6, <2>3, TasksKeepEntries
  <2> HIDE DEF Sendable, Ending
  <2> QED BY <1>3, <2>1, <2>2, <2>4
<1>7. CASE Build \/ Restarted
  <2>1. events = << >> /\ UNCHANGED events
    BY <1>7 DEF Build, Restarted, ReportInv, EventsRead
  <2> QED BY <1>5, <2>1
<1>8. CASE NotRestarted \/ AcptSystemDone \/ SendSystemClosed \/ UNCHANGED allVars
  <2>1. UNCHANGED <<conn_map, recv_pc, send_pc, events>>
    BY <1>8 DEF NotRestarted, AcptSystemDone, AcceptDone, SendSystemClosed, allVars, baseVars,
                renetVars, vars, recvVars, sendVars
  <2> QED BY <1>4, <2>1, ErrorsKept
<1>9. ASSUME NEW i \in Index, Vanish(i) PROVE Deserved'
  BY <1>4, <1>9, ErrorsKept DEF Vanish, vars, recvVars, sendVars
<1>10. CASE HandleNetEvent
  BY <1>5, <1>10 DEF HandleNetEvent, Unread
<1>11. CASE SendHellooon
  <2>1. events = << >> /\ UNCHANGED events
    BY <1>11 DEF SendHellooon, ReportInv, EventsRead
  <2> QED BY <1>5, <2>1
\* A client whose packet is refused cannot be sent to, or its send loop has ended.
<1>12. ASSUME NEW m \in Msg, SendSystem(Clients, m) PROVE Deserved'
  <2>1. Errors' = Errors \cup Refused(Clients)
    BY <1>1, <1>12, SendErrors
  <2>2. UNCHANGED <<conn_map, recv_pc, send_pc>>
    BY <1>12 DEF SendSystem, recvVars
  <2>3. \A i \in Refused(Clients) : Sendable(i) => Ending(i)
    <3>1. \A i \in Index : send_pc[i] \in SendPc
      BY <1>1 DEF TypeOK
    <3> QED BY <1>1, <3>1 DEF Refused, CanSend, SenderAlive, SendPc
  <2>4. (\A i \in Errors : Sendable(i) => Ending(i))'
    BY <1>2, <2>1, <2>2, <2>3
  <2> QED BY <2>4 DEF Deserved
\* A connection that is started has no error of an earlier one under its index.
<1>13. CASE AcptSystem
  <2>1. AcceptOne /\ Errors' = Errors
    BY <1>1, <1>13, NoErrors DEF AcptSystem
  <2>2. PICK i \in Index : i = Head(acpt_q)
    BY <2>1, AcceptEntries
  <2>3. /\ Fresh(i)
        /\ DOMAIN conn_map' = DOMAIN conn_map
        /\ \A j \in DOMAIN conn_map : j # i => conn_map'[j] = conn_map[j]
        /\ \A j \in Index : j # i => recv_pc'[j] = recv_pc[j] /\ send_pc'[j] = send_pc[j]
    BY <2>1, <2>2, AcceptEntries
  <2>4. i \notin Errors
    BY <2>3 DEF OldIsPast
  <2>5. \A j \in Index : j # i => (Sendable(j)' => Sendable(j)) /\ (Ending(j) => Ending(j)')
    BY <2>3
  <2> HIDE DEF Sendable, Ending
  <2> QED BY <1>3, <2>1, <2>4, <2>5
\* A datagram whose client is not in renet's table is of a connection that is not
\* served any more.
<1>14. CASE RecvSystem
  <2>1. UNCHANGED <<conn_map, recv_pc, send_pc>>
    BY <1>14 DEF RecvSystem, recvVars, sendVars
  <2>2. \A i \in Errors' \ Errors : ~Sendable(i)
    BY <1>1, <1>14, RecvErrors DEF TableInv, ServedIsKnown
  <2>3. (\A i \in Errors : Sendable(i) => Ending(i))'
    BY <1>2, <2>1, <2>2
  <2> QED BY <2>3 DEF Deserved
\* The loops whose errors are reported have just been collected.
<1>15. CASE ReapSystem
  <2>1. HealthReap
    BY <1>15 DEF ReapSystem
  <2>2. Errors' = Errors \cup {i \in send_fin : send_err[i]} \cup {i \in recv_fin : recv_err[i]}
    BY <1>1, <1>15, ReapErrors
  <2>3. \A i \in Index : /\ Ending(i) => Ending(i)'
                         /\ i \in send_fin \cup recv_fin => Ending(i)'
    BY <2>1 DEF HealthReap
  <2>4. \A i \in Index : Sendable(i)' => Sendable(i)
    BY <2>1, ReapEntries
  <2> HIDE DEF Sendable, Ending
  <2> QED BY <1>3, <2>2, <2>3, <2>4
<1>16. CASE HealthEventSystem \/ TimeoutEventSystem
  <2>1. Errors' = Errors
    BY <1>1, <1>16, NoErrors
  <2>2. UNCHANGED <<conn_map, recv_pc, send_pc>>
    BY <1>16 DEF HealthEventSystem, HealthSnapshot, TimeoutEventSystem, TimeoutEvents,
                 recvVars, sendVars
  <2> QED BY <1>4, <2>1, <2>2
<1> QED
  BY <1>6, <1>7, <1>8, <1>9, <1>10, <1>11, <1>12, <1>13, <1>14, <1>15, <1>16, DirtyCases

-----------------------------------------------------------------------------
LEMMA DirtyInitInv == DirtyInit => DirtyInv
<1> SUFFICES ASSUME DirtyInit PROVE DirtyInv
  OBVIOUS
<1>1. IInv
  BY InitInv DEF DirtyInit, RenetInit
<1>2. /\ turn = "build" /\ phase = "update" /\ renet = [i \in Index |-> "none"]
      /\ events = << >> /\ silent = {} /\ DOMAIN conn_map = {} /\ recv_q = << >>
      /\ restart = FALSE /\ counter = 0
  BY DEF DirtyInit, RenetInit, Init
<1>3. DirtyTypeOK
  <2>1. counter \in 0 .. Period - 1 /\ restart \in BOOLEAN
    <3>1. 0 \in 0 .. Period - 1
      BY PeriodAssumption
    <3>2. FALSE \in BOOLEAN
      OBVIOUS
    <3> QED BY <1>2, <3>1, <3>2
  <2>2. << >> \in Seq(DtlsServerEvent)
    BY EmptySeq
  <2>3. renet \in [Index -> RenetStatus]
    BY <1>2 DEF RenetStatus
  <2>4. turn \in Turns
    BY <1>2 DEF Turns
  <2>5. /\ turn = "acpt" <=> phase = "accept"
        /\ turn = "reap" <=> phase = "health"
        /\ turn = "timeout" <=> phase = "timeout"
    BY <1>2
  <2> QED BY <1>2, <2>1, <2>2, <2>3, <2>4, <2>5 DEF DirtyTypeOK, RenetTypeOK
<1>4. Errors = {} /\ Clients = {}
  BY <1>2, NoEvents DEF Clients
<1>5. TableInv /\ ReportInv /\ OldIsPast /\ Deserved
  BY <1>2, <1>4 DEF TableInv, ServedIsKnown, SignalledTogether, ReportInv, EventsRead,
                    ServedOrReported, OldIsPast, Deserved
<1> QED BY <1>1, <1>3, <1>5 DEF DirtyInv

LEMMA DirtyStep == DirtyInv /\ [DirtyNext]_allVars => DirtyInv'
  BY DirtyKeepsServer, DirtyTypeStep, TableStep, ReportStep, PastStep, DeservedStep DEF DirtyInv

\* The server under dirty_server has every property DtlsServer has, and conn_map,
\* renet's table and the events agree at every turn of the frame, through any number of
\* restarts.
THEOREM DirtyInductive == DirtySpec => []DirtyInv
  BY DirtyInitInv, DirtyStep, PTL DEF DirtySpec

\* dirty_server's calls, made in its own order and several in one system, and those of
\* the plugin break no promise of DtlsServer: max_clients is kept, indices are fresh, no
\* loop is lost, the health check neither panics nor blocks, and a restart meets nothing
\* of the run before.
THEOREM DirtyServerIsSafe == DirtySpec => []ServerSafety
<1>1. DirtyInv => ServerSafety
  BY InvIsSafe DEF DirtyInv
<1> QED BY <1>1, DirtyInductive, PTL

\* The variables of the integration and of the application have their types; a frame's
\* systems and DtlsServer's are in step, and only started connections can go silent.
THEOREM DirtyTypeCorrect == DirtySpec => []DirtyTypeOK
<1>1. DirtyInv => DirtyTypeOK
  BY DEF DirtyInv
<1> QED BY <1>1, DirtyInductive, PTL

\* Whenever renet serves a connection that has left conn_map, the error event that
\* will remove it has been sent already, although disconnect_dtls and health_check do
\* not know of each other.
THEOREM GhostsAreAlwaysReported == DirtySpec => []GhostsAreReported
<1>1. DirtyInv => GhostsAreReported
  <2> SUFFICES ASSUME DirtyInv, NEW i \in Clients \ DOMAIN conn_map PROVE i \in Errors
    BY DEF GhostsAreReported, Errors
  <2> QED BY DEF DirtyInv, ReportInv, ServedOrReported
<1> QED BY <1>1, DirtyInductive, PTL

\* dirty_server disconnects a connection for an error only if it is disconnected
\* already or one of its loops has ended: neither a datagram that outlives its client,
\* nor a packet that is refused, nor an event of an earlier run hits a healthy one.
THEOREM ErrorsAreAlwaysDeserved == DirtySpec => []ErrorsAreDeserved
<1>1. DirtyInv => ErrorsAreDeserved
  BY DeservedDef DEF DirtyInv, DirtyTypeOK, RenetTypeOK
<1> QED BY <1>1, DirtyInductive, PTL

\* The server is opened, for the first time or again, only when no event of an earlier
\* run is unread and renet takes nobody for connected.
THEOREM DirtyRunsStartClean == DirtySpec => RunsStartClean
<1>1. ASSUME DirtyInv, [DirtyNext]_allVars, ~opened, opened'
      PROVE  events = << >> /\ Clients = {}
  <2>1. ASSUME UNCHANGED opened \/ ~opened' PROVE FALSE
    BY <1>1, <2>1
  <2>2. CASE Build \/ Restarted
    <3>1. turn \in {"build", "restart"} /\ DOMAIN conn_map = {}
      BY <2>2 DEF Build, Restarted, Start, IsClosed
    <3>2. events = << >>
      BY <1>1, <3>1 DEF DirtyInv, ReportInv, EventsRead
    <3>3. Clients = {}
      BY <1>1, <3>1, <3>2, NoEvents DEF DirtyInv, ReportInv, ServedOrReported
    <3> QED BY <3>2, <3>3
  <2>3. CASE Tasks
    BY <1>1, <2>1, <2>3, TasksKeepEntries DEF DirtyInv
  <2>4. CASE HandleNetEvent \/ SendHellooon
    <3>1. \A C : Signals(C) => ~opened' \/ UNCHANGED opened
      BY DEF Signals, CloseServer
    <3>2. UNCHANGED vars => UNCHANGED opened
      BY DEF vars, mainVars
    <3> QED BY <1>1, <2>1, <2>4, <3>1, <3>2, NetEventStep, HellooonStep DEF DirtyInv
  <2>5. CASE \/ \E i \in Index : Vanish(i)
             \/ NotRestarted \/ AcptSystem \/ AcptSystemDone \/ RecvSystem
             \/ \E m \in Msg : SendSystem(Clients, m)
             \/ SendSystemClosed \/ HealthEventSystem \/ ReapSystem \/ TimeoutEventSystem
             \/ UNCHANGED allVars
    BY <2>1, <2>5
       DEF Vanish, NotRestarted, AcptSystem, AcceptOne, AcptSystemDone, AcceptDone, RecvSystem,
           SendSystem, SendSystemClosed, HealthEventSystem, HealthSnapshot, ReapSystem,
           HealthReap, TimeoutEventSystem, TimeoutEvents, allVars, baseVars, vars, mainVars
  <2> QED BY <1>1, <2>2, <2>3, <2>4, <2>5, DirtyCases
<1>2. DirtyInv /\ [DirtyNext]_allVars => [~opened /\ opened' => events = << >> /\ Clients = {}]_allVars
  BY <1>1
<1> QED BY <1>2, DirtyInductive, PTL DEF DirtySpec, RunsStartClean

-----------------------------------------------------------------------------
(* The places for connections.                                             *)

LEMMA DirtyLifecycleStep ==
  DirtyInv /\ AnnouncedOpen /\ [DirtyNext]_allVars =>
    AnnouncedOpen' /\ [Lifecycle!Next \/ Lifecycle!Stop]_(Lifecycle!vars)
<1> DEFINE Goal == AnnouncedOpen' /\ [Lifecycle!Next \/ Lifecycle!Stop]_(Lifecycle!vars)
<1> SUFFICES ASSUME DirtyInv, AnnouncedOpen, [DirtyNext]_allVars PROVE Goal
  OBVIOUS
<1>1. IInv /\ DirtyTypeOK
  BY DEF DirtyInv
<1>2. [Next]_vars => Goal
  BY <1>1, AnnouncedOpenStep, LifecycleStep
<1>3. CASE \/ Tasks \/ Build \/ Restarted \/ AcptSystem \/ AcptSystemDone
           \/ HealthEventSystem \/ ReapSystem \/ TimeoutEventSystem
  <2>1. Next
    BY <1>3, TasksAreSteps
       DEF Build, Restarted, AcptSystem, AcptSystemDone, HealthEventSystem, ReapSystem,
           TimeoutEventSystem, Next, App, Frame
  <2> QED BY <1>2, <2>1
<1>4. UNCHANGED vars => Goal
  BY <1>2
<1>5. CASE \/ \E i \in Index : Vanish(i)
           \/ NotRestarted \/ SendSystemClosed \/ UNCHANGED allVars
  BY <1>4, <1>5 DEF Vanish, NotRestarted, SendSystemClosed, allVars, baseVars
<1>6. CASE RecvSystem \/ \E m \in Msg : SendSystem(Clients, m)
  BY <1>6, AnnouncedOpenKept, DataSteps
<1>7. ASSUME NEW C \in SUBSET DOMAIN conn_map, Signals(C),
             UNCHANGED opened \/ C = DOMAIN conn_map
      PROVE  Goal
  BY <1>1, <1>7, AnnouncedOpenKept, SignalSteps
<1>8. CASE HandleNetEvent
  <2>1. \E C \in SUBSET DOMAIN conn_map :
          Signals(C) /\ (UNCHANGED opened \/ C = DOMAIN conn_map)
    BY <1>1, <1>8, NetEventStep
  <2> QED BY <1>7, <2>1
<1>9. CASE SendHellooon
  BY <1>4, <1>7, <1>9, HellooonStep
<1> QED BY <1>3, <1>5, <1>6, <1>8, <1>9, DirtyCases

\* Under this application too a place for a connection goes through the life
\* ConnLifecycle gives it and no other, over all its runs; all that is new is the step
\* that ends everybody and closes.
THEOREM DirtyLifecycleIsKept == DirtySpec => StepsOfApplication
<1>1. DirtyInit => Lifecycle!Init /\ AnnouncedOpen
  BY LifecycleInit DEF DirtyInit, RenetInit, Init, AnnouncedOpen
<1>2. DirtySpec => []AnnouncedOpen
  BY <1>1, DirtyInductive, DirtyLifecycleStep, PTL DEF DirtySpec
<1> QED
  BY <1>1, <1>2, DirtyInductive, DirtyLifecycleStep, PTL
     DEF DirtySpec, StepsOfApplication, Lifecycle!AppSpec

=============================================================================
