---------------------- MODULE DtlsServerLifecycleProofs ----------------------
(***************************************************************************)
(* That DtlsServer implements ConnLifecycle, proved for every value of the *)
(* constants: initial states are initial states of ConnLifecycle, and with *)
(* the inductive invariant of DtlsServerProofs every step is a step of it  *)
(* or a stutter.                                                           *)
(***************************************************************************)
EXTENDS DtlsServerLifecycle, DtlsServerProofs

\* An index waits in acpt_rx only while the channel exists.
AnnouncedOpen == acpt_q # << >> => opened

LEMMA AnnouncedOpenStep == AnnouncedOpen /\ [Next]_vars => AnnouncedOpen'
<1> SUFFICES ASSUME AnnouncedOpen, [Next]_vars PROVE AnnouncedOpen'
  OBVIOUS
<1> USE DEF AnnouncedOpen, mainVars, acptVars
<1>1. CASE UNCHANGED <<opened, acpt_q>>
  BY <1>1
<1>2. CASE AcptAnnounce
  BY <1>1, <1>2 DEF AcptAnnounce
<1>3. CASE Start
  BY <1>3 DEF Start
<1>4. CASE Close
  BY <1>4 DEF Close, CloseServer, CloseAcptLoop
<1>5. CASE AcceptOne
  BY <1>5 DEF AcceptOne
<1>6. CASE AcptClose \/ AcptAdmit \/ AcptInsert \/ AcptFinish \/ AcptAccept \/ AcptError
  BY <1>1, <1>6 DEF AcptClose, AcptAdmit, AcptInsert, AcptFinish, AcptAccept, AcptError
<1>7. CASE Recv \/ AcceptDone \/ HealthSnapshot \/ HealthReap \/ TimeoutEvents
  BY <1>1, <1>7 DEF Recv, AcceptDone, HealthSnapshot, HealthReap, TimeoutEvents
<1>8. CASE UNCHANGED vars
  BY <1>1, <1>8 DEF vars
<1>9. CASE \/ DisconnectAll
           \/ \E i \in Index : Disconnect(i)
           \/ \E m \in Msg : Broadcast(m)
           \/ \E i \in Index, m \in Msg : Send(i, m)
  BY <1>1, <1>9 DEF DisconnectAll, Disconnect, DisconnectEach, Broadcast, Send
<1>10. CASE \E i \in Index : \/ RecvClose(i) \/ RecvPoll(i) \/ RecvWake(i)
                             \/ RecvError(i) \/ RecvTimeout(i) \/ RecvFinish(i)
                             \/ \E m \in Msg : RecvData(i, m)
  BY <1>1, <1>10 DEF RecvClose, RecvPoll, RecvWake, RecvError, RecvTimeout, RecvFinish,
                     RecvData
<1>11. CASE \E i \in Index : \/ SendClose(i) \/ SendTake(i) \/ SendOk(i)
                             \/ SendError(i) \/ SendTimeout(i) \/ SendFinish(i)
  BY <1>1, <1>11 DEF SendClose, SendTake, SendOk, SendError, SendTimeout, HandBack, SendFinish
<1> QED
  BY <1>2, <1>3, <1>4, <1>5, <1>6, <1>7, <1>8, <1>9, <1>10, <1>11, StepCases

-----------------------------------------------------------------------------
(* The steps of ConnLifecycle, in terms of the status of server and places. *)

LEMMA SameCardinality == \A S : Lifecycle!Cardinality(S) = Cardinality(S)
BY DEF Lifecycle!Cardinality, Cardinality

LEMMA Stutter ==
  ASSUME ServerStatus' = ServerStatus,
         \A i \in Index : PlaceStatus(i)' = PlaceStatus(i)
  PROVE  UNCHANGED Lifecycle!vars
BY DEF Lifecycle!vars

LEMMA EndStep ==
  ASSUME NEW S \in SUBSET Index,
         \A i \in S : PlaceStatus(i) = "running" /\ PlaceStatus(i)' = "ending",
         \A i \in Index \ S : PlaceStatus(i)' = PlaceStatus(i),
         ServerStatus' = ServerStatus
  PROVE  [Lifecycle!Next]_(Lifecycle!vars)
<1>1. CASE S = {}
  BY <1>1, Stutter
<1>2. CASE S # {}
  <2>1. Lifecycle!End(S)
    BY <1>2 DEF Lifecycle!End, Lifecycle!AllIn, Lifecycle!Moved
  <2> QED BY <2>1 DEF Lifecycle!Next
<1> QED BY <1>1, <1>2

\* What a step does that touches neither the map, nor the send loops, nor opened.
LEMMA QuietSteps ==
  ASSUME UNCHANGED <<opened, acpt_handle, conn_map, send_pc>>
  PROVE  UNCHANGED Lifecycle!vars
<1>1. ServerStatus' = ServerStatus
  BY DEF ServerStatus, IsClosed
<1>2. \A i \in Index : PlaceStatus(i)' = PlaceStatus(i)
  BY DEF PlaceStatus
<1> QED BY <1>1, <1>2, Stutter

\* What the inductive invariant says about the status of a connection.
LEMMA StatusFacts ==
  ASSUME IInv
  PROVE  /\ \A i \in Index : PlaceStatus(i) = "free" <=> i \notin DOMAIN conn_map
         /\ \A i \in Index : send_pc[i] # "none" =>
              i \in DOMAIN conn_map /\ conn_map[i].is_running /\ conn_map[i].send_handle
         /\ DOMAIN conn_map \subseteq Index
         /\ \A i \in DOMAIN conn_map : conn_map[i] \in DtlsConn
<1>1. TypeOK /\ LoopsAreOwned /\ UnstartedIsNew
  BY DEF IInv, TypeInv, OwnedInv, QueueInv
<1>2. DOMAIN conn_map \subseteq Index /\ \A i \in DOMAIN conn_map : conn_map[i] \in DtlsConn
  BY <1>1 DEF TypeOK
<1>3. ASSUME NEW i \in Index, send_pc[i] # "none"
      PROVE  i \in DOMAIN conn_map /\ conn_map[i].is_running /\ conn_map[i].send_handle
  BY <1>1, <1>3 DEF LoopsAreOwned, UnstartedIsNew, NewConn
<1>4. \A i \in Index : PlaceStatus(i) = "free" <=> i \notin DOMAIN conn_map
  BY DEF PlaceStatus
<1> QED BY <1>2, <1>3, <1>4

\* A step of a send loop ends the connection or does not change its status.
LEMMA SendLoopSteps ==
  ASSUME IInv, NEW i \in Index, NEW pc \in SendPc,
         UNCHANGED <<opened, acpt_handle, conn_map>>,
         send_pc[i] # "none",
         send_pc[i] = "closing" => pc = "done",
         send_pc[i] # "done",
         pc # "none",
         send_pc' = [send_pc EXCEPT ![i] = pc]
  PROVE  [Lifecycle!Next]_(Lifecycle!vars)
<1>1. ServerStatus' = ServerStatus
  BY DEF ServerStatus, IsClosed
<1>2. send_pc \in [Index -> SendPc]
  BY DEF IInv, TypeInv, TypeOK
<1>3. \A j \in Index \ {i} : PlaceStatus(j)' = PlaceStatus(j)
  BY <1>2 DEF PlaceStatus
<1>4. i \in DOMAIN conn_map /\ conn_map[i].is_running
  BY StatusFacts
<1>5. \/ PlaceStatus(i)' = PlaceStatus(i)
      \/ PlaceStatus(i) = "running" /\ PlaceStatus(i)' = "ending"
  <2>1. send_pc'[i] = pc
    BY <1>2
  <2> QED BY <1>4, <2>1 DEF PlaceStatus, SendPc
<1>6. CASE PlaceStatus(i)' = PlaceStatus(i)
  BY <1>1, <1>3, <1>6, Stutter
<1>7. CASE PlaceStatus(i) = "running" /\ PlaceStatus(i)' = "ending"
  BY <1>1, <1>3, <1>7, EndStep, {i} \in SUBSET Index
<1> QED BY <1>5, <1>6, <1>7

\* disconnect ends what runs, and touches nothing else.
LEMMA SignalledPlaces ==
  ASSUME IInv, NEW C \in SUBSET Index, SignalEach(C), UNCHANGED send_pc
  PROVE  /\ DOMAIN conn_map' = DOMAIN conn_map
         /\ \A i \in Index :
              PlaceStatus(i)' = IF i \in C /\ PlaceStatus(i) = "running" THEN "ending"
                                ELSE PlaceStatus(i)
<1>1. /\ DOMAIN conn_map' = DOMAIN conn_map
      /\ \A i \in DOMAIN conn_map :
           conn_map'[i] = IF i \in C THEN Signalled(conn_map[i]) ELSE conn_map[i]
  BY DEF SignalEach
<1>2. \A i \in DOMAIN conn_map : conn_map[i] \in DtlsConn
  BY StatusFacts
<1>3. \A i \in DOMAIN conn_map :
        /\ conn_map'[i].is_running = conn_map[i].is_running
        /\ conn_map'[i].send_tx = IF i \in C THEN FALSE ELSE conn_map[i].send_tx
  BY <1>1, <1>2 DEF DtlsConn, Signalled
<1>4. \A i \in Index : PlaceStatus(i)' = IF i \in C /\ PlaceStatus(i) = "running" THEN "ending"
                                         ELSE PlaceStatus(i)
  BY <1>1, <1>2, <1>3 DEF PlaceStatus, DtlsConn
<1> QED BY <1>1, <1>4

LEMMA DisconnectSteps ==
  ASSUME IInv, NEW C \in SUBSET Index, SignalEach(C),
         UNCHANGED <<opened, acpt_handle, send_pc>>
  PROVE  [Lifecycle!Next]_(Lifecycle!vars)
<1> DEFINE S == {i \in C : PlaceStatus(i) = "running"}
<1>1. /\ DOMAIN conn_map' = DOMAIN conn_map
      /\ \A i \in Index : PlaceStatus(i)' = IF i \in S THEN "ending" ELSE PlaceStatus(i)
  BY SignalledPlaces
<1>2. ServerStatus' = ServerStatus
  BY <1>1 DEF ServerStatus, IsClosed
<1> QED BY <1>1, <1>2, EndStep, S \in SUBSET Index

LEMMA InsertSteps ==
  ASSUME IInv, AcptInsert
  PROVE  [Lifecycle!Next]_(Lifecycle!vars)
<1> DEFINE idx == acpt_index - 1
<1>1. /\ TypeOK /\ CounterAhead /\ AcptOwned /\ PlaceLeft /\ LoopsAreOwned
  BY DEF IInv, TypeInv, OwnedInv
<1>2. idx \in Index /\ idx \notin DOMAIN conn_map
  BY <1>1, ServerAssumption DEF AcptInsert, CounterAhead, TypeOK, Index
<1>3. /\ DOMAIN conn_map' = DOMAIN conn_map \cup {idx}
      /\ conn_map'[idx] = NewConn
      /\ \A i \in DOMAIN conn_map : conn_map'[i] = conn_map[i]
      /\ acpt_handle
      /\ UNCHANGED <<opened, acpt_handle, send_pc>>
  BY <1>1, <1>2 DEF AcptInsert, AcptOwned, mainVars, sendVars
<1>4. ServerStatus' = ServerStatus /\ ServerStatus \in {"open", "closing"}
  BY <1>3 DEF ServerStatus, IsClosed
<1>5. \A i \in Index : PlaceStatus(i)' = IF i = idx THEN "accepted" ELSE PlaceStatus(i)
  BY <1>2, <1>3 DEF PlaceStatus, NewConn
<1>6. PlaceStatus(idx) = "free"
  BY <1>2 DEF PlaceStatus
<1>7. Lifecycle!Taken = DOMAIN conn_map
  <2>1. Lifecycle!Taken = {i \in Index : PlaceStatus(i) # "free"}
    BY DEF Lifecycle!Taken
  <2> QED BY <2>1, StatusFacts
<1>8. Cardinality(DOMAIN conn_map) < MaxClients
  BY <1>1 DEF AcptInsert, PlaceLeft
<1>9. Lifecycle!Moved({idx}, "accepted")
  BY <1>5 DEF Lifecycle!Moved
<1>10. Lifecycle!Accept(idx)
  BY <1>2, <1>4, <1>6, <1>7, <1>8, <1>9, SameCardinality DEF Lifecycle!Accept
<1> QED BY <1>2, <1>10 DEF Lifecycle!Next

LEMMA AcceptSteps ==
  ASSUME IInv, AnnouncedOpen, AcceptOne
  PROVE  [Lifecycle!Next]_(Lifecycle!vars)
<1> DEFINE i == Head(acpt_q)
<1>1. TypeOK /\ LoopsAreOwned /\ QueueAscends
  BY DEF IInv, TypeInv, OwnedInv, QueueInv
<1>2. acpt_q # << >> /\ opened
  BY DEF AcceptOne, AnnouncedOpen
<1>3. CASE CanStart(i)
  <2>1. /\ i \in DOMAIN conn_map
        /\ conn_map' = [conn_map EXCEPT ![i] = StartedConn]
        /\ send_pc' = [send_pc EXCEPT ![i] = "select"]
        /\ UNCHANGED <<opened, acpt_handle>>
    BY <1>3 DEF AcceptOne, CanStart, mainVars
  <2>2. i \in Index
    BY <1>1, <2>1 DEF TypeOK
  <2>3. conn_map[i] = NewConn
    <3>1. 1 \in 1 .. Len(acpt_q) /\ acpt_q[1] = i
      BY <1>1, <1>2 DEF TypeOK
    <3> QED BY <1>1, <2>1, <3>1 DEF QueueAscends
  <2>4. ServerStatus' = ServerStatus /\ ServerStatus = "open"
    BY <1>2, <2>1 DEF ServerStatus, IsClosed
  <2>5. PlaceStatus(i) = "accepted"
    BY <2>1, <2>3 DEF PlaceStatus, NewConn
  <2>6. \A j \in Index : PlaceStatus(j)' = IF j = i THEN "running" ELSE PlaceStatus(j)
    BY <1>1, <2>1, <2>2 DEF PlaceStatus, StartedConn, TypeOK
  <2>7. Lifecycle!Begin(i)
    BY <2>2, <2>4, <2>5, <2>6 DEF Lifecycle!Begin, Lifecycle!Moved
  <2> QED BY <2>2, <2>7 DEF Lifecycle!Next
<1>4. CASE ~CanStart(i)
  <2>1. UNCHANGED <<opened, acpt_handle, conn_map, send_pc>>
    BY <1>4 DEF AcceptOne, mainVars
  <2> QED BY <2>1, QuietSteps
<1> QED BY <1>3, <1>4

\* health_check_acpt can make a server closed that has no connection left.
LEMMA SnapshotSteps ==
  ASSUME IInv, HealthSnapshot
  PROVE  [Lifecycle!Next]_(Lifecycle!vars)
<1>1. /\ UNCHANGED <<opened, conn_map, send_pc>>
      /\ acpt_handle' => acpt_handle
  BY DEF HealthSnapshot, HealthCheckAcpt, sendVars
<1>2. \A i \in Index : PlaceStatus(i)' = PlaceStatus(i)
  BY <1>1 DEF PlaceStatus
<1>3. CASE ServerStatus' = ServerStatus
  BY <1>2, <1>3, Stutter
<1>4. CASE ServerStatus' # ServerStatus
  <2>1. ServerStatus = "closing" /\ ServerStatus' = "closed" /\ DOMAIN conn_map = {}
    BY <1>1, <1>4 DEF ServerStatus, IsClosed
  <2>2. Lifecycle!Taken = {}
    BY <2>1, StatusFacts DEF Lifecycle!Taken
  <2>3. Lifecycle!Closed
    BY <1>2, <2>1, <2>2 DEF Lifecycle!Closed
  <2> QED BY <2>3 DEF Lifecycle!Next
<1> QED BY <1>3, <1>4

LEMMA CloseSteps ==
  ASSUME IInv, Close
  PROVE  [Lifecycle!Next]_(Lifecycle!vars)
<1>1. opened /\ ~opened' /\ UNCHANGED <<acpt_handle, conn_map, send_pc>>
  BY DEF Close, CloseServer, sendVars
<1>2. \A i \in Index : PlaceStatus(i)' = PlaceStatus(i)
  BY <1>1 DEF PlaceStatus
<1>3. /\ ServerStatus = "open"
      /\ ServerStatus' \in {"closing", "closed"}
      /\ ServerStatus' = "closed" => DOMAIN conn_map = {}
  BY <1>1 DEF ServerStatus, IsClosed
<1>4. DOMAIN conn_map = {} => Lifecycle!Taken = {}
  BY StatusFacts DEF Lifecycle!Taken
<1>5. Lifecycle!StartClosing
  BY <1>2, <1>3, <1>4 DEF Lifecycle!StartClosing
<1> QED BY <1>5 DEF Lifecycle!Next

LEMMA StartSteps ==
  ASSUME IInv, Start
  PROVE  [Lifecycle!Next]_(Lifecycle!vars)
<1>1. IsClosed /\ opened' /\ DOMAIN conn_map = {} /\ UNCHANGED <<conn_map, send_pc>>
  BY DEF Start, IsClosed, sendVars
<1>2. \A i \in Index : PlaceStatus(i)' = PlaceStatus(i)
  BY <1>1 DEF PlaceStatus
<1>3. ServerStatus = "closed" /\ ServerStatus' = "open"
  BY <1>1 DEF ServerStatus, IsClosed
<1>4. Lifecycle!Taken = {}
  BY <1>1, StatusFacts DEF Lifecycle!Taken
<1>5. Lifecycle!Open
  BY <1>2, <1>3, <1>4 DEF Lifecycle!Open
<1> QED BY <1>5 DEF Lifecycle!Next

\* health_check_conn_loop frees the connections both loops of which it has joined, and
\* with the last of them the server may be closed.
LEMMA ReapSteps ==
  ASSUME IInv, HealthReap
  PROVE  [Lifecycle!Next]_(Lifecycle!vars)
<1> DEFINE S == DOMAIN conn_map \ DOMAIN conn_map'
<1>1. /\ TypeOK /\ LoopsAreOwned /\ HealthUnwrapsSucceed
  BY DEF IInv, TypeInv, OwnedInv
<1>2. /\ \A i \in DOMAIN conn_map' : i \in DOMAIN conn_map /\ conn_map'[i] = Reaped(i)
      /\ \A i \in S : i \in send_fin \cup recv_fin /\ IsConnClosed(Reaped(i))
      /\ \A i \in Index : send_pc'[i] = IF i \in send_fin THEN "none" ELSE send_pc[i]
      /\ UNCHANGED <<opened, acpt_handle>>
  BY DEF HealthReap
<1>3. S \subseteq Index /\ DOMAIN conn_map \subseteq Index
  BY StatusFacts
<1>4. \A i \in DOMAIN conn_map :
        /\ Reaped(i).is_running = conn_map[i].is_running
        /\ Reaped(i).send_tx = conn_map[i].send_tx
        /\ Reaped(i).send_handle <=> conn_map[i].send_handle /\ i \notin send_fin
  BY <1>1, ReapedFields
<1>5. \A i \in send_fin : send_pc[i] = "done"
  BY <1>1 DEF HealthUnwrapsSucceed
<1>6. ASSUME NEW i \in Index \ S PROVE PlaceStatus(i)' = PlaceStatus(i)
  <2>1. CASE i \notin DOMAIN conn_map
    BY <1>2, <2>1 DEF PlaceStatus
  <2>2. CASE i \in DOMAIN conn_map
    <3>1. i \in DOMAIN conn_map'
      BY <1>6, <2>2
    <3>2. /\ conn_map'[i].is_running = conn_map[i].is_running
          /\ conn_map'[i].send_tx = conn_map[i].send_tx
      BY <1>2, <1>4, <2>2, <3>1
    <3>3. send_pc'[i] = send_pc[i] \/ (send_pc[i] = "done" /\ send_pc'[i] = "none")
      <4>1. send_pc'[i] = IF i \in send_fin THEN "none" ELSE send_pc[i]
        BY <1>2, <1>6
      <4>2. i \in send_fin => send_pc[i] = "done"
        BY <1>5
      <4> QED BY <4>1, <4>2
    <3> QED BY <2>2, <3>1, <3>2, <3>3 DEF PlaceStatus
  <2> QED BY <2>1, <2>2
<1>7. ASSUME NEW i \in S
      PROVE  PlaceStatus(i) = "ending" /\ PlaceStatus(i)' = "free"
  <2>1. conn_map[i].is_running /\ (conn_map[i].send_handle => i \in send_fin)
    BY <1>2, <1>4 DEF IsConnClosed
  <2>2. send_pc[i] \in {"none", "done"}
    BY <1>1, <1>3, <1>5, <2>1 DEF LoopsAreOwned
  <2> QED BY <2>1, <2>2 DEF PlaceStatus
<1>8. CASE S = {}
  <2>1. ServerStatus' = ServerStatus
    <3>1. DOMAIN conn_map' = DOMAIN conn_map
      BY <1>2, <1>8
    <3> QED BY <1>2, <3>1 DEF ServerStatus, IsClosed
  <2> QED BY <1>6, <1>8, <2>1, Stutter
<1>9. CASE S # {}
  <2>1. Lifecycle!Moved(S, "free")
    BY <1>6, <1>7 DEF Lifecycle!Moved
  <2>2. S \subseteq Lifecycle!AllIn("ending")
    BY <1>3, <1>7 DEF Lifecycle!AllIn
  <2>3. Lifecycle!Taken = DOMAIN conn_map
    <3>1. Lifecycle!Taken = {i \in Index : PlaceStatus(i) # "free"}
      BY DEF Lifecycle!Taken
    <3> QED BY <3>1, StatusFacts
  <2>4. \/ ServerStatus' = ServerStatus
        \/ ServerStatus = "closing" /\ ServerStatus' = "closed" /\ DOMAIN conn_map' = {}
    BY <1>2, <1>9 DEF ServerStatus, IsClosed
  <2>5. DOMAIN conn_map' = {} => S = Lifecycle!Taken
    BY <2>3
  <2>6. Lifecycle!Free(S)
    BY <1>9, <2>1, <2>2, <2>4, <2>5 DEF Lifecycle!Free
  <2> QED BY <1>3, <2>6 DEF Lifecycle!Next
<1> QED BY <1>8, <1>9

-----------------------------------------------------------------------------
LEMMA LifecycleInit == Init => Lifecycle!Init
<1> SUFFICES ASSUME Init PROVE Lifecycle!Init
  OBVIOUS
<1>1. DOMAIN conn_map = {} /\ ~acpt_handle /\ ~opened
  BY DEF Init
<1>2. ServerStatus = "closed" /\ \A i \in Index : PlaceStatus(i) = "free"
  BY <1>1 DEF ServerStatus, IsClosed, PlaceStatus
<1> QED BY <1>2 DEF Lifecycle!Init

LEMMA LifecycleStep ==
  IInv /\ AnnouncedOpen /\ [Next]_vars => [Lifecycle!Next]_(Lifecycle!vars)
<1> SUFFICES ASSUME IInv, AnnouncedOpen, [Next]_vars
             PROVE  [Lifecycle!Next]_(Lifecycle!vars)
  OBVIOUS
<1>1. CASE UNCHANGED <<opened, acpt_handle, conn_map, send_pc>>
  BY <1>1, QuietSteps
<1>2. CASE \/ AcptClose \/ AcptAdmit \/ AcptAnnounce \/ AcptFinish
           \/ AcptAccept \/ AcptError \/ UNCHANGED vars
  BY <1>1, <1>2 DEF AcptClose, AcptAdmit, AcptAnnounce, AcptFinish, AcptAccept,
                    AcptError, vars, mainVars, sendVars
<1>3. CASE AcptInsert BY <1>3, InsertSteps
<1>4. CASE Start BY <1>4, StartSteps
<1>5. CASE Close BY <1>5, CloseSteps
<1>6. CASE AcceptOne BY <1>6, AcceptSteps
<1>7. CASE HealthSnapshot BY <1>7, SnapshotSteps
<1>8. CASE HealthReap BY <1>8, ReapSteps
<1>9. CASE \/ Recv \/ AcceptDone \/ TimeoutEvents
           \/ \E m \in Msg : Broadcast(m)
           \/ \E i \in Index, m \in Msg : Send(i, m)
  BY <1>1, <1>9 DEF Recv, AcceptDone, TimeoutEvents, Broadcast, Send, mainVars, sendVars
<1>10. CASE DisconnectAll \/ \E i \in Index : Disconnect(i)
  <2>1. DOMAIN conn_map \in SUBSET Index
    BY StatusFacts
  <2> QED BY <1>10, <2>1, DisconnectSteps DEF DisconnectAll, Disconnect, DisconnectEach, mainVars
<1>11. CASE \E i \in Index : \/ RecvClose(i) \/ RecvPoll(i) \/ RecvWake(i)
                             \/ RecvError(i) \/ RecvTimeout(i) \/ RecvFinish(i)
                             \/ \E m \in Msg : RecvData(i, m)
  BY <1>1, <1>11 DEF RecvClose, RecvPoll, RecvWake, RecvError, RecvTimeout, RecvFinish,
                     RecvData, mainVars, sendVars
<1>12. ASSUME NEW i \in Index,
              \/ SendClose(i) \/ SendTake(i) \/ SendOk(i)
              \/ SendError(i) \/ SendTimeout(i) \/ SendFinish(i)
       PROVE  [Lifecycle!Next]_(Lifecycle!vars)
  <2>1. /\ UNCHANGED <<opened, acpt_handle, conn_map>>
        /\ send_pc[i] \notin {"none", "done"}
        /\ \E pc \in SendPc \ {"none"} :
             /\ send_pc' = [send_pc EXCEPT ![i] = pc]
             /\ send_pc[i] = "closing" => pc = "done"
    BY <1>12 DEF SendClose, SendTake, SendOk, SendError, SendTimeout, HandBack, SendFinish,
                 SendPc, mainVars
  <2> QED BY <2>1, SendLoopSteps
<1> QED
  BY <1>2, <1>3, <1>4, <1>5, <1>6, <1>7, <1>8, <1>9, <1>10, <1>11, <1>12, StepCases

\* For any number of clients and indices, whatever the acceptor, the loops and the
\* application do, a place for a connection goes through the life ConnLifecycle gives it
\* and no other.
THEOREM LifecycleIsKept == Spec => StepsOfLifecycle
<1>1. Init => AnnouncedOpen
  BY DEF Init, AnnouncedOpen
<1>2. Spec => [](IInv /\ AnnouncedOpen)
  BY <1>1, Inductive, AnnouncedOpenStep, PTL DEF Spec
<1> QED
  BY <1>2, LifecycleInit, LifecycleStep, PTL DEF Spec, StepsOfLifecycle, Lifecycle!Spec

=============================================================================
