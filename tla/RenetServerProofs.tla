------------------------- MODULE RenetServerProofs -------------------------
(***************************************************************************)
(* What the proofs about the two applications of RenetDtlsServer share.    *)
(* Their steps are not all steps of DtlsServer!Next: recv_system empties   *)
(* recv_q at once, a broadcast reaches the clients of renet only, and the  *)
(* application may disconnect any set of connections, or all of them and   *)
(* close, in one step.  The invariant of DtlsServer is kept by these too.  *)
(***************************************************************************)
EXTENDS RenetDtlsServer, DtlsServerLifecycleProofs

LEMMA InitInv == Init => IInv
<1>1. Init => PlaceLeft
  BY FS_EmptySet, ServerAssumption DEF Init, PlaceLeft
<1>2. Init => QueueInv
  BY DEF Init, QueueInv, UnstartedIsNew, QueueAscends
<1> QED BY <1>1, <1>2, TypeInit, OwnedInit, QuietInit DEF IInv

\* What the invariant is worth: the promises of DtlsServer.
ServerSafety ==
  /\ CapacityRespected /\ InsertIsFresh
  /\ LoopsAreOwned /\ HealthUnwrapsSucceed /\ ClosedMeansQuiet

LEMMA InvIsSafe == IInv => ServerSafety
<1> SUFFICES ASSUME IInv PROVE ServerSafety
  OBVIOUS
<1>1. CapacityRespected
  BY DEF IInv, PlaceLeft, CapacityRespected
<1>2. InsertIsFresh
  BY DEF IInv, TypeInv, TypeOK, CounterAhead, InsertIsFresh, Index
<1>3. LoopsAreOwned /\ HealthUnwrapsSucceed
  BY DEF IInv, OwnedInv
<1>4. ClosedMeansQuiet
  BY DEF IInv, OwnedInv, QuietInv, AcptOwned, LoopsAreOwned, OpenIsOwned, IsClosed,
         ClosedMeansQuiet
<1> QED BY <1>1, <1>2, <1>3, <1>4 DEF ServerSafety

LEMMA KeptByStep == IInv /\ [Next]_vars => IInv'
  BY TypeStep, PlaceStep, OwnedStep, QuietStep, QueueStep DEF IInv

\* What is in the queues of data concerns none of it but the types.
LEMMA KeptByQueues ==
  ASSUME IInv, send_q' \in [Index -> Seq(Msg)], recv_q' \in Seq(Index \X Msg),
         UNCHANGED <<mainVars, conn_map, acptVars, recvVars>>,
         UNCHANGED <<send_pc, send_err, send_close, flight, conn_open, timeout_q>>
  PROVE  IInv'
<1> USE DEF mainVars, acptVars, recvVars
<1>1. TypeOK' /\ CounterAhead' /\ FlightHeld'
  BY DEF IInv, TypeInv, TypeOK, CounterAhead, FlightHeld
<1>2. PlaceLeft' /\ OwnedInv'
  BY DEF IInv, PlaceLeft, OwnedInv, AcptOwned, LoopsAreOwned, HealthUnwrapsSucceed
<1>3. QuietInv'
  BY DEF IInv, QuietInv, OpenIsOwned, SignalsWereSent, RecverAlive, SenderAlive,
         CleanEndWasRequested
<1>4. QueueInv'
  BY DEF IInv, QueueInv, UnstartedIsNew, QueueAscends
<1> QED BY <1>1, <1>2, <1>3, <1>4 DEF IInv, TypeInv

LEMMA RecvSystemKeeps == IInv /\ RecvSystem => IInv'
<1> SUFFICES ASSUME IInv, RecvSystem PROVE IInv'
  OBVIOUS
<1>1. send_q \in [Index -> Seq(Msg)] /\ recv_q' \in Seq(Index \X Msg)
  BY EmptyQueues DEF IInv, TypeInv, TypeOK, RecvSystem
<1> QED BY <1>1, KeptByQueues DEF RecvSystem, sendVars

LEMMA SendSystemKeeps ==
  ASSUME IInv, NEW busy, NEW m \in Msg, SendSystem(busy, m)
  PROVE  IInv'
<1>1. send_q \in [Index -> Seq(Msg)] /\ recv_q' \in Seq(Index \X Msg)
  BY DEF IInv, TypeInv, TypeOK, SendSystem, outVars
<1>2. send_q' = [i \in Index |-> IF i \in busy /\ CanSend(i) /\ Len(send_q[i]) < QueueBound
                                 THEN Append(send_q[i], m) ELSE send_q[i]]
  BY DEF SendSystem
<1>3. send_q' \in [Index -> Seq(Msg)]
  BY <1>1, <1>2
<1> QED BY <1>1, <1>3, KeptByQueues DEF SendSystem, outVars

\* The step that signals the connections in C, and closes the server or does not.
Signals(C) ==
  /\ SignalEach(C)
  /\ CloseServer \/ UNCHANGED <<opened, acpt_close, acpt_q, outVars>>
  /\ UNCHANGED <<phase, acpt_handle, send_fin, recv_fin, acpt_pc, acpt_index, acpt_err>>
  /\ UNCHANGED <<recv_pc, recv_err, send_pc, send_err, send_q, flight, conn_open>>

LEMMA SignalledEntries ==
  ASSUME TypeOK, NEW C \in SUBSET Index, SignalEach(C)
  PROVE  /\ DOMAIN conn_map' = DOMAIN conn_map
         /\ \A i \in DOMAIN conn_map :
              /\ conn_map'[i] \in DtlsConn
              /\ conn_map'[i].is_running = conn_map[i].is_running
              /\ conn_map'[i].recv_handle = conn_map[i].recv_handle
              /\ conn_map'[i].send_handle = conn_map[i].send_handle
              /\ conn_map'[i].send_tx <=> conn_map[i].send_tx /\ i \notin C
              /\ conn_map'[i].close_recv_tx <=> conn_map[i].close_recv_tx /\ i \notin C
              /\ conn_map[i] = NewConn => conn_map'[i] = NewConn
<1>1. \A conn \in DtlsConn :
        /\ Signalled(conn) \in DtlsConn
        /\ Signalled(conn).is_running = conn.is_running
        /\ Signalled(conn).recv_handle = conn.recv_handle
        /\ Signalled(conn).send_handle = conn.send_handle
        /\ ~Signalled(conn).send_tx /\ ~Signalled(conn).close_recv_tx
  BY DEF Signalled, DtlsConn
<1>2. Signalled(NewConn) = NewConn
  <2>1. Signalled(NewConn) = [NewConn EXCEPT !.close_recv_tx = @, !.send_tx = @]
    BY DEF Signalled, NewConn
  <2> QED BY <2>1 DEF NewConn
<1>3. /\ DOMAIN conn_map' = DOMAIN conn_map
      /\ \A i \in DOMAIN conn_map :
           conn_map'[i] = IF i \in C THEN Signalled(conn_map[i]) ELSE conn_map[i]
  BY DEF SignalEach
<1>4. \A i \in DOMAIN conn_map : conn_map[i] \in DtlsConn
  BY DEF TypeOK
<1> QED BY <1>1, <1>2, <1>3, <1>4

LEMMA KeptBySignals ==
  ASSUME IInv, NEW C \in SUBSET DOMAIN conn_map, Signals(C)
  PROVE  IInv'
<1>1. /\ TypeInv /\ TypeOK /\ CounterAhead /\ FlightHeld /\ PlaceLeft
      /\ AcptOwned /\ LoopsAreOwned /\ HealthUnwrapsSucceed
      /\ OpenIsOwned /\ SignalsWereSent /\ CleanEndWasRequested
      /\ UnstartedIsNew /\ QueueAscends
  BY DEF IInv, TypeInv, OwnedInv, QuietInv, QueueInv
<1>2. C \in SUBSET Index
  BY <1>1 DEF TypeOK
<1>3. SignalEach(C)
  BY DEF Signals
<1>4. /\ DOMAIN conn_map' = DOMAIN conn_map
      /\ \A i \in DOMAIN conn_map :
           /\ conn_map'[i] \in DtlsConn
           /\ conn_map'[i].is_running = conn_map[i].is_running
           /\ conn_map'[i].recv_handle = conn_map[i].recv_handle
           /\ conn_map'[i].send_handle = conn_map[i].send_handle
           /\ conn_map'[i].send_tx <=> conn_map[i].send_tx /\ i \notin C
           /\ conn_map'[i].close_recv_tx <=> conn_map[i].close_recv_tx /\ i \notin C
           /\ conn_map[i] = NewConn => conn_map'[i] = NewConn
  BY <1>1, <1>2, <1>3, SignalledEntries
<1>5. UNCHANGED <<phase, acpt_handle, send_fin, recv_fin, acpt_pc, acpt_index, acpt_err,
                  recv_pc, recv_err, send_pc, send_err, send_q, flight, conn_open>>
  BY DEF Signals
<1>6. /\ opened' => opened
      /\ opened' \in BOOLEAN /\ acpt_close' \in BOOLEAN
      /\ acpt_close' => ~opened'
      /\ acpt_q' = acpt_q \/ acpt_q' = << >>
      /\ recv_q' = recv_q \/ recv_q' = << >>
      /\ timeout_q' = timeout_q \/ timeout_q' = << >>
  <2>1. CASE CloseServer
    <3>1. acpt_close' \in BOOLEAN
      BY <1>1, <2>1, Zenon DEF CloseServer, CloseAcptLoop, AcptAlive, TypeOK
    <3> QED BY <1>1, <2>1, <3>1 DEF CloseServer, CloseAcptLoop
  <2>2. CASE UNCHANGED <<opened, acpt_close, acpt_q, outVars>>
    BY <1>1, <2>2 DEF TypeOK, SignalsWereSent, outVars
  <2> QED BY <2>1, <2>2 DEF Signals
<1>7. recv_close' \in [Index -> BOOLEAN] /\ send_close' \in [Index -> BOOLEAN]
  BY <1>1, <1>3 DEF SignalEach, TypeOK
<1>8. \A i \in Index :
        /\ recv_close'[i] => recv_close[i] \/ (i \in C /\ RecverAlive(i))
        /\ send_close'[i] => send_close[i] \/ (i \in C /\ SenderAlive(i))
  <2>1. \A i \in Index : recv_close'[i] => recv_close[i] \/ (i \in C /\ RecverAlive(i))
    BY <1>3 DEF SignalEach
  <2>2. \A i \in Index : send_close'[i] => send_close[i] \/ (i \in C /\ SenderAlive(i))
    BY <1>3 DEF SignalEach
  <2> QED BY <2>1, <2>2
<1>9. TypeInv'
  <2>1. acpt_q' \in Seq(Index) /\ recv_q' \in Seq(Index \X Msg) /\ timeout_q' \in Seq(Timeout)
    BY <1>1, <1>6, EmptyQueues DEF TypeOK
  <2>2. conn_map' \in [DOMAIN conn_map' -> DtlsConn]
    <3>1. conn_map' = [i \in DOMAIN conn_map' |-> conn_map'[i]]
      BY <1>3 DEF SignalEach
    <3> QED BY <1>4, <3>1
  <2>3. TypeOK'
    BY <1>1, <1>4, <1>5, <1>6, <1>7, <2>1, <2>2 DEF TypeOK
  <2>4. CounterAhead' /\ FlightHeld'
    BY <1>1, <1>4, <1>5 DEF CounterAhead, FlightHeld
  <2> QED BY <2>3, <2>4 DEF TypeInv
<1>10. PlaceLeft'
  BY <1>1, <1>4, <1>5 DEF PlaceLeft
<1>11. OwnedInv'
  BY <1>1, <1>4, <1>5 DEF OwnedInv, AcptOwned, LoopsAreOwned, HealthUnwrapsSucceed
<1>12. QuietInv'
  <2>1. OpenIsOwned' /\ CleanEndWasRequested'
    BY <1>1, <1>4, <1>5, <1>6 DEF OpenIsOwned, CleanEndWasRequested
  <2>2. \A i \in Index : RecverAlive(i) \/ SenderAlive(i) => i \in DOMAIN conn_map
    BY <1>1 DEF RecverAlive, SenderAlive, LoopsAreOwned
  <2>3. \A i \in Index : RecverAlive(i)' = RecverAlive(i) /\ SenderAlive(i)' = SenderAlive(i)
    BY <1>5 DEF RecverAlive, SenderAlive
  <2>4. SignalsWereSent'
    BY <1>1, <1>4, <1>6, <1>8, <2>2, <2>3 DEF SignalsWereSent
  <2> QED BY <2>1, <2>4 DEF QuietInv
<1>13. QueueInv'
  <2>1. UnstartedIsNew'
    BY <1>1, <1>4 DEF UnstartedIsNew
  <2>2. QueueAscends'
    BY <1>1, <1>4, <1>5, <1>6 DEF QueueAscends
  <2> QED BY <2>1, <2>2 DEF QueueInv
<1> QED BY <1>9, <1>10, <1>11, <1>12, <1>13 DEF IInv

-----------------------------------------------------------------------------
(* The life of the places for connections (ConnLifecycle).                 *)

LEMMA AnnouncedOpenKept ==
  ASSUME AnnouncedOpen,
         \/ \E C : Signals(C)
         \/ RecvSystem
         \/ \E busy, m : SendSystem(busy, m)
  PROVE  AnnouncedOpen'
<1>1. CASE \E C : Signals(C)
  BY <1>1 DEF Signals, CloseServer, CloseAcptLoop, AnnouncedOpen
<1>2. CASE RecvSystem \/ \E busy, m : SendSystem(busy, m)
  BY <1>2 DEF RecvSystem, SendSystem, mainVars, acptVars, AnnouncedOpen
<1> QED BY <1>1, <1>2

\* The systems that move data give no place, and take none.
LEMMA DataSteps ==
  ASSUME RecvSystem \/ \E busy, m : SendSystem(busy, m)
  PROVE  UNCHANGED Lifecycle!vars
<1>1. UNCHANGED <<opened, acpt_handle, conn_map, send_pc>>
  BY DEF RecvSystem, SendSystem, mainVars, sendVars
<1> QED BY <1>1, QuietSteps

\* A system that disconnects some ends them; one that closes the server has disconnected
\* all.
LEMMA SignalSteps ==
  ASSUME IInv, NEW C \in SUBSET DOMAIN conn_map, Signals(C),
         UNCHANGED opened \/ C = DOMAIN conn_map
  PROVE  [Lifecycle!Next \/ Lifecycle!Stop]_(Lifecycle!vars)
<1>1. DOMAIN conn_map \subseteq Index
  BY StatusFacts
<1>2. SignalEach(C) /\ UNCHANGED <<acpt_handle, send_pc>> /\ C \in SUBSET Index
  BY <1>1 DEF Signals
<1>3. CASE UNCHANGED opened
  BY <1>2, <1>3, DisconnectSteps
<1>4. CASE opened' # opened
  <2>1. opened /\ ~opened' /\ C = DOMAIN conn_map
    BY <1>4 DEF Signals, CloseServer, IInv, TypeInv, TypeOK
  <2>2. /\ DOMAIN conn_map' = DOMAIN conn_map
        /\ \A i \in Index :
             PlaceStatus(i)' = IF i \in C /\ PlaceStatus(i) = "running" THEN "ending"
                               ELSE PlaceStatus(i)
    BY <1>2, SignalledPlaces
  <2>3. \A i \in Index : PlaceStatus(i) = "running" => i \in C
    BY <2>1, StatusFacts
  <2>4. Lifecycle!Moved(Lifecycle!AllIn("running"), "ending")
    BY <2>2, <2>3 DEF Lifecycle!Moved, Lifecycle!AllIn
  <2>5. /\ ServerStatus = "open"
        /\ ServerStatus' \in {"closing", "closed"}
        /\ ServerStatus' = "closed" => DOMAIN conn_map = {}
    BY <2>1, <2>2 DEF ServerStatus, IsClosed
  <2>6. DOMAIN conn_map = {} => Lifecycle!Taken = {}
    BY StatusFacts DEF Lifecycle!Taken
  <2>7. Lifecycle!Stop
    BY <2>4, <2>5, <2>6 DEF Lifecycle!Stop
  <2> QED BY <2>7
<1> QED BY <1>3, <1>4

-----------------------------------------------------------------------------
(* What the tasks do while a system waits for its turn.                    *)

\* An index the acceptor has yet to give, or whose connection has yet to be started.
Fresh(i) ==
  \/ i >= acpt_index
  \/ \E k \in 1 .. Len(acpt_q) : acpt_q[k] = i
  \/ acpt_pc = "insert" /\ i = acpt_index - 1
  \/ i \in DOMAIN conn_map /\ ~conn_map[i].is_running

\* Only a started connection has loops, and it is started once.
LEMMA RunningIsPast ==
  ASSUME IInv, NEW i \in DOMAIN conn_map, conn_map[i].is_running
  PROVE  ~Fresh(i)
<1>1. /\ i \in Int /\ acpt_index \in Int
      /\ i < acpt_index
      /\ acpt_pc = "insert" => i < acpt_index - 1
  BY ServerAssumption DEF IInv, TypeInv, TypeOK, CounterAhead, Index
<1>2. \A k \in 1 .. Len(acpt_q) : acpt_q[k] # i
  BY DEF IInv, QueueInv, QueueAscends, NewConn
<1> QED BY <1>1, <1>2 DEF Fresh

LEMMA LoopsRun ==
  ASSUME IInv, NEW i \in Index, recv_pc[i] # "none" \/ send_pc[i] # "none"
  PROVE  i \in DOMAIN conn_map /\ conn_map[i].is_running
<1>1. i \in DOMAIN conn_map /\ (conn_map[i].recv_handle \/ conn_map[i].send_handle)
  BY DEF IInv, OwnedInv, LoopsAreOwned
<1>2. ~NewConn.recv_handle /\ ~NewConn.send_handle
  BY DEF NewConn
<1> QED BY <1>1, <1>2 DEF IInv, QueueInv, UnstartedIsNew

LEMMA TaskCases ==
  Tasks => /\ UNCHANGED renetVars
           /\ \/ AcptClose \/ AcptAdmit \/ AcptAnnounce \/ AcptInsert \/ AcptFinish
              \/ AcptAccept \/ AcptError
              \/ \E i \in Index :
                   \/ RecvClose(i) \/ RecvPoll(i) \/ RecvWake(i)
                   \/ RecvError(i) \/ RecvTimeout(i) \/ RecvFinish(i)
                   \/ SendClose(i) \/ SendTake(i) \/ SendOk(i)
                   \/ SendError(i) \/ SendTimeout(i) \/ SendFinish(i)
                   \/ \E m \in Msg : RecvData(i, m)
  BY Zenon DEF Tasks, Acceptor, Network, RecverRuns, Sender

LEMMA TasksAreSteps == Tasks => Next
  BY Zenon DEF Tasks, Next, RecverRuns, Recver

\* The tasks insert connections, none of them started, and touch no other entry.
LEMMA TasksKeepEntries ==
  ASSUME IInv, Tasks
  PROVE  /\ \A i \in DOMAIN conn_map : i \in DOMAIN conn_map' /\ conn_map'[i] = conn_map[i]
         /\ \A i \in DOMAIN conn_map' \ DOMAIN conn_map : conn_map'[i] = NewConn
         /\ acpt_pc = "none" => UNCHANGED <<acpt_pc, conn_map>>
         /\ UNCHANGED <<phase, opened, acpt_handle, send_fin, recv_fin>>
<1>1. CASE AcptInsert
  <2>1. acpt_index - 1 \notin DOMAIN conn_map
    BY <1>1, ServerAssumption DEF AcptInsert, IInv, TypeInv, CounterAhead, TypeOK, Index
  <2> QED BY <1>1, <2>1 DEF AcptInsert, mainVars
<1>2. CASE \/ AcptClose \/ AcptAdmit \/ AcptAnnounce \/ AcptFinish \/ AcptAccept \/ AcptError
  BY <1>2 DEF AcptClose, AcptAdmit, AcptAnnounce, AcptFinish, AcptAccept, AcptError, mainVars
<1>3. ASSUME NEW i \in Index,
             \/ RecvClose(i) \/ RecvPoll(i) \/ RecvWake(i)
             \/ RecvError(i) \/ RecvTimeout(i) \/ RecvFinish(i)
             \/ \E m \in Msg : RecvData(i, m)
      PROVE  UNCHANGED <<mainVars, conn_map, acptVars>>
  BY <1>3 DEF RecvClose, RecvPoll, RecvWake, RecvError, RecvTimeout, RecvFinish, RecvData
<1>4. ASSUME NEW i \in Index,
             \/ SendClose(i) \/ SendTake(i) \/ SendOk(i)
             \/ SendError(i) \/ SendTimeout(i) \/ SendFinish(i)
      PROVE  UNCHANGED <<mainVars, conn_map, acptVars>>
  BY <1>4 DEF SendClose, SendTake, SendOk, SendError, SendTimeout, SendFinish
<1> QED BY <1>1, <1>2, <1>3, <1>4, TaskCases DEF mainVars, acptVars

\* Loops that have ended stay ended until health_check collects them.
LEMMA TasksStartNoLoop ==
  ASSUME IInv, Tasks, NEW i \in Index
  PROVE  /\ recv_pc[i] \in {"none", "done"} => recv_pc'[i] = recv_pc[i]
         /\ send_pc[i] \in {"none", "done"} => send_pc'[i] = send_pc[i]
<1>1. recv_pc \in [Index -> RecvPc] /\ send_pc \in [Index -> SendPc]
  BY DEF IInv, TypeInv, TypeOK
<1>2. CASE \/ AcptClose \/ AcptAdmit \/ AcptAnnounce \/ AcptInsert \/ AcptFinish
           \/ AcptAccept \/ AcptError
  BY <1>2 DEF AcptClose, AcptAdmit, AcptAnnounce, AcptInsert, AcptFinish, AcptAccept, AcptError,
              recvVars, sendVars
<1>3. ASSUME NEW j \in Index,
             \/ RecvClose(j) \/ RecvPoll(j) \/ RecvWake(j)
             \/ RecvError(j) \/ RecvTimeout(j) \/ RecvFinish(j)
             \/ \E m \in Msg : RecvData(j, m)
      PROVE  /\ send_pc' = send_pc
             /\ recv_pc[j] \notin {"none", "done"} /\ \E pc : recv_pc' = [recv_pc EXCEPT ![j] = pc]
  BY <1>3 DEF RecvClose, RecvPoll, RecvWake, RecvError, RecvTimeout, RecvFinish, RecvData, sendVars
<1>4. ASSUME NEW j \in Index,
             \/ SendClose(j) \/ SendTake(j) \/ SendOk(j)
             \/ SendError(j) \/ SendTimeout(j) \/ SendFinish(j)
      PROVE  /\ recv_pc' = recv_pc
             /\ send_pc[j] \notin {"none", "done"} /\ \E pc : send_pc' = [send_pc EXCEPT ![j] = pc]
  BY <1>4 DEF SendClose, SendTake, SendOk, SendError, SendTimeout, SendFinish, recvVars
<1> QED BY <1>1, <1>2, <1>3, <1>4, TaskCases

\* What arrives in recv_q was sent by a connection that runs.
LEMMA TasksReceive ==
  ASSUME IInv, Tasks
  PROVE  \/ recv_q' = recv_q
         \/ \E i \in Index, m \in Msg : /\ recv_q' = Append(recv_q, <<i, m>>)
                                        /\ recv_pc[i] = "poll"
<1>1. CASE \/ AcptClose \/ AcptAdmit \/ AcptAnnounce \/ AcptInsert \/ AcptFinish
           \/ AcptAccept \/ AcptError
  BY <1>1 DEF AcptClose, AcptAdmit, AcptAnnounce, AcptInsert, AcptFinish, AcptAccept, AcptError,
              outVars
<1>2. ASSUME NEW i \in Index,
             \/ RecvClose(i) \/ RecvPoll(i) \/ RecvWake(i)
             \/ RecvError(i) \/ RecvTimeout(i) \/ RecvFinish(i)
             \/ SendClose(i) \/ SendTake(i) \/ SendOk(i)
             \/ SendError(i) \/ SendTimeout(i) \/ SendFinish(i)
      PROVE  recv_q' = recv_q
  BY <1>2 DEF RecvClose, RecvPoll, RecvWake, RecvError, RecvTimeout, RecvFinish,
              SendClose, SendTake, SendOk, SendError, SendTimeout, SendFinish, outVars
<1>3. ASSUME NEW i \in Index, NEW m \in Msg, RecvData(i, m)
      PROVE  recv_q' = recv_q \/ (recv_q' = Append(recv_q, <<i, m>>) /\ recv_pc[i] = "poll")
  BY <1>3 DEF RecvData
<1> QED BY <1>1, <1>2, <1>3, TaskCases

-----------------------------------------------------------------------------
(* What the systems do to the entries.                                     *)

LEMMA ReapEntries ==
  ASSUME IInv, HealthReap
  PROVE  /\ DOMAIN conn_map' \subseteq DOMAIN conn_map
         /\ \A i \in DOMAIN conn_map' :
              /\ conn_map'[i].is_running = conn_map[i].is_running
              /\ conn_map'[i].send_tx = conn_map[i].send_tx
              /\ conn_map'[i].close_recv_tx = conn_map[i].close_recv_tx
<1>1. \A i \in DOMAIN conn_map' : i \in DOMAIN conn_map /\ conn_map'[i] = Reaped(i)
  BY DEF HealthReap
<1> QED BY <1>1, ReapedFields DEF IInv, TypeInv

\* accept_system starts a connection that has not been started in this run.
LEMMA AcceptEntries ==
  ASSUME IInv, AcceptOne, NEW i, i = Head(acpt_q)
  PROVE  /\ i \in Index /\ Fresh(i)
         /\ DOMAIN conn_map' = DOMAIN conn_map
         /\ \A j \in DOMAIN conn_map : j # i => conn_map'[j] = conn_map[j]
         /\ \A j \in Index : j # i => recv_pc'[j] = recv_pc[j] /\ send_pc'[j] = send_pc[j]
         /\ CanStart(i) => i \in DOMAIN conn_map /\ conn_map'[i] = StartedConn
         /\ ~CanStart(i) => UNCHANGED <<conn_map, recv_pc, send_pc>>
         /\ UNCHANGED <<opened, acpt_pc, acpt_index, recv_q>>
<1>1. acpt_q # << >> /\ acpt_q \in Seq(Index)
  BY DEF AcceptOne, IInv, TypeInv, TypeOK
<1>2. i \in Index /\ 1 \in 1 .. Len(acpt_q) /\ acpt_q[1] = i
  BY <1>1
<1>3. Fresh(i)
  BY <1>2 DEF Fresh
<1>4. CASE CanStart(i)
  <2>1. /\ i \in DOMAIN conn_map
        /\ conn_map' = [conn_map EXCEPT ![i] = StartedConn]
        /\ recv_pc' = [recv_pc EXCEPT ![i] = "select"]
        /\ send_pc' = [send_pc EXCEPT ![i] = "select"]
    BY <1>4 DEF AcceptOne, CanStart
  <2> QED BY <1>2, <1>3, <1>4, <2>1 DEF AcceptOne, mainVars, outVars, IInv, TypeInv, TypeOK
<1>5. CASE ~CanStart(i)
  BY <1>2, <1>3, <1>5 DEF AcceptOne, mainVars, outVars
<1> QED BY <1>4, <1>5

\* No index becomes fresh again but by start, and insertion and start_conn use them up.
LEMMA FreshStaysPast ==
  ASSUME IInv, Tasks \/ AcceptOne \/ HealthReap, NEW i \in Index, Fresh(i)'
  PROVE  Fresh(i)
<1>1. /\ acpt_q \in Seq(Index) /\ acpt_index \in Int /\ i \in Int
      /\ acpt_index > 0 /\ DOMAIN conn_map \subseteq Index
  BY ServerAssumption DEF IInv, TypeInv, TypeOK, Index
<1>2. CASE AcptAnnounce
  <2>1. /\ acpt_index' = acpt_index \/ acpt_index' = acpt_index + 1
        /\ conn_map' = conn_map
        /\ acpt_pc = "announce"
        /\ acpt_pc' = "insert" => acpt_index' = acpt_index + 1
        /\ acpt_q' = acpt_q \/ acpt_q' = Append(acpt_q, acpt_index)
    BY <1>2 DEF AcptAnnounce
  <2>2. \A k \in 1 .. Len(acpt_q') : acpt_q'[k] = i =>
          i = acpt_index \/ \E l \in 1 .. Len(acpt_q) : acpt_q[l] = i
    <3>1. CASE acpt_q' = acpt_q
      BY <3>1
    <3>2. CASE acpt_q' = Append(acpt_q, acpt_index)
      <4>1. /\ Len(acpt_q') = Len(acpt_q) + 1 /\ acpt_q'[Len(acpt_q) + 1] = acpt_index
            /\ \A k \in 1 .. Len(acpt_q) : acpt_q'[k] = acpt_q[k]
        BY <1>1, <3>2
      <4>2. \A k \in 1 .. Len(acpt_q') : k = Len(acpt_q) + 1 \/ k \in 1 .. Len(acpt_q)
        BY <1>1, <4>1
      <4> QED BY <4>1, <4>2
    <3> QED BY <2>1, <3>1, <3>2
  <2>3. CASE i >= acpt_index
    BY <2>3 DEF Fresh
  <2>4. CASE i < acpt_index
    <3>1. ~(i >= acpt_index') /\ ~(acpt_pc' = "insert" /\ i = acpt_index' - 1)
      BY <1>1, <2>1, <2>4
    <3>2. i # acpt_index
      BY <1>1, <2>4
    <3> QED BY <2>1, <2>2, <3>1, <3>2 DEF Fresh
  <2> QED BY <1>1, <2>3, <2>4
<1>3. CASE AcptInsert
  BY <1>1, <1>3 DEF AcptInsert, Fresh
<1>4. ASSUME UNCHANGED <<acpt_index, conn_map, acpt_q>>, acpt_pc' = "insert" => acpt_pc = "insert"
      PROVE  Fresh(i)
  BY <1>4 DEF Fresh
<1>5. CASE AcptClose \/ AcptAdmit \/ AcptFinish \/ AcptAccept \/ AcptError
  BY <1>4, <1>5 DEF AcptClose, AcptAdmit, AcptFinish, AcptAccept, AcptError
<1>6. ASSUME NEW j \in Index,
             \/ RecvClose(j) \/ RecvPoll(j) \/ RecvWake(j)
             \/ RecvError(j) \/ RecvTimeout(j) \/ RecvFinish(j)
             \/ \E m \in Msg : RecvData(j, m)
      PROVE  Fresh(i)
  BY <1>4, <1>6 DEF RecvClose, RecvPoll, RecvWake, RecvError, RecvTimeout, RecvFinish, RecvData,
                    acptVars
<1>7. ASSUME NEW j \in Index,
             \/ SendClose(j) \/ SendTake(j) \/ SendOk(j)
             \/ SendError(j) \/ SendTimeout(j) \/ SendFinish(j)
      PROVE  Fresh(i)
  BY <1>4, <1>7 DEF SendClose, SendTake, SendOk, SendError, SendTimeout, SendFinish, acptVars
<1>8. CASE AcceptOne
  <2>1. \A k \in 1 .. Len(acpt_q') : \E l \in 1 .. Len(acpt_q) : acpt_q[l] = acpt_q'[k]
    <3>1. acpt_q # << >> /\ acpt_q' = Tail(acpt_q)
      BY <1>8 DEF AcceptOne
    <3>2. \A k \in 1 .. Len(acpt_q') :
            k + 1 \in 1 .. Len(acpt_q) /\ acpt_q'[k] = acpt_q[k + 1]
      BY <1>1, <3>1
    <3> QED BY <3>2
  <2>2. StartedConn.is_running
    BY DEF StartedConn
  <2>3. i \in DOMAIN conn_map' /\ ~conn_map'[i].is_running =>
          i \in DOMAIN conn_map /\ ~conn_map[i].is_running
    BY <1>8, <2>2, AcceptEntries
  <2>4. UNCHANGED <<acpt_pc, acpt_index>>
    BY <1>8, AcceptEntries
  <2> QED BY <2>1, <2>3, <2>4 DEF Fresh
<1>9. CASE HealthReap
  BY <1>9, ReapEntries DEF Fresh, HealthReap, acptVars
<1> QED BY <1>2, <1>3, <1>5, <1>6, <1>7, <1>8, <1>9, TaskCases

-----------------------------------------------------------------------------
(* The events.  Of those not yet read the proofs need to know whom the     *)
(* errors are about.                                                       *)

Errors == {i \in Index : \E k \in 1 .. Len(events) : events[k] = ConnError(i)}

LEMMA EventTypes ==
  /\ [kind |-> "Error"] \in DtlsServerEvent
  /\ [kind |-> "ListenerClosed"] \in DtlsServerEvent
  /\ \A i \in Index :
       /\ ConnError(i) \in DtlsServerEvent
       /\ [kind |-> "ConnClosed", conn |-> i] \in DtlsServerEvent
       /\ [kind |-> "SendTimeout", conn |-> i] \in DtlsServerEvent
       /\ [kind |-> "RecvTimeout", conn |-> i] \in DtlsServerEvent
  /\ \A e \in DtlsServerEvent : e.kind = "ConnError" => e.conn \in Index /\ e = ConnError(e.conn)
  /\ \A i : ConnError(i).kind = "ConnError" /\ ConnError(i).conn = i
<1>1. \A e \in DtlsServerEvent : e.kind = "ConnError" => e.conn \in Index /\ e = ConnError(e.conn)
  <2> SUFFICES ASSUME NEW e \in DtlsServerEvent, e.kind = "ConnError"
               PROVE  e.conn \in Index /\ e = ConnError(e.conn)
    OBVIOUS
  <2>1. e \in [kind : {"SendTimeout", "RecvTimeout", "ConnError", "ConnClosed"}, conn : Index]
    BY DEF DtlsServerEvent
  <2> QED BY <2>1 DEF ConnError
<1> QED BY <1>1 DEF DtlsServerEvent, ConnError

LEMMA ErrorsKept == UNCHANGED events => Errors' = Errors
  BY DEF Errors

LEMMA ErrorsSent ==
  ASSUME events \in Seq(DtlsServerEvent), NEW es \in Seq(DtlsServerEvent), SendEvents(es)
  PROVE  /\ events' \in Seq(DtlsServerEvent)
         /\ Errors' = Errors \cup {i \in Index : \E k \in 1 .. Len(es) : es[k] = ConnError(i)}
<1>1. events' = events \o es
  BY DEF SendEvents
<1>2. /\ events' \in Seq(DtlsServerEvent) /\ Len(events') = Len(events) + Len(es)
      /\ \A k \in 1 .. Len(events) : events'[k] = events[k]
      /\ \A k \in 1 .. Len(es) : events'[Len(events) + k] = es[k]
  BY <1>1
<1>3. /\ \A k \in 1 .. Len(events) : k \in 1 .. Len(events')
      /\ \A k \in 1 .. Len(es) : Len(events) + k \in 1 .. Len(events')
      /\ \A k \in 1 .. Len(events') :
           \/ k \in 1 .. Len(events)
           \/ k - Len(events) \in 1 .. Len(es) /\ k = Len(events) + (k - Len(events))
  BY <1>2
<1>4. \A i \in Index : (\E k \in 1 .. Len(events') : events'[k] = ConnError(i)) <=>
                         \/ \E k \in 1 .. Len(events) : events[k] = ConnError(i)
                         \/ \E k \in 1 .. Len(es) : es[k] = ConnError(i)
  <2>1. ASSUME NEW i \in Index, NEW k \in 1 .. Len(events'), events'[k] = ConnError(i)
        PROVE  \/ \E l \in 1 .. Len(events) : events[l] = ConnError(i)
               \/ \E l \in 1 .. Len(es) : es[l] = ConnError(i)
    <3>1. CASE k \in 1 .. Len(events)
      BY <1>2, <2>1, <3>1
    <3>2. CASE k - Len(events) \in 1 .. Len(es) /\ k = Len(events) + (k - Len(events))
      <4>1. events'[Len(events) + (k - Len(events))] = es[k - Len(events)]
        BY <1>2, <3>2
      <4> QED BY <2>1, <3>2, <4>1
    <3> QED BY <1>3, <3>1, <3>2
  <2>2. ASSUME NEW i \in Index, NEW k \in 1 .. Len(events), events[k] = ConnError(i)
        PROVE  \E l \in 1 .. Len(events') : events'[l] = ConnError(i)
    BY <1>2, <1>3, <2>2
  <2>3. ASSUME NEW i \in Index, NEW k \in 1 .. Len(es), es[k] = ConnError(i)
        PROVE  \E l \in 1 .. Len(events') : events'[l] = ConnError(i)
    BY <1>2, <1>3, <2>3
  <2> QED BY <2>1, <2>2, <2>3
<1> QED BY <1>2, <1>4 DEF Errors

LEMMA SeqOf ==
  ASSUME NEW S, NEW n \in Nat, NEW f \in [1 .. n -> S]
  PROVE  f \in Seq(S) /\ Len(f) = n
  OBVIOUS

LEMMA OrdersCover ==
  ASSUME NEW S, IsFiniteSet(S), NEW order \in Orders(S)
  PROVE  /\ Len(order) \in Nat /\ DOMAIN order = 1 .. Len(order) /\ order \in Seq(S)
         /\ \A k \in 1 .. Len(order) : order[k] \in S
         /\ \A x \in S : \E k \in 1 .. Len(order) : order[k] = x
<1>1. Cardinality(S) \in Nat
  BY FS_CardinalityType
<1>2. order \in [1 .. Cardinality(S) -> S]
  BY DEF Orders
<1>3. order \in Seq(S) /\ Len(order) = Cardinality(S)
  BY <1>1, <1>2
<1> QED BY <1>1, <1>2, <1>3 DEF Orders

LEMMA RecvErrors ==
  ASSUME IInv, events \in Seq(DtlsServerEvent), RecvSystem
  PROVE  /\ events' \in Seq(DtlsServerEvent)
         /\ \A i \in Errors' \ Errors :
              /\ renet[i] = "none"
              /\ \E k \in 1 .. Len(recv_q) : recv_q[k][1] = i
         /\ Errors \subseteq Errors'
<1> DEFINE unknown == {k \in 1 .. Len(recv_q) : renet[recv_q[k][1]] = "none"}
<1>1. recv_q \in Seq(Index \X Msg) /\ Len(recv_q) \in Nat
  BY DEF IInv, TypeInv, TypeOK
<1>2. IsFiniteSet(unknown)
  <2>1. IsFiniteSet(1 .. Len(recv_q)) /\ unknown \subseteq 1 .. Len(recv_q)
    BY <1>1, FS_Interval
  <2> QED BY <2>1, FS_Subset
<1>3. PICK order \in Orders(unknown) :
        SendEvents([k \in DOMAIN order |-> ConnError(recv_q[order[k]][1])])
  BY DEF RecvSystem
<1>4. /\ Len(order) \in Nat /\ DOMAIN order = 1 .. Len(order)
      /\ \A k \in 1 .. Len(order) : order[k] \in unknown
  BY <1>2, OrdersCover
<1> DEFINE es == [k \in 1 .. Len(order) |-> ConnError(recv_q[order[k]][1])]
<1>5. \A k \in 1 .. Len(order) : recv_q[order[k]][1] \in Index
  BY <1>1, <1>4
<1>6. es \in Seq(DtlsServerEvent) /\ Len(es) = Len(order) /\ SendEvents(es)
  <2>1. SendEvents(es)
    BY <1>3, <1>4
  <2>2. es \in [1 .. Len(order) -> DtlsServerEvent]
    BY <1>5, EventTypes
  <2> HIDE DEF es
  <2> QED BY <1>4, <2>1, <2>2, SeqOf
<1>7. ASSUME NEW i \in Index, NEW k \in 1 .. Len(es), es[k] = ConnError(i)
      PROVE  renet[i] = "none" /\ \E l \in 1 .. Len(recv_q) : recv_q[l][1] = i
  <2>1. recv_q[order[k]][1] = i /\ order[k] \in unknown
    BY <1>4, <1>6, <1>7, EventTypes
  <2> QED BY <2>1
<1> HIDE DEF es
<1> QED BY <1>6, <1>7, ErrorsSent

LEMMA SendErrors ==
  ASSUME IInv, events \in Seq(DtlsServerEvent), NEW busy \in SUBSET Index, NEW m,
         SendSystem(busy, m)
  PROVE  events' \in Seq(DtlsServerEvent) /\ Errors' = Errors \cup Refused(busy)
<1>1. Refused(busy) \subseteq Index /\ IsFiniteSet(Refused(busy))
  BY IndicesFinite DEF Refused
<1>2. PICK order \in Orders(Refused(busy)) :
        SendEvents([k \in DOMAIN order |-> ConnError(order[k])])
  BY DEF SendSystem
<1>3. /\ Len(order) \in Nat /\ DOMAIN order = 1 .. Len(order)
      /\ \A k \in 1 .. Len(order) : order[k] \in Refused(busy)
      /\ \A i \in Refused(busy) : \E k \in 1 .. Len(order) : order[k] = i
  BY <1>1, OrdersCover
<1> DEFINE es == [k \in 1 .. Len(order) |-> ConnError(order[k])]
<1>4. es \in Seq(DtlsServerEvent) /\ Len(es) = Len(order) /\ SendEvents(es)
  <2>1. SendEvents(es)
    BY <1>2, <1>3
  <2>2. es \in [1 .. Len(order) -> DtlsServerEvent]
    BY <1>1, <1>3, EventTypes
  <2> HIDE DEF es
  <2> QED BY <1>3, <2>1, <2>2, SeqOf
<1>5. {i \in Index : \E k \in 1 .. Len(es) : es[k] = ConnError(i)} = Refused(busy)
  <2>1. \A i \in Index, k \in 1 .. Len(es) : es[k] = ConnError(i) <=> order[k] = i
    BY <1>4, EventTypes
  <2> QED BY <1>1, <1>3, <1>4, <2>1
<1> HIDE DEF es
<1> QED BY <1>4, <1>5, ErrorsSent

LEMMA ReapErrors ==
  ASSUME IInv, events \in Seq(DtlsServerEvent), ReapSystem
  PROVE  /\ events' \in Seq(DtlsServerEvent)
         /\ Errors' = Errors \cup {i \in send_fin : send_err[i]} \cup {i \in recv_fin : recv_err[i]}
<1> DEFINE S == Ended(DOMAIN conn_map \ DOMAIN conn_map')
           failed == {i \in send_fin : send_err[i]} \cup {i \in recv_fin : recv_err[i]}
<1>1. send_fin \subseteq Index /\ recv_fin \subseteq Index /\ DOMAIN conn_map \subseteq Index
  BY DEF IInv, TypeInv, TypeOK
<1>2. /\ S \subseteq Index \X (1 .. 3)
      /\ \A x \in S : x[2] # 3 => x[1] \in failed
      /\ \A i \in failed : \E x \in S : x[1] = i /\ x[2] # 3
  <2>1. S \subseteq Index \X (1 .. 3)
    BY <1>1 DEF Ended
  <2>2. \A x \in S : x[2] # 3 => x[1] \in failed
    BY DEF Ended
  <2>3. ASSUME NEW i \in failed PROVE \E x \in S : x[1] = i /\ x[2] # 3
    <3>1. <<i, 1>> \in S \/ <<i, 2>> \in S
      BY DEF Ended
    <3>2. /\ <<i, 1>>[1] = i /\ <<i, 1>>[2] = 1
          /\ <<i, 2>>[1] = i /\ <<i, 2>>[2] = 2
      OBVIOUS
    <3> HIDE DEF S, failed
    <3> QED BY <3>1, <3>2
  <2> QED BY <2>1, <2>2, <2>3
<1>3. IsFiniteSet(S)
  <2>1. IsFiniteSet(Index) /\ IsFiniteSet(1 .. 3)
    <3>1. 1 \in Int /\ 3 \in Int /\ Index \in SUBSET Index
      OBVIOUS
    <3> QED BY <3>1, IndicesFinite, FS_Interval
  <2>2. IsFiniteSet(Index \X (1 .. 3))
    BY <2>1, FS_Product
  <2> HIDE DEF S
  <2> QED BY <1>2, <2>2, FS_Subset
<1>4. PICK order \in Orders(S) : SendEvents([k \in DOMAIN order |-> EndEvent(order[k])])
  BY DEF ReapSystem
<1> HIDE DEF S
<1>5. /\ Len(order) \in Nat /\ DOMAIN order = 1 .. Len(order)
      /\ \A k \in 1 .. Len(order) : order[k] \in S
      /\ \A x \in S : \E k \in 1 .. Len(order) : order[k] = x
  BY <1>3, OrdersCover
<1> DEFINE es == [k \in 1 .. Len(order) |-> EndEvent(order[k])]
<1>6. \A x \in S : /\ EndEvent(x) \in DtlsServerEvent
                   /\ x[2] # 3 => EndEvent(x) = ConnError(x[1])
                   /\ x[2] = 3 => EndEvent(x).kind = "ConnClosed"
  BY <1>2, EventTypes DEF EndEvent
<1>7. es \in Seq(DtlsServerEvent) /\ Len(es) = Len(order) /\ SendEvents(es)
  <2>1. SendEvents(es)
    BY <1>4, <1>5
  <2>2. es \in [1 .. Len(order) -> DtlsServerEvent]
    BY <1>5, <1>6
  <2> HIDE DEF es
  <2> QED BY <1>5, <2>1, <2>2, SeqOf
<1>8. {i \in Index : \E k \in 1 .. Len(es) : es[k] = ConnError(i)} = failed
  <2>1. ASSUME NEW i \in Index, NEW k \in 1 .. Len(es), es[k] = ConnError(i) PROVE i \in failed
    <3>1. order[k] \in S /\ EndEvent(order[k]) = ConnError(i)
      BY <1>5, <1>7, <2>1
    <3>2. order[k][2] # 3
      BY <1>6, <3>1, EventTypes
    <3>3. order[k][1] = i
      BY <1>6, <3>1, <3>2, EventTypes
    <3> QED BY <1>2, <3>1, <3>2, <3>3
  <2>2. ASSUME NEW i \in failed PROVE i \in Index /\ \E k \in 1 .. Len(es) : es[k] = ConnError(i)
    <3>1. PICK x \in S : x[1] = i /\ x[2] # 3
      BY <1>2
    <3>2. PICK k \in 1 .. Len(order) : order[k] = x
      BY <1>5
    <3> QED BY <1>1, <1>6, <1>7, <3>1, <3>2
  <2> QED BY <2>1, <2>2
<1> HIDE DEF es, failed
<1>9. events' \in Seq(DtlsServerEvent) /\ Errors' = Errors \cup failed
  BY <1>7, <1>8, ErrorsSent
<1> QED BY <1>9 DEF failed

\* The other systems report no error of a connection.
LEMMA NoErrors ==
  ASSUME IInv, events \in Seq(DtlsServerEvent), AcptSystem \/ HealthEventSystem \/ TimeoutEventSystem
  PROVE  events' \in Seq(DtlsServerEvent) /\ Errors' = Errors
<1>1. ASSUME NEW es \in Seq(DtlsServerEvent), SendEvents(es),
             \A k \in 1 .. Len(es) : es[k].kind # "ConnError"
      PROVE  events' \in Seq(DtlsServerEvent) /\ Errors' = Errors
  <2>1. {i \in Index : \E k \in 1 .. Len(es) : es[k] = ConnError(i)} = {}
    BY <1>1, EventTypes
  <2> QED BY <1>1, <2>1, ErrorsSent
<1>2. CASE AcptSystem
  <2>1. CASE UNCHANGED events
    BY <2>1, ErrorsKept
  <2>2. CASE SendEvents(<<[kind |-> "Error"]>>)
    <3> DEFINE es == <<[kind |-> "Error"]>>
    <3>1. es \in Seq(DtlsServerEvent) /\ \A k \in 1 .. Len(es) : es[k].kind # "ConnError"
      BY EventTypes
    <3> HIDE DEF es
    <3> QED BY <1>1, <2>2, <3>1 DEF es
  <2> QED BY <1>2, <2>1, <2>2 DEF AcptSystem
<1>3. CASE HealthEventSystem
  <2> DEFINE es == When(acpt_handle /\ ~acpt_handle' /\ acpt_err, [kind |-> "Error"])
                     \o When(acpt_handle /\ ~acpt_handle', [kind |-> "ListenerClosed"])
  <2>1. \A b : When(b, [kind |-> "Error"]) \in {<< >>, <<[kind |-> "Error"]>>}
    BY DEF When
  <2>2. \A b : When(b, [kind |-> "ListenerClosed"]) \in {<< >>, <<[kind |-> "ListenerClosed"]>>}
    BY DEF When
  <2>3. es \in Seq(DtlsServerEvent) /\ \A k \in 1 .. Len(es) : es[k].kind # "ConnError"
    <3>1. \A q \in {<< >>, <<[kind |-> "Error"]>>}, r \in {<< >>, <<[kind |-> "ListenerClosed"]>>} :
            /\ q \o r \in Seq(DtlsServerEvent)
            /\ \A k \in 1 .. Len(q \o r) : (q \o r)[k].kind # "ConnError"
      <4>1. << >> \in Seq(DtlsServerEvent)
        BY EmptySeq
      <4>2. ASSUME NEW q \in Seq(DtlsServerEvent), NEW r \in Seq(DtlsServerEvent),
                   \A k \in 1 .. Len(q) : q[k].kind # "ConnError",
                   \A k \in 1 .. Len(r) : r[k].kind # "ConnError"
            PROVE  /\ q \o r \in Seq(DtlsServerEvent)
                   /\ \A k \in 1 .. Len(q \o r) : (q \o r)[k].kind # "ConnError"
        <5>1. \A k \in 1 .. Len(q \o r) :
                \/ k \in 1 .. Len(q) /\ (q \o r)[k] = q[k]
                \/ k - Len(q) \in 1 .. Len(r) /\ (q \o r)[k] = r[k - Len(q)]
          OBVIOUS
        <5> QED BY <4>2, <5>1
      <4>3. \A e \in DtlsServerEvent : e.kind # "ConnError" =>
              <<e>> \in Seq(DtlsServerEvent) /\ \A k \in 1 .. Len(<<e>>) : <<e>>[k].kind # "ConnError"
        OBVIOUS
      <4>4. ASSUME NEW e \in DtlsServerEvent, e.kind # "ConnError", NEW q \in {<< >>, <<e>>}
            PROVE  q \in Seq(DtlsServerEvent) /\ \A k \in 1 .. Len(q) : q[k].kind # "ConnError"
        <5>1. CASE q = << >>
          BY <4>1, <5>1
        <5>2. CASE q = <<e>>
          BY <4>3, <4>4, <5>2
        <5> QED BY <4>4, <5>1, <5>2
      <4>5. /\ [kind |-> "Error"].kind # "ConnError"
            /\ [kind |-> "ListenerClosed"].kind # "ConnError"
        OBVIOUS
      <4> QED BY <4>2, <4>4, <4>5, EventTypes
    <3> QED BY <2>1, <2>2, <3>1
  <2>4. SendEvents(es)
    BY <1>3 DEF HealthEventSystem
  <2> HIDE DEF es
  <2> QED BY <1>1, <2>3, <2>4
<1>4. CASE TimeoutEventSystem
  <2>1. timeout_q \in Seq(Timeout) /\ \A k \in 1 .. Len(timeout_q) : timeout_q[k].conn \in Index
    BY DEF IInv, TypeInv, TypeOK, Timeout
  <2> DEFINE es == [k \in 1 .. Len(timeout_q) |->
                     [kind |-> IF timeout_q[k].kind = "send" THEN "SendTimeout" ELSE "RecvTimeout",
                      conn |-> timeout_q[k].conn]]
  <2>2. \A k \in 1 .. Len(timeout_q) :
          es[k] \in DtlsServerEvent /\ es[k].kind # "ConnError"
    BY <2>1 DEF DtlsServerEvent
  <2>3. es \in Seq(DtlsServerEvent) /\ Len(es) = Len(timeout_q)
    BY <2>1, <2>2
  <2>4. SendEvents(es)
    BY <1>4 DEF TimeoutEventSystem
  <2> HIDE DEF es
  <2> QED BY <1>1, <2>2, <2>3, <2>4
<1> QED BY <1>2, <1>3, <1>4

=============================================================================
