-------------------------- MODULE DtlsServerProofs --------------------------
(***************************************************************************)
(* The safety properties of DtlsServer, proved for every value of the      *)
(* constants.  None of them is inductive by itself; IInv, the conjunction  *)
(* of the parts below, is.                                                 *)
(***************************************************************************)
EXTENDS DtlsServer, FiniteSetTheorems, SequenceTheorems, TLAPS

\* The main loop holds the acceptor's handle until it has joined the task.
AcptOwned == acpt_handle <=> acpt_pc # "none"

\* An entry that start_conn has not touched is as DtlsConn::new made it.
UnstartedIsNew ==
  \A i \in DOMAIN conn_map : ~conn_map[i].is_running => conn_map[i] = NewConn

\* The acceptor's counter is ahead of every index in the map; an index announced
\* and not inserted yet is the one just behind it, and ahead of the map too.
CounterAhead ==
  /\ \A i \in DOMAIN conn_map : i < acpt_index
  /\ acpt_pc = "insert" =>
       /\ acpt_index > 1
       /\ \A i \in DOMAIN conn_map : i < acpt_index - 1

\* acpt_rx holds ascending indices, each of a connection not started yet.
QueueAscends ==
  \A k \in 1 .. Len(acpt_q) :
    /\ acpt_q[k] < acpt_index
    /\ acpt_q[k] \in DOMAIN conn_map => conn_map[acpt_q[k]] = NewConn
    /\ \A l \in 1 .. k - 1 : acpt_q[l] < acpt_q[k]

\* Between the check and the insertion only the acceptor could fill the place it
\* has found.
PlaceLeft ==
  /\ Cardinality(DOMAIN conn_map) <= MaxClients
  /\ acpt_pc \in {"announce", "insert"} => Cardinality(DOMAIN conn_map) < MaxClients

\* A DTLS connection that is open is in the map and neither of its loops has ended.
OpenIsOwned ==
  \A i \in Index : conn_open[i] =>
    /\ i \in DOMAIN conn_map
    /\ recv_pc[i] # "done"
    /\ send_pc[i] # "done"

\* A close signal is on its way only to a live loop, and only after the sender side
\* of its channel was taken by disconnect or close.
SignalsWereSent ==
  /\ acpt_close => ~opened
  /\ \A i \in Index :
       /\ recv_close[i] => RecverAlive(i) /\ ~conn_map[i].close_recv_tx
       /\ send_close[i] => SenderAlive(i) /\ ~conn_map[i].send_tx

-----------------------------------------------------------------------------
(* Types, and the acceptor's counter, which gives every index it inserts.  *)

\* While send_loop is in conn.send it holds the message.
FlightHeld ==
  \A i \in Index : send_pc[i] \in {"send", "refused"} => Len(flight[i]) = 1

TypeInv == TypeOK /\ CounterAhead /\ FlightHeld

LEMMA ConnTypes ==
  /\ NewConn \in DtlsConn
  /\ StartedConn \in DtlsConn
  /\ \A conn \in DtlsConn : Signalled(conn) \in DtlsConn
BY DEF NewConn, StartedConn, DtlsConn, Signalled

LEMMA ReapedFields ==
  ASSUME TypeOK, NEW i \in DOMAIN conn_map
  PROVE  /\ Reaped(i) \in DtlsConn
         /\ Reaped(i).is_running = conn_map[i].is_running
         /\ Reaped(i).close_recv_tx = conn_map[i].close_recv_tx
         /\ Reaped(i).send_tx = conn_map[i].send_tx
         /\ Reaped(i).send_handle <=> conn_map[i].send_handle /\ i \notin send_fin
         /\ Reaped(i).recv_handle <=> conn_map[i].recv_handle /\ i \notin recv_fin
<1>1. conn_map[i] \in DtlsConn
  BY DEF TypeOK
<1>2. CASE i \in send_fin /\ i \in recv_fin
  <2>1. Reaped(i) = [conn_map[i] EXCEPT !.send_handle = FALSE, !.recv_handle = FALSE]
    BY <1>2, Zenon DEF Reaped
  <2> QED BY <1>1, <1>2, <2>1 DEF DtlsConn
<1>3. CASE i \in send_fin /\ i \notin recv_fin
  <2>1. Reaped(i) = [conn_map[i] EXCEPT !.send_handle = FALSE, !.recv_handle = @]
    BY <1>3, Zenon DEF Reaped
  <2> QED BY <1>1, <1>3, <2>1 DEF DtlsConn
<1>4. CASE i \notin send_fin /\ i \in recv_fin
  <2>1. Reaped(i) = [conn_map[i] EXCEPT !.send_handle = @, !.recv_handle = FALSE]
    BY <1>4, Zenon DEF Reaped
  <2> QED BY <1>1, <1>4, <2>1 DEF DtlsConn
<1>5. CASE i \notin send_fin /\ i \notin recv_fin
  <2>1. Reaped(i) = [conn_map[i] EXCEPT !.send_handle = @, !.recv_handle = @]
    BY <1>5, Zenon DEF Reaped
  <2> QED BY <1>1, <1>5, <2>1 DEF DtlsConn
<1> QED
  BY <1>2, <1>3, <1>4, <1>5

LEMMA EmptyQueues ==
  << >> \in Seq(Index) /\ << >> \in Seq(Msg) /\ << >> \in Seq(Index \X Msg)
    /\ << >> \in Seq(Timeout)
BY EmptySeq

\* A queue that an element may have been appended to.
LEMMA AppendedOrNot ==
  ASSUME NEW S, NEW q \in Seq(S), NEW e \in S, NEW r, r = q \/ r = Append(q, e)
  PROVE  r \in Seq(S)
BY AppendProperties

LEMMA TypeInit == Init => TypeInv
<1> SUFFICES ASSUME Init PROVE TypeInv
  OBVIOUS
<1>1. 1 \in Index
  BY ServerAssumption DEF Index
<1>2. DOMAIN conn_map = {} /\ conn_map \in [{} -> DtlsConn]
  BY DEF Init
<1>3. TypeOK
  BY <1>1, <1>2, EmptyQueues DEF Init, TypeOK, AcptPc, RecvPc, SendPc
<1>4. CounterAhead /\ FlightHeld
  BY <1>2 DEF Init, CounterAhead, FlightHeld
<1> QED
  BY <1>3, <1>4 DEF TypeInv

LEMMA TypeStep == TypeInv /\ [Next]_vars => TypeInv'
<1> SUFFICES ASSUME TypeInv, [Next]_vars PROVE TypeInv'
  OBVIOUS
<1> USE DEF TypeInv, TypeOK, CounterAhead, FlightHeld, AcptPc, RecvPc, SendPc,
            mainVars, acptVars, recvVars, sendVars, outVars
<1>1. CASE Acceptor
  <2>1. CASE AcptClose BY <2>1 DEF AcptClose
  <2>2. CASE AcptAdmit BY <2>2 DEF AcptAdmit
  <2>3. CASE AcptAnnounce
    <3>1. acpt_index' \in Index
      BY <2>3, ServerAssumption DEF AcptAnnounce, IndexExhausted, Index
    <3>4. acpt_q' \in Seq(Index)
      <4>1. acpt_q' = acpt_q \/ acpt_q' = Append(acpt_q, acpt_index)
        BY <2>3 DEF AcptAnnounce
      <4>2. acpt_q \in Seq(Index) /\ acpt_index \in Index
        OBVIOUS
      <4> HIDE DEF TypeInv, TypeOK
      <4> QED BY <4>1, <4>2, AppendedOrNot, Zenon
    <3>2. TypeOK'
      BY <2>3, <3>1, <3>4 DEF AcptAnnounce
    <3>3. CounterAhead' /\ FlightHeld'
      BY <2>3, ServerAssumption DEF AcptAnnounce, Index
    <3> QED BY <3>2, <3>3
  <2>4. CASE AcptInsert
    <3> DEFINE idx == acpt_index - 1
    <3>1. idx \in Index
      BY <2>4, ServerAssumption DEF AcptInsert, Index
    <3>2. conn_map' \in [DOMAIN conn_map \cup {idx} -> DtlsConn]
      BY <2>4, <3>1, ConnTypes DEF AcptInsert
    <3>3. TypeOK'
      BY <2>4, <3>1, <3>2 DEF AcptInsert
    <3>4. CounterAhead' /\ FlightHeld'
      BY <2>4, <3>1, <3>2 DEF AcptInsert, Index
    <3> QED BY <3>3, <3>4
  <2>5. CASE AcptFinish BY <2>5 DEF AcptFinish
  <2> QED BY <1>1, <2>1, <2>2, <2>3, <2>4, <2>5 DEF Acceptor
<1>2. CASE Network
  BY <1>2 DEF Network, AcptAccept, AcptError
<1>3. CASE App
  <2>1. CASE Start
    <3>1. 1 \in Index
      BY ServerAssumption DEF Index
    <3> QED BY <2>1, <3>1, EmptyQueues DEF Start, IsClosed
  <2>2. CASE Recv BY <2>2 DEF Recv
  <2>3. ASSUME NEW C \in SUBSET Index, DisconnectEach(C) PROVE TypeInv'
    <3>1. conn_map' \in [DOMAIN conn_map -> DtlsConn]
      BY <2>3, ConnTypes DEF DisconnectEach, SignalEach
    <3> QED BY <2>3, <3>1 DEF DisconnectEach, SignalEach
  <2>4. CASE DisconnectAll BY <2>3, <2>4 DEF DisconnectAll
  <2>5. CASE Close
    <3>1. acpt_close' \in BOOLEAN
      BY <2>5, Zenon DEF Close, CloseAcptLoop, CloseServer, AcptAlive
    <3> QED BY <2>5, <3>1, EmptyQueues DEF Close, CloseAcptLoop, CloseServer
  <2>6. ASSUME NEW m \in Msg, Broadcast(m) PROVE TypeInv'
    BY <2>6 DEF Broadcast
  <2>7. ASSUME NEW i \in Index, Disconnect(i) PROVE TypeInv'
    BY <2>3, <2>7 DEF Disconnect
  <2>8. ASSUME NEW i \in Index, NEW m \in Msg, Send(i, m) PROVE TypeInv'
    BY <2>8 DEF Send
  <2> QED BY <1>3, <2>1, <2>2, <2>4, <2>5, <2>6, <2>7, <2>8 DEF App
<1>4. CASE Frame
  <2>1. CASE AcceptOne
    <3>1. acpt_q' \in Seq(Index)
      BY <2>1 DEF AcceptOne
    <3>2. conn_map' \in [DOMAIN conn_map -> DtlsConn]
      <4>1. conn_map \in [DOMAIN conn_map -> DtlsConn]
        OBVIOUS
      <4>2. \/ conn_map' = conn_map
            \/ \E i : conn_map' = [conn_map EXCEPT ![i] = StartedConn]
        <5> HIDE DEF TypeInv, TypeOK
        <5> QED BY <2>1 DEF AcceptOne
      <4> HIDE DEF TypeInv, TypeOK
      <4> QED BY <4>1, <4>2, ConnTypes
    <3> QED BY <2>1, <3>1, <3>2 DEF AcceptOne
  <2>2. CASE AcceptDone BY <2>2 DEF AcceptDone
  <2>3. CASE HealthSnapshot
    BY <2>3 DEF HealthSnapshot, HealthCheckAcpt, SenderEnded, RecverEnded
  <2>4. CASE HealthReap
    <3>1. \A i \in DOMAIN conn_map : Reaped(i) \in DtlsConn
      BY ReapedFields
    <3>2. /\ DOMAIN conn_map' \subseteq DOMAIN conn_map
          /\ conn_map' \in [DOMAIN conn_map' -> DtlsConn]
      BY <2>4, <3>1 DEF HealthReap
    <3> QED BY <2>4, <3>2 DEF HealthReap
  <2>5. CASE TimeoutEvents BY <2>5 DEF TimeoutEvents
  <2> QED BY <1>4, <2>1, <2>2, <2>3, <2>4, <2>5 DEF Frame
<1>5. ASSUME NEW i \in Index, Recver(i) PROVE TypeInv'
  <2>1. CASE RecvClose(i) BY <2>1 DEF RecvClose
  <2>2. CASE RecvPoll(i) BY <2>2 DEF RecvPoll
  <2>3. CASE RecvWake(i) BY <2>3 DEF RecvWake
  <2>4. CASE RecvError(i) BY <2>4 DEF RecvError
  <2>5. CASE RecvTimeout(i)
    <3>1. timeout_q' \in Seq(Timeout)
      <4>1. [kind |-> "recv", conn |-> i] \in Timeout
        BY DEF Timeout
      <4>2. timeout_q' = timeout_q \/ timeout_q' = Append(timeout_q, [kind |-> "recv", conn |-> i])
        BY <2>5 DEF RecvTimeout
      <4>3. timeout_q \in Seq(Timeout)
        OBVIOUS
      <4> HIDE DEF TypeInv, TypeOK
      <4> QED BY <4>1, <4>2, <4>3, AppendedOrNot, Zenon
    <3> QED BY <2>5, <3>1 DEF RecvTimeout
  <2>6. CASE RecvFinish(i)
    <3>1. recv_err' \in [Index -> BOOLEAN]
      BY <2>6 DEF RecvFinish
    <3> QED BY <2>6, <3>1 DEF RecvFinish
  <2>7. ASSUME NEW m \in Msg, RecvData(i, m) PROVE TypeInv'
    <3>1. recv_q' \in Seq(Index \X Msg)
      <4>1. <<i, m>> \in Index \X Msg
        OBVIOUS
      <4>2. recv_q' = recv_q \/ recv_q' = Append(recv_q, <<i, m>>)
        BY <2>7 DEF RecvData
      <4>3. recv_q \in Seq(Index \X Msg)
        OBVIOUS
      <4> HIDE DEF TypeInv, TypeOK
      <4> QED BY <4>1, <4>2, <4>3, AppendedOrNot, Zenon
    <3> QED BY <2>7, <3>1 DEF RecvData
  <2> QED BY <1>5, <2>1, <2>2, <2>3, <2>4, <2>5, <2>6, <2>7 DEF Recver
<1>6. ASSUME NEW i \in Index, Sender(i) PROVE TypeInv'
  <2>1. CASE SendClose(i) BY <2>1 DEF SendClose
  <2>2. CASE SendTake(i)
    <3>1. Head(send_q[i]) \in Msg /\ Tail(send_q[i]) \in Seq(Msg)
      BY <2>2 DEF SendTake
    <3>2. TypeOK' /\ CounterAhead'
      BY <2>2, <3>1 DEF SendTake
    <3>3. FlightHeld'
      BY <2>2, <3>1 DEF SendTake
    <3> QED BY <3>2, <3>3
  <2>3. CASE SendOk(i) BY <2>3 DEF SendOk
  <2>4. CASE SendError(i) BY <2>4 DEF SendError
  <2>5. CASE SendTimeout(i)
    <3>1. timeout_q' \in Seq(Timeout)
      <4>1. flight[i][1] \in Msg
        BY <2>5 DEF SendTimeout, HandBack
      <4>2. [kind |-> "send", conn |-> i, bytes |-> flight[i][1]] \in Timeout
        BY <4>1 DEF Timeout
      <4>3. \/ timeout_q' = timeout_q
            \/ timeout_q' = Append(timeout_q,
                                  [kind |-> "send", conn |-> i, bytes |-> flight[i][1]])
        BY <2>5 DEF SendTimeout, HandBack
      <4>4. timeout_q \in Seq(Timeout)
        OBVIOUS
      <4> HIDE DEF TypeInv, TypeOK
      <4> QED BY <4>2, <4>3, <4>4, AppendedOrNot, Zenon
    <3>2. send_q' = send_q /\ flight' = [flight EXCEPT ![i] = << >>]
      BY <2>5 DEF SendTimeout, HandBack
    <3>5. send_pc' \in [Index -> SendPc] /\ send_err' \in [Index -> BOOLEAN]
      BY <2>5 DEF SendTimeout, HandBack
    <3>3. TypeOK' /\ CounterAhead'
      BY <2>5, <3>1, <3>2, <3>5, EmptyQueues DEF SendTimeout, HandBack
    <3>4. FlightHeld'
      BY <2>5, <3>2 DEF SendTimeout, HandBack
    <3> QED BY <3>3, <3>4
  <2>6. CASE SendFinish(i)
    <3>1. send_err' \in [Index -> BOOLEAN]
      BY <2>6 DEF SendFinish
    <3> QED BY <2>6, <3>1 DEF SendFinish
  <2> QED BY <1>6, <2>1, <2>2, <2>3, <2>4, <2>5, <2>6 DEF Sender
<1>7. CASE UNCHANGED vars
  BY <1>7 DEF vars
<1> QED
  BY <1>1, <1>2, <1>3, <1>4, <1>5, <1>6, <1>7 DEF Next

\* Every state is well typed: no key outside u64, no handle or channel end in a
\* connection entry that acpt_loop, start_conn, disconnect or health_check would
\* not have put there, no counter past the largest index.
THEOREM TypeCorrect == Spec => []TypeOK
<1>1. Spec => []TypeInv
  BY TypeInit, TypeStep, PTL DEF Spec
<1>2. TypeInv => TypeOK
  BY DEF TypeInv
<1> QED
  BY <1>1, <1>2, PTL

\* The counter's part of TypeInv is the debug_assert! of acpt_loop: whatever was
\* started, stopped and started again before, an insertion replaces no entry.
THEOREM InsertsAreFresh == Spec => []InsertIsFresh
<1>1. Spec => []TypeInv
  BY TypeInit, TypeStep, PTL DEF Spec
<1>2. TypeInv => InsertIsFresh
  BY DEF TypeInv, TypeOK, CounterAhead, InsertIsFresh, Index
<1> QED
  BY <1>1, <1>2, PTL

-----------------------------------------------------------------------------
(* The steps of the system, one by one.                                    *)

LEMMA StepCases ==
  [Next]_vars =>
         \/ AcptClose \/ AcptAdmit \/ AcptAnnounce \/ AcptInsert \/ AcptFinish
         \/ AcptAccept \/ AcptError
         \/ Start \/ Recv \/ DisconnectAll \/ Close
         \/ AcceptOne \/ AcceptDone \/ HealthSnapshot \/ HealthReap \/ TimeoutEvents
         \/ UNCHANGED vars
         \/ \E m \in Msg : Broadcast(m)
         \/ \E i \in Index : \/ Disconnect(i)
                             \/ RecvClose(i) \/ RecvPoll(i) \/ RecvWake(i)
                             \/ RecvError(i) \/ RecvTimeout(i) \/ RecvFinish(i)
                             \/ SendClose(i) \/ SendTake(i) \/ SendOk(i)
                             \/ SendError(i) \/ SendTimeout(i) \/ SendFinish(i)
                             \/ \E m \in Msg : Send(i, m) \/ RecvData(i, m)
BY Zenon DEF Next, Acceptor, Network, App, Frame, Recver, Sender

-----------------------------------------------------------------------------
(* max_clients.                                                            *)

LEMMA IndicesFinite == \A S \in SUBSET Index : IsFiniteSet(S)
<1>1. IsFiniteSet(Index)
  <2>1. 1 \in Int /\ MaxIndex \in Int
    BY ServerAssumption
  <2> QED BY <2>1, FS_Interval DEF Index
<1> QED
  BY <1>1, FS_Subset

LEMMA PlaceStep == TypeInv /\ PlaceLeft /\ [Next]_vars => PlaceLeft'
<1> SUFFICES ASSUME TypeInv, PlaceLeft, [Next]_vars PROVE PlaceLeft'
  OBVIOUS
<1> DEFINE D == DOMAIN conn_map
<1>1. D \subseteq Index /\ IsFiniteSet(D) /\ Cardinality(D) \in Nat
  BY IndicesFinite, FS_CardinalityType DEF TypeInv, TypeOK
<1> USE DEF PlaceLeft
<1>2. CASE AcptInsert
  <2>1. DOMAIN conn_map' = D \cup {acpt_index - 1}
    BY <1>2 DEF AcptInsert
  <2>2. /\ Cardinality(D \cup {acpt_index - 1}) <= Cardinality(D) + 1
        /\ Cardinality(D \cup {acpt_index - 1}) \in Nat
    BY <1>1, FS_AddElement
  <2>3. acpt_pc = "insert" /\ acpt_pc' = "select"
    BY <1>2 DEF AcptInsert
  <2> QED BY <1>1, <2>1, <2>2, <2>3, ServerAssumption
<1>3. CASE HealthReap
  <2>1. DOMAIN conn_map' \in SUBSET D
    BY <1>3 DEF HealthReap
  <2>2. /\ Cardinality(DOMAIN conn_map') <= Cardinality(D)
        /\ Cardinality(DOMAIN conn_map') \in Nat
    BY <1>1, <2>1, FS_Subset, FS_CardinalityType
  <2> QED BY <1>1, <1>3, <2>2, ServerAssumption DEF HealthReap, acptVars
<1>4. CASE AcptAdmit
  BY <1>1, <1>4, ServerAssumption DEF AcptAdmit, AtCapacity
<1>5. ASSUME DOMAIN conn_map' = D,
             acpt_pc' \in {"announce", "insert"} => acpt_pc \in {"announce", "insert"}
      PROVE PlaceLeft'
  BY <1>5
<1>6. CASE \/ AcptClose \/ AcptAnnounce \/ AcptFinish \/ AcptAccept \/ AcptError
  BY <1>5, <1>6 DEF AcptClose, AcptAnnounce, AcptFinish, AcptAccept, AcptError
<1>7. CASE \/ Start \/ Recv \/ DisconnectAll \/ Close
           \/ \E m \in Msg : Broadcast(m)
           \/ \E i \in Index, m \in Msg : Send(i, m)
  BY <1>5, <1>7
     DEF Start, Recv, DisconnectAll, Close, CloseAcptLoop, CloseServer, Broadcast, Send, DisconnectEach, SignalEach, acptVars
<1>11. ASSUME NEW i \in Index, Disconnect(i) PROVE PlaceLeft'
  BY <1>5, <1>11 DEF Disconnect, DisconnectEach, SignalEach, acptVars
<1>8. CASE AcceptOne \/ AcceptDone \/ HealthSnapshot \/ TimeoutEvents \/ UNCHANGED vars
  BY <1>5, <1>8
     DEF AcceptOne, AcceptDone, HealthSnapshot, HealthCheckAcpt, TimeoutEvents, vars, acptVars
<1>9. ASSUME NEW i \in Index,
             \/ RecvClose(i) \/ RecvPoll(i) \/ RecvWake(i)
             \/ RecvError(i) \/ RecvTimeout(i) \/ RecvFinish(i)
             \/ \E m \in Msg : RecvData(i, m)
      PROVE PlaceLeft'
  BY <1>5, <1>9 DEF RecvClose, RecvPoll, RecvWake, RecvError, RecvTimeout,
                    RecvFinish, RecvData, acptVars
<1>10. ASSUME NEW i \in Index,
              \/ SendClose(i) \/ SendTake(i) \/ SendOk(i)
              \/ SendError(i) \/ SendTimeout(i) \/ SendFinish(i)
       PROVE PlaceLeft'
  BY <1>5, <1>10 DEF SendClose, SendTake, SendOk, SendError, SendTimeout, HandBack, SendFinish, acptVars
<1> HIDE DEF PlaceLeft, D
<1> QED
  BY <1>2, <1>3, <1>4, <1>6, <1>7, <1>8, <1>9, <1>10, <1>11, StepCases

\* The number of connections never exceeds max_clients, for any number of clients
\* and any interleaving of the acceptor with start, disconnect and health_check.
THEOREM CapacityIsRespected == Spec => []CapacityRespected
<1>1. Init => PlaceLeft
  BY FS_EmptySet, ServerAssumption DEF Init, PlaceLeft
<1>2. PlaceLeft => CapacityRespected
  BY DEF PlaceLeft, CapacityRespected
<1> QED
  BY <1>1, <1>2, TypeInit, TypeStep, PlaceStep, PTL DEF Spec

-----------------------------------------------------------------------------
(* Who owns the tasks.                                                     *)

OwnedInv == AcptOwned /\ LoopsAreOwned /\ HealthUnwrapsSucceed

LEMMA OwnedStep == TypeInv /\ OwnedInv /\ [Next]_vars => OwnedInv'
<1> SUFFICES ASSUME TypeInv, OwnedInv, [Next]_vars PROVE OwnedInv'
  OBVIOUS
<1>1. TypeOK /\ CounterAhead /\ AcptOwned /\ LoopsAreOwned /\ HealthUnwrapsSucceed
  BY DEF TypeInv, OwnedInv
<1>2. CASE AcptInsert
  <2> DEFINE idx == acpt_index - 1
  <2>1. idx \in Index /\ idx \notin DOMAIN conn_map
    BY <1>1, <1>2, ServerAssumption DEF AcptInsert, CounterAhead, TypeOK, Index
  <2>2. /\ DOMAIN conn_map' = DOMAIN conn_map \cup {idx}
        /\ conn_map'[idx] = NewConn
        /\ \A i \in DOMAIN conn_map : conn_map'[i] = conn_map[i]
    BY <1>2, <2>1 DEF AcptInsert
  <2>3. LoopsAreOwned'
    BY <1>1, <1>2, <2>1, <2>2
       DEF AcptInsert, LoopsAreOwned, NewConn, recvVars, sendVars
  <2>4. HealthUnwrapsSucceed'
    BY <1>1, <1>2, <2>1, <2>2
       DEF AcptInsert, HealthUnwrapsSucceed, recvVars, sendVars, mainVars
  <2>5. AcptOwned'
    BY <1>1, <1>2 DEF AcptInsert, AcptOwned, mainVars
  <2> QED BY <2>3, <2>4, <2>5 DEF OwnedInv
<1>3. CASE AcceptOne
  <2>1. CASE CanStart(Head(acpt_q))
    <3> DEFINE i == Head(acpt_q)
    <3>1. /\ i \in DOMAIN conn_map /\ ~conn_map[i].recv_handle /\ ~conn_map[i].send_handle
          /\ conn_map' = [conn_map EXCEPT ![i] = StartedConn]
          /\ recv_pc' = [recv_pc EXCEPT ![i] = "select"]
          /\ send_pc' = [send_pc EXCEPT ![i] = "select"]
          /\ UNCHANGED <<acpt_handle, acpt_pc, send_fin, recv_fin>>
      BY <1>3, <2>1 DEF AcceptOne, CanStart, mainVars
    <3>2. LoopsAreOwned'
      BY <1>1, <3>1 DEF TypeOK, LoopsAreOwned, StartedConn
    <3>3. HealthUnwrapsSucceed'
      BY <1>1, <3>1 DEF TypeOK, HealthUnwrapsSucceed, StartedConn
    <3> QED BY <1>1, <3>1, <3>2, <3>3 DEF AcptOwned, OwnedInv
  <2>2. CASE ~CanStart(Head(acpt_q))
    BY <1>1, <1>3, <2>2
       DEF AcceptOne, OwnedInv, AcptOwned, LoopsAreOwned, HealthUnwrapsSucceed, mainVars
  <2> QED BY <2>1, <2>2
<1>4. CASE HealthSnapshot
  <2>1. LoopsAreOwned'
    BY <1>1, <1>4 DEF HealthSnapshot, HealthCheckAcpt, LoopsAreOwned, recvVars, sendVars
  <2>2. HealthUnwrapsSucceed'
    BY <1>1, <1>4
       DEF HealthSnapshot, HealthCheckAcpt, HealthUnwrapsSucceed, SenderEnded, RecverEnded, recvVars, sendVars
  <2>3. AcptOwned'
    BY <1>1, <1>4 DEF HealthSnapshot, HealthCheckAcpt, AcptOwned
  <2> QED BY <2>1, <2>2, <2>3 DEF OwnedInv
<1>5. CASE HealthReap
  <2>1. \A i \in DOMAIN conn_map' : i \in DOMAIN conn_map /\ conn_map'[i] = Reaped(i)
    BY <1>5 DEF HealthReap
  <2>2. \A i \in DOMAIN conn_map \ DOMAIN conn_map' :
          ~Reaped(i).send_handle /\ ~Reaped(i).recv_handle
    BY <1>5 DEF HealthReap, IsConnClosed
  <2>3. \A i \in Index :
          /\ send_pc'[i] # "none" <=> send_pc[i] # "none" /\ i \notin send_fin
          /\ recv_pc'[i] # "none" <=> recv_pc[i] # "none" /\ i \notin recv_fin
    BY <1>5 DEF HealthReap
  <2>4. LoopsAreOwned'
    <3> SUFFICES ASSUME NEW i \in Index
                 PROVE  /\ recv_pc'[i] # "none"
                            <=> i \in DOMAIN conn_map' /\ conn_map'[i].recv_handle
                        /\ send_pc'[i] # "none"
                            <=> i \in DOMAIN conn_map' /\ conn_map'[i].send_handle
      BY DEF LoopsAreOwned
    <3> QED BY <1>1, <2>1, <2>2, <2>3, ReapedFields DEF LoopsAreOwned
  <2>5. HealthUnwrapsSucceed'
    BY <1>5 DEF HealthReap, HealthUnwrapsSucceed
  <2>6. AcptOwned'
    BY <1>1, <1>5 DEF HealthReap, AcptOwned, acptVars
  <2> QED BY <2>4, <2>5, <2>6 DEF OwnedInv
<1>6. ASSUME NEW C \in SUBSET Index, DisconnectEach(C) PROVE OwnedInv'
  <2>1. /\ DOMAIN conn_map' = DOMAIN conn_map
        /\ \A i \in DOMAIN conn_map :
             /\ conn_map'[i].recv_handle = conn_map[i].recv_handle
             /\ conn_map'[i].send_handle = conn_map[i].send_handle
    BY <1>1, <1>6 DEF DisconnectEach, SignalEach, Signalled, TypeOK, DtlsConn
  <2> QED BY <1>1, <1>6, <2>1
          DEF DisconnectEach, SignalEach, OwnedInv, AcptOwned, LoopsAreOwned, HealthUnwrapsSucceed,
              mainVars, acptVars
<1>7. CASE DisconnectAll
  BY <1>1, <1>6, <1>7 DEF DisconnectAll, TypeOK
<1>8. ASSUME NEW i \in Index, Disconnect(i) PROVE OwnedInv'
  BY <1>6, <1>8 DEF Disconnect
<1>9. CASE Start
  BY <1>1, <1>9 DEF Start, IsClosed, OwnedInv, AcptOwned, LoopsAreOwned,
                    HealthUnwrapsSucceed, recvVars, sendVars
<1>10. CASE AcptClose \/ AcptAdmit \/ AcptAnnounce \/ AcptFinish \/ AcptAccept \/ AcptError
  BY <1>1, <1>10
     DEF AcptClose, AcptAdmit, AcptAnnounce, AcptFinish, AcptAccept, AcptError, mainVars,
         recvVars, sendVars, OwnedInv, AcptOwned, LoopsAreOwned, HealthUnwrapsSucceed
<1>11. ASSUME UNCHANGED <<acpt_handle, acpt_pc, conn_map, recv_pc, send_pc, send_fin, recv_fin>>
       PROVE  OwnedInv'
  BY <1>1, <1>11 DEF OwnedInv, AcptOwned, LoopsAreOwned, HealthUnwrapsSucceed
<1>12. CASE \/ Recv \/ Close \/ AcceptDone \/ TimeoutEvents \/ UNCHANGED vars
            \/ \E m \in Msg : Broadcast(m)
            \/ \E i \in Index, m \in Msg : Send(i, m)
  BY <1>11, <1>12 DEF Recv, Close, CloseAcptLoop, CloseServer, AcceptDone, TimeoutEvents, vars, Broadcast, Send,
                      mainVars, acptVars, recvVars, sendVars
<1>13. ASSUME NEW i \in Index,
              /\ UNCHANGED <<acpt_handle, acpt_pc, conn_map, send_fin, recv_fin>>
              /\ recv_pc[i] \notin {"none", "done"}
              /\ \E pc \in RecvPc \ {"none"} : recv_pc' = [recv_pc EXCEPT ![i] = pc]
              /\ send_pc' = send_pc
       PROVE  OwnedInv'
  BY <1>1, <1>13 DEF OwnedInv, AcptOwned, LoopsAreOwned, HealthUnwrapsSucceed, TypeOK
<1>14. ASSUME NEW i \in Index,
              \/ RecvClose(i) \/ RecvPoll(i) \/ RecvWake(i)
              \/ RecvError(i) \/ RecvTimeout(i) \/ RecvFinish(i)
              \/ \E m \in Msg : RecvData(i, m)
       PROVE  OwnedInv'
  BY <1>13, <1>14 DEF RecvClose, RecvPoll, RecvWake, RecvError, RecvTimeout, RecvFinish,
                      RecvData, RecvPc, mainVars, acptVars, sendVars
<1>15. ASSUME NEW i \in Index,
              /\ UNCHANGED <<acpt_handle, acpt_pc, conn_map, send_fin, recv_fin>>
              /\ send_pc[i] \notin {"none", "done"}
              /\ \E pc \in SendPc \ {"none"} : send_pc' = [send_pc EXCEPT ![i] = pc]
              /\ recv_pc' = recv_pc
       PROVE  OwnedInv'
  BY <1>1, <1>15 DEF OwnedInv, AcptOwned, LoopsAreOwned, HealthUnwrapsSucceed, TypeOK
<1>16. ASSUME NEW i \in Index,
              \/ SendClose(i) \/ SendTake(i) \/ SendOk(i)
              \/ SendError(i) \/ SendTimeout(i) \/ SendFinish(i)
       PROVE  OwnedInv'
  BY <1>15, <1>16 DEF SendClose, SendTake, SendOk, SendError, SendTimeout, HandBack, SendFinish,
                      SendPc, mainVars, acptVars, recvVars
<1> QED
  BY <1>2, <1>3, <1>4, <1>5, <1>7, <1>8, <1>9, <1>10, <1>12, <1>14, <1>16, StepCases

LEMMA OwnedInit == Init => OwnedInv
<1> SUFFICES ASSUME Init PROVE OwnedInv
  OBVIOUS
<1>1. DOMAIN conn_map = {} /\ send_fin = {} /\ recv_fin = {}
  BY DEF Init
<1> QED
  BY <1>1 DEF Init, OwnedInv, AcptOwned, LoopsAreOwned, HealthUnwrapsSucceed

\* A spawned receive or send loop can always be joined by health_check, through
\* the handle in its connection's entry, and an entry never holds a handle that
\* stands for nothing.
THEOREM NoLoopIsLost == Spec => []LoopsAreOwned
<1>1. OwnedInv => LoopsAreOwned
  BY DEF OwnedInv
<1> QED
  BY <1>1, TypeInit, TypeStep, OwnedInit, OwnedStep, PTL DEF Spec

\* Between the read lock and the write lock of health_check_conn_loop nothing
\* takes away what the unwraps and the joins under the write lock rely on.
THEOREM HealthCheckIsSafe == Spec => []HealthUnwrapsSucceed
<1>1. OwnedInv => HealthUnwrapsSucceed
  BY DEF OwnedInv
<1> QED
  BY <1>1, TypeInit, TypeStep, OwnedInit, OwnedStep, PTL DEF Spec

-----------------------------------------------------------------------------
(* What the end of a task leaves behind.                                   *)

QuietInv == OpenIsOwned /\ SignalsWereSent /\ CleanEndWasRequested

LEMMA QuietStep == TypeInv /\ OwnedInv /\ QuietInv /\ [Next]_vars => QuietInv'
<1> SUFFICES ASSUME TypeInv, OwnedInv, QuietInv, [Next]_vars PROVE QuietInv'
  OBVIOUS
<1>1. /\ TypeOK /\ CounterAhead /\ LoopsAreOwned /\ HealthUnwrapsSucceed
      /\ OpenIsOwned /\ SignalsWereSent /\ CleanEndWasRequested
  BY DEF TypeInv, OwnedInv, QuietInv
<1>0. TypeOK'
  BY TypeStep DEF TypeInv
<1>2. \A i \in Index :
        /\ recv_close[i] => recv_pc[i] \notin {"none", "done"} /\ ~conn_map[i].close_recv_tx
        /\ send_close[i] => send_pc[i] \notin {"none", "done"} /\ ~conn_map[i].send_tx
  BY <1>1 DEF SignalsWereSent, RecverAlive, SenderAlive
<1>3. CASE AcptInsert
  <2> DEFINE idx == acpt_index - 1
  <2>1. idx \in Index /\ idx \notin DOMAIN conn_map
    BY <1>1, <1>3, ServerAssumption DEF AcptInsert, CounterAhead, TypeOK, Index
  <2>2. /\ DOMAIN conn_map' = DOMAIN conn_map \cup {idx}
        /\ conn_map'[idx] = NewConn
        /\ \A i \in DOMAIN conn_map : conn_map'[i] = conn_map[i]
        /\ conn_open' = [conn_open EXCEPT ![idx] = TRUE]
        /\ acpt_pc' = "select"
        /\ UNCHANGED <<opened, acpt_err, acpt_close, recv_pc, recv_err, recv_close,
                       send_pc, send_err, send_close>>
    BY <1>3, <2>1 DEF AcptInsert, mainVars, recvVars, sendVars
  <2>3. recv_pc[idx] = "none" /\ send_pc[idx] = "none"
    BY <1>1, <2>1 DEF LoopsAreOwned
  <2>4. OpenIsOwned'
    BY <1>1, <2>1, <2>2, <2>3 DEF OpenIsOwned, TypeOK
  <2>5. SignalsWereSent'
    BY <1>1, <1>2, <2>1, <2>2, <2>3
       DEF SignalsWereSent, RecverAlive, SenderAlive, LoopsAreOwned
  <2>6. CleanEndWasRequested'
    BY <1>1, <2>1, <2>2, <2>3 DEF CleanEndWasRequested
  <2> QED BY <2>4, <2>5, <2>6 DEF QuietInv
<1>4. CASE AcceptOne
  <2>1. CASE CanStart(Head(acpt_q))
    <3> DEFINE i == Head(acpt_q)
    <3>1. /\ i \in DOMAIN conn_map /\ ~conn_map[i].recv_handle /\ ~conn_map[i].send_handle
          /\ conn_map' = [conn_map EXCEPT ![i] = StartedConn]
          /\ recv_pc' = [recv_pc EXCEPT ![i] = "select"]
          /\ send_pc' = [send_pc EXCEPT ![i] = "select"]
          /\ UNCHANGED <<opened, acpt_pc, acpt_err, acpt_close, recv_err, recv_close,
                         send_err, send_close, conn_open>>
      BY <1>4, <2>1 DEF AcceptOne, CanStart, mainVars
    <3>2. i \in Index /\ recv_pc[i] = "none" /\ send_pc[i] = "none"
      BY <1>1, <3>1 DEF TypeOK, LoopsAreOwned
    <3>3. OpenIsOwned'
      BY <1>1, <3>1 DEF TypeOK, OpenIsOwned
    <3>4. SignalsWereSent'
      BY <1>1, <1>2, <3>1, <3>2 DEF TypeOK, SignalsWereSent, RecverAlive, SenderAlive, LoopsAreOwned
    <3>5. CleanEndWasRequested'
      BY <1>1, <3>1, <3>2 DEF TypeOK, CleanEndWasRequested
    <3> QED BY <3>3, <3>4, <3>5 DEF QuietInv
  <2>2. CASE ~CanStart(Head(acpt_q))
    BY <1>1, <1>4, <2>2
       DEF AcceptOne, QuietInv, OpenIsOwned, SignalsWereSent, RecverAlive, SenderAlive,
           CleanEndWasRequested, mainVars
  <2> QED BY <2>1, <2>2
<1>5. CASE HealthReap
  <2>1. \A i \in DOMAIN conn_map' : i \in DOMAIN conn_map /\ conn_map'[i] = Reaped(i)
    BY <1>5 DEF HealthReap
  <2>2. \A i \in DOMAIN conn_map \ DOMAIN conn_map' :
          ~Reaped(i).send_handle /\ ~Reaped(i).recv_handle /\ i \in send_fin \cup recv_fin
    BY <1>5 DEF HealthReap, IsConnClosed
  <2>3. /\ \A i \in Index :
             /\ send_pc'[i] = IF i \in send_fin THEN "none" ELSE send_pc[i]
             /\ recv_pc'[i] = IF i \in recv_fin THEN "none" ELSE recv_pc[i]
             /\ i \notin send_fin => (send_err'[i] <=> send_err[i])
             /\ i \notin recv_fin => (recv_err'[i] <=> recv_err[i])
        /\ UNCHANGED <<opened, acpt_pc, acpt_err, acpt_close, recv_close, send_close, conn_open>>
    BY <1>5 DEF HealthReap, acptVars
  <2>4. \A i \in DOMAIN conn_map' :
          /\ conn_map'[i].close_recv_tx = conn_map[i].close_recv_tx
          /\ conn_map'[i].send_tx = conn_map[i].send_tx
    BY <1>1, <2>1, ReapedFields
  <2>5. \A i \in Index : recv_pc'[i] \notin {"none", "done"} \/ send_pc'[i] \notin {"none", "done"}
                        => i \in DOMAIN conn_map'
    BY <1>1, <2>2, <2>3, ReapedFields DEF LoopsAreOwned
  <2>6. OpenIsOwned'
    BY <1>1, <2>2, <2>3 DEF OpenIsOwned, HealthUnwrapsSucceed
  <2>7. SignalsWereSent'
    <3>1. \A i \in Index : recv_close[i] => i \notin recv_fin
      BY <1>1, <1>2 DEF HealthUnwrapsSucceed
    <3>2. \A i \in Index : send_close[i] => i \notin send_fin
      BY <1>1, <1>2 DEF HealthUnwrapsSucceed
    <3> QED BY <1>1, <1>2, <2>3, <2>4, <2>5, <3>1, <3>2
            DEF SignalsWereSent, RecverAlive, SenderAlive
  <2>8. CleanEndWasRequested'
    BY <1>1, <2>1, <2>3, <2>4 DEF CleanEndWasRequested, TypeOK
  <2> QED BY <2>6, <2>7, <2>8 DEF QuietInv
<1>6. ASSUME NEW C \in SUBSET Index, C \subseteq DOMAIN conn_map, DisconnectEach(C)
      PROVE QuietInv'
  <2>1. /\ DOMAIN conn_map' = DOMAIN conn_map
        /\ \A i \in DOMAIN conn_map :
             /\ conn_map'[i].close_recv_tx => conn_map[i].close_recv_tx
             /\ conn_map'[i].send_tx => conn_map[i].send_tx
             /\ i \in C => ~conn_map'[i].close_recv_tx /\ ~conn_map'[i].send_tx
    BY <1>1, <1>6 DEF DisconnectEach, SignalEach, Signalled, TypeOK, DtlsConn
  <2>2. /\ \A i \in Index :
             /\ recv_close'[i] => recv_close[i] \/ (i \in C /\ RecverAlive(i))
             /\ send_close'[i] => send_close[i] \/ (i \in C /\ SenderAlive(i))
        /\ UNCHANGED <<opened, acpt_pc, acpt_err, acpt_close, recv_pc, recv_err, send_pc,
                       send_err, conn_open>>
    <3>1. \A i \in Index : recv_close'[i] => recv_close[i] \/ (i \in C /\ RecverAlive(i))
      BY <1>6 DEF DisconnectEach, SignalEach
    <3>2. \A i \in Index : send_close'[i] => send_close[i] \/ (i \in C /\ SenderAlive(i))
      BY <1>6 DEF DisconnectEach, SignalEach
    <3>3. UNCHANGED <<opened, acpt_pc, acpt_err, acpt_close, recv_pc, recv_err, send_pc,
                      send_err, conn_open>>
      BY <1>6 DEF DisconnectEach, SignalEach, mainVars, acptVars
    <3> QED BY <3>1, <3>2, <3>3
  <2>3. OpenIsOwned' /\ CleanEndWasRequested'
    BY <1>1, <2>1, <2>2 DEF OpenIsOwned, CleanEndWasRequested
  <2>4. SignalsWereSent'
    <3>1. \A i \in Index : RecverAlive(i) \/ SenderAlive(i) => i \in DOMAIN conn_map
      BY <1>1 DEF RecverAlive, SenderAlive, LoopsAreOwned
    <3>2. \A i \in Index : RecverAlive(i)' = RecverAlive(i) /\ SenderAlive(i)' = SenderAlive(i)
      BY <2>2 DEF RecverAlive, SenderAlive
    <3> QED BY <1>1, <1>6, <2>1, <2>2, <3>1, <3>2 DEF SignalsWereSent
  <2> QED BY <2>3, <2>4 DEF QuietInv
<1>7. CASE DisconnectAll
  BY <1>1, <1>6, <1>7 DEF DisconnectAll, TypeOK
<1>8. ASSUME NEW i \in Index, Disconnect(i) PROVE QuietInv'
  BY <1>6, <1>8 DEF Disconnect
<1>9. ASSUME UNCHANGED <<conn_map, recv_pc, recv_err, recv_close, send_pc, send_err,
                         send_close, conn_open>>,
             acpt_close' => ~opened',
             acpt_pc' \in {"closing", "done"} /\ ~acpt_err' => ~opened'
      PROVE  QuietInv'
  BY <1>1, <1>9 DEF QuietInv, OpenIsOwned, SignalsWereSent, RecverAlive, SenderAlive,
                    CleanEndWasRequested
<1>10. /\ acpt_close => ~opened
       /\ acpt_pc \in {"closing", "done"} /\ ~acpt_err => ~opened
  BY <1>1 DEF SignalsWereSent, CleanEndWasRequested
<1>11. CASE Start
  BY <1>9, <1>11 DEF Start, recvVars, sendVars
<1>12. CASE AcptClose
  BY <1>9, <1>10, <1>12 DEF AcptClose, mainVars, recvVars, sendVars
<1>13. CASE AcptAdmit \/ AcptAnnounce \/ AcptAccept \/ AcptError
  BY <1>9, <1>10, <1>13
     DEF AcptAdmit, AcptAnnounce, AcptAccept, AcptError, mainVars, recvVars, sendVars
<1>14. CASE AcptFinish
  BY <1>9, <1>10, <1>14 DEF AcptFinish, mainVars, recvVars, sendVars
<1>15. CASE HealthSnapshot \/ Close
  BY <1>9, <1>10, <1>15 DEF HealthSnapshot, HealthCheckAcpt, Close, CloseAcptLoop, CloseServer, recvVars, sendVars
<1>16. CASE \/ Recv \/ AcceptDone \/ TimeoutEvents \/ UNCHANGED vars
            \/ \E m \in Msg : Broadcast(m)
            \/ \E i \in Index, m \in Msg : Send(i, m)
  BY <1>9, <1>10, <1>16 DEF Recv, AcceptDone, TimeoutEvents, vars, Broadcast, Send,
                      mainVars, acptVars, recvVars, sendVars
<1>17. ASSUME NEW i \in Index,
              UNCHANGED <<opened, conn_map, acpt_pc, acpt_err, acpt_close,
                          send_pc, send_err, send_close>>,
              recv_pc[i] \notin {"none", "done"},
              recv_pc'[i] # "none",
              recv_pc'[i] = "done" => ~conn_open'[i] /\ ~recv_close'[i],
              recv_pc'[i] \in {"closing", "done"} /\ ~recv_err'[i] => ~conn_map[i].close_recv_tx,
              recv_close'[i] => recv_close[i],
              conn_open'[i] => conn_open[i],
              \A j \in Index \ {i} : /\ recv_pc'[j] = recv_pc[j]
                                    /\ recv_err'[j] = recv_err[j]
                                    /\ recv_close'[j] = recv_close[j]
                                    /\ conn_open'[j] = conn_open[j]
       PROVE  QuietInv'
  <2>1. OpenIsOwned'
    BY <1>0, <1>1, <1>17 DEF OpenIsOwned, TypeOK
  <2>2. SignalsWereSent'
    BY <1>0, <1>1, <1>17 DEF SignalsWereSent, RecverAlive, SenderAlive, TypeOK
  <2>3. CleanEndWasRequested'
    BY <1>0, <1>1, <1>17 DEF CleanEndWasRequested, TypeOK
  <2> QED BY <2>1, <2>2, <2>3 DEF QuietInv
<1>18. ASSUME NEW i \in Index, RecvClose(i) PROVE QuietInv'
  <2>1. ~conn_map[i].close_recv_tx
    BY <1>2, <1>18 DEF RecvClose
  <2> QED BY <1>1, <1>17, <1>18, <2>1 DEF RecvClose, TypeOK, mainVars, acptVars, sendVars
<1>19. ASSUME NEW i \in Index, RecvPoll(i) \/ RecvWake(i) PROVE QuietInv'
  BY <1>1, <1>17, <1>19 DEF RecvPoll, RecvWake, TypeOK, mainVars, acptVars, sendVars
<1>20. ASSUME NEW i \in Index, RecvError(i) PROVE QuietInv'
  BY <1>1, <1>17, <1>20 DEF RecvError, TypeOK, mainVars, acptVars, sendVars
<1>21. ASSUME NEW i \in Index, RecvTimeout(i) PROVE QuietInv'
  BY <1>1, <1>17, <1>21 DEF RecvTimeout, TypeOK, mainVars, acptVars, sendVars
<1>22. ASSUME NEW i \in Index, NEW m \in Msg, RecvData(i, m) PROVE QuietInv'
  BY <1>1, <1>17, <1>22 DEF RecvData, TypeOK, mainVars, acptVars, sendVars
<1>23. ASSUME NEW i \in Index, RecvFinish(i) PROVE QuietInv'
  <2>1. PICK e \in {recv_err[i], TRUE} : recv_err' = [recv_err EXCEPT ![i] = e]
    BY <1>23 DEF RecvFinish
  <2>2. i \in DOMAIN conn_map
    BY <1>1, <1>23 DEF RecvFinish, LoopsAreOwned
  <2>3. ~recv_err[i] => ~conn_map[i].close_recv_tx
    BY <1>1, <1>23, <2>2 DEF RecvFinish, CleanEndWasRequested
  <2>4. recv_err'[i] = e
    BY <1>1, <2>1 DEF TypeOK
  <2>5. ~recv_err'[i] => ~conn_map[i].close_recv_tx
    BY <2>1, <2>3, <2>4
  <2>6. \A j \in Index \ {i} : recv_err'[j] = recv_err[j]
    BY <1>1, <2>1 DEF TypeOK
  <2> QED BY <1>1, <1>17, <1>23, <2>5, <2>6 DEF RecvFinish, TypeOK, mainVars, acptVars, sendVars
<1>24. ASSUME NEW i \in Index,
              UNCHANGED <<opened, conn_map, acpt_pc, acpt_err, acpt_close,
                          recv_pc, recv_err, recv_close>>,
              send_pc[i] \notin {"none", "done"},
              send_pc'[i] # "none",
              send_pc'[i] = "done" => ~conn_open'[i] /\ ~send_close'[i],
              send_pc'[i] \in {"closing", "done"} /\ ~send_err'[i] => ~conn_map[i].send_tx,
              send_close'[i] => send_close[i],
              conn_open'[i] => conn_open[i],
              \A j \in Index \ {i} : /\ send_pc'[j] = send_pc[j]
                                    /\ send_err'[j] = send_err[j]
                                    /\ send_close'[j] = send_close[j]
                                    /\ conn_open'[j] = conn_open[j]
       PROVE  QuietInv'
  <2>1. OpenIsOwned'
    BY <1>0, <1>1, <1>24 DEF OpenIsOwned, TypeOK
  <2>2. SignalsWereSent'
    BY <1>0, <1>1, <1>24 DEF SignalsWereSent, RecverAlive, SenderAlive, TypeOK
  <2>3. CleanEndWasRequested'
    BY <1>0, <1>1, <1>24 DEF CleanEndWasRequested, TypeOK
  <2> QED BY <2>1, <2>2, <2>3 DEF QuietInv
<1>25. ASSUME NEW i \in Index, SendClose(i) PROVE QuietInv'
  <2>1. ~conn_map[i].send_tx
    BY <1>2, <1>25 DEF SendClose
  <2> QED BY <1>1, <1>24, <1>25, <2>1 DEF SendClose, TypeOK, mainVars, acptVars, recvVars
<1>26. ASSUME NEW i \in Index, SendTake(i) PROVE QuietInv'
  BY <1>1, <1>24, <1>26 DEF SendTake, TypeOK, mainVars, acptVars, recvVars
<1>27. ASSUME NEW i \in Index, SendOk(i) \/ SendError(i) PROVE QuietInv'
  BY <1>1, <1>24, <1>27 DEF SendOk, SendError, TypeOK, mainVars, acptVars, recvVars
<1>28. ASSUME NEW i \in Index, SendTimeout(i) PROVE QuietInv'
  BY <1>1, <1>24, <1>28 DEF SendTimeout, HandBack, TypeOK, mainVars, acptVars, recvVars
<1>29. ASSUME NEW i \in Index, SendFinish(i) PROVE QuietInv'
  <2>1. PICK e \in {send_err[i], TRUE} : send_err' = [send_err EXCEPT ![i] = e]
    BY <1>29 DEF SendFinish
  <2>2. i \in DOMAIN conn_map
    BY <1>1, <1>29 DEF SendFinish, LoopsAreOwned
  <2>3. ~send_err[i] => ~conn_map[i].send_tx
    BY <1>1, <1>29, <2>2 DEF SendFinish, CleanEndWasRequested
  <2>4. send_err'[i] = e
    BY <1>1, <2>1 DEF TypeOK
  <2>5. ~send_err'[i] => ~conn_map[i].send_tx
    BY <2>1, <2>3, <2>4
  <2>6. \A j \in Index \ {i} : send_err'[j] = send_err[j]
    BY <1>1, <2>1 DEF TypeOK
  <2> QED BY <1>1, <1>24, <1>29, <2>5, <2>6 DEF SendFinish, TypeOK, mainVars, acptVars, recvVars
<1> QED
  BY <1>3, <1>4, <1>5, <1>7, <1>8, <1>11, <1>12, <1>13, <1>14, <1>15, <1>16, <1>18, <1>19,
     <1>20, <1>21, <1>22, <1>23, <1>25, <1>26, <1>27, <1>28, <1>29, StepCases

LEMMA QuietInit == Init => QuietInv
<1> SUFFICES ASSUME Init PROVE QuietInv
  OBVIOUS
<1>1. DOMAIN conn_map = {}
  BY DEF Init
<1> QED
  BY <1>1 DEF Init, QuietInv, OpenIsOwned, SignalsWereSent, CleanEndWasRequested

\* A task that ends without an error was told to end by disconnect or close.
THEOREM CleanEndsAreRequested == Spec => []CleanEndWasRequested
<1>1. QuietInv => CleanEndWasRequested
  BY DEF QuietInv
<1> QED
  BY <1>1, TypeInit, TypeStep, OwnedInit, OwnedStep, QuietInit, QuietStep, PTL DEF Spec

\* When is_closed lets start run again, no task of an earlier run is left, and no
\* DTLS connection is open.
THEOREM ClosedIsQuiet == Spec => []ClosedMeansQuiet
<1>1. OwnedInv /\ QuietInv => ClosedMeansQuiet
  BY DEF OwnedInv, QuietInv, AcptOwned, LoopsAreOwned, OpenIsOwned, IsClosed, ClosedMeansQuiet
<1> QED
  BY <1>1, TypeInit, TypeStep, OwnedInit, OwnedStep, QuietInit, QuietStep, PTL DEF Spec

LEMMA RemovedStep ==
  TypeInv /\ OwnedInv' /\ QuietInv' /\ [Next]_vars =>
    [\A i \in DOMAIN conn_map \ DOMAIN conn_map' :
       /\ ~conn_open[i]
       /\ recv_pc'[i] = "none"
       /\ send_pc'[i] = "none"]_vars
<1> SUFFICES ASSUME TypeInv, OwnedInv', QuietInv', [Next]_vars,
                    NEW i \in DOMAIN conn_map \ DOMAIN conn_map'
             PROVE  ~conn_open[i] /\ recv_pc'[i] = "none" /\ send_pc'[i] = "none"
  OBVIOUS
<1>1. i \in Index
  BY DEF TypeInv, TypeOK
<1>2. CASE HealthReap
  <2>1. conn_open' = conn_open
    BY <1>2 DEF HealthReap
  <2>2. ~conn_open'[i] /\ recv_pc'[i] = "none" /\ send_pc'[i] = "none"
    BY <1>1 DEF OwnedInv, QuietInv, OpenIsOwned, LoopsAreOwned
  <2> QED BY <2>1, <2>2
<1>3. DOMAIN conn_map' # DOMAIN conn_map
  OBVIOUS
<1>4. ~AcptInsert
  BY DEF AcptInsert
<1>5. ~(DisconnectAll \/ \E j \in Index : Disconnect(j))
  BY <1>3 DEF DisconnectAll, Disconnect, DisconnectEach, SignalEach
<1>6. ~(AcptClose \/ AcptAdmit \/ AcptAnnounce \/ AcptFinish \/ AcptAccept \/ AcptError)
  BY <1>3 DEF AcptClose, AcptAdmit, AcptAnnounce, AcptFinish, AcptAccept, AcptError
<1>7. ~(\/ Start \/ Recv \/ Close \/ \E m \in Msg : Broadcast(m)
        \/ \E j \in Index, m \in Msg : Send(j, m))
  BY <1>3 DEF Start, Recv, Close, CloseAcptLoop, CloseServer, Broadcast, Send
<1>8. ~(AcceptOne \/ AcceptDone \/ HealthSnapshot \/ TimeoutEvents \/ UNCHANGED vars)
  BY <1>3 DEF AcceptOne, AcceptDone, HealthSnapshot, HealthCheckAcpt, TimeoutEvents, vars
<1>9. ~\E j \in Index : \/ RecvClose(j) \/ RecvPoll(j) \/ RecvWake(j)
                        \/ RecvError(j) \/ RecvTimeout(j) \/ RecvFinish(j)
                        \/ \E m \in Msg : RecvData(j, m)
  BY <1>3 DEF RecvClose, RecvPoll, RecvWake, RecvError, RecvTimeout, RecvFinish, RecvData
<1>10. ~\E j \in Index : \/ SendClose(j) \/ SendTake(j) \/ SendOk(j)
                         \/ SendError(j) \/ SendTimeout(j) \/ SendFinish(j)
  BY <1>3 DEF SendClose, SendTake, SendOk, SendError, SendTimeout, HandBack, SendFinish
<1> QED
  BY <1>2, <1>4, <1>5, <1>6, <1>7, <1>8, <1>9, <1>10, StepCases

\* A connection leaves the map, and frees its place, only when both of its loops
\* have been joined and the DTLS connection has been closed.
THEOREM RemovalsAreOver == Spec => RemovedOnlyWhenOver
<1>1. Spec => [](TypeInv /\ OwnedInv /\ QuietInv)
  BY TypeInit, TypeStep, OwnedInit, OwnedStep, QuietInit, QuietStep, PTL DEF Spec
<1> QED
  BY <1>1, RemovedStep, PTL DEF Spec, RemovedOnlyWhenOver

-----------------------------------------------------------------------------
(* The indices on their way to accept_system.                              *)

QueueInv == UnstartedIsNew /\ QueueAscends

LEMMA ReapedNew ==
  ASSUME TypeOK, LoopsAreOwned, HealthUnwrapsSucceed, UnstartedIsNew,
         NEW i \in DOMAIN conn_map, ~conn_map[i].is_running
  PROVE  Reaped(i) = NewConn
<1>1. conn_map[i] = NewConn
  BY DEF UnstartedIsNew
<1>2. i \notin send_fin /\ i \notin recv_fin
  BY <1>1 DEF HealthUnwrapsSucceed, NewConn
<1>3. Reaped(i) = [conn_map[i] EXCEPT !.send_handle = @, !.recv_handle = @]
  BY <1>2, Zenon DEF Reaped
<1> QED
  BY <1>1, <1>3 DEF NewConn

LEMMA QueueStep == TypeInv /\ OwnedInv /\ QueueInv /\ [Next]_vars => QueueInv'
<1> SUFFICES ASSUME TypeInv, OwnedInv, QueueInv, [Next]_vars PROVE QueueInv'
  OBVIOUS
<1>1. /\ TypeOK /\ CounterAhead /\ LoopsAreOwned /\ HealthUnwrapsSucceed
      /\ UnstartedIsNew /\ QueueAscends
  BY DEF TypeInv, OwnedInv, QueueInv
<1>2. acpt_q \in Seq(Index) /\ \A k \in 1 .. Len(acpt_q) : acpt_q[k] \in Index
  BY <1>1 DEF TypeOK
<1>3. CASE AcptInsert
  <2> DEFINE idx == acpt_index - 1
  <2>1. idx \in Index /\ idx \notin DOMAIN conn_map
    BY <1>1, <1>3, ServerAssumption DEF AcptInsert, CounterAhead, TypeOK, Index
  <2>2. /\ DOMAIN conn_map' = DOMAIN conn_map \cup {idx}
        /\ conn_map'[idx] = NewConn
        /\ \A i \in DOMAIN conn_map : conn_map'[i] = conn_map[i]
        /\ UNCHANGED <<acpt_q, acpt_index>>
    BY <1>3, <2>1 DEF AcptInsert
  <2>3. UnstartedIsNew'
    BY <1>1, <2>1, <2>2 DEF UnstartedIsNew
  <2>4. QueueAscends'
    BY <1>1, <2>1, <2>2 DEF QueueAscends
  <2> QED BY <2>3, <2>4 DEF QueueInv
<1>4. CASE AcptAnnounce
  <2>1. UnstartedIsNew'
    BY <1>1, <1>4 DEF AcptAnnounce, UnstartedIsNew
  <2>2. CASE acpt_q' = acpt_q
    <3>1. acpt_index' >= acpt_index /\ conn_map' = conn_map
      BY <1>1, <1>4 DEF AcptAnnounce, TypeOK, Index
    <3>2. /\ acpt_index \in Int /\ acpt_index' \in Int
          /\ \A k \in 1 .. Len(acpt_q) : acpt_q[k] \in Int
      BY <1>1, <1>2, <1>4, ServerAssumption DEF AcptAnnounce, TypeOK, Index
    <3>3. \A k \in 1 .. Len(acpt_q) : acpt_q[k] < acpt_index'
      BY <1>1, <3>1, <3>2 DEF QueueAscends
    <3>4. QueueAscends'
      BY <1>1, <2>2, <3>1, <3>3 DEF QueueAscends
    <3> QED BY <2>1, <3>4 DEF QueueInv
  <2>3. CASE acpt_q' = Append(acpt_q, acpt_index) /\ acpt_index' = acpt_index + 1
    <3>1. /\ Len(acpt_q') = Len(acpt_q) + 1
          /\ \A k \in 1 .. Len(acpt_q) : acpt_q'[k] = acpt_q[k]
          /\ acpt_q'[Len(acpt_q) + 1] = acpt_index
      BY <1>2, <2>3
    <3>2. acpt_index \in Int /\ Len(acpt_q) \in Nat /\ conn_map' = conn_map
      BY <1>1, <1>2, <1>4 DEF AcptAnnounce, TypeOK, Index
    <3>3. acpt_index \notin DOMAIN conn_map
      BY <1>1, <3>2 DEF CounterAhead
    <3>4. ASSUME NEW k \in 1 .. Len(acpt_q')
          PROVE  /\ acpt_q'[k] < acpt_index'
                 /\ acpt_q'[k] \in DOMAIN conn_map' => conn_map'[acpt_q'[k]] = NewConn
                 /\ \A l \in 1 .. k - 1 : acpt_q'[l] < acpt_q'[k]
      <4>1. CASE k = Len(acpt_q) + 1
        BY <1>1, <1>2, <2>3, <3>1, <3>2, <3>3, <4>1 DEF QueueAscends
      <4>2. CASE k \in 1 .. Len(acpt_q)
        BY <1>1, <1>2, <2>3, <3>1, <3>2, <4>2 DEF QueueAscends, Index
      <4> QED BY <3>1, <3>2, <4>1, <4>2
    <3> QED BY <2>1, <3>4 DEF QueueAscends, QueueInv
  <2> QED BY <1>4, <2>2, <2>3 DEF AcptAnnounce
<1>5. CASE AcceptOne
  <2> DEFINE i == Head(acpt_q)
  <2>1. /\ Len(acpt_q') = Len(acpt_q) - 1
        /\ \A k \in 1 .. Len(acpt_q') : acpt_q'[k] = acpt_q[k + 1]
        /\ i = acpt_q[1]
        /\ Len(acpt_q) \in Nat \ {0}
    BY <1>2, <1>5 DEF AcceptOne
  <2>2. \A k \in 1 .. Len(acpt_q') : acpt_q'[k] # i
    BY <1>1, <1>2, <2>1 DEF QueueAscends, Index
  <2>3. /\ DOMAIN conn_map' = DOMAIN conn_map
        /\ \A j \in DOMAIN conn_map : j # i => conn_map'[j] = conn_map[j]
        /\ i \in DOMAIN conn_map => conn_map'[i] \in {conn_map[i], StartedConn}
        /\ acpt_index' = acpt_index
    BY <1>1, <1>5 DEF AcceptOne, TypeOK
  <2>4. UnstartedIsNew'
    BY <1>1, <2>3 DEF UnstartedIsNew, StartedConn
  <2>5. QueueAscends'
    <3> SUFFICES ASSUME NEW k \in 1 .. Len(acpt_q')
                 PROVE  /\ acpt_q'[k] < acpt_index'
                        /\ acpt_q'[k] \in DOMAIN conn_map' => conn_map'[acpt_q'[k]] = NewConn
                        /\ \A l \in 1 .. k - 1 : acpt_q'[l] < acpt_q'[k]
      BY DEF QueueAscends
    <3>1. k + 1 \in 1 .. Len(acpt_q) /\ acpt_q'[k] = acpt_q[k + 1]
      BY <2>1
    <3>2. acpt_q'[k] < acpt_index'
      BY <1>1, <2>3, <3>1 DEF QueueAscends
    <3>3. acpt_q'[k] \in DOMAIN conn_map' => conn_map'[acpt_q'[k]] = NewConn
      BY <1>1, <2>2, <2>3, <3>1 DEF QueueAscends
    <3>4. ASSUME NEW l \in 1 .. k - 1 PROVE acpt_q'[l] < acpt_q'[k]
      <4>1. l + 1 \in 1 .. (k + 1) - 1 /\ acpt_q'[l] = acpt_q[l + 1]
        BY <2>1, <3>1
      <4> QED BY <1>1, <3>1, <4>1 DEF QueueAscends
    <3> QED BY <3>2, <3>3, <3>4
  <2> QED BY <2>4, <2>5 DEF QueueInv
<1>6. ASSUME UNCHANGED <<acpt_q, acpt_index>>,
             DOMAIN conn_map' \subseteq DOMAIN conn_map,
             \A i \in DOMAIN conn_map' :
               conn_map'[i].is_running = conn_map[i].is_running
                 /\ (~conn_map[i].is_running => conn_map'[i] = NewConn)
      PROVE  QueueInv'
  <2>1. UnstartedIsNew'
    BY <1>6 DEF UnstartedIsNew
  <2>2. ~NewConn.is_running
    BY DEF NewConn
  <2>3. QueueAscends'
    BY <1>1, <1>6, <2>2 DEF QueueAscends
  <2> QED BY <2>1, <2>3 DEF QueueInv
<1>7. CASE HealthReap
  <2>1. \A i \in DOMAIN conn_map' : i \in DOMAIN conn_map /\ conn_map'[i] = Reaped(i)
    BY <1>7 DEF HealthReap
  <2> QED BY <1>1, <1>6, <1>7, <2>1, ReapedFields, ReapedNew DEF HealthReap, acptVars
<1>8. ASSUME NEW C \in SUBSET Index, DisconnectEach(C) PROVE QueueInv'
  <2>1. /\ DOMAIN conn_map' = DOMAIN conn_map
        /\ \A i \in DOMAIN conn_map :
             conn_map'[i] \in {conn_map[i], Signalled(conn_map[i])}
    BY <1>8 DEF DisconnectEach, SignalEach
  <2>2. Signalled(NewConn) = NewConn
    <3>1. Signalled(NewConn) = [NewConn EXCEPT !.close_recv_tx = @, !.send_tx = @]
      BY DEF Signalled, NewConn
    <3> QED BY <3>1 DEF NewConn
  <2>3. \A i \in DOMAIN conn_map :
          Signalled(conn_map[i]).is_running = conn_map[i].is_running
    BY <1>1 DEF Signalled, TypeOK, DtlsConn
  <2> QED BY <1>1, <1>6, <1>8, <2>1, <2>2, <2>3
          DEF DisconnectEach, SignalEach, UnstartedIsNew, acptVars
<1>9. CASE DisconnectAll
  BY <1>1, <1>8, <1>9 DEF DisconnectAll, TypeOK
<1>10. ASSUME NEW i \in Index, Disconnect(i) PROVE QueueInv'
  BY <1>8, <1>10 DEF Disconnect
<1>11. ASSUME conn_map' = conn_map, acpt_q' = << >> PROVE QueueInv'
  BY <1>1, <1>11 DEF QueueInv, UnstartedIsNew, QueueAscends
<1>12. CASE Start \/ Close
  BY <1>11, <1>12 DEF Start, Close, CloseAcptLoop, CloseServer
<1>13. ASSUME UNCHANGED <<conn_map, acpt_q, acpt_index>> PROVE QueueInv'
  BY <1>1, <1>13 DEF QueueInv, UnstartedIsNew, QueueAscends
<1>14. CASE AcptClose \/ AcptAdmit \/ AcptFinish \/ AcptAccept \/ AcptError
  BY <1>13, <1>14 DEF AcptClose, AcptAdmit, AcptFinish, AcptAccept, AcptError
<1>15. CASE \/ Recv \/ AcceptDone \/ HealthSnapshot \/ TimeoutEvents \/ UNCHANGED vars
            \/ \E m \in Msg : Broadcast(m)
            \/ \E i \in Index, m \in Msg : Send(i, m)
  BY <1>13, <1>15 DEF Recv, AcceptDone, HealthSnapshot, HealthCheckAcpt, TimeoutEvents, vars, Broadcast,
                      Send, acptVars
<1>16. ASSUME NEW i \in Index,
              \/ RecvClose(i) \/ RecvPoll(i) \/ RecvWake(i)
              \/ RecvError(i) \/ RecvTimeout(i) \/ RecvFinish(i)
              \/ \E m \in Msg : RecvData(i, m)
       PROVE  QueueInv'
  BY <1>13, <1>16 DEF RecvClose, RecvPoll, RecvWake, RecvError, RecvTimeout,
                      RecvFinish, RecvData, acptVars
<1>17. ASSUME NEW i \in Index,
              \/ SendClose(i) \/ SendTake(i) \/ SendOk(i)
              \/ SendError(i) \/ SendTimeout(i) \/ SendFinish(i)
       PROVE  QueueInv'
  BY <1>13, <1>17 DEF SendClose, SendTake, SendOk, SendError, SendTimeout, HandBack, SendFinish, acptVars
<1> QED
  BY <1>3, <1>4, <1>5, <1>7, <1>9, <1>10, <1>12, <1>14, <1>15, <1>16, <1>17, StepCases

\* start_conn meets, for an index taken from acpt_rx, either no entry or a fresh
\* one, and never the same index twice.
THEOREM AnnouncementsAreOnce == Spec => []AnnouncedOnce
<1>1. Init => QueueInv
  BY DEF Init, QueueInv, UnstartedIsNew, QueueAscends
<1>2. TypeInv /\ QueueInv => AnnouncedOnce
  <2> SUFFICES ASSUME TypeInv, QueueInv, NEW k \in 1 .. Len(acpt_q), NEW l \in 1 .. k - 1
               PROVE  acpt_q[l] # acpt_q[k]
    BY DEF AnnouncedOnce, QueueInv, QueueAscends
  <2>1. acpt_q \in Seq(Index) /\ acpt_q[k] \in Int
    BY ServerAssumption DEF TypeInv, TypeOK, Index
  <2>2. acpt_q[l] < acpt_q[k]
    BY DEF QueueInv, QueueAscends
  <2> QED BY <2>1, <2>2
<1> QED
  BY <1>1, <1>2, TypeInit, TypeStep, OwnedInit, OwnedStep, QueueStep, PTL DEF Spec

-----------------------------------------------------------------------------
\* The inductive invariant as a whole.
IInv == TypeInv /\ PlaceLeft /\ OwnedInv /\ QuietInv /\ QueueInv

\* IInv holds in every reachable state: the layers above, put together.
THEOREM Inductive == Spec => []IInv
<1>1. Init => PlaceLeft
  BY FS_EmptySet, ServerAssumption DEF Init, PlaceLeft
<1>2. Init => QueueInv
  BY DEF Init, QueueInv, UnstartedIsNew, QueueAscends
<1>3. Spec => [](TypeInv /\ OwnedInv)
  BY TypeInit, TypeStep, OwnedInit, OwnedStep, PTL DEF Spec
<1>4. Spec => [](PlaceLeft /\ QuietInv /\ QueueInv)
  BY <1>1, <1>2, <1>3, PlaceStep, QuietInit, QuietStep, QueueStep, PTL DEF Spec
<1>5. TypeInv /\ OwnedInv /\ PlaceLeft /\ QuietInv /\ QueueInv => IInv
  BY DEF IInv
<1> QED
  BY <1>3, <1>4, <1>5, PTL

=============================================================================
