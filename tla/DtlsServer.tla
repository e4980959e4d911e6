----------------------------- MODULE DtlsServer -----------------------------
(***************************************************************************)
(* The DTLS server resource of bevy_dtls (server/dtls_server.rs) together  *)
(* with the Bevy systems that drive it (server/plugin.rs, server/event.rs).*)
(*                                                                         *)
(* Two kinds of actors run concurrently:                                   *)
(*   - the Bevy main loop, one thread, which owns DtlsServer and runs, in  *)
(*     every frame, accept_system, then the application's systems, then    *)
(*     health_event_system and timeout_event_system;                       *)
(*   - tasks of the tokio runtime: one acceptor, and for every started     *)
(*     connection one receive loop and one send loop.                      *)
(* They share conn_map (under a RwLock) and unbounded channels.  A         *)
(* JoinHandle is the only way the main loop learns that a task has ended.  *)
(***************************************************************************)
EXTENDS Integers, Sequences, FiniteSets

CONSTANTS
  MaxClients,      \* DtlsServer::max_clients
  MaxIndex,        \* the largest connection index, u64::MAX in the code
  Msg,             \* payloads
  HasRecvTimeout,  \* is recv_timeout_secs Some(_)?
  QueueBound       \* bound on the data queues, for model checking only

ASSUME ServerAssumption ==
  /\ MaxClients \in Nat
  /\ MaxIndex \in Nat \ {0}
  /\ HasRecvTimeout \in BOOLEAN
  /\ QueueBound \in Nat

\* The acceptor counts from 1, "because server wants reserve 0".
Index == 1 .. MaxIndex

VARIABLES
  phase,        \* which system of the frame the main loop is in
  opened,       \* acpt_rx, close_acpt_tx, recv_tx/rx and timeout_tx/rx are Some:
                \* they are set together by start and cleared together by close
  acpt_handle,  \* acpt_handle (and listener) is Some
  conn_map,     \* HashMap<u64, DtlsConn>: a function on the keys present
  send_fin,     \* health_check_conn_loop: connections whose sender was seen finished
  recv_fin,     \* the same for the receiver
  acpt_pc,      \* where acpt_loop is
  acpt_index,   \* its local variable index
  acpt_err,     \* acpt_loop ends with Err
  acpt_close,   \* a DtlsServerClose is in the acceptor's close channel
  acpt_q,       \* the channel acpt_tx -> acpt_rx
  recv_pc,      \* where recv_loop of a connection is
  recv_err,     \* recv_loop ends with Err
  recv_close,   \* a DtlsServerClose is in its close channel
  send_pc,      \* where send_loop of a connection is
  send_err,     \* send_loop ends with Err
  send_close,   \* a DtlsServerClose is in its close channel
  send_q,       \* the channel send_tx -> send_rx of a connection
  flight,       \* the message send_loop is sending
  conn_open,    \* the DTLS connection has not been closed by this side
  recv_q,       \* the channel recv_tx -> recv_rx, shared by all connections
  timeout_q     \* the channel timeout_tx -> timeout_rx

mainVars == <<phase, opened, acpt_handle, send_fin, recv_fin>>
acptVars == <<acpt_pc, acpt_index, acpt_err, acpt_close, acpt_q>>
recvVars == <<recv_pc, recv_err, recv_close>>
sendVars == <<send_pc, send_err, send_close, send_q, flight>>
outVars  == <<recv_q, timeout_q>>

vars == <<mainVars, conn_map, acptVars, recvVars, sendVars, conn_open, outVars>>

-----------------------------------------------------------------------------
(* Types.                                                                  *)

\* DtlsConn: which of its Options are Some.  send_tx stands for send_tx and
\* close_send_tx, which are always written together.
DtlsConn == [is_running    : BOOLEAN,
             recv_handle   : BOOLEAN,
             close_recv_tx : BOOLEAN,
             send_handle   : BOOLEAN,
             send_tx       : BOOLEAN]

AcptPc == {"none", "select", "admit", "announce", "insert", "closing", "done"}
RecvPc == {"none", "select", "poll", "closing", "done"}
SendPc == {"none", "select", "send", "refused", "closing", "done"}
Timeout == [kind : {"send"}, conn : Index, bytes : Msg]
             \cup [kind : {"recv"}, conn : Index]

TypeOK ==
  /\ phase \in {"accept", "update", "health", "timeout"}
  /\ opened \in BOOLEAN
  /\ acpt_handle \in BOOLEAN
  /\ DOMAIN conn_map \in SUBSET Index
  /\ conn_map \in [DOMAIN conn_map -> DtlsConn]
  /\ send_fin \in SUBSET Index
  /\ recv_fin \in SUBSET Index
  /\ acpt_pc \in AcptPc
  /\ acpt_index \in Index
  /\ acpt_err \in BOOLEAN
  /\ acpt_close \in BOOLEAN
  /\ acpt_q \in Seq(Index)
  /\ recv_pc \in [Index -> RecvPc]
  /\ recv_err \in [Index -> BOOLEAN]
  /\ recv_close \in [Index -> BOOLEAN]
  /\ send_pc \in [Index -> SendPc]
  /\ send_err \in [Index -> BOOLEAN]
  /\ send_close \in [Index -> BOOLEAN]
  /\ send_q \in [Index -> Seq(Msg)]
  /\ flight \in [Index -> Seq(Msg)]
  /\ conn_open \in [Index -> BOOLEAN]
  /\ recv_q \in Seq(Index \X Msg)
  /\ timeout_q \in Seq(Timeout)

\* DtlsConn::new: accepted, not started.
NewConn == [is_running |-> FALSE, recv_handle |-> FALSE, close_recv_tx |-> FALSE,
            send_handle |-> FALSE, send_tx |-> FALSE]

\* The same entry once start_conn has spawned both of its loops.
StartedConn == [is_running |-> TRUE, recv_handle |-> TRUE, close_recv_tx |-> TRUE,
                send_handle |-> TRUE, send_tx |-> TRUE]

Init ==
  /\ phase = "update"
  /\ opened = FALSE
  /\ acpt_handle = FALSE
  /\ conn_map = [i \in {} |-> NewConn]
  /\ send_fin = {}
  /\ recv_fin = {}
  /\ acpt_pc = "none"
  /\ acpt_index = 1
  /\ acpt_err = FALSE
  /\ acpt_close = FALSE
  /\ acpt_q = << >>
  /\ recv_pc = [i \in Index |-> "none"]
  /\ recv_err = [i \in Index |-> FALSE]
  /\ recv_close = [i \in Index |-> FALSE]
  /\ send_pc = [i \in Index |-> "none"]
  /\ send_err = [i \in Index |-> FALSE]
  /\ send_close = [i \in Index |-> FALSE]
  /\ send_q = [i \in Index |-> << >>]
  /\ flight = [i \in Index |-> << >>]
  /\ conn_open = [i \in Index |-> FALSE]
  /\ recv_q = << >>
  /\ timeout_q = << >>

-----------------------------------------------------------------------------
(* The acceptor task: acpt_loop.                                           *)

\* The reader side of a close channel is dropped when its loop ends.
AcptAliveWhenIdle == acpt_pc = "select"  \* mutant: a busy loop misses the signal
AcptAlive == acpt_pc \notin {"none", "done"}
RecverAlive(i) == recv_pc[i] \notin {"none", "done"}
SenderAliveWhenIdle(i) == send_pc[i] = "select"  \* mutant: the same
SenderAlive(i) == send_pc[i] \notin {"none", "done"}

\* "exceeded max clients"
AtCapacityOffByOne == Cardinality(DOMAIN conn_map) > MaxClients  \* mutant
AtCapacity == Cardinality(DOMAIN conn_map) >= MaxClients

\* index.checked_add(1) is None
IndexExhaustedNever == FALSE  \* mutant: the index is added to unchecked
IndexExhausted == acpt_index = MaxIndex

\* biased select!: a close signal is taken before a new connection.
AcptClose ==
  /\ acpt_pc = "select"
  /\ acpt_close
  /\ acpt_close' = FALSE
  /\ acpt_pc' = "closing"
  /\ UNCHANGED <<mainVars, conn_map, acpt_index, acpt_err, acpt_q>>
  /\ UNCHANGED <<recvVars, sendVars, conn_open, outVars>>

\* listener.accept() yields a connection whose handshake is complete ...
AcptAccept ==
  /\ acpt_pc = "select"
  /\ ~acpt_close
  /\ acpt_pc' = "admit"
  /\ UNCHANGED <<mainVars, conn_map, acpt_index, acpt_err, acpt_close, acpt_q>>
  /\ UNCHANGED <<recvVars, sendVars, conn_open, outVars>>

\* ... or any error, which ends the loop.
AcptError ==
  /\ acpt_pc = "select"
  /\ ~acpt_close
  /\ acpt_pc' = "closing"
  /\ acpt_err' = TRUE
  /\ UNCHANGED <<mainVars, conn_map, acpt_index, acpt_close, acpt_q>>
  /\ UNCHANGED <<recvVars, sendVars, conn_open, outVars>>

\* The length of conn_map is read under the read lock, which is then released.
AcptAdmit ==
  /\ acpt_pc = "admit"
  /\ acpt_pc' = IF AtCapacity THEN "select" ELSE "announce"
  /\ UNCHANGED <<mainVars, conn_map, acpt_index, acpt_err, acpt_close, acpt_q>>
  /\ UNCHANGED <<recvVars, sendVars, conn_open, outVars>>

\* The index is sent to the main loop before the connection is in the map.
\* checked_add fails at the largest index, acpt_tx.send when acpt_rx is dropped.
AcptAnnounce ==
  /\ acpt_pc = "announce"
  /\ \/ /\ IndexExhausted
        /\ acpt_pc' = "closing"
        /\ acpt_err' = TRUE
        /\ UNCHANGED <<acpt_index, acpt_q>>
     \/ /\ ~IndexExhausted
        /\ opened
        /\ acpt_index' = acpt_index + 1
        /\ acpt_q' = Append(acpt_q, acpt_index)
        /\ acpt_pc' = "insert"
        /\ UNCHANGED acpt_err
     \/ /\ ~IndexExhausted
        /\ ~opened
        /\ acpt_index' = acpt_index + 1
        /\ acpt_pc' = "closing"
        /\ acpt_err' = TRUE
        /\ UNCHANGED acpt_q
  /\ UNCHANGED <<mainVars, conn_map, acpt_close>>
  /\ UNCHANGED <<recvVars, sendVars, conn_open, outVars>>

\* Under the write lock.  idx is the index announced one step before.
AcptInsert ==
  /\ acpt_pc = "insert"
  /\ LET idx == acpt_index - 1
     IN  /\ conn_map' = [i \in DOMAIN conn_map \cup {idx} |->
                           IF i = idx THEN NewConn ELSE conn_map[i]]
         /\ conn_open' = [conn_open EXCEPT ![idx] = TRUE]
  /\ acpt_pc' = "select"
  /\ UNCHANGED <<mainVars, acpt_index, acpt_err, acpt_close, acpt_q>>
  /\ UNCHANGED <<recvVars, sendVars, outVars>>

\* listener.close().await? after the loop; an error there is the result.
AcptFinish ==
  /\ acpt_pc = "closing"
  /\ acpt_pc' = "done"
  /\ acpt_err' \in {acpt_err, TRUE}
  /\ acpt_close' = FALSE
  /\ UNCHANGED <<mainVars, conn_map, acpt_index, acpt_q>>
  /\ UNCHANGED <<recvVars, sendVars, conn_open, outVars>>

-----------------------------------------------------------------------------
(* The receive loop of a connection: recv_loop.                            *)

\* One poll of the biased select! looks at the close channel first ...
RecvClose(i) ==
  /\ recv_pc[i] = "select"
  /\ recv_close[i]
  /\ recv_close' = [recv_close EXCEPT ![i] = FALSE]
  /\ recv_pc' = [recv_pc EXCEPT ![i] = "closing"]
  /\ UNCHANGED <<mainVars, conn_map, acptVars, recv_err>>
  /\ UNCHANGED <<sendVars, conn_open, outVars>>

\* ... and, if it is empty, at the connection and the timer.
RecvPoll(i) ==
  /\ recv_pc[i] = "select"
  /\ ~recv_close[i]
  /\ recv_pc' = [recv_pc EXCEPT ![i] = "poll"]
  /\ UNCHANGED <<mainVars, conn_map, acptVars, recv_err, recv_close>>
  /\ UNCHANGED <<sendVars, conn_open, outVars>>

\* A pending select! is woken by the close signal and polled again.
RecvWake(i) ==
  /\ recv_pc[i] = "poll"
  /\ recv_close[i]
  /\ recv_pc' = [recv_pc EXCEPT ![i] = "select"]
  /\ UNCHANGED <<mainVars, conn_map, acptVars, recv_err, recv_close>>
  /\ UNCHANGED <<sendVars, conn_open, outVars>>

\* A datagram is passed on, unless recv_rx has been dropped.  It may have arrived
\* before the send loop closed the connection.
RecvData(i, m) ==
  /\ recv_pc[i] = "poll"
  /\ Len(recv_q) < QueueBound
  /\ \/ /\ opened
        /\ recv_q' = Append(recv_q, <<i, m>>)
        /\ recv_pc' = [recv_pc EXCEPT ![i] = "select"]
        /\ UNCHANGED recv_err
     \/ /\ ~opened
        /\ recv_pc' = [recv_pc EXCEPT ![i] = "closing"]
        /\ recv_err' = [recv_err EXCEPT ![i] = TRUE]
        /\ UNCHANGED recv_q
  /\ UNCHANGED <<mainVars, conn_map, acptVars, recv_close>>
  /\ UNCHANGED <<sendVars, conn_open, timeout_q>>

RecvErrorAsEnd(i) ==  \* mutant: the loop ends with Ok
  /\ recv_pc[i] = "poll"
  /\ recv_pc' = [recv_pc EXCEPT ![i] = "closing"]
  /\ UNCHANGED <<mainVars, conn_map, acptVars, recv_err, recv_close>>
  /\ UNCHANGED <<sendVars, conn_open, outVars>>

\* recv_from fails: closed by the peer, by the send loop, or any other error.
RecvError(i) ==
  /\ recv_pc[i] = "poll"
  /\ recv_pc' = [recv_pc EXCEPT ![i] = "closing"]
  /\ recv_err' = [recv_err EXCEPT ![i] = TRUE]
  /\ UNCHANGED <<mainVars, conn_map, acptVars, recv_close>>
  /\ UNCHANGED <<sendVars, conn_open, outVars>>

\* sleep(timeout_dur) elapses; reporting it fails when timeout_rx is dropped.
RecvTimeout(i) ==
  /\ HasRecvTimeout
  /\ recv_pc[i] = "poll"
  /\ Len(timeout_q) < QueueBound
  /\ \/ /\ opened
        /\ timeout_q' = Append(timeout_q, [kind |-> "recv", conn |-> i])
        /\ recv_pc' = [recv_pc EXCEPT ![i] = "select"]
        /\ UNCHANGED recv_err
     \/ /\ ~opened
        /\ recv_pc' = [recv_pc EXCEPT ![i] = "closing"]
        /\ recv_err' = [recv_err EXCEPT ![i] = TRUE]
        /\ UNCHANGED timeout_q
  /\ UNCHANGED <<mainVars, conn_map, acptVars, recv_close>>
  /\ UNCHANGED <<sendVars, conn_open, recv_q>>

\* conn.close().await? after the loop; an error there is the result.
RecvFinish(i) ==
  /\ recv_pc[i] = "closing"
  /\ recv_pc' = [recv_pc EXCEPT ![i] = "done"]
  /\ \E e \in {recv_err[i], TRUE} : recv_err' = [recv_err EXCEPT ![i] = e]
  /\ recv_close' = [recv_close EXCEPT ![i] = FALSE]
  /\ conn_open' = [conn_open EXCEPT ![i] = FALSE]
  /\ UNCHANGED <<mainVars, conn_map, acptVars, sendVars, outVars>>

-----------------------------------------------------------------------------
(* The send loop of a connection: send_loop.                               *)

\* biased select!: a close signal is taken before a queued message.
SendClose(i) ==
  /\ send_pc[i] = "select"
  /\ send_close[i]
  /\ send_close' = [send_close EXCEPT ![i] = FALSE]
  /\ send_pc' = [send_pc EXCEPT ![i] = "closing"]
  /\ UNCHANGED <<mainVars, conn_map, acptVars, recvVars>>
  /\ UNCHANGED <<send_err, send_q, flight, conn_open, outVars>>

\* conn.send(&msg) is called; on a connection that is closed already it fails at
\* once, before the timer is looked at.
SendTake(i) ==
  /\ send_pc[i] = "select"
  /\ ~send_close[i]
  /\ send_q[i] # << >>
  /\ flight' = [flight EXCEPT ![i] = <<Head(send_q[i])>>]
  /\ send_q' = [send_q EXCEPT ![i] = Tail(@)]
  /\ send_pc' = [send_pc EXCEPT ![i] = IF conn_open[i] THEN "send" ELSE "refused"]
  /\ UNCHANGED <<mainVars, conn_map, acptVars, recvVars>>
  /\ UNCHANGED <<send_err, send_close, conn_open, outVars>>

\* conn.send(&msg) succeeds within the timeout.
SendOk(i) ==
  /\ send_pc[i] = "send"
  /\ conn_open[i]
  /\ flight' = [flight EXCEPT ![i] = << >>]
  /\ send_pc' = [send_pc EXCEPT ![i] = "select"]
  /\ UNCHANGED <<mainVars, conn_map, acptVars, recvVars>>
  /\ UNCHANGED <<send_err, send_close, send_q, conn_open, outVars>>

\* conn.send(&msg) fails.
SendError(i) ==
  /\ send_pc[i] \in {"send", "refused"}
  /\ flight' = [flight EXCEPT ![i] = << >>]
  /\ send_pc' = [send_pc EXCEPT ![i] = "closing"]
  /\ send_err' = [send_err EXCEPT ![i] = TRUE]
  /\ UNCHANGED <<mainVars, conn_map, acptVars, recvVars>>
  /\ UNCHANGED <<send_close, send_q, conn_open, outVars>>

HandBackQueued(i) ==  \* mutant: the loop tries the message again by itself
  /\ send_q' = [send_q EXCEPT ![i] = Append(@, flight[i][1])]
  /\ UNCHANGED timeout_q
HandBack(i) ==
  /\ timeout_q' = Append(timeout_q,
                         [kind |-> "send", conn |-> i, bytes |-> flight[i][1]])
  /\ UNCHANGED send_q

\* The timeout elapses first: the message is handed back to the application,
\* unless timeout_rx has been dropped.
SendTimeout(i) ==
  /\ send_pc[i] = "send"
  /\ Len(timeout_q) < QueueBound
  /\ flight' = [flight EXCEPT ![i] = << >>]
  /\ \/ /\ opened
        /\ HandBack(i)
        /\ send_pc' = [send_pc EXCEPT ![i] = "select"]
        /\ UNCHANGED send_err
     \/ /\ ~opened
        /\ send_pc' = [send_pc EXCEPT ![i] = "closing"]
        /\ send_err' = [send_err EXCEPT ![i] = TRUE]
        /\ UNCHANGED <<send_q, timeout_q>>
  /\ UNCHANGED <<mainVars, conn_map, acptVars, recvVars>>
  /\ UNCHANGED <<send_close, conn_open, recv_q>>

\* conn.close().await? after the loop; what is still queued is dropped.
SendFinish(i) ==
  /\ send_pc[i] = "closing"
  /\ send_pc' = [send_pc EXCEPT ![i] = "done"]
  /\ \E e \in {send_err[i], TRUE} : send_err' = [send_err EXCEPT ![i] = e]
  /\ send_close' = [send_close EXCEPT ![i] = FALSE]
  /\ send_q' = [send_q EXCEPT ![i] = << >>]
  /\ conn_open' = [conn_open EXCEPT ![i] = FALSE]
  /\ UNCHANGED <<mainVars, conn_map, acptVars, recvVars, flight, outVars>>

-----------------------------------------------------------------------------
(* The application's calls, made from Update (phase "update").             *)

IsClosedDespiteConns == ~acpt_handle /\ ~opened  \* mutant: conn_map not looked at

IsClosedDespiteAcptor == DOMAIN conn_map = {} /\ ~opened  \* mutant: handle not looked at

IsClosed ==
  /\ DOMAIN conn_map = {}
  /\ ~acpt_handle
  /\ ~opened

\* start: start_listen, then start_acpt_loop with fresh channels.  A failure
\* of start_listen changes nothing.
Start ==
  /\ phase = "update"
  /\ IsClosed
  /\ opened' = TRUE
  /\ acpt_handle' = TRUE
  /\ acpt_pc' = "select"
  /\ acpt_index' = 1
  /\ acpt_err' = FALSE
  /\ acpt_close' = FALSE
  /\ acpt_q' = << >>
  /\ recv_q' = << >>
  /\ timeout_q' = << >>
  /\ UNCHANGED <<phase, send_fin, recv_fin, conn_map>>
  /\ UNCHANGED <<recvVars, sendVars, conn_open>>

CanSendToEnded(i) ==  \* mutant: a channel nobody reads is sent to
  i \in DOMAIN conn_map /\ conn_map[i].send_tx

\* send enqueues on a connection that is started, not disconnected, and whose
\* send loop has not ended; in every other case it returns Err.
CanSend(i) ==
  /\ i \in DOMAIN conn_map
  /\ conn_map[i].send_tx
  /\ SenderAlive(i)

Send(i, m) ==
  /\ phase = "update"
  /\ CanSend(i)
  /\ Len(send_q[i]) < QueueBound
  /\ send_q' = [send_q EXCEPT ![i] = Append(@, m)]
  /\ UNCHANGED <<mainVars, conn_map, acptVars, recvVars>>
  /\ UNCHANGED <<send_pc, send_err, send_close, flight, conn_open, outVars>>

\* broadcast skips the connections send would refuse.
Broadcast(m) ==
  /\ phase = "update"
  /\ \A i \in Index : Len(send_q[i]) < QueueBound
  /\ send_q' = [i \in Index |-> IF CanSend(i) THEN Append(send_q[i], m)
                                              ELSE send_q[i]]
  /\ UNCHANGED <<mainVars, conn_map, acptVars, recvVars>>
  /\ UNCHANGED <<send_pc, send_err, send_close, flight, conn_open, outVars>>

\* recv: one datagram of any connection, in the order of arrival.
Recv ==
  /\ phase = "update"
  /\ opened
  /\ recv_q # << >>
  /\ recv_q' = Tail(recv_q)
  /\ UNCHANGED <<mainVars, conn_map, acptVars, recvVars>>
  /\ UNCHANGED <<sendVars, conn_open, timeout_q>>

\* disconnect, for each of the connections in C: a close signal to each loop
\* that has not been signalled yet, and no more sending.
SignalledSendOnly(conn) == [conn EXCEPT !.send_tx = FALSE]  \* mutant: no take()
Signalled(conn) == [conn EXCEPT !.close_recv_tx = FALSE, !.send_tx = FALSE]

SignalEach(C) ==
  /\ conn_map' = [i \in DOMAIN conn_map |->
                    IF i \in C THEN Signalled(conn_map[i]) ELSE conn_map[i]]
  /\ recv_close' = [i \in Index |->
                      IF i \in C /\ conn_map[i].close_recv_tx /\ RecverAlive(i)
                      THEN TRUE ELSE recv_close[i]]
  /\ send_close' = [i \in Index |->
                      IF i \in C /\ conn_map[i].send_tx /\ SenderAlive(i)
                      THEN TRUE ELSE send_close[i]]

DisconnectEach(C) ==
  /\ SignalEach(C)
  /\ UNCHANGED <<mainVars, acptVars, recv_pc, recv_err>>
  /\ UNCHANGED <<send_pc, send_err, send_q, flight, conn_open, outVars>>

Disconnect(i) ==
  /\ phase = "update"
  /\ i \in DOMAIN conn_map
  /\ DisconnectEach({i})

DisconnectAll ==
  /\ phase = "update"
  /\ DisconnectEach(DOMAIN conn_map)

\* close_acpt_loop: the signal, and the end of acpt_rx with what it still holds.
CloseAcptLoop ==
  /\ acpt_close' = IF opened THEN AcptAlive ELSE acpt_close
  /\ acpt_q' = << >>

\* close: then the other channel ends of the server are dropped.
CloseServer ==
  /\ CloseAcptLoop
  /\ opened' = FALSE
  /\ recv_q' = << >>
  /\ timeout_q' = << >>

Close ==
  /\ phase = "update"
  /\ opened
  /\ CloseServer
  /\ UNCHANGED <<phase, acpt_handle, send_fin, recv_fin, conn_map>>
  /\ UNCHANGED <<acpt_pc, acpt_index, acpt_err, recvVars, sendVars, conn_open>>

-----------------------------------------------------------------------------
(* The systems the plugin adds to every frame.                             *)

\* start_recv_loop and start_send_loop both find the connection in the map and
\* without a JoinHandle.
CanStart(i) ==
  /\ i \in DOMAIN conn_map
  /\ ~conn_map[i].recv_handle
  /\ ~conn_map[i].send_handle

\* accept_system, one turn of its loop: acpt, then start_conn.  When start_conn
\* fails an error event is sent and the index is forgotten.
AcceptOne ==
  /\ phase = "accept"
  /\ acpt_q # << >>
  /\ acpt_q' = Tail(acpt_q)
  /\ LET i == Head(acpt_q)
     IN  \/ /\ CanStart(i)
            /\ conn_map' = [conn_map EXCEPT ![i] = StartedConn]
            /\ recv_pc' = [recv_pc EXCEPT ![i] = "select"]
            /\ send_pc' = [send_pc EXCEPT ![i] = "select"]
         \/ /\ ~CanStart(i)
            /\ UNCHANGED <<conn_map, recv_pc, send_pc>>
  /\ UNCHANGED <<mainVars, acpt_pc, acpt_index, acpt_err, acpt_close>>
  /\ UNCHANGED <<recv_err, recv_close, send_err, send_close, send_q, flight>>
  /\ UNCHANGED <<conn_open, outVars>>

AcceptDone ==
  /\ phase = "accept"
  /\ acpt_q = << >>
  /\ phase' = "update"
  /\ UNCHANGED <<opened, acpt_handle, send_fin, recv_fin, conn_map>>
  /\ UNCHANGED <<acptVars, recvVars, sendVars, conn_open, outVars>>

\* handle.is_finished() of the handles conn_map holds
SenderEndedOrNot == {i \in DOMAIN conn_map : conn_map[i].send_handle}  \* mutant
SenderEnded == {i \in DOMAIN conn_map : conn_map[i].send_handle /\ send_pc[i] = "done"}
RecverEnded == {i \in DOMAIN conn_map : conn_map[i].recv_handle /\ recv_pc[i] = "done"}

\* health_check_acpt takes and joins the acceptor's handle if it has finished.
HealthCheckAcpt ==
  IF acpt_handle /\ acpt_pc = "done"
  THEN acpt_handle' = FALSE /\ acpt_pc' = "none" /\ acpt_err' = FALSE
  ELSE UNCHANGED <<acpt_handle, acpt_pc, acpt_err>>

\* health_check, first half: the acceptor; then, under the read lock, the finished
\* loops are noted.
HealthSnapshot ==
  /\ phase = "update"
  /\ phase' = "health"
  /\ HealthCheckAcpt
  /\ send_fin' = SenderEnded
  /\ recv_fin' = RecverEnded
  /\ UNCHANGED <<opened, conn_map, acpt_index, acpt_close, acpt_q>>
  /\ UNCHANGED <<recvVars, sendVars, conn_open, outVars>>

\* The entry after the handles noted as finished have been taken.
ReapedBoth(i) ==  \* mutant: both handles are taken when one loop has ended
  [conn_map[i] EXCEPT !.send_handle = @ /\ i \notin send_fin \cup recv_fin,
                      !.recv_handle = @ /\ i \notin send_fin \cup recv_fin]

Reaped(i) ==
  [conn_map[i] EXCEPT !.send_handle = IF i \in send_fin THEN FALSE ELSE @,
                      !.recv_handle = IF i \in recv_fin THEN FALSE ELSE @]

\* DtlsConnHealth::closed
IsConnHalfClosed(conn) ==  \* mutant: one loop is enough
  conn.is_running /\ (~conn.send_handle \/ ~conn.recv_handle)
IsConnDisconnected(conn) ==  \* mutant: only what was disconnected is removed
  conn.is_running /\ ~conn.send_handle /\ ~conn.recv_handle /\ ~conn.send_tx
IsConnClosed(conn) == conn.is_running /\ ~conn.send_handle /\ ~conn.recv_handle

\* health_check, second half, under the write lock: the noted handles are taken
\* and joined, and a connection without handles is removed.
HealthReap ==
  /\ phase = "health"
  /\ phase' = "timeout"
  /\ LET closed == {i \in send_fin \cup recv_fin : IsConnClosed(Reaped(i))}
     IN  conn_map' = [i \in DOMAIN conn_map \ closed |-> Reaped(i)]
  /\ send_pc' = [i \in Index |-> IF i \in send_fin THEN "none" ELSE send_pc[i]]
  /\ send_err' = [i \in Index |-> send_err[i] /\ i \notin send_fin]
  /\ recv_pc' = [i \in Index |-> IF i \in recv_fin THEN "none" ELSE recv_pc[i]]
  /\ recv_err' = [i \in Index |-> recv_err[i] /\ i \notin recv_fin]
  /\ send_fin' = {}
  /\ recv_fin' = {}
  /\ UNCHANGED <<opened, acpt_handle, acptVars, recv_close>>
  /\ UNCHANGED <<send_close, send_q, flight, conn_open, outVars>>

\* timeout_event_system: timeout_check until the channel is empty.
TimeoutEvents ==
  /\ phase = "timeout"
  /\ timeout_q' = << >>
  /\ phase' = "accept"
  /\ UNCHANGED <<opened, acpt_handle, send_fin, recv_fin, conn_map>>
  /\ UNCHANGED <<acptVars, recvVars, sendVars, conn_open, recv_q>>

-----------------------------------------------------------------------------
\* What acpt_loop does by itself, without a new connection or error.
Acceptor == AcptClose \/ AcptAdmit \/ AcptAnnounce \/ AcptInsert \/ AcptFinish

Network == AcptAccept \/ AcptError

Recver(i) ==
  \/ RecvClose(i) \/ RecvPoll(i) \/ RecvWake(i)
  \/ RecvError(i) \/ RecvTimeout(i) \/ RecvFinish(i)
  \/ \E m \in Msg : RecvData(i, m)

Sender(i) ==
  \/ SendClose(i) \/ SendTake(i)
  \/ SendOk(i) \/ SendError(i) \/ SendTimeout(i) \/ SendFinish(i)

App ==
  \/ Start \/ Recv \/ DisconnectAll \/ Close
  \/ \E m \in Msg : Broadcast(m)
  \/ \E i \in Index : Disconnect(i)
  \/ \E i \in Index, m \in Msg : Send(i, m)

Frame == AcceptOne \/ AcceptDone \/ HealthSnapshot \/ HealthReap \/ TimeoutEvents

Next ==
  \/ Acceptor \/ Network \/ App \/ Frame
  \/ \E i \in Index : Recver(i) \/ Sender(i)

Spec == Init /\ [][Next]_vars

\* The runtime keeps running a task that can run, and Bevy keeps running frames.
\* recv_from on a closed connection fails sooner or later, however often the timer
\* or data received before come first.  A send always ends: it succeeds, fails or times out.  Nothing is
\* assumed of the application or of the network: accept may never return and
\* datagrams may never arrive.
RecverRuns(i) ==
  RecvClose(i) \/ RecvPoll(i) \/ RecvWake(i) \/ RecvFinish(i)

Fairness ==
  /\ WF_vars(Acceptor)
  /\ WF_vars(Frame)
  /\ \A i \in Index :
       /\ WF_vars(Sender(i))
       /\ WF_vars(RecverRuns(i))
       /\ SF_vars(~conn_open[i] /\ RecvError(i))

FairSpec == Spec /\ Fairness

-----------------------------------------------------------------------------
(* Safety.                                                                 *)

\* The number of connections never exceeds max_clients, although acpt_loop
\* checks it under one lock and inserts later under another.
CapacityRespected == Cardinality(DOMAIN conn_map) <= MaxClients

\* The debug_assert! of acpt_loop: the index about to be inserted is not in the
\* map, also after restarts, which make the acceptor count from 1 again.
InsertIsFresh == acpt_pc = "insert" => acpt_index - 1 \notin DOMAIN conn_map

\* A spawned loop is always owned: as long as its result has not been collected,
\* its connection is in the map and holds its JoinHandle.  A handle lost would be
\* a task that health_check can never report.
LoopsAreOwned ==
  \A i \in Index :
    /\ recv_pc[i] # "none" <=> i \in DOMAIN conn_map /\ conn_map[i].recv_handle
    /\ send_pc[i] # "none" <=> i \in DOMAIN conn_map /\ conn_map[i].send_handle

\* is_closed, the condition of start, means that nothing of the previous run is
\* left: no task can still run and no DTLS connection is still open.
ClosedMeansQuiet ==
  IsClosed =>
    /\ acpt_pc = "none"
    /\ \A i \in Index :
         recv_pc[i] = "none" /\ send_pc[i] = "none" /\ ~conn_open[i]

\* health_check_conn_loop unwraps, under the write lock, the entries and handles
\* it saw under the read lock, and blocks on the handles: they are still there
\* and the tasks have ended, so that it neither panics nor blocks.
HealthUnwrapsSucceed ==
  /\ \A i \in send_fin :
       i \in DOMAIN conn_map /\ conn_map[i].send_handle /\ send_pc[i] = "done"
  /\ \A i \in recv_fin :
       i \in DOMAIN conn_map /\ conn_map[i].recv_handle /\ recv_pc[i] = "done"

\* A loop that ends with Ok was told to: an application that did not call
\* disconnect or close always gets an error event for what it lost.
CleanEndWasRequested ==
  /\ acpt_pc \in {"closing", "done"} /\ ~acpt_err => ~opened
  /\ \A i \in DOMAIN conn_map :
       /\ recv_pc[i] \in {"closing", "done"} /\ ~recv_err[i]
            => ~conn_map[i].close_recv_tx
       /\ send_pc[i] \in {"closing", "done"} /\ ~send_err[i]
            => ~conn_map[i].send_tx

\* An index waiting in acpt_rx waits there once, and its connection, if it is in
\* the map by now, has not been started: start_conn never replaces a running loop.
AnnouncedOnce ==
  \A k \in 1 .. Len(acpt_q) :
    /\ acpt_q[k] \in DOMAIN conn_map => conn_map[acpt_q[k]] = NewConn
    /\ \A l \in 1 .. k - 1 : acpt_q[l] # acpt_q[k]

\* A connection leaves the map only after both loops have ended and been joined
\* and after the DTLS connection has been closed: none is dropped half open.
RemovedOnlyWhenOver ==
  [][\A i \in DOMAIN conn_map \ DOMAIN conn_map' :
       /\ ~conn_open[i]
       /\ recv_pc'[i] = "none"
       /\ send_pc'[i] = "none"]_vars

-----------------------------------------------------------------------------
(* Liveness, under Fairness.                                               *)

\* disconnect and close have been called for everything there is.
Closing ==
  /\ ~opened
  /\ \A i \in DOMAIN conn_map : ~conn_map[i].close_recv_tx /\ ~conn_map[i].send_tx

\* A connection in the map that has not been started, and whose index is not on
\* its way to accept_system any more.
Stranded(i) ==
  /\ i \in DOMAIN conn_map
  /\ ~conn_map[i].is_running
  /\ \A k \in 1 .. Len(acpt_q) : acpt_q[k] # i

\* After disconnect_all and close the server becomes closed, and can be started
\* again, unless a connection is stranded.
CloseCompletes == Closing ~> (IsClosed \/ \E i \in Index : Stranded(i))

\* The same without the exception: what the comments of dirty_server rely on,
\* "just make sure close all again before restart".
CloseAllowsRestart == Closing ~> IsClosed

\* A started connection that is disconnected eventually leaves the map, and gives
\* back its place among max_clients, without any help of the peer.
DisconnectCompletes ==
  \A i \in Index :
    (/\ i \in DOMAIN conn_map
     /\ conn_map[i].is_running
     /\ ~conn_map[i].close_recv_tx
     /\ ~conn_map[i].send_tx) ~> i \notin DOMAIN conn_map

\* When a send has failed, the receive loop learns of it from the closed connection
\* and the connection leaves the map.  When the receive loop has ended, nothing
\* tells the send loop, but the next message the application sends does.
LostConnEvicted ==
  \A i \in Index :
    (send_pc[i] = "done" \/ (recv_pc[i] = "done" /\ send_q[i] # << >>))
      ~> i \notin DOMAIN conn_map

=============================================================================
