----------------------------- MODULE DtlsClient -----------------------------
(***************************************************************************)
(* The DTLS client resource of bevy_dtls (client/dtls_client.rs) together  *)
(* with the Bevy systems that drive it (client/plugin.rs, client/event.rs).*)
(*                                                                         *)
(* The Bevy main loop owns DtlsClient.  A started client has two tasks in  *)
(* the tokio runtime, a receive loop and a send loop, which share the DTLS *)
(* connection and talk to the main loop through channels.  Unlike the      *)
(* server, the client drops its ends of the data channels in disconnect,   *)
(* while the tasks may still be using the other ends.                      *)
(***************************************************************************)
EXTENDS Integers, Sequences

CONSTANTS
  Msg,         \* payloads
  QueueBound   \* bound on the data queues, for model checking only

ASSUME ClientAssumption == QueueBound \in Nat

VARIABLES
  phase,        \* which part of the frame the main loop is in
  conn,         \* conn is Some
  is_running,
  send_handle,  \* send_handle is Some
  recv_handle,  \* recv_handle is Some
  send_tx,      \* send_tx, send_timeout_rx and close_send_tx are Some
  recv_rx,      \* recv_rx and close_recv_tx are Some
  recv_pc,      \* where recv_loop is
  recv_err,     \* recv_loop ends with Err
  recv_close,   \* a DtlsClientClose is in its close channel
  send_pc,      \* where send_loop is
  send_err,     \* send_loop ends with Err
  send_close,   \* a DtlsClientClose is in its close channel
  send_q,       \* the channel send_tx -> send_rx
  flight,       \* the message send_loop is sending
  conn_open,    \* the DTLS connection has not been closed by this side
  recv_q,       \* the channel recv_tx -> recv_rx
  timeout_q     \* the channel timeout_tx -> send_timeout_rx

mainVars == <<phase, conn, is_running, send_handle, recv_handle, send_tx, recv_rx>>
recvVars == <<recv_pc, recv_err, recv_close>>
sendVars == <<send_pc, send_err, send_close, send_q, flight>>

vars == <<mainVars, recvVars, sendVars, conn_open, recv_q, timeout_q>>

RecvPc == {"none", "select", "poll", "closing", "done"}
SendPc == {"none", "select", "send", "refused", "closing", "done"}

TypeOK ==
  /\ phase \in {"update", "timeout"}
  /\ conn \in BOOLEAN
  /\ is_running \in BOOLEAN
  /\ send_handle \in BOOLEAN
  /\ recv_handle \in BOOLEAN
  /\ send_tx \in BOOLEAN
  /\ recv_rx \in BOOLEAN
  /\ recv_pc \in RecvPc
  /\ recv_err \in BOOLEAN
  /\ recv_close \in BOOLEAN
  /\ send_pc \in SendPc
  /\ send_err \in BOOLEAN
  /\ send_close \in BOOLEAN
  /\ send_q \in Seq(Msg)
  /\ flight \in Seq(Msg)
  /\ conn_open \in BOOLEAN
  /\ recv_q \in Seq(Msg)
  /\ timeout_q \in Seq(Msg)

\* DtlsClient::new
Init ==
  /\ phase = "update"
  /\ conn = FALSE
  /\ is_running = FALSE
  /\ send_handle = FALSE
  /\ recv_handle = FALSE
  /\ send_tx = FALSE
  /\ recv_rx = FALSE
  /\ recv_pc = "none"
  /\ recv_err = FALSE
  /\ recv_close = FALSE
  /\ send_pc = "none"
  /\ send_err = FALSE
  /\ send_close = FALSE
  /\ send_q = << >>
  /\ flight = << >>
  /\ conn_open = FALSE
  /\ recv_q = << >>
  /\ timeout_q = << >>

-----------------------------------------------------------------------------
(* The receive loop: recv_loop.                                            *)

RecverAlive == recv_pc \notin {"none", "done"}
SenderAliveWhenIdle == send_pc = "select"  \* mutant: a busy loop misses the signal
SenderAlive == send_pc \notin {"none", "done"}

\* One poll of the biased select! looks at the close channel first ...
RecvClose ==
  /\ recv_pc = "select"
  /\ recv_close
  /\ recv_close' = FALSE
  /\ recv_pc' = "closing"
  /\ UNCHANGED <<mainVars, recv_err, sendVars, conn_open, recv_q, timeout_q>>

\* ... and, if it is empty, at the connection.
RecvPoll ==
  /\ recv_pc = "select"
  /\ ~recv_close
  /\ recv_pc' = "poll"
  /\ UNCHANGED <<mainVars, recv_err, recv_close, sendVars, conn_open, recv_q, timeout_q>>

\* A pending select! is woken by the close signal and polled again.
RecvWake ==
  /\ recv_pc = "poll"
  /\ recv_close
  /\ recv_pc' = "select"
  /\ UNCHANGED <<mainVars, recv_err, recv_close, sendVars, conn_open, recv_q, timeout_q>>

\* A datagram is passed on, unless disconnect has dropped recv_rx.  It may have
\* arrived before the send loop closed the connection.
RecvData(m) ==
  /\ recv_pc = "poll"
  /\ Len(recv_q) < QueueBound
  /\ IF recv_rx
     THEN recv_q' = Append(recv_q, m) /\ recv_pc' = "select" /\ recv_err' = recv_err
     ELSE recv_q' = recv_q /\ recv_pc' = "closing" /\ recv_err' = TRUE
  /\ UNCHANGED <<mainVars, recv_close, sendVars, conn_open, timeout_q>>

\* conn.recv fails: closed by the peer, by the send loop, or any other error.
RecvError ==
  /\ recv_pc = "poll"
  /\ recv_pc' = "closing"
  /\ recv_err' = TRUE
  /\ UNCHANGED <<mainVars, recv_close, sendVars, conn_open, recv_q, timeout_q>>

\* conn.close().await? after the loop; an error there is the result.
RecvFinish ==
  /\ recv_pc = "closing"
  /\ recv_pc' = "done"
  /\ recv_err' \in {recv_err, TRUE}
  /\ recv_close' = FALSE
  /\ conn_open' = FALSE
  /\ UNCHANGED <<mainVars, sendVars, recv_q, timeout_q>>

-----------------------------------------------------------------------------
(* The send loop: send_loop.                                               *)

\* biased select!: a close signal is taken before a queued message.
SendClose ==
  /\ send_pc = "select"
  /\ send_close
  /\ send_close' = FALSE
  /\ send_pc' = "closing"
  /\ UNCHANGED <<mainVars, recvVars, send_err, send_q, flight, conn_open, recv_q, timeout_q>>

\* conn.send(&msg) is called; on a connection that is closed already it fails at
\* once, before the timer is looked at.
SendTake ==
  /\ send_pc = "select"
  /\ ~send_close
  /\ send_q # << >>
  /\ flight' = <<Head(send_q)>>
  /\ send_q' = Tail(send_q)
  /\ send_pc' = IF conn_open THEN "send" ELSE "refused"
  /\ UNCHANGED <<mainVars, recvVars, send_err, send_close, conn_open, recv_q, timeout_q>>

\* conn.send(&msg) succeeds within the timeout.
SendOk ==
  /\ send_pc = "send"
  /\ conn_open
  /\ flight' = << >>
  /\ send_pc' = "select"
  /\ UNCHANGED <<mainVars, recvVars, send_err, send_close, send_q, conn_open, recv_q, timeout_q>>

\* conn.send(&msg) fails.
SendError ==
  /\ send_pc \in {"send", "refused"}
  /\ flight' = << >>
  /\ send_pc' = "closing"
  /\ send_err' = TRUE
  /\ UNCHANGED <<mainVars, recvVars, send_close, send_q, conn_open, recv_q, timeout_q>>

TimedOutUnreported == timeout_q  \* mutant: a timeout is only logged
TimedOut == timeout_q \o flight

\* The timeout elapses first: the message is handed back to the application,
\* unless disconnect has dropped send_timeout_rx.
SendTimeout ==
  /\ send_pc = "send"
  /\ Len(timeout_q) < QueueBound
  /\ flight' = << >>
  /\ IF send_tx
     THEN timeout_q' = TimedOut /\ send_pc' = "select" /\ send_err' = send_err
     ELSE timeout_q' = timeout_q /\ send_pc' = "closing" /\ send_err' = TRUE
  /\ UNCHANGED <<mainVars, recvVars, send_close, send_q, conn_open, recv_q>>

\* conn.close().await? after the loop; what is still queued is dropped.
SendFinish ==
  /\ send_pc = "closing"
  /\ send_pc' = "done"
  /\ send_err' \in {send_err, TRUE}
  /\ send_close' = FALSE
  /\ send_q' = << >>
  /\ conn_open' = FALSE
  /\ UNCHANGED <<mainVars, recvVars, flight, recv_q, timeout_q>>

-----------------------------------------------------------------------------
(* The application's calls, made from Update.                              *)

IsClosedByDisconnect == ~send_tx /\ ~recv_rx  \* mutant: only what disconnect sets

IsClosed ==
  /\ ~is_running /\ ~conn /\ ~recv_handle /\ ~send_handle
  /\ ~send_tx /\ ~recv_rx

\* start: start_connect succeeds and both loops are spawned with fresh channels.
\* The main loop blocks until then; a failure of start_connect changes nothing.
Start ==
  /\ phase = "update"
  /\ IsClosed
  /\ conn' = TRUE
  /\ conn_open' = TRUE
  /\ is_running' = TRUE
  /\ send_handle' = TRUE
  /\ send_tx' = TRUE
  /\ send_pc' = "select"
  /\ send_err' = FALSE
  /\ send_q' = << >>
  /\ timeout_q' = << >>
  /\ recv_handle' = TRUE
  /\ recv_rx' = TRUE
  /\ recv_pc' = "select"
  /\ recv_err' = FALSE
  /\ recv_q' = << >>
  /\ UNCHANGED <<phase, send_close, recv_close, flight>>

\* send enqueues unless disconnected or the send loop has ended; else it is Err.
Send(m) ==
  /\ phase = "update"
  /\ send_tx
  /\ SenderAlive
  /\ Len(send_q) < QueueBound
  /\ send_q' = Append(send_q, m)
  /\ UNCHANGED <<mainVars, recvVars, send_pc, send_err, send_close, flight, conn_open>>
  /\ UNCHANGED <<recv_q, timeout_q>>

Recv ==
  /\ phase = "update"
  /\ recv_rx
  /\ recv_q # << >>
  /\ recv_q' = Tail(recv_q)
  /\ UNCHANGED <<mainVars, recvVars, sendVars, conn_open, timeout_q>>

CloseSendLoopKeepsTx ==  \* mutant: send_tx is not dropped
  /\ send_close' = IF send_tx /\ SenderAlive THEN TRUE ELSE send_close
  /\ UNCHANGED <<send_tx, timeout_q>>

\* disconnect, first half: the send loop is signalled, its channels are dropped ...
CloseSendLoop ==
  /\ send_close' = IF send_tx /\ SenderAlive THEN TRUE ELSE send_close
  /\ send_tx' = FALSE
  /\ timeout_q' = << >>

CloseRecvLoopKeepsRx ==  \* mutant: recv_rx is not dropped
  /\ recv_close' = IF recv_rx /\ RecverAlive THEN TRUE ELSE recv_close
  /\ UNCHANGED <<recv_rx, recv_q>>

\* ... and second half: the same for the receive loop.
CloseRecvLoop ==
  /\ recv_close' = IF recv_rx /\ RecverAlive THEN TRUE ELSE recv_close
  /\ recv_rx' = FALSE
  /\ recv_q' = << >>

Disconnect ==
  /\ phase = "update"
  /\ CloseSendLoop
  /\ CloseRecvLoop
  /\ UNCHANGED <<phase, conn, is_running, send_handle, recv_handle, recv_pc, recv_err>>
  /\ UNCHANGED <<send_pc, send_err, send_q, flight, conn_open>>

-----------------------------------------------------------------------------
(* The systems the plugin adds to every frame.                             *)

SenderEnded == send_handle /\ send_pc = "done"
RecverEnded == recv_handle /\ recv_pc = "done"

ClosedBySender == is_running /\ ~send_handle'  \* mutant: the receive loop not looked at

ClosedIfDisconnected ==  \* mutant: only a disconnected run ends
  is_running /\ ~send_handle' /\ ~recv_handle' /\ ~send_tx

\* DtlsClientHealth::closed, computed after the handles have been taken.
Closed == is_running /\ ~send_handle' /\ ~recv_handle'

\* health_event_system: the finished loops are joined; when none is left the
\* connection is dropped and ConnClosed is sent.
HealthCheck ==
  /\ phase = "update"
  /\ phase' = "timeout"
  /\ send_handle' = (send_handle /\ ~SenderEnded)
  /\ send_pc' = IF SenderEnded THEN "none" ELSE send_pc
  /\ send_err' = (send_err /\ ~SenderEnded)
  /\ recv_handle' = (recv_handle /\ ~RecverEnded)
  /\ recv_pc' = IF RecverEnded THEN "none" ELSE recv_pc
  /\ recv_err' = (recv_err /\ ~RecverEnded)
  /\ conn' = (conn /\ ~Closed)
  /\ is_running' = (is_running /\ ~Closed)
  /\ UNCHANGED <<send_tx, recv_rx, recv_close, send_close, send_q, flight, conn_open>>
  /\ UNCHANGED <<recv_q, timeout_q>>

\* timeout_event_system: timeout_check until the channel is empty.
TimeoutEvents ==
  /\ phase = "timeout"
  /\ phase' = "update"
  /\ timeout_q' = << >>
  /\ UNCHANGED <<conn, is_running, send_handle, recv_handle, send_tx, recv_rx>>
  /\ UNCHANGED <<recvVars, sendVars, conn_open, recv_q>>

-----------------------------------------------------------------------------
Recver ==
  \/ RecvClose \/ RecvPoll \/ RecvWake \/ RecvError \/ RecvFinish
  \/ \E m \in Msg : RecvData(m)

Sender == SendClose \/ SendTake \/ SendOk \/ SendError \/ SendTimeout \/ SendFinish

App == Start \/ Recv \/ Disconnect \/ \E m \in Msg : Send(m)

Frame == HealthCheck \/ TimeoutEvents

Next == Recver \/ Sender \/ App \/ Frame

Spec == Init /\ [][Next]_vars

\* As on the server: tasks that can run are run and frames go on; recv on a closed
\* connection fails sooner or later; nothing is assumed of the network.
RecverRuns == RecvClose \/ RecvPoll \/ RecvWake \/ RecvFinish

Fairness ==
  /\ WF_vars(Frame)
  /\ WF_vars(Sender)
  /\ WF_vars(RecverRuns)
  /\ SF_vars(~conn_open /\ RecvError)

FairSpec == Spec /\ Fairness

-----------------------------------------------------------------------------
(* Safety.                                                                 *)

\* is_closed, the condition of start, means that nothing of the previous run is
\* left: the fresh connection is not shared with a task of the old one, no signal
\* for an old task is pending, and no old message waits.
ClosedMeansQuiet ==
  IsClosed =>
    /\ recv_pc = "none" /\ send_pc = "none"
    /\ ~conn_open
    /\ ~recv_close /\ ~send_close
    /\ send_q = << >> /\ recv_q = << >> /\ timeout_q = << >>

\* A spawned loop is owned until its result has been collected, and while one is,
\* the client counts as running and holds the connection.
LoopsAreOwned ==
  /\ recv_pc # "none" <=> recv_handle
  /\ send_pc # "none" <=> send_handle
  /\ recv_handle \/ send_handle => is_running
  /\ is_running <=> conn

\* A loop that ends with Ok was told to by disconnect: an application that did not
\* disconnect always gets an error event before ConnClosed.
CleanEndWasRequested ==
  /\ recv_pc \in {"closing", "done"} /\ ~recv_err => ~recv_rx
  /\ send_pc \in {"closing", "done"} /\ ~send_err => ~send_tx

\* ConnClosed can come before disconnect, but then disconnect is all that is
\* missing for a restart, whatever was queued when the loops ended: "just make
\* sure close before restart" in dirty_client.
DisconnectAllowsRestart ==
  [][Disconnect /\ ~is_running => IsClosed']_vars

\* The messages that the application has handed to send and that have not left again.
Held == Len(send_q) + Len(flight) + Len(timeout_q)

\* A message that send accepted leaves the client onto the network, or back to the
\* application by a timeout event; if it is dropped instead (queued behind a failed
\* send or a close signal, or in a timeout not read yet), then its loop ends with an
\* error, or the application has called disconnect itself.  Nothing is left for start
\* to drop.
LossIsKnown ==
  [][Held' < Held => SendOk \/ TimeoutEvents \/ send_err' \/ ~send_tx']_vars

-----------------------------------------------------------------------------
(* Liveness, under Fairness.                                               *)

\* After disconnect the client becomes closed without any help of the peer.
DisconnectCompletes == (is_running /\ ~send_tx /\ ~recv_rx) ~> IsClosed

\* When a send has failed, the receive loop learns of it from the closed connection
\* and the run ends with ConnClosed.  When the receive loop has ended, nothing tells
\* the send loop, but the next message does.
LostConnEnds ==
  (send_pc = "done" \/ (recv_pc = "done" /\ send_q # << >>)) ~> ~is_running

=============================================================================
