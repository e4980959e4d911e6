-------------------------- MODULE DtlsClientProofs --------------------------
(***************************************************************************)
(* The safety properties of DtlsClient, for every set of messages.         *)
(***************************************************************************)
EXTENDS DtlsClient, TLAPS

\* A loop that has not been started or has ended has no signal pending and no message
\* queued; a signal is pending only after disconnect; a data channel that was dropped is
\* empty; the DTLS connection is open at most while both loops run; the send loop holds a
\* message only while it is in conn.send.
QuietInv ==
  /\ ~RecverAlive => ~recv_close
  /\ ~SenderAlive => ~send_close /\ send_q = << >>
  /\ recv_close => ~recv_rx
  /\ send_close => ~send_tx
  /\ ~recv_rx => recv_q = << >>
  /\ ~send_tx => timeout_q = << >>
  /\ conn_open => RecverAlive /\ SenderAlive
  /\ send_pc \notin {"send", "refused"} => flight = << >>

\* The inductive invariant: the properties themselves, except ClosedMeansQuiet, which
\* follows, and QuietInv for its sake.
ClientInv == TypeOK /\ LoopsAreOwned /\ CleanEndWasRequested /\ QuietInv

USE ClientAssumption DEF RecverAlive, SenderAlive

-----------------------------------------------------------------------------
(* Appending to a queue and taking from it keep its type.                  *)

LEMMA AppendKeepsType ==
  ASSUME NEW q \in Seq(Msg), NEW m \in Msg
  PROVE  Append(q, m) \in Seq(Msg)
  OBVIOUS

LEMMA TailKeepsType ==
  ASSUME NEW q \in Seq(Msg), q # << >>
  PROVE  /\ Tail(q) \in Seq(Msg)
         /\ <<Head(q)>> \in Seq(Msg)
  OBVIOUS

LEMMA JoinKeepsType ==
  ASSUME NEW q \in Seq(Msg), NEW r \in Seq(Msg)
  PROVE  q \o r \in Seq(Msg)
  OBVIOUS

LEMMA EmptyQueue == << >> \in Seq(Msg)
  OBVIOUS

-----------------------------------------------------------------------------
\* The client as DtlsClient::new leaves it satisfies the invariant.
LEMMA InitClientInv == Init => ClientInv
  BY EmptyQueue
  DEF Init, ClientInv, TypeOK, RecvPc, SendPc, LoopsAreOwned, CleanEndWasRequested, QuietInv

\* The steps of the receive loop.
LEMMA RecverStep == ClientInv /\ Recver => ClientInv'
<1> SUFFICES ASSUME ClientInv, Recver PROVE ClientInv'
  OBVIOUS
<1> USE DEF ClientInv, TypeOK, RecvPc, SendPc, LoopsAreOwned, CleanEndWasRequested, QuietInv,
            mainVars, recvVars, sendVars
<1>1. CASE RecvClose
  BY <1>1 DEF RecvClose
<1>2. CASE RecvPoll
  BY <1>2 DEF RecvPoll
<1>3. CASE RecvWake
  BY <1>3 DEF RecvWake
<1>4. CASE RecvError
  BY <1>4 DEF RecvError
<1>5. CASE RecvFinish
  BY <1>5 DEF RecvFinish
<1>6. ASSUME NEW m \in Msg, RecvData(m) PROVE ClientInv'
  <2>1. CASE recv_rx
    <3>1. recv_q' \in Seq(Msg)
      BY <1>6, <2>1, AppendKeepsType DEF RecvData
    <3> QED BY <1>6, <2>1, <3>1 DEF RecvData
  <2>2. CASE ~recv_rx
    BY <1>6, <2>2 DEF RecvData
  <2> QED BY <2>1, <2>2
<1> QED BY <1>1, <1>2, <1>3, <1>4, <1>5, <1>6 DEF Recver

\* The steps of the send loop.
LEMMA SenderStep == ClientInv /\ Sender => ClientInv'
<1> SUFFICES ASSUME ClientInv, Sender PROVE ClientInv'
  OBVIOUS
<1> USE DEF ClientInv, TypeOK, RecvPc, SendPc, LoopsAreOwned, CleanEndWasRequested, QuietInv,
            mainVars, recvVars, sendVars
<1>1. CASE SendClose
  BY <1>1 DEF SendClose
<1>2. CASE SendTake
  <2>1. send_q' \in Seq(Msg) /\ flight' \in Seq(Msg)
    BY <1>2, TailKeepsType DEF SendTake
  <2> QED BY <1>2, <2>1 DEF SendTake
<1>3. CASE SendOk
  BY <1>3, EmptyQueue DEF SendOk
<1>4. CASE SendError
  BY <1>4, EmptyQueue DEF SendError
<1>5. CASE SendTimeout
  <2>1. timeout_q' \in Seq(Msg)
    BY <1>5, JoinKeepsType DEF SendTimeout, TimedOut
  <2>2. CASE send_tx
    BY <1>5, <2>1, <2>2, EmptyQueue DEF SendTimeout
  <2>3. CASE ~send_tx
    BY <1>5, <2>1, <2>3, EmptyQueue DEF SendTimeout
  <2> QED BY <2>2, <2>3
<1>6. CASE SendFinish
  BY <1>6, EmptyQueue DEF SendFinish
<1> QED BY <1>1, <1>2, <1>3, <1>4, <1>5, <1>6 DEF Sender

\* The calls of the application.
LEMMA AppStep == ClientInv /\ App => ClientInv'
<1> SUFFICES ASSUME ClientInv, App PROVE ClientInv'
  OBVIOUS
<1> USE DEF ClientInv, TypeOK, RecvPc, SendPc, LoopsAreOwned, CleanEndWasRequested, QuietInv,
            mainVars, recvVars, sendVars
<1>1. CASE Start
  BY <1>1, EmptyQueue DEF Start, IsClosed
<1>2. CASE Recv
  <2>1. recv_q' \in Seq(Msg)
    BY <1>2, TailKeepsType DEF Recv
  <2> QED BY <1>2, <2>1 DEF Recv
<1>3. CASE Disconnect
  BY <1>3, EmptyQueue DEF Disconnect, CloseSendLoop, CloseRecvLoop
<1>4. ASSUME NEW m \in Msg, Send(m) PROVE ClientInv'
  <2>1. send_q' \in Seq(Msg)
    BY <1>4, AppendKeepsType DEF Send
  <2> QED BY <1>4, <2>1 DEF Send
<1> QED BY <1>1, <1>2, <1>3, <1>4 DEF App

\* The systems of the plugin.
LEMMA FrameStep == ClientInv /\ Frame => ClientInv'
<1> SUFFICES ASSUME ClientInv, Frame PROVE ClientInv'
  OBVIOUS
<1> USE DEF ClientInv, TypeOK, RecvPc, SendPc, LoopsAreOwned, CleanEndWasRequested, QuietInv,
            mainVars, recvVars, sendVars
<1>1. CASE HealthCheck
  BY <1>1 DEF HealthCheck, Closed, SenderEnded, RecverEnded
<1>2. CASE TimeoutEvents
  BY <1>2, EmptyQueue DEF TimeoutEvents
<1> QED BY <1>1, <1>2 DEF Frame

\* Every step keeps the invariant.
LEMMA StepClientInv == ClientInv /\ [Next]_vars => ClientInv'
<1> SUFFICES ASSUME ClientInv, [Next]_vars PROVE ClientInv'
  OBVIOUS
<1>1. CASE Next
  BY <1>1, RecverStep, SenderStep, AppStep, FrameStep DEF Next
<1>2. CASE UNCHANGED vars
  BY <1>2 DEF ClientInv, TypeOK, LoopsAreOwned, CleanEndWasRequested, QuietInv,
              vars, mainVars, recvVars, sendVars
<1> QED BY <1>1, <1>2

\* The inductive invariant holds in every reachable state.
THEOREM ClientInductive == Spec => []ClientInv
<1>1. Init => ClientInv
  BY InitClientInv
<1>2. ClientInv /\ [Next]_vars => ClientInv'
  BY StepClientInv
<1> QED BY <1>1, <1>2, PTL DEF Spec

-----------------------------------------------------------------------------
\* Every variable keeps its type, the queues included, for every set of messages.
THEOREM ClientTypeCorrect == Spec => []TypeOK
<1>1. ClientInv => TypeOK
  BY DEF ClientInv
<1> QED BY <1>1, ClientInductive, PTL

\* A spawned loop has its JoinHandle until it has been joined, and meanwhile the client
\* counts as running and holds the connection.
THEOREM ClientLoopsAreOwned == Spec => []LoopsAreOwned
<1>1. ClientInv => LoopsAreOwned
  BY DEF ClientInv
<1> QED BY <1>1, ClientInductive, PTL

\* A loop that ends without an error was told to by disconnect.
THEOREM ClientCleanEndsAreRequested == Spec => []CleanEndWasRequested
<1>1. ClientInv => CleanEndWasRequested
  BY DEF ClientInv
<1> QED BY <1>1, ClientInductive, PTL

\* The invariant says enough of a closed client.
LEMMA ClosedFromInv == ClientInv => ClosedMeansQuiet
<1> SUFFICES ASSUME ClientInv, IsClosed
             PROVE  /\ recv_pc = "none" /\ send_pc = "none"
                    /\ ~conn_open
                    /\ ~recv_close /\ ~send_close
                    /\ send_q = << >> /\ recv_q = << >> /\ timeout_q = << >>
  BY DEF ClosedMeansQuiet
<1>1. recv_pc = "none" /\ send_pc = "none"
  BY DEF ClientInv, LoopsAreOwned, IsClosed
<1> QED BY <1>1 DEF ClientInv, QuietInv, IsClosed

\* When start is allowed no task, signal, message or connection of an earlier run is
\* left.
THEOREM ClientClosedIsQuiet == Spec => []ClosedMeansQuiet
<1> QED BY ClosedFromInv, ClientInductive, PTL

\* A disconnect after the run is over leaves a client that can be started again.
THEOREM ClientDisconnectAllowsRestart == Spec => DisconnectAllowsRestart
<1>1. ClientInv => (Disconnect /\ ~is_running => IsClosed')
  BY DEF ClientInv, LoopsAreOwned, Disconnect, CloseSendLoop, CloseRecvLoop, IsClosed
<1>2. ClientInv /\ [Next]_vars => [Disconnect /\ ~is_running => IsClosed']_vars
  BY <1>1
<1> QED BY <1>2, ClientInductive, PTL DEF Spec, DisconnectAllowsRestart

\* What a step takes out of the client.  Every step but these two either keeps the number
\* of its messages or drops some, with an error or after a disconnect.
LEMMA LossStep ==
  ASSUME ClientInv, ClientInv', [Next]_vars, ~SendOk, ~TimeoutEvents
  PROVE  Held' >= Held \/ send_err' \/ ~send_tx'
<1>0. /\ send_q \in Seq(Msg) /\ flight \in Seq(Msg) /\ timeout_q \in Seq(Msg)
      /\ Len(send_q) \in Nat /\ Len(flight) \in Nat /\ Len(timeout_q) \in Nat
  BY DEF ClientInv, TypeOK
<1>1. CASE UNCHANGED <<send_q, flight, timeout_q>>
  BY <1>0, <1>1 DEF Held
<1>2. CASE Recver
  BY <1>1, <1>2 DEF Recver, RecvClose, RecvPoll, RecvWake, RecvData, RecvError, RecvFinish,
                    sendVars
<1>3. CASE SendTake
  <2>1. /\ send_q # << >> /\ send_q' = Tail(send_q) /\ flight' = <<Head(send_q)>>
        /\ timeout_q' = timeout_q /\ flight = << >>
    BY <1>3 DEF SendTake, ClientInv, QuietInv
  <2>2. Len(send_q') = Len(send_q) - 1 /\ Len(flight') = 1 /\ Len(flight) = 0
    BY <1>0, <2>1
  <2> QED BY <1>0, <2>1, <2>2 DEF Held
<1>4. CASE SendTimeout /\ send_tx
  <2>1. timeout_q' = timeout_q \o flight /\ flight' = << >> /\ send_q' = send_q
    BY <1>4 DEF SendTimeout, TimedOut
  <2>2. Len(timeout_q') = Len(timeout_q) + Len(flight) /\ Len(flight') = 0
    BY <1>0, <2>1
  <2> QED BY <1>0, <2>1, <2>2 DEF Held
<1>5. CASE SendTimeout /\ ~send_tx
  BY <1>5 DEF SendTimeout
\* The queue is dropped with the loop, which ended with an error or was asked to end.
<1>6. CASE SendFinish
  <2>1. send_pc' = "done"
    BY <1>6 DEF SendFinish
  <2> QED BY <2>1 DEF ClientInv, CleanEndWasRequested
<1>7. CASE SendClose \/ SendError
  BY <1>1, <1>7 DEF SendClose, SendError
\* start replaces the channels of the run before, which are empty.
<1>8. CASE Start
  <2>1. send_q = << >> /\ timeout_q = << >>
    BY <1>8, ClosedFromInv DEF Start, ClosedMeansQuiet
  <2>2. UNCHANGED <<send_q, flight, timeout_q>>
    BY <1>8, <2>1 DEF Start
  <2> QED BY <1>1, <2>2
<1>9. ASSUME NEW m \in Msg, Send(m) PROVE Held' >= Held
  <2>1. send_q' = Append(send_q, m) /\ UNCHANGED <<flight, timeout_q>>
    BY <1>9 DEF Send
  <2>2. Len(send_q') = Len(send_q) + 1
    BY <1>0, <2>1
  <2> QED BY <1>0, <2>1, <2>2 DEF Held
<1>10. CASE Disconnect
  BY <1>10 DEF Disconnect, CloseSendLoop
<1>11. CASE Recv \/ HealthCheck \/ UNCHANGED vars
  BY <1>1, <1>11 DEF Recv, HealthCheck, vars, sendVars
<1> QED
  BY <1>2, <1>3, <1>4, <1>5, <1>6, <1>7, <1>8, <1>9, <1>10, <1>11 DEF Next, Sender, App, Frame

\* A message that was accepted leaves the client onto the network, back to the application
\* by a timeout event, with an error of the send loop, or by the application's own
\* disconnect, and in no other way.
THEOREM ClientLossIsKnown == Spec => LossIsKnown
<1>1. ClientInv /\ ClientInv' /\ [Next]_vars
      => [Held' < Held => SendOk \/ TimeoutEvents \/ send_err' \/ ~send_tx']_vars
  <2> SUFFICES ASSUME ClientInv, ClientInv', [Next]_vars, Held' < Held,
                      ~SendOk, ~TimeoutEvents
               PROVE  send_err' \/ ~send_tx'
    OBVIOUS
  <2>1. Held \in Int /\ Held' \in Int
    BY DEF ClientInv, TypeOK, Held
  <2> QED BY <2>1, LossStep
<1> QED BY <1>1, ClientInductive, PTL DEF Spec, LossIsKnown

=============================================================================
