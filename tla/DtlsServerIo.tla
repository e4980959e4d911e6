---------------------------- MODULE DtlsServerIo ----------------------------
(***************************************************************************)
(* DtlsServer with the history of the messages its application sends: what *)
(* became of each that send or broadcast has accepted.                     *)
(*                                                                         *)
(* Messages are numbered in the order in which the application sends them. *)
(* The histories last for a run of the server, from one start to the next. *)
(* They only record; Msg bounds how many messages the application sends.   *)
(***************************************************************************)
EXTENDS DtlsServer

ASSUME NumbersAssumption == Msg \subseteq Nat \ {0} /\ Msg # {}

VARIABLES
  next,    \* the number of the next message
  sent,    \* for each connection, the set of the messages accepted for it
  wire,    \* for each connection, the sequence of those given to the network
  back,    \* for each connection, the set of those that a timeout event has returned to
           \* the application
  dropped, \* for each connection, the set of those whose timeout close dropped unread:
           \* nobody hears of them again
  told     \* for each connection, the number below which the application knows that
           \* messages may be lost: it disconnected the connection itself, or has got
           \* the error of its send loop

histVars == <<next, sent, wire, back, dropped, told>>
allVars  == <<vars, histVars>>

HistInit ==
  /\ next = 1
  /\ sent = [i \in Index |-> {}]
  /\ wire = [i \in Index |-> << >>]
  /\ back = [i \in Index |-> {}]
  /\ dropped = [i \in Index |-> {}]
  /\ told = [i \in Index |-> 0]

IoInit == Init /\ HistInit

-----------------------------------------------------------------------------
(* What the actions of DtlsServer do to the histories.                     *)

Elems(q) == {q[k] : k \in 1 .. Len(q)}

Accepted(C) ==
  /\ next' = next + 1
  /\ sent' = [i \in Index |-> IF i \in C THEN sent[i] \cup {next} ELSE sent[i]]
  /\ UNCHANGED <<wire, back, dropped, told>>

OnWire(i) == wire' = [wire EXCEPT ![i] = @ \o flight[i]]

\* The messages whose timeout has not been read.
TimedOut(i) == {t.bytes : t \in {u \in Elems(timeout_q) : u.kind = "send" /\ u.conn = i}}

\* timeout_event_system hands them to the application, one event for each ...
TakenBack ==
  /\ back' = [i \in Index |-> back[i] \cup TimedOut(i)]
  /\ UNCHANGED <<next, sent, wire, dropped, told>>

\* ... but close drops both ends of the channel, and what is in it: no event, no error.
DroppedUnread ==
  /\ dropped' = [i \in Index |-> dropped[i] \cup TimedOut(i)]
  /\ UNCHANGED <<next, sent, wire, back, told>>

ToldOf(C) ==
  /\ told' = [i \in Index |-> IF i \in C THEN next ELSE told[i]]
  /\ UNCHANGED <<next, sent, wire, back, dropped>>

IoStart ==
  /\ Start
  /\ next' = 1
  /\ sent' = [i \in Index |-> {}]
  /\ wire' = [i \in Index |-> << >>]
  /\ back' = [i \in Index |-> {}]
  /\ dropped' = [i \in Index |-> {}]
  /\ told' = [i \in Index |-> 0]

IoApp ==
  \/ IoStart
  \/ Recv /\ UNCHANGED histVars
  \/ next \in Msg /\ Broadcast(next) /\ Accepted({i \in Index : CanSend(i)})
  \/ next \in Msg /\ \E i \in Index : Send(i, next) /\ Accepted({i})
  \/ DisconnectAll /\ ToldOf(DOMAIN conn_map)
  \/ \E i \in Index : Disconnect(i) /\ ToldOf({i})
  \/ Close /\ DroppedUnread

\* When the timer of a send elapses, nobody knows whether the message has left.
IoSender(i) ==
  \/ (SendClose(i) \/ SendTake(i) \/ SendError(i) \/ SendFinish(i)) /\ UNCHANGED histVars
  \/ SendOk(i) /\ OnWire(i) /\ UNCHANGED <<next, sent, back, dropped, told>>
  \/ SendTimeout(i) /\ (OnWire(i) \/ UNCHANGED wire) /\ UNCHANGED <<next, sent, back, dropped, told>>

\* What is received is not told apart here.
IoRecver(i) ==
  /\ \/ RecverRuns(i) \/ RecvError(i) \/ RecvTimeout(i)
     \/ RecvData(i, CHOOSE m \in Msg : TRUE)
  /\ UNCHANGED histVars

IoFrame ==
  \/ (AcceptOne \/ AcceptDone \/ HealthSnapshot) /\ UNCHANGED histVars
  \/ HealthReap /\ ToldOf({i \in send_fin : send_err[i]})
  \/ TimeoutEvents /\ TakenBack

IoNext ==
  \/ (Acceptor \/ Network) /\ UNCHANGED histVars
  \/ IoApp \/ IoFrame
  \/ \E i \in Index : IoRecver(i) \/ IoSender(i)

IoSpec == IoInit /\ [][IoNext]_allVars

\* The fairness of DtlsServer.
FairIoSpec ==
  /\ IoSpec
  /\ WF_allVars(Acceptor /\ UNCHANGED histVars)
  /\ WF_allVars(IoFrame)
  /\ \A i \in Index :
       /\ WF_allVars(IoSender(i))
       /\ WF_allVars(RecverRuns(i) /\ UNCHANGED histVars)
       /\ SF_allVars(~conn_open[i] /\ RecvError(i) /\ UNCHANGED histVars)

-----------------------------------------------------------------------------
\* A connection's messages reach the network in the order in which they were sent, and
\* none twice.  A timeout does not change that: the message goes back to the
\* application, the loop goes on with the next one, and whatever the application sends
\* again is a new message.
SentInOrder ==
  \A i \in Index : \A k \in 1 .. Len(wire[i]) - 1 : wire[i][k] < wire[i][k + 1]

\* The message reached the network, or the application knows that it may not have.
Settled(i, m) == m \in Elems(wire[i]) \cup back[i] \/ m < told[i]

\* Still on its way: queued for a loop that lives, being sent, or in a timeout that has
\* not been read; or dropped with an error that will be reported.
Pending(i, m) ==
  \/ SenderAlive(i) /\ m \in Elems(send_q[i]) \cup Elems(flight[i])
  \/ m \in TimedOut(i)
  \/ send_pc[i] \in {"closing", "done"} /\ send_err[i]

\* A message that send or broadcast accepted disappears without a word in one way only:
\* its send has timed out, and the application calls close before timeout_event_system
\* has read the timeout, which close drops with the channel.  No other does, although a
\* close signal overtakes the messages queued before it, a failed send drops those queued
\* behind it, and timeouts are reported to a channel that may be gone.
SilentLossOnlyByClose ==
  \A i \in Index : \A m \in sent[i] : Settled(i, m) \/ Pending(i, m) \/ m \in dropped[i]

\* And no message stays on its way for ever, whatever the peer and the application do:
\* it is settled in the end, or close has dropped its timeout, unless the next run is
\* started.
EveryMessageEnds ==
  \A i \in Index : \A m \in Msg :
    m \in sent[i] ~> (Settled(i, m) \/ m \in dropped[i] \/ m \notin sent[i])

=============================================================================
