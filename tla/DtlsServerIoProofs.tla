------------------------- MODULE DtlsServerIoProofs -------------------------
(***************************************************************************)
(* What becomes of the messages a server application sends, for every      *)
(* number of connections, every set of messages and any number of runs.    *)
(*                                                                         *)
(* Every step of DtlsServerIo is a step of DtlsServer, so its invariant    *)
(* IInv holds here as well; SendSideIdle is one more of DtlsServer, which  *)
(* only the histories need.  OrderInv is what SentInOrder rests on,        *)
(* DisconnectTold what SilentLossOnlyByClose rests on.                              *)
(***************************************************************************)
EXTENDS DtlsServerIo, DtlsServerProofs

\* send_loop holds a message only while it is in conn.send, and a queue holds messages
\* only for a loop that has not ended.
SendSideIdle ==
  \A i \in Index :
    /\ send_pc[i] \notin {"send", "refused"} => flight[i] = << >>
    /\ ~SenderAlive(i) => send_q[i] = << >>

Ascends(s) == \A k, l \in 1 .. Len(s) : k < l => s[k] < s[l]

\* Every element of s is less than every element of t.
Below(s, t) == \A k \in 1 .. Len(s), l \in 1 .. Len(t) : s[k] < t[l]

\* On its way to the network a message overtakes none that was sent before.
OrderInv ==
  \A i \in Index :
    /\ Ascends(wire[i]) /\ Ascends(send_q[i])
    /\ Below(wire[i], flight[i]) /\ Below(wire[i], send_q[i]) /\ Below(flight[i], send_q[i])
    /\ Below(wire[i], <<next>>) /\ Below(flight[i], <<next>>) /\ Below(send_q[i], <<next>>)

HistTypeOK ==
  /\ next \in Nat \ {0}
  /\ sent \in [Index -> SUBSET Nat]
  /\ wire \in [Index -> Seq(Nat)]
  /\ back \in [Index -> SUBSET Nat]
  /\ dropped \in [Index -> SUBSET Nat]
  /\ told \in [Index -> Nat]
  /\ \A i \in Index : told[i] <= next /\ \A m \in sent[i] : m < next

\* A send loop that cannot be sent to any more was disconnected by the application, and
\* since then nothing has been accepted for it.
DisconnectTold ==
  \A i \in Index :
    SenderAlive(i) /\ ~conn_map[i].send_tx => \A m \in sent[i] : m < told[i]

HistInv == SendSideIdle /\ HistTypeOK /\ OrderInv /\ DisconnectTold /\ SilentLossOnlyByClose

IoInv == IInv /\ HistInv

-----------------------------------------------------------------------------
(* Sequences of numbers.                                                   *)

LEMMA AscendsBasics ==
  /\ Ascends(<< >>)
  /\ \A s : Below(s, << >>) /\ Below(<< >>, s)
  BY DEF Ascends, Below

LEMMA AscendsOne == \A m : Ascends(<<m>>)
  BY DEF Ascends

LEMMA BelowOne ==
  ASSUME NEW s \in Seq(Nat), NEW m \in Nat
  PROVE  Below(s, <<m>>) <=> \A k \in 1 .. Len(s) : s[k] < m
<1>1. Len(<<m>>) = 1 /\ <<m>>[1] = m
  OBVIOUS
<1> QED BY <1>1 DEF Below

LEMMA AscendsJoin ==
  ASSUME NEW s \in Seq(Nat), NEW t \in Seq(Nat), Ascends(s), Ascends(t), Below(s, t)
  PROVE  Ascends(s \o t)
<1> DEFINE st == s \o t
<1> SUFFICES ASSUME NEW k \in 1 .. Len(st), NEW l \in 1 .. Len(st), k < l
             PROVE  st[k] < st[l]
  BY DEF Ascends
<1>1. /\ k <= Len(s) => k \in 1 .. Len(s) /\ st[k] = s[k]
      /\ k > Len(s) => k - Len(s) \in 1 .. Len(t) /\ st[k] = t[k - Len(s)]
  OBVIOUS
<1>2. /\ l <= Len(s) => l \in 1 .. Len(s) /\ st[l] = s[l]
      /\ l > Len(s) => l - Len(s) \in 1 .. Len(t) /\ st[l] = t[l - Len(s)]
  OBVIOUS
<1>3. k \in Nat /\ l \in Nat /\ Len(s) \in Nat
  OBVIOUS
<1> HIDE DEF st
<1>4. CASE l <= Len(s)
  BY <1>1, <1>2, <1>3, <1>4 DEF Ascends
<1>5. CASE k <= Len(s) /\ l > Len(s)
  BY <1>1, <1>2, <1>3, <1>5 DEF Below
<1>6. CASE k > Len(s)
  <2>1. l > Len(s) /\ k - Len(s) < l - Len(s)
    BY <1>3, <1>6
  <2> QED BY <1>1, <1>2, <1>6, <2>1 DEF Ascends
<1> QED BY <1>3, <1>4, <1>5, <1>6

LEMMA BelowJoin ==
  ASSUME NEW s \in Seq(Nat), NEW t \in Seq(Nat), NEW u \in Seq(Nat)
  PROVE  /\ Below(s, u) /\ Below(t, u) => Below(s \o t, u)
         /\ Below(u, s) /\ Below(u, t) => Below(u, s \o t)
<1>1. \A k \in 1 .. Len(s \o t) :
        \/ k \in 1 .. Len(s) /\ (s \o t)[k] = s[k]
        \/ k - Len(s) \in 1 .. Len(t) /\ (s \o t)[k] = t[k - Len(s)]
  OBVIOUS
<1> QED BY <1>1 DEF Below

LEMMA AppendIsJoin ==
  ASSUME NEW s \in Seq(Nat), NEW m \in Nat
  PROVE  Append(s, m) = s \o <<m>> /\ <<m>> \in Seq(Nat) /\ Append(s, m) \in Seq(Nat)
  OBVIOUS

LEMMA BelowLater ==
  ASSUME NEW s \in Seq(Nat), NEW m \in Nat, Below(s, <<m>>)
  PROVE  Below(s, <<m + 1>>)
<1>1. \A k \in 1 .. Len(s) : s[k] \in Nat /\ s[k] < m
  BY BelowOne
<1>2. \A k \in 1 .. Len(s) : s[k] < m + 1
  BY <1>1
<1> QED BY <1>2, BelowOne

\* Taking the head of a queue: what is said of the queue holds of both parts, and the
\* head is below the rest.
LEMMA AscendsTake ==
  ASSUME NEW s \in Seq(Nat), s # << >>
  PROVE  /\ <<Head(s)>> \in Seq(Nat) /\ Tail(s) \in Seq(Nat)
         /\ Ascends(s) => Ascends(Tail(s)) /\ Below(<<Head(s)>>, Tail(s))
         /\ \A u \in Seq(Nat) : Below(u, s) => Below(u, <<Head(s)>>) /\ Below(u, Tail(s))
         /\ \A u \in Seq(Nat) : Below(s, u) => Below(<<Head(s)>>, u) /\ Below(Tail(s), u)
<1>1. /\ Head(s) = s[1] /\ 1 \in 1 .. Len(s)
      /\ \A k \in 1 .. Len(Tail(s)) : k + 1 \in 1 .. Len(s) /\ Tail(s)[k] = s[k + 1]
  OBVIOUS
<1>2. /\ <<Head(s)>> \in Seq(Nat) /\ Tail(s) \in Seq(Nat)
      /\ Len(<<Head(s)>>) = 1 /\ <<Head(s)>>[1] = s[1]
  BY <1>1
<1>3. Ascends(s) => Ascends(Tail(s)) /\ Below(<<Head(s)>>, Tail(s))
  <2> SUFFICES ASSUME Ascends(s) PROVE Ascends(Tail(s)) /\ Below(<<Head(s)>>, Tail(s))
    OBVIOUS
  <2>1. \A k \in 1 .. Len(Tail(s)) : k \in Nat \ {0}
    OBVIOUS
  <2>2. Ascends(Tail(s))
    BY <1>1, <2>1 DEF Ascends
  <2>3. \A k \in 1 .. Len(Tail(s)) : s[1] < s[k + 1]
    BY <1>1, <2>1 DEF Ascends
  <2>4. Below(<<Head(s)>>, Tail(s))
    BY <1>1, <1>2, <2>3 DEF Below
  <2> QED BY <2>2, <2>4
<1>4. \A u \in Seq(Nat) : Below(u, s) => Below(u, <<Head(s)>>) /\ Below(u, Tail(s))
  BY <1>1, <1>2 DEF Below
<1>5. \A u \in Seq(Nat) : Below(s, u) => Below(<<Head(s)>>, u) /\ Below(Tail(s), u)
  BY <1>1, <1>2 DEF Below
<1> QED BY <1>2, <1>3, <1>4, <1>5

-----------------------------------------------------------------------------
(* Steps.                                                                  *)

LEMMA IoStepIsStep == [IoNext]_allVars => [Next]_vars
<1> SUFFICES ASSUME [IoNext]_allVars PROVE [Next]_vars
  OBVIOUS
<1>1. CASE IoApp
  BY <1>1 DEF IoApp, IoStart, Next, App
<1>2. CASE IoFrame
  BY <1>2 DEF IoFrame, Next, Frame
<1>3. ASSUME NEW i \in Index, IoSender(i) PROVE Next
  BY <1>3 DEF IoSender, Next, Sender
<1>4. ASSUME NEW i \in Index, IoRecver(i) PROVE Next
  <2>1. (CHOOSE m \in Msg : TRUE) \in Msg
    BY NumbersAssumption
  <2> QED BY <1>4, <2>1 DEF IoRecver, RecverRuns, Next, Recver
<1>5. CASE UNCHANGED allVars
  BY <1>5 DEF allVars
<1> QED
  BY <1>1, <1>2, <1>3, <1>4, <1>5 DEF IoNext, Next

\* A step that leaves the send loops, their queues and the histories as they are; it may
\* add entries to the map and timeouts of receive loops to timeout_q.
SendSideKept ==
  /\ UNCHANGED <<send_pc, send_err, send_q, flight, histVars>>
  /\ \A i \in Index : TimedOut(i) \subseteq TimedOut(i)'
  /\ \A i \in DOMAIN conn_map : conn_map'[i] = conn_map[i]

LEMMA TimedOutDef ==
  \A i, m : m \in TimedOut(i) <=>
              \E k \in 1 .. Len(timeout_q) :
                timeout_q[k].kind = "send" /\ timeout_q[k].conn = i /\ timeout_q[k].bytes = m
  BY DEF TimedOut, Elems

LEMMA TimedOutGrows ==
  ASSUME NEW e \in Timeout, TypeOK, timeout_q' = Append(timeout_q, e)
  PROVE  /\ \A i : TimedOut(i) \subseteq TimedOut(i)'
         /\ \A i, m : e.kind = "send" /\ e.conn = i /\ e.bytes = m => m \in TimedOut(i)'
<1>1. timeout_q \in Seq(Timeout)
  BY DEF TypeOK
<1>2. /\ Len(timeout_q') = Len(timeout_q) + 1
      /\ \A k \in 1 .. Len(timeout_q) : k \in 1 .. Len(timeout_q') /\ timeout_q'[k] = timeout_q[k]
      /\ Len(timeout_q) + 1 \in 1 .. Len(timeout_q')
      /\ timeout_q'[Len(timeout_q) + 1] = e
  BY <1>1
<1>3. \A i, m : m \in TimedOut(i)' <=>
                  \E k \in 1 .. Len(timeout_q') :
                    /\ timeout_q'[k].kind = "send" /\ timeout_q'[k].conn = i
                    /\ timeout_q'[k].bytes = m
  BY DEF TimedOut, Elems
<1>4. \A i, m : m \in TimedOut(i) => m \in TimedOut(i)'
  BY <1>2, <1>3, TimedOutDef
<1>5. \A i, m : e.kind = "send" /\ e.conn = i /\ e.bytes = m => m \in TimedOut(i)'
  BY <1>2, <1>3
<1> QED BY <1>4, <1>5

LEMMA TimedOutKept == UNCHANGED timeout_q => \A i : TimedOut(i)' = TimedOut(i)
  BY DEF TimedOut, Elems

LEMMA KeptWhenUnchanged ==
  ASSUME UNCHANGED <<send_pc, send_err, send_q, flight, timeout_q, conn_map, histVars>>
  PROVE  SendSideKept
BY TimedOutKept DEF SendSideKept

LEMMA RecverKeeps ==
  ASSUME TypeInv, NEW i \in Index, IoRecver(i)
  PROVE  SendSideKept
<1>1. UNCHANGED <<send_pc, send_err, send_q, flight, conn_map, histVars>>
  BY DEF IoRecver, RecverRuns, RecvClose, RecvPoll, RecvWake, RecvFinish, RecvError,
         RecvTimeout, RecvData, sendVars
<1>2. CASE UNCHANGED timeout_q
  BY <1>1, <1>2, KeptWhenUnchanged
<1>3. CASE timeout_q' = Append(timeout_q, [kind |-> "recv", conn |-> i])
  <2>1. [kind |-> "recv", conn |-> i] \in Timeout
    BY DEF Timeout
  <2>2. \A j \in Index : TimedOut(j) \subseteq TimedOut(j)'
    BY <1>3, <2>1, TimedOutGrows DEF TypeInv
  <2> QED BY <1>1, <2>2 DEF SendSideKept
<1> QED
  BY <1>2, <1>3 DEF IoRecver, RecverRuns, RecvClose, RecvPoll, RecvWake, RecvFinish,
                    RecvError, RecvTimeout, RecvData, outVars

LEMMA AcceptorKeeps ==
  ASSUME TypeInv, Acceptor \/ Network, UNCHANGED histVars
  PROVE  SendSideKept
<1>1. CASE AcptInsert
  <2>1. UNCHANGED <<send_pc, send_err, send_q, flight, timeout_q>>
    BY <1>1 DEF AcptInsert, sendVars, outVars
  <2>2. acpt_index - 1 \notin DOMAIN conn_map
    BY <1>1, ServerAssumption DEF AcptInsert, TypeInv, CounterAhead, TypeOK, Index
  <2>3. \A i \in DOMAIN conn_map : conn_map'[i] = conn_map[i]
    BY <1>1, <2>2 DEF AcptInsert
  <2> QED BY <2>1, <2>3, TimedOutKept DEF SendSideKept
<1>2. CASE ~AcptInsert
  BY <1>2, KeptWhenUnchanged
     DEF Acceptor, Network, AcptClose, AcptAdmit, AcptAnnounce, AcptFinish, AcptAccept,
         AcptError, sendVars, outVars
<1> QED BY <1>1, <1>2

\* The steps one by one, as far as the send side is concerned.
LEMMA IoStepCases ==
  TypeInv /\ [IoNext]_allVars =>
    \/ SendSideKept
    \/ IoStart
    \/ AcceptOne /\ UNCHANGED histVars
    \/ next \in Msg /\ \E C : /\ C = {i \in Index : CanSend(i)}
                                             /\ Broadcast(next) /\ Accepted(C)
    \/ next \in Msg /\ \E i \in Index : Send(i, next) /\ Accepted({i})
    \/ \E C \in SUBSET DOMAIN conn_map : DisconnectEach(C) /\ ToldOf(C)
    \/ TimeoutEvents /\ TakenBack
    \/ Close /\ DroppedUnread
    \/ \E C : C = {i \in send_fin : send_err[i]} /\ HealthReap /\ ToldOf(C)
    \/ \E i \in Index : IoSender(i)
<1> SUFFICES ASSUME TypeInv, [IoNext]_allVars
             PROVE  \/ SendSideKept
                    \/ IoStart
                    \/ AcceptOne /\ UNCHANGED histVars
                    \/ next \in Msg /\ \E C : /\ C = {i \in Index : CanSend(i)}
                                             /\ Broadcast(next) /\ Accepted(C)
                    \/ next \in Msg /\ \E i \in Index : Send(i, next) /\ Accepted({i})
                    \/ \E C \in SUBSET DOMAIN conn_map : DisconnectEach(C) /\ ToldOf(C)
                    \/ TimeoutEvents /\ TakenBack
                    \/ Close /\ DroppedUnread
                    \/ \E C : C = {i \in send_fin : send_err[i]} /\ HealthReap /\ ToldOf(C)
                    \/ \E i \in Index : IoSender(i)
  OBVIOUS
<1>1. CASE (Acceptor \/ Network) /\ UNCHANGED histVars
  BY <1>1, AcceptorKeeps
<1>2. CASE \E i \in Index : IoRecver(i)
  BY <1>2, RecverKeeps
<1>3. CASE (Recv \/ AcceptDone \/ HealthSnapshot) /\ UNCHANGED histVars
  BY <1>3, KeptWhenUnchanged DEF Recv, AcceptDone, HealthSnapshot, sendVars, outVars
<1>4. CASE UNCHANGED allVars
  BY <1>4, KeptWhenUnchanged DEF allVars, vars, sendVars, outVars
<1>5. ASSUME NEW i \in Index, Disconnect(i), ToldOf({i})
      PROVE  \E C \in SUBSET DOMAIN conn_map : DisconnectEach(C) /\ ToldOf(C)
  BY <1>5 DEF Disconnect
<1>6. ASSUME DisconnectAll, ToldOf(DOMAIN conn_map)
      PROVE  \E C \in SUBSET DOMAIN conn_map : DisconnectEach(C) /\ ToldOf(C)
  BY <1>6 DEF DisconnectAll
<1>7. CASE IoApp
  BY <1>3, <1>5, <1>6, <1>7 DEF IoApp
<1>8. CASE IoFrame
  BY <1>3, <1>8 DEF IoFrame
<1> QED
  BY <1>1, <1>2, <1>4, <1>7, <1>8 DEF IoNext

-----------------------------------------------------------------------------
(* The send loops' own state.                                              *)

LEMMA IdleInit == Init => SendSideIdle
  BY DEF Init, SendSideIdle

LEMMA IdleStep ==
  TypeInv /\ OwnedInv /\ SendSideIdle /\ [IoNext]_allVars => SendSideIdle'
<1> SUFFICES ASSUME TypeInv, OwnedInv, SendSideIdle, [IoNext]_allVars PROVE SendSideIdle'
  OBVIOUS
<1>0. /\ send_pc \in [Index -> SendPc]
      /\ flight \in [Index -> Seq(Msg)]
      /\ send_q \in [Index -> Seq(Msg)]
  BY DEF TypeInv, TypeOK
<1> USE DEF SendSideIdle, SenderAlive
<1>1. CASE SendSideKept \/ IoStart \/ Close \/ TimeoutEvents
  BY <1>1 DEF SendSideKept, IoStart, Start, Close, TimeoutEvents, sendVars
<1>2. CASE AcceptOne
  <2>1. \A i \in Index :
          \/ send_pc'[i] = send_pc[i]
          \/ send_pc'[i] = "select" /\ send_pc[i] = "none"
    BY <1>0, <1>2 DEF AcceptOne, CanStart, OwnedInv, LoopsAreOwned
  <2>2. UNCHANGED <<flight, send_q>>
    BY <1>2 DEF AcceptOne
  <2> QED BY <2>1, <2>2
<1>3. CASE next \in Msg /\ Broadcast(next)
  BY <1>0, <1>3 DEF Broadcast, CanSend
<1>4. ASSUME NEW i \in Index, Send(i, next) PROVE SendSideIdle'
  BY <1>0, <1>4 DEF Send, CanSend
<1>5. ASSUME NEW C, DisconnectEach(C) PROVE SendSideIdle'
  BY <1>5 DEF DisconnectEach
<1>6. CASE HealthReap
  <2>1. \A i \in Index : i \in send_fin => send_pc[i] = "done"
    BY DEF OwnedInv, HealthUnwrapsSucceed
  <2>2. \A i \in Index : send_pc'[i] = IF i \in send_fin THEN "none" ELSE send_pc[i]
    BY <1>6 DEF HealthReap
  <2>3. UNCHANGED <<flight, send_q>>
    BY <1>6 DEF HealthReap
  <2> QED BY <2>1, <2>2, <2>3
<1>7. ASSUME NEW i \in Index, IoSender(i) PROVE SendSideIdle'
  <2>1. CASE SendClose(i)
    BY <1>0, <2>1 DEF SendClose
  <2>2. CASE SendTake(i)
    BY <1>0, <2>2 DEF SendTake
  <2>3. CASE SendError(i)
    BY <1>0, <2>3 DEF SendError
  <2>4. CASE SendFinish(i)
    BY <1>0, <2>4 DEF SendFinish
  <2>5. CASE SendOk(i)
    BY <1>0, <2>5 DEF SendOk
  <2>6. CASE SendTimeout(i)
    BY <1>0, <2>6 DEF SendTimeout, HandBack
  <2> QED BY <1>7, <2>1, <2>2, <2>3, <2>4, <2>5, <2>6 DEF IoSender
<1> QED
  BY <1>1, <1>2, <1>3, <1>4, <1>5, <1>6, <1>7, IoStepCases

-----------------------------------------------------------------------------
(* The histories' types.                                                   *)

LEMMA HistTypeInit == HistInit => HistTypeOK
<1> SUFFICES ASSUME HistInit PROVE HistTypeOK
  OBVIOUS
<1>1. << >> \in Seq(Nat)
  OBVIOUS
<1> QED BY <1>1 DEF HistInit, HistTypeOK

\* What the send side holds are numbers.
LEMMA NumberTypes ==
  ASSUME TypeInv, HistTypeOK, NEW i \in Index
  PROVE  /\ next \in Nat
         /\ wire[i] \in Seq(Nat) /\ flight[i] \in Seq(Nat) /\ send_q[i] \in Seq(Nat)
         /\ TimedOut(i) \subseteq Nat
<1>1. \A q \in Seq(Msg) : q \in Seq(Nat)
  BY NumbersAssumption, SeqMonotonic
<1>2. flight[i] \in Seq(Msg) /\ send_q[i] \in Seq(Msg) /\ timeout_q \in Seq(Timeout)
  BY DEF TypeInv, TypeOK
<1>3. \A t \in Timeout : t.kind = "send" => t.bytes \in Nat
  BY NumbersAssumption DEF Timeout
<1>4. TimedOut(i) \subseteq Nat
  BY <1>2, <1>3, TimedOutDef
<1> QED
  BY <1>1, <1>2, <1>4 DEF HistTypeOK

LEMMA HistTypeStep == TypeInv /\ HistTypeOK /\ [IoNext]_allVars => HistTypeOK'
<1> SUFFICES ASSUME TypeInv, HistTypeOK, [IoNext]_allVars PROVE HistTypeOK'
  OBVIOUS
<1> USE DEF HistTypeOK
<1>1. CASE UNCHANGED histVars
  BY <1>1 DEF histVars
<1>2. CASE IoStart
  <2>1. << >> \in Seq(Nat)
    OBVIOUS
  <2> QED BY <1>2, <2>1 DEF IoStart
<1>3. ASSUME NEW C, Accepted(C) PROVE HistTypeOK'
  <2>1. /\ next' = next + 1 /\ UNCHANGED <<wire, back, dropped, told>>
        /\ sent' = [i \in Index |-> IF i \in C THEN sent[i] \cup {next} ELSE sent[i]]
    BY <1>3 DEF Accepted
  <2>2. sent' \in [Index -> SUBSET Nat]
    BY <2>1
  <2>3. \A i \in Index : told[i] \in Nat /\ sent[i] \in SUBSET Nat
    OBVIOUS
  <2>4. \A i \in Index : told'[i] <= next' /\ \A m \in sent'[i] : m < next'
    BY <2>1, <2>3
  <2> QED BY <2>1, <2>2, <2>4
<1>4. ASSUME NEW C, ToldOf(C) PROVE HistTypeOK'
  BY <1>4 DEF ToldOf
<1>5. CASE TakenBack
  <2>1. back' \in [Index -> SUBSET Nat]
    BY <1>5, NumberTypes DEF TakenBack
  <2> QED BY <1>5, <2>1 DEF TakenBack
<1>6. ASSUME NEW i \in Index, OnWire(i), UNCHANGED <<next, sent, back, dropped, told>> PROVE HistTypeOK'
  <2>1. wire[i] \o flight[i] \in Seq(Nat)
    BY NumberTypes
  <2>2. wire' \in [Index -> Seq(Nat)]
    BY <1>6, <2>1 DEF OnWire
  <2> QED BY <1>6, <2>2
<1>7. ASSUME NEW i \in Index, IoSender(i) PROVE HistTypeOK'
  BY <1>1, <1>6, <1>7 DEF IoSender, histVars
<1>8. CASE DroppedUnread
  <2>1. dropped' \in [Index -> SUBSET Nat]
    BY <1>8, NumberTypes DEF DroppedUnread
  <2> QED BY <1>8, <2>1 DEF DroppedUnread
<1> QED
  BY <1>1, <1>2, <1>3, <1>4, <1>5, <1>7, <1>8, IoStepCases DEF SendSideKept

-----------------------------------------------------------------------------
(* The order on the wire.                                                  *)

LEMMA OrderInit == IoInit => OrderInv
  BY AscendsBasics DEF IoInit, Init, HistInit, OrderInv

LEMMA OrderStep ==
  TypeInv /\ OwnedInv /\ SendSideIdle /\ HistTypeOK /\ OrderInv /\ [IoNext]_allVars => OrderInv'
<1> SUFFICES ASSUME TypeInv, OwnedInv, SendSideIdle, HistTypeOK, OrderInv, [IoNext]_allVars
             PROVE  OrderInv'
  OBVIOUS
<1>0. /\ next \in Nat
      /\ \A j \in Index : wire[j] \in Seq(Nat) /\ flight[j] \in Seq(Nat) /\ send_q[j] \in Seq(Nat)
  BY NumberTypes DEF HistTypeOK
<1>1. ASSUME UNCHANGED <<wire, flight, send_q, next>> PROVE OrderInv'
  BY <1>1 DEF OrderInv
<1>2. CASE IoStart
  <2>1. \A i \in Index : send_pc[i] = "none"
    BY <1>2 DEF IoStart, Start, IsClosed, OwnedInv, LoopsAreOwned
  <2>2. \A i \in Index : flight[i] = << >> /\ send_q[i] = << >>
    BY <2>1 DEF SendSideIdle, SenderAlive
  <2>3. \A i \in Index : flight'[i] = << >> /\ send_q'[i] = << >> /\ wire'[i] = << >>
    BY <1>2, <2>2 DEF IoStart, Start, sendVars
  <2> QED BY <2>3, AscendsBasics DEF OrderInv
\* A connection whose queue has grown by the next message, and those that have not.
<1>3. ASSUME NEW i \in Index, next' = next + 1, UNCHANGED <<wire, flight>>,
             send_q'[i] = send_q[i] \/ send_q'[i] = Append(send_q[i], next)
      PROVE  /\ Ascends(send_q'[i]) /\ Below(wire[i], send_q'[i]) /\ Below(flight[i], send_q'[i])
             /\ Below(wire[i], <<next'>>) /\ Below(flight[i], <<next'>>)
             /\ Below(send_q'[i], <<next'>>)
  <2>1. /\ Ascends(send_q[i]) /\ Below(wire[i], send_q[i]) /\ Below(flight[i], send_q[i])
        /\ Below(wire[i], <<next>>) /\ Below(flight[i], <<next>>) /\ Below(send_q[i], <<next>>)
    BY DEF OrderInv
  <2>2. Below(wire[i], <<next'>>) /\ Below(flight[i], <<next'>>) /\ Below(send_q[i], <<next'>>)
    BY <1>0, <1>3, <2>1, BelowLater
  <2>3. CASE send_q'[i] = send_q[i]
    BY <2>1, <2>2, <2>3
  <2>4. CASE send_q'[i] = Append(send_q[i], next)
    <3>1. send_q'[i] = send_q[i] \o <<next>> /\ <<next>> \in Seq(Nat) /\ <<next'>> \in Seq(Nat)
      BY <1>0, <1>3, <2>4, AppendIsJoin
    <3>2. Ascends(send_q'[i])
      BY <1>0, <2>1, <3>1, AscendsJoin, AscendsOne
    <3>3. Below(wire[i], send_q'[i]) /\ Below(flight[i], send_q'[i])
      BY <1>0, <2>1, <3>1, BelowJoin
    <3>4. Below(<<next>>, <<next'>>)
      BY <1>0, <1>3 DEF Below
    <3>5. Below(send_q'[i], <<next'>>)
      BY <1>0, <2>2, <3>1, <3>4, BelowJoin
    <3> QED BY <2>2, <3>2, <3>3, <3>5
  <2> QED BY <1>3, <2>3, <2>4
<1>4. ASSUME next' = next + 1, UNCHANGED <<wire, flight>>,
             \A i \in Index : send_q'[i] = send_q[i] \/ send_q'[i] = Append(send_q[i], next)
      PROVE  OrderInv'
  BY <1>3, <1>4 DEF OrderInv
<1>5. ASSUME NEW C, Broadcast(next), Accepted(C) PROVE OrderInv'
  BY <1>4, <1>5 DEF Broadcast, Accepted
<1>6. ASSUME NEW i \in Index, Send(i, next), Accepted({i}) PROVE OrderInv'
  <2>1. send_q' = [send_q EXCEPT ![i] = Append(send_q[i], next)] /\ UNCHANGED flight
    BY <1>6 DEF Send
  <2>2. send_q \in [Index -> Seq(Msg)]
    BY DEF TypeInv, TypeOK
  <2>3. \A j \in Index : send_q'[j] = send_q[j] \/ send_q'[j] = Append(send_q[j], next)
    BY <2>1, <2>2
  <2> QED BY <1>4, <1>6, <2>1, <2>3 DEF Accepted
\* A step of one connection's send loop.
<1>7. ASSUME NEW i \in Index, next' = next,
             \A j \in Index \ {i} :
               wire'[j] = wire[j] /\ flight'[j] = flight[j] /\ send_q'[j] = send_q[j],
             /\ Ascends(wire'[i]) /\ Ascends(send_q'[i])
             /\ Below(wire'[i], flight'[i]) /\ Below(wire'[i], send_q'[i])
             /\ Below(flight'[i], send_q'[i])
             /\ Below(wire'[i], <<next>>) /\ Below(flight'[i], <<next>>)
             /\ Below(send_q'[i], <<next>>)
      PROVE  OrderInv'
  BY <1>7 DEF OrderInv
<1>8. ASSUME NEW i \in Index, IoSender(i) PROVE OrderInv'
  <2>0. /\ wire \in [Index -> Seq(Nat)]
        /\ flight \in [Index -> Seq(Msg)]
        /\ send_q \in [Index -> Seq(Msg)]
    BY DEF TypeInv, TypeOK, HistTypeOK
  <2>1. /\ Ascends(wire[i]) /\ Ascends(send_q[i])
        /\ Below(wire[i], flight[i]) /\ Below(wire[i], send_q[i]) /\ Below(flight[i], send_q[i])
        /\ Below(wire[i], <<next>>) /\ Below(flight[i], <<next>>) /\ Below(send_q[i], <<next>>)
    BY DEF OrderInv
  <2>2. CASE SendClose(i) /\ UNCHANGED histVars
    BY <1>1, <2>2 DEF SendClose, histVars
  <2>3. CASE SendTake(i) /\ UNCHANGED histVars
    <3>1. /\ send_q[i] # << >>
          /\ flight'[i] = <<Head(send_q[i])>> /\ send_q'[i] = Tail(send_q[i])
          /\ \A j \in Index \ {i} : flight'[j] = flight[j] /\ send_q'[j] = send_q[j]
          /\ UNCHANGED <<wire, next>>
      BY <2>0, <2>3 DEF SendTake, histVars
    <3>2. <<next>> \in Seq(Nat)
      BY <1>0
    <3> QED BY <1>0, <1>7, <2>1, <3>1, <3>2, AscendsTake
  <2>4. ASSUME flight' = [flight EXCEPT ![i] = << >>], UNCHANGED <<send_q, next>>,
               OnWire(i) \/ UNCHANGED wire
        PROVE  OrderInv'
    <3>1. /\ flight'[i] = << >> /\ send_q'[i] = send_q[i]
          /\ \A j \in Index \ {i} :
               wire'[j] = wire[j] /\ flight'[j] = flight[j] /\ send_q'[j] = send_q[j]
          /\ wire'[i] \in {wire[i], wire[i] \o flight[i]}
      BY <2>0, <2>4 DEF OnWire
    <3>2. Ascends(flight[i])
      <4>1. flight[i] = << >> \/ Len(flight[i]) = 1
        BY DEF TypeInv, FlightHeld, SendSideIdle
      <4> QED BY <1>0, <4>1, AscendsBasics DEF Ascends
    <3>3. /\ Ascends(wire[i] \o flight[i])
          /\ Below(wire[i] \o flight[i], send_q[i]) /\ Below(wire[i] \o flight[i], <<next>>)
      <4>1. <<next>> \in Seq(Nat)
        BY <1>0
      <4> QED BY <1>0, <2>1, <3>2, <4>1, AscendsJoin, BelowJoin
    <3> QED BY <1>7, <2>1, <2>4, <3>1, <3>3, AscendsBasics
  <2>5. CASE SendOk(i) /\ OnWire(i) /\ UNCHANGED <<next, sent, back, dropped, told>>
    BY <2>4, <2>5 DEF SendOk
  <2>6. CASE SendTimeout(i) /\ (OnWire(i) \/ UNCHANGED wire) /\ UNCHANGED <<next, sent, back, dropped, told>>
    BY <2>4, <2>6 DEF SendTimeout, HandBack
  <2>7. CASE SendError(i) /\ UNCHANGED histVars
    BY <2>4, <2>7 DEF SendError, histVars
  <2>8. CASE SendFinish(i) /\ UNCHANGED histVars
    <3>1. /\ send_q'[i] = << >> /\ UNCHANGED <<flight, wire, next>>
          /\ \A j \in Index \ {i} : send_q'[j] = send_q[j]
      BY <2>0, <2>8 DEF SendFinish, histVars
    <3> QED BY <1>7, <2>1, <3>1, AscendsBasics
  <2> QED BY <1>8, <2>2, <2>3, <2>5, <2>6, <2>7, <2>8 DEF IoSender
<1>9. CASE SendSideKept
  BY <1>1, <1>9 DEF SendSideKept, histVars
<1>13. CASE AcceptOne /\ UNCHANGED histVars
  BY <1>1, <1>13 DEF AcceptOne, histVars
<1>10. ASSUME NEW C, DisconnectEach(C), ToldOf(C) PROVE OrderInv'
  BY <1>1, <1>10 DEF DisconnectEach, ToldOf
<1>11. CASE (TimeoutEvents /\ TakenBack) \/ (Close /\ DroppedUnread)
  BY <1>1, <1>11 DEF Close, TimeoutEvents, TakenBack, DroppedUnread, sendVars
<1>12. ASSUME NEW C, HealthReap, ToldOf(C) PROVE OrderInv'
  BY <1>1, <1>12 DEF HealthReap, ToldOf
<1> QED
  BY <1>2, <1>5, <1>6, <1>8, <1>9, <1>10, <1>11, <1>12, <1>13, IoStepCases

-----------------------------------------------------------------------------
(* What the application has been told.                                     *)

LEMMA ToldInit == IoInit => DisconnectTold
  BY DEF IoInit, Init, DisconnectTold, SenderAlive

LEMMA ToldStep ==
  TypeInv /\ OwnedInv /\ HistTypeOK /\ DisconnectTold /\ [IoNext]_allVars => DisconnectTold'
<1> SUFFICES ASSUME TypeInv, OwnedInv, HistTypeOK, DisconnectTold, [IoNext]_allVars,
                    NEW i \in Index, SenderAlive(i)', ~conn_map'[i].send_tx
             PROVE  \A m \in sent'[i] : m < told'[i]
  BY DEF DisconnectTold
<1>0. /\ next \in Nat /\ told[i] \in Nat /\ told[i] <= next
      /\ sent \in [Index -> SUBSET Nat] /\ told \in [Index -> Nat]
      /\ \A m \in sent[i] : m \in Nat /\ m < next
  BY DEF HistTypeOK
<1>1. SenderAlive(i) => i \in DOMAIN conn_map /\ conn_map[i].send_handle
  BY DEF SenderAlive, OwnedInv, LoopsAreOwned
<1>2. ASSUME SenderAlive(i), conn_map'[i].send_tx = conn_map[i].send_tx,
             sent'[i] = sent[i], told'[i] \in {told[i], next}
      PROVE  \A m \in sent'[i] : m < told'[i]
  <2>1. \A m \in sent[i] : m < told[i]
    BY <1>2 DEF DisconnectTold
  <2> QED BY <1>0, <1>2, <2>1
<1>3. CASE SendSideKept
  BY <1>1, <1>2, <1>3 DEF SendSideKept, SenderAlive, histVars
<1>4. CASE IoStart
  BY <1>4 DEF IoStart
<1>5. CASE AcceptOne /\ UNCHANGED histVars
  <2>1. CASE UNCHANGED <<conn_map, send_pc>>
    BY <1>2, <1>5, <2>1 DEF SenderAlive, histVars
  <2>2. CASE CanStart(Head(acpt_q)) /\ conn_map' = [conn_map EXCEPT ![Head(acpt_q)] = StartedConn]
               /\ send_pc' = [send_pc EXCEPT ![Head(acpt_q)] = "select"]
    <3>1. i # Head(acpt_q)
      BY <2>2 DEF CanStart, StartedConn
    <3>2. conn_map'[i] = conn_map[i] \/ i \notin DOMAIN conn_map
      BY <2>2, <3>1
    <3>3. SenderAlive(i)
      BY <2>2, <3>1 DEF SenderAlive, TypeInv, TypeOK
    <3> QED BY <1>1, <1>2, <1>5, <3>2, <3>3 DEF histVars
  <2> QED BY <1>5, <2>1, <2>2 DEF AcceptOne
<1>6. ASSUME NEW C, ~CanSend(i) => i \notin C, UNCHANGED <<conn_map, send_pc>>, Accepted(C)
      PROVE  \A m \in sent'[i] : m < told'[i]
  <2>1. SenderAlive(i)
    BY <1>6 DEF SenderAlive
  <2>2. i \notin C
    BY <1>6 DEF CanSend
  <2> QED BY <1>2, <1>6, <2>1, <2>2 DEF Accepted
<1>7. ASSUME NEW C, C = {j \in Index : CanSend(j)}, Broadcast(next), Accepted(C)
      PROVE  \A m \in sent'[i] : m < told'[i]
  BY <1>6, <1>7 DEF Broadcast
<1>8. ASSUME NEW j \in Index, Send(j, next), Accepted({j})
      PROVE  \A m \in sent'[i] : m < told'[i]
  BY <1>6, <1>8 DEF Send
<1>9. ASSUME NEW C \in SUBSET DOMAIN conn_map, DisconnectEach(C), ToldOf(C)
      PROVE  \A m \in sent'[i] : m < told'[i]
  <2>1. CASE i \in C
    BY <1>0, <1>9, <2>1 DEF ToldOf
  <2>2. CASE i \notin C
    <3>1. SenderAlive(i) /\ conn_map'[i] = conn_map[i]
      BY <1>1, <1>9, <2>2 DEF DisconnectEach, SignalEach, SenderAlive
    <3> QED BY <1>2, <1>9, <2>2, <3>1 DEF ToldOf
  <2> QED BY <2>1, <2>2
<1>10. CASE (TimeoutEvents /\ TakenBack) \/ (Close /\ DroppedUnread)
  BY <1>2, <1>10 DEF Close, TimeoutEvents, TakenBack, DroppedUnread, SenderAlive, sendVars
<1>11. ASSUME NEW C, HealthReap, ToldOf(C)
       PROVE  \A m \in sent'[i] : m < told'[i]
  <2>1. i \notin send_fin /\ SenderAlive(i)
    BY <1>11 DEF HealthReap, SenderAlive
  <2>2. i \in DOMAIN conn_map /\ Reaped(i).send_handle
    BY <1>1, <2>1, ReapedFields DEF TypeInv
  <2>3. i \in DOMAIN conn_map' /\ conn_map'[i] = Reaped(i)
    BY <1>11, <2>2 DEF HealthReap, IsConnClosed
  <2>4. conn_map'[i].send_tx = conn_map[i].send_tx
    BY <2>2, <2>3, ReapedFields DEF TypeInv
  <2> QED BY <1>2, <1>11, <2>1, <2>4 DEF ToldOf
<1>12. ASSUME NEW j \in Index, IoSender(j)
       PROVE  \A m \in sent'[i] : m < told'[i]
  <2>1. UNCHANGED <<conn_map, sent, told>>
    BY <1>12 DEF IoSender, SendClose, SendTake, SendOk, SendError, SendTimeout, SendFinish,
                 histVars
  <2>2. send_pc[j] \notin {"none", "done"} /\ \E pc : send_pc' = [send_pc EXCEPT ![j] = pc]
    BY <1>12 DEF IoSender, SendClose, SendTake, SendOk, SendError, SendTimeout, SendFinish
  <2>3. SenderAlive(i)
    BY <2>2 DEF SenderAlive, TypeInv, TypeOK
  <2> QED BY <1>2, <2>1, <2>3
<1> QED
  BY <1>3, <1>4, <1>5, <1>7, <1>8, <1>9, <1>10, <1>11, <1>12, IoStepCases

-----------------------------------------------------------------------------
(* No message is lost without a word.                                      *)

LEMMA ElemsDef == \A q, m : m \in Elems(q) <=> \E k \in 1 .. Len(q) : q[k] = m
  BY DEF Elems

LEMMA ElemsOfAppend ==
  ASSUME NEW S, NEW q \in Seq(S), NEW m \in S
  PROVE  Elems(Append(q, m)) = Elems(q) \cup {m}
  BY DEF Elems

LEMMA ElemsOfTake ==
  ASSUME NEW S, NEW q \in Seq(S), q # << >>
  PROVE  Elems(q) = Elems(<<Head(q)>>) \cup Elems(Tail(q))
<1>1. /\ Head(q) = q[1] /\ 1 \in 1 .. Len(q)
      /\ \A k \in 1 .. Len(Tail(q)) : k + 1 \in 1 .. Len(q) /\ Tail(q)[k] = q[k + 1]
  OBVIOUS
<1>2. \A k \in 1 .. Len(q) : k = 1 \/ k - 1 \in 1 .. Len(Tail(q))
  OBVIOUS
<1>3. \A k \in 1 .. Len(q) : k = 1 \/ Tail(q)[k - 1] = q[k]
  BY <1>1, <1>2
<1>4. Elems(<<Head(q)>>) = {q[1]}
  BY <1>1 DEF Elems
<1>5. ASSUME NEW x, x \in Elems(q) PROVE x = q[1] \/ x \in Elems(Tail(q))
  <2>1. PICK k \in 1 .. Len(q) : q[k] = x
    BY <1>5, ElemsDef
  <2> QED BY <1>2, <1>3, <2>1, ElemsDef
<1>6. ASSUME NEW x, x \in Elems(Tail(q)) PROVE x \in Elems(q)
  <2>1. PICK k \in 1 .. Len(Tail(q)) : Tail(q)[k] = x
    BY <1>6, ElemsDef
  <2>2. k + 1 \in 1 .. Len(q) /\ q[k + 1] = x
    BY <1>1, <2>1
  <2> QED BY <2>2, ElemsDef
<1>7. q[1] \in Elems(q)
  BY <1>1, ElemsDef
<1> QED BY <1>4, <1>5, <1>6, <1>7

LEMMA ElemsOfJoin ==
  ASSUME NEW S, NEW q \in Seq(S), NEW r \in Seq(S)
  PROVE  Elems(q \o r) = Elems(q) \cup Elems(r)
<1>1. \A k \in 1 .. Len(q \o r) :
        \/ k \in 1 .. Len(q) /\ (q \o r)[k] = q[k]
        \/ k - Len(q) \in 1 .. Len(r) /\ (q \o r)[k] = r[k - Len(q)]
  OBVIOUS
<1>2. /\ \A k \in 1 .. Len(q) : k \in 1 .. Len(q \o r) /\ (q \o r)[k] = q[k]
      /\ \A k \in 1 .. Len(r) : /\ k + Len(q) \in 1 .. Len(q \o r)
                               /\ (q \o r)[k + Len(q)] = r[k]
  OBVIOUS
<1>3. ASSUME NEW x, x \in Elems(q \o r) PROVE x \in Elems(q) \/ x \in Elems(r)
  <2>1. PICK k \in 1 .. Len(q \o r) : (q \o r)[k] = x
    BY <1>3, ElemsDef
  <2> QED BY <1>1, <2>1, ElemsDef
<1>4. ASSUME NEW x, x \in Elems(q) PROVE x \in Elems(q \o r)
  <2>1. PICK k \in 1 .. Len(q) : q[k] = x
    BY <1>4, ElemsDef
  <2> QED BY <1>2, <2>1, ElemsDef
<1>5. ASSUME NEW x, x \in Elems(r) PROVE x \in Elems(q \o r)
  <2>1. PICK k \in 1 .. Len(r) : r[k] = x
    BY <1>5, ElemsDef
  <2>2. k + Len(q) \in 1 .. Len(q \o r) /\ (q \o r)[k + Len(q)] = x
    BY <1>2, <2>1
  <2> QED BY <2>2, ElemsDef
<1> QED BY <1>3, <1>4, <1>5

LEMMA ElemsOfNone == Elems(<< >>) = {}
  BY DEF Elems

\* A step of one send loop leaves the others, their queues and their histories alone.
LEMMA SenderTouchesOne ==
  ASSUME TypeInv, HistTypeOK, NEW i \in Index, NEW j \in Index, i # j, IoSender(j)
  PROVE  /\ send_pc'[i] = send_pc[i] /\ send_err'[i] = send_err[i]
         /\ send_q'[i] = send_q[i] /\ flight'[i] = flight[i] /\ wire'[i] = wire[i]
<1> USE DEF TypeInv, TypeOK, HistTypeOK, histVars
<1>1. wire'[i] = wire[i]
  BY DEF IoSender, OnWire
<1>2. CASE SendClose(j)
  BY <1>1, <1>2 DEF SendClose
<1>3. CASE SendTake(j)
  BY <1>1, <1>3 DEF SendTake
<1>4. CASE SendOk(j)
  BY <1>1, <1>4 DEF SendOk
<1>5. CASE SendError(j)
  BY <1>1, <1>5 DEF SendError
<1>6. CASE SendTimeout(j)
  BY <1>1, <1>6 DEF SendTimeout, HandBack
<1>7. CASE SendFinish(j)
  BY <1>1, <1>7 DEF SendFinish
<1> QED BY <1>2, <1>3, <1>4, <1>5, <1>6, <1>7 DEF IoSender

\* And it takes no timeout back that has been reported.
LEMMA SenderTimesOut ==
  ASSUME TypeInv, NEW j \in Index, IoSender(j)
  PROVE  \A i \in Index : TimedOut(i) \subseteq TimedOut(i)'
<1>1. CASE UNCHANGED timeout_q
  BY <1>1, TimedOutKept
<1>2. CASE SendTimeout(j) /\ timeout_q' # timeout_q
  <2> DEFINE t == [kind |-> "send", conn |-> j, bytes |-> flight[j][1]]
  <2>1. timeout_q' = Append(timeout_q, t)
    BY <1>2 DEF SendTimeout, HandBack
  <2>2. flight[j][1] \in Msg
    BY <1>2 DEF SendTimeout, TypeInv, TypeOK, FlightHeld
  <2>3. t \in Timeout
    BY <2>2 DEF Timeout
  <2> HIDE DEF t
  <2> QED BY <2>1, <2>3, TimedOutGrows DEF TypeInv
<1> QED
  BY <1>1, <1>2 DEF IoSender, SendClose, SendTake, SendOk, SendError, SendFinish, outVars

LEMMA LossInit == IoInit => SilentLossOnlyByClose
  BY DEF IoInit, HistInit, SilentLossOnlyByClose

\* What has been settled stays so, as long as the histories only grow.
LEMMA SettledStays ==
  ASSUME NEW i \in Index, NEW m \in sent[i], HistTypeOK, Settled(i, m),
         Elems(wire[i]) \subseteq Elems(wire'[i]), back[i] \subseteq back'[i],
         told'[i] \in {told[i], next}
  PROVE  Settled(i, m)'
<1>1. m \in Nat /\ m < next /\ told[i] \in Nat /\ told[i] <= next
  BY DEF HistTypeOK
<1> QED BY <1>1 DEF Settled

Known(i, m) == Settled(i, m) \/ Pending(i, m) \/ m \in dropped[i]

LEMMA LossStep ==
  /\ TypeInv /\ OwnedInv /\ QuietInv
  /\ SendSideIdle /\ HistTypeOK /\ DisconnectTold /\ SilentLossOnlyByClose
  /\ [IoNext]_allVars
  => SilentLossOnlyByClose'
<1> SUFFICES ASSUME TypeInv, OwnedInv, QuietInv,
                    SendSideIdle, HistTypeOK, DisconnectTold, SilentLossOnlyByClose,
                    [IoNext]_allVars,
                    NEW i \in Index, NEW m \in sent'[i]
             PROVE  Known(i, m)'
  BY DEF SilentLossOnlyByClose, Known
<1> USE DEF Known
<1>0. /\ sent \in [Index -> SUBSET Nat] /\ told \in [Index -> Nat]
      /\ wire \in [Index -> Seq(Nat)]
      /\ back \in [Index -> SUBSET Nat] /\ dropped \in [Index -> SUBSET Nat]
      /\ send_pc \in [Index -> SendPc] /\ send_err \in [Index -> BOOLEAN]
      /\ send_q \in [Index -> Seq(Msg)] /\ flight \in [Index -> Seq(Msg)]
  BY DEF HistTypeOK, TypeInv, TypeOK
<1>1. m \in sent[i] => Settled(i, m) \/ Pending(i, m) \/ m \in dropped[i]
  BY DEF SilentLossOnlyByClose
\* Nothing happens to the send loop of i, but that timeouts may be reported.
<1>2. ASSUME m \in sent[i],
             send_pc'[i] = send_pc[i], send_err'[i] = send_err[i],
             send_q'[i] = send_q[i], flight'[i] = flight[i],
             wire'[i] = wire[i], back[i] \subseteq back'[i], dropped[i] \subseteq dropped'[i],
             told'[i] \in {told[i], next},
             m \in TimedOut(i) => m \in TimedOut(i)' \cup back'[i] \cup dropped'[i]
      PROVE  Known(i, m)'
  <2>1. CASE Settled(i, m)
    BY <1>2, <2>1, SettledStays
  <2>2. CASE Pending(i, m)
    BY <1>2, <2>2 DEF Pending, Settled, SenderAlive
  <2>3. CASE m \in dropped[i]
    BY <1>2, <2>3
  <2> QED BY <1>1, <1>2, <2>1, <2>2, <2>3
<1>3. CASE SendSideKept
  BY <1>2, <1>3 DEF SendSideKept, histVars
<1>4. CASE IoStart
  BY <1>4 DEF IoStart
<1>5. CASE AcceptOne /\ UNCHANGED histVars
  <2>1. send_pc'[i] = send_pc[i] \/ (send_pc[i] = "none" /\ send_pc'[i] = "select")
    BY <1>0, <1>5 DEF AcceptOne, CanStart, OwnedInv, LoopsAreOwned
  <2>2. UNCHANGED <<send_err, send_q, flight, timeout_q, histVars>>
    BY <1>5 DEF AcceptOne, outVars
  <2>3. TimedOut(i)' = TimedOut(i)
    BY <2>2, TimedOutKept
  <2>4. CASE send_pc[i] = "none" /\ send_pc'[i] = "select"
    BY <1>1, <2>2, <2>3, <2>4 DEF Pending, Settled, SenderAlive, histVars
  <2> QED BY <1>2, <2>1, <2>2, <2>3, <2>4 DEF histVars
<1>6. ASSUME NEW C, i \in C => CanSend(i) /\ next \in Msg /\ send_q'[i] = Append(send_q[i], next),
             i \notin C => send_q'[i] = send_q[i],
             UNCHANGED <<send_pc, send_err, flight, timeout_q>>, Accepted(C)
      PROVE  Known(i, m)'
  <2>1. TimedOut(i)' = TimedOut(i)
    BY <1>6, TimedOutKept
  <2>2. UNCHANGED <<wire, back, dropped, told>>
    BY <1>6 DEF Accepted
  <2>3. CASE i \notin C
    <3>1. m \in sent[i]
      BY <1>6, <2>3 DEF Accepted
    <3> QED BY <1>2, <1>6, <2>1, <2>2, <2>3, <3>1
  <2>4. CASE i \in C
    <3>1. m \in sent[i] \cup {next}
      BY <1>6, <2>4 DEF Accepted
    <3>2. Elems(send_q'[i]) = Elems(send_q[i]) \cup {next}
      <4>1. next \in Msg /\ send_q[i] \in Seq(Msg) /\ send_q'[i] = Append(send_q[i], next)
        BY <1>0, <1>6, <2>4
      <4>2. Elems(Append(send_q[i], next)) = Elems(send_q[i]) \cup {next}
        BY <4>1, ElemsOfAppend
      <4> QED BY <4>1, <4>2
    <3>3. SenderAlive(i)'
      BY <1>6, <2>4 DEF CanSend, SenderAlive
    <3>4. CASE m = next
      BY <3>2, <3>3, <3>4 DEF Pending
    <3>5. CASE m \in sent[i]
      <4>1. Pending(i, m) => Pending(i, m)'
        BY <1>6, <2>1, <3>2, <3>3 DEF Pending
      <4>2. Settled(i, m) => Settled(i, m)'
        BY <2>2 DEF Settled
      <4> QED BY <1>1, <2>2, <3>5, <4>1, <4>2
    <3> QED BY <3>1, <3>4, <3>5
  <2> QED BY <2>3, <2>4
<1>7. ASSUME NEW C, C = {j \in Index : CanSend(j)}, next \in Msg, Broadcast(next), Accepted(C)
      PROVE  Known(i, m)'
  BY <1>6, <1>7 DEF Broadcast, outVars
<1>8. ASSUME NEW j \in Index, next \in Msg, Send(j, next), Accepted({j})
      PROVE  Known(i, m)'
  <2>1. /\ i = j => CanSend(i) /\ send_q'[i] = Append(send_q[i], next)
        /\ i # j => send_q'[i] = send_q[i]
    BY <1>0, <1>8 DEF Send
  <2> QED BY <1>6, <1>8, <2>1 DEF Send, outVars
<1>9. ASSUME NEW C, DisconnectEach(C), ToldOf(C)
      PROVE  Known(i, m)'
  <2>1. /\ sent' = sent /\ wire' = wire /\ back' = back /\ dropped' = dropped
        /\ told'[i] \in {told[i], next}
    BY <1>9 DEF ToldOf
  <2> QED BY <1>2, <1>9, <2>1, TimedOutKept DEF DisconnectEach, outVars
<1>10. CASE TimeoutEvents /\ TakenBack
  <2>1. UNCHANGED <<send_pc, send_err, send_q, flight, sent, wire, dropped, told>>
    BY <1>10 DEF TimeoutEvents, TakenBack, sendVars
  <2>2. back'[i] = back[i] \cup TimedOut(i)
    BY <1>10 DEF TakenBack
  <2> QED BY <1>2, <2>1, <2>2
<1>13. CASE Close /\ DroppedUnread
  <2>1. UNCHANGED <<send_pc, send_err, send_q, flight, sent, wire, back, told>>
    BY <1>13 DEF Close, DroppedUnread, sendVars
  <2>2. dropped'[i] = dropped[i] \cup TimedOut(i)
    BY <1>13 DEF DroppedUnread
  <2> QED BY <1>2, <2>1, <2>2
<1>11. ASSUME NEW C, C = {j \in send_fin : send_err[j]}, HealthReap, ToldOf(C)
       PROVE  Known(i, m)'
  <2>1. /\ sent' = sent /\ wire' = wire /\ back' = back /\ dropped' = dropped
        /\ told'[i] = IF i \in C THEN next ELSE told[i]
        /\ UNCHANGED <<send_q, flight, timeout_q>>
    BY <1>11 DEF ToldOf, HealthReap, outVars
  <2>2. CASE i \notin send_fin
    <3>1. send_pc'[i] = send_pc[i] /\ send_err'[i] = send_err[i]
      BY <1>0, <1>11, <2>2 DEF HealthReap
    <3> QED BY <1>2, <2>1, <3>1, TimedOutKept
  <2>3. CASE i \in C
    <3>1. m < next
      BY <2>1 DEF HistTypeOK
    <3> QED BY <2>1, <2>3, <3>1 DEF Settled
  <2>4. CASE i \in send_fin /\ i \notin C
    <3>1. send_pc[i] = "done" /\ ~send_err[i]
      BY <1>11, <2>4 DEF OwnedInv, HealthUnwrapsSucceed
    <3>2. Pending(i, m) => m \in TimedOut(i)
      BY <3>1 DEF Pending, SenderAlive
    <3>3. TimedOut(i)' = TimedOut(i)
      BY <2>1, TimedOutKept
    <3> QED BY <1>1, <2>1, <2>4, <3>2, <3>3 DEF Pending, Settled
  <2> QED BY <2>2, <2>3, <2>4
\* The steps of a send loop.
<1>12. ASSUME NEW j \in Index, IoSender(j) PROVE Known(i, m)'
  <2>0. UNCHANGED <<next, sent, back, dropped, told>> /\ m \in sent[i]
    BY <1>12 DEF IoSender, histVars
  <2>1. CASE i # j
    <3>1. /\ send_pc'[i] = send_pc[i] /\ send_err'[i] = send_err[i]
          /\ send_q'[i] = send_q[i] /\ flight'[i] = flight[i] /\ wire'[i] = wire[i]
      BY <1>0, <1>12, <2>1, SenderTouchesOne
    <3>2. TimedOut(i) \subseteq TimedOut(i)'
      BY <1>12, SenderTimesOut
    <3> QED BY <1>2, <2>0, <3>1, <3>2
  <2>2. CASE i = j
    <3>1. TimedOut(i) \subseteq TimedOut(i)' /\ back' = back /\ dropped' = dropped /\ told' = told
      BY <1>12, <2>0, SenderTimesOut
    <3>2. CASE SendClose(i) /\ UNCHANGED histVars
      BY <1>0, <1>1, <2>0, <3>1, <3>2
         DEF SendClose, Pending, Settled, SenderAlive, histVars
    <3>3. CASE SendTake(i) /\ UNCHANGED histVars
      <4>1. /\ send_pc[i] = "select" /\ send_pc'[i] \in {"send", "refused"}
            /\ send_q[i] # << >>
            /\ flight'[i] = <<Head(send_q[i])>> /\ send_q'[i] = Tail(send_q[i])
            /\ wire' = wire
        BY <1>0, <3>3 DEF SendTake, histVars
      <4>2. Elems(send_q[i]) = Elems(flight'[i]) \cup Elems(send_q'[i])
        BY <1>0, <4>1, ElemsOfTake
      <4>3. Elems(flight[i]) = {}
        BY <4>1, ElemsOfNone DEF SendSideIdle
      <4> QED BY <1>1, <2>0, <3>1, <4>1, <4>2, <4>3 DEF Pending, Settled, SenderAlive
    <3>4. CASE SendOk(i) /\ OnWire(i)
      <4>1. /\ send_pc'[i] = "select" /\ send_pc[i] = "send" /\ send_q' = send_q
            /\ wire'[i] = wire[i] \o flight[i]
        BY <1>0, <3>4 DEF SendOk, OnWire
      <4>2. flight[i] \in Seq(Nat)
        BY NumberTypes
      <4>3. Elems(wire'[i]) = Elems(wire[i]) \cup Elems(flight[i])
        BY <1>0, <4>1, <4>2, ElemsOfJoin
      <4> QED BY <1>1, <2>0, <3>1, <4>1, <4>3 DEF Pending, Settled, SenderAlive
    <3>5. CASE SendError(i) /\ UNCHANGED histVars
      BY <1>0, <3>5 DEF SendError, Pending
    <3>6. CASE SendFinish(i) /\ UNCHANGED histVars
      <4>1. /\ send_pc[i] = "closing" /\ send_pc'[i] = "done" /\ wire' = wire
            /\ send_err[i] => send_err'[i]
        BY <1>0, <3>6 DEF SendFinish, histVars
      <4>2. CASE send_err[i]
        BY <4>1, <4>2 DEF Pending
      <4>3. CASE ~send_err[i]
        <5>1. SenderAlive(i) /\ i \in DOMAIN conn_map
          BY <4>1 DEF SenderAlive, OwnedInv, LoopsAreOwned
        <5>2. ~conn_map[i].send_tx
          BY <4>1, <4>3, <5>1 DEF QuietInv, CleanEndWasRequested
        <5>3. m < told[i]
          BY <2>0, <5>1, <5>2 DEF DisconnectTold
        <5> QED BY <2>0, <5>3 DEF Settled
      <4> QED BY <4>2, <4>3
    <3>7. CASE SendTimeout(i) /\ (OnWire(i) \/ UNCHANGED wire)
      <4>1. CASE send_pc'[i] = "closing" /\ send_err'[i]
        BY <4>1 DEF Pending
      <4>2. CASE /\ send_pc'[i] = "select" /\ send_q' = send_q
                 /\ timeout_q' = Append(timeout_q, [kind |-> "send", conn |-> i,
                                                    bytes |-> flight[i][1]])
        <5>1. send_pc[i] = "send" /\ Len(flight[i]) = 1 /\ flight[i][1] \in Msg
          BY <1>0, <3>7 DEF SendTimeout, TypeInv, FlightHeld
        <5>2. Elems(flight[i]) = {flight[i][1]}
          BY <1>0, <5>1 DEF Elems
        <5>3. flight[i][1] \in TimedOut(i)'
          <6> DEFINE t == [kind |-> "send", conn |-> i, bytes |-> flight[i][1]]
          <6>1. t \in Timeout /\ t.kind = "send" /\ t.conn = i /\ t.bytes = flight[i][1]
            BY <5>1 DEF Timeout
          <6> HIDE DEF t
          <6>2. timeout_q' = Append(timeout_q, t)
            BY <4>2 DEF t
          <6> QED BY <6>1, <6>2, TimedOutGrows DEF TypeInv
        <5>4. Elems(wire[i]) \subseteq Elems(wire'[i])
          <6>1. flight[i] \in Seq(Nat)
            BY NumberTypes
          <6>2. wire'[i] \in {wire[i], wire[i] \o flight[i]}
            BY <1>0, <3>7 DEF OnWire
          <6>3. CASE wire'[i] = wire[i]
            BY <6>3
          <6>4. CASE wire'[i] = wire[i] \o flight[i]
            <7>1. Elems(wire[i] \o flight[i]) = Elems(wire[i]) \cup Elems(flight[i])
              BY <1>0, <6>1, ElemsOfJoin
            <7> QED BY <6>4, <7>1
          <6> QED BY <6>2, <6>3, <6>4
        <5>5. Settled(i, m) => Settled(i, m)'
          BY <2>0, <5>4 DEF Settled
        <5>6. Pending(i, m) => Pending(i, m)'
          BY <3>1, <4>2, <5>1, <5>2, <5>3 DEF Pending, SenderAlive
        <5> QED BY <1>1, <2>0, <5>5, <5>6
      <4> QED BY <1>0, <3>7, <4>1, <4>2 DEF SendTimeout, HandBack
    <3> QED BY <1>12, <2>2, <3>2, <3>3, <3>4, <3>5, <3>6, <3>7 DEF IoSender
  <2> QED BY <2>1, <2>2
<1> HIDE DEF Known
<1> QED
  BY <1>3, <1>4, <1>5, <1>7, <1>8, <1>9, <1>10, <1>11, <1>12, <1>13, IoStepCases

-----------------------------------------------------------------------------
(* The results.                                                            *)

LEMMA IoInitInv == IoInit => HistInv
  BY IdleInit, HistTypeInit, OrderInit, ToldInit, LossInit DEF IoInit, HistInv

\* The histories change nothing of what DtlsServer does, so its invariant holds here.
LEMMA IoKeepsIInv == IoSpec => []IInv
<1>1. IoInit => Init
  BY DEF IoInit
<1>2. IoSpec => Spec
  BY <1>1, IoStepIsStep, PTL DEF IoSpec, Spec
<1> QED BY <1>2, Inductive, PTL

\* With the invariant of the server and what is known of the histories (numbers ascend
\* from the network back through flight to the queue, all below next) the invariant holds
\* in every reachable state.
THEOREM IoInductive == IoSpec => []IoInv
<1>1. IInv /\ HistInv /\ [IoNext]_allVars => HistInv'
  BY IdleStep, HistTypeStep, OrderStep, ToldStep, LossStep DEF IInv, HistInv
<1>2. IInv /\ HistInv => IoInv
  BY DEF IoInv
<1> QED BY <1>1, <1>2, IoInitInv, IoKeepsIInv, PTL DEF IoSpec

\* The messages of a connection reach the network in the order in which send and
\* broadcast accepted them, none twice, whatever times out in between.
THEOREM MessagesInOrder == IoSpec => []SentInOrder
<1>1. IoInv => SentInOrder
  <2> SUFFICES ASSUME IoInv, NEW i \in Index, NEW k \in 1 .. Len(wire[i]) - 1
               PROVE  wire[i][k] < wire[i][k + 1]
    BY DEF SentInOrder
  <2>1. wire[i] \in Seq(Nat) /\ Ascends(wire[i])
    BY DEF IoInv, HistInv, HistTypeOK, OrderInv
  <2>2. k \in 1 .. Len(wire[i]) /\ k + 1 \in 1 .. Len(wire[i]) /\ k < k + 1
    BY <2>1
  <2> QED BY <2>1, <2>2 DEF Ascends
<1> QED BY <1>1, IoInductive, PTL

\* A message that was accepted is on the network, back with the application by a timeout
\* event, on its way, or covered by the error of its send loop or the application's own
\* disconnect.  The one exception is what close does: it drops the timeouts that have not
\* been read, and their messages are lost without a word.
THEOREM NothingElseIsLostSilently == IoSpec => []SilentLossOnlyByClose
<1>1. IoInv => SilentLossOnlyByClose
  BY DEF IoInv, HistInv
<1> QED BY <1>1, IoInductive, PTL

=============================================================================
