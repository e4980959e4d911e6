---------------------------- MODULE ConnLifecycle ----------------------------
(***************************************************************************)
(* What the DTLS server promises the application about the places it has   *)
(* for connections, without locks, tasks, channels and handles.            *)
(*                                                                         *)
(* A place is taken when a connection is accepted, begins when the         *)
(* application's accept system starts it, ends when it is disconnected or  *)
(* its sending side fails, and is then, sooner or later, free again.  A    *)
(* server is closed only when all its places are free.                     *)
(***************************************************************************)
EXTENDS Naturals, FiniteSets

CONSTANTS
  Place,        \* connection indices
  Capacity      \* how many may be taken at once

VARIABLES
  server,       \* may it be started, does it run, is it being closed
  place         \* the state of each place

vars == <<server, place>>

Taken == {i \in Place : place[i] # "free"}
AllIn(state) == {i \in Place : place[i] = state}
Moved(S, state) == place' = [i \in Place |-> IF i \in S THEN state ELSE place[i]]

Init ==
  /\ server = "closed"
  /\ place = [i \in Place |-> "free"]

Open ==
  /\ server = "closed"
  /\ Taken = {}
  /\ server' = "open"
  /\ UNCHANGED place

\* Also while the server is being closed, but never into the next run.
Accept(i) ==
  /\ server \in {"open", "closing"}
  /\ place[i] = "free"
  /\ Cardinality(Taken) < Capacity
  /\ Moved({i}, "accepted")
  /\ UNCHANGED server

Begin(i) ==
  /\ server = "open"
  /\ place[i] = "accepted"
  /\ Moved({i}, "running")
  /\ UNCHANGED server

\* Some running connections come to their end, of which there is no way back.
End(S) ==
  /\ S # {}
  /\ S \subseteq AllIn("running")
  /\ Moved(S, "ending")
  /\ UNCHANGED server

\* Some of them are over.  If these were the last the server may be closed with them.
Free(S) ==
  /\ S # {}
  /\ S \subseteq AllIn("ending")
  /\ Moved(S, "free")
  /\ \/ UNCHANGED server
     \/ server = "closing" /\ S = Taken /\ server' = "closed"

\* With an acceptor that has ended before, and no place taken, there is nothing to wait
\* for.
StartClosing ==
  /\ server = "open"
  /\ server' \in {"closing"} \cup (IF Taken = {} THEN {"closed"} ELSE {})
  /\ UNCHANGED place

Closed ==
  /\ server = "closing"
  /\ Taken = {}
  /\ server' = "closed"
  /\ UNCHANGED place

Next ==
  \/ Open \/ StartClosing \/ Closed
  \/ \E i \in Place : Accept(i) \/ Begin(i)
  \/ \E S \in SUBSET Place : End(S) \/ Free(S)

\* A connection that has come to its end is freed, and a server with no place taken
\* does not stay closing.
Fairness ==
  /\ \A i \in Place : WF_vars(\E S \in SUBSET Place : i \in S /\ Free(S))
  /\ WF_vars(Closed)

Spec == Init /\ [][Next]_vars

\* An application may disconnect everybody and close before anything else can happen.
Stop ==
  /\ server = "open"
  /\ server' \in {"closing"} \cup (IF Taken = {} THEN {"closed"} ELSE {})
  /\ Moved(AllIn("running"), "ending")

AppSpec == Init /\ [][Next \/ Stop]_vars

FairSpec == Spec /\ Fairness

=============================================================================
