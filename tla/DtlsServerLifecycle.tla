------------------------- MODULE DtlsServerLifecycle -------------------------
(***************************************************************************)
(* DtlsServer implements ConnLifecycle: the application need not know more *)
(* about locks, tasks and channels than that module says.                  *)
(***************************************************************************)
EXTENDS DtlsServer

\* is_closed, and whether close has been called.
ServerStatus == IF IsClosed THEN "closed" ELSE IF opened THEN "open" ELSE "closing"

\* A connection is ending once disconnect was called for it or its send loop is left.
\* A receive loop that has ended does not end the connection by itself: it stays until
\* the application disconnects it or sends.
PlaceStatus(i) ==
  IF i \notin DOMAIN conn_map THEN "free"
  ELSE IF ~conn_map[i].is_running THEN "accepted"
  ELSE IF ~conn_map[i].send_tx \/ send_pc[i] \in {"none", "closing", "done"} THEN "ending"
  ELSE "running"

Lifecycle ==
  INSTANCE ConnLifecycle
  WITH Place <- Index, Capacity <- MaxClients,
       server <- ServerStatus, place <- [i \in Index |-> PlaceStatus(i)]

\* Every step of the server is a step of ConnLifecycle or changes nothing in it: a place
\* is never given twice, skips no state and never comes back from its end; max_clients
\* is kept; a closed server has nothing left, and nothing is accepted until start.
StepsOfLifecycle == Lifecycle!Spec

\* The same of an application one system of which disconnects everybody and closes.
StepsOfApplication == Lifecycle!AppSpec

\* And under the fairness of the tasks and the frames it makes the same progress: a
\* connection that was disconnected or could not send is freed, and a server that was
\* closed and has no connection left becomes closed.
ImplementsLifecycle == Lifecycle!FairSpec

=============================================================================
