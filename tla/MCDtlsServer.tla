---------------------------- MODULE MCDtlsServer ----------------------------
(* DtlsServer, and the abstract specification it implements, on small instances. *)
EXTENDS DtlsServerLifecycle

\* With two connections the data queues multiply the states without adding to
\* what the control can do: a state with more than one message on its way is
\* checked, but not continued.
OneMessage ==
  LET Busy(q) == Cardinality({i \in Index : q[i] # << >>})
  IN  Len(recv_q) + Len(timeout_q) + Busy(send_q) + Busy(flight) <= 1
=============================================================================
