--------------------------- MODULE MCDtlsServerIo ---------------------------
(* DtlsServerIo on small instances. *)
EXTENDS DtlsServerIo
=============================================================================
