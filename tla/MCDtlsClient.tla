---------------------------- MODULE MCDtlsClient ----------------------------
(* DtlsClient on small instances. *)
EXTENDS DtlsClient
=============================================================================
