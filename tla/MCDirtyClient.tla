--------------------------- MODULE MCDirtyClient ---------------------------
(* DirtyClient on small instances. *)
EXTENDS DirtyClient
=============================================================================
