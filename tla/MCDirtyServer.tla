--------------------------- MODULE MCDirtyServer ---------------------------
(* DirtyServer on small instances. *)
EXTENDS DirtyServer
=============================================================================
