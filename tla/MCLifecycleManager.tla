------------------------- MODULE MCLifecycleManager -------------------------
(* Three servers: one first, one last and one between them. *)
EXTENDS LifecycleManager
=============================================================================
