--------------------------- MODULE MCSessionStore ---------------------------
(* An instance of SessionStore for TLC. *)
EXTENDS SessionStore

CONSTANTS i1, t1, t2, v1, v2
=============================================================================
