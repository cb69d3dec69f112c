-------------------------- MODULE MCHTTPMiddleware --------------------------
(* HTTPMiddleware on small instances. *)
EXTENDS HTTPMiddleware

CONSTANT c
=============================================================================
