------------------------------- MODULE MCSpan -------------------------------
(* Span on small instances.  Calls are interchangeable, but liveness is checked along *)
(* with the rest, so that no symmetry is used. *)
EXTENDS Span

CONSTANTS p, c1, c2, c3
=============================================================================
