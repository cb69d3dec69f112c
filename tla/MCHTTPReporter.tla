--------------------------- MODULE MCHTTPReporter ---------------------------
(* HTTPReporter on small instances. *)
EXTENDS HTTPReporter, TLC

\* Spans that serialize are interchangeable.
WellFormed == Spans \ Malformed
Symmetry == Permutations(WellFormed)
=============================================================================
