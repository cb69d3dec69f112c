-------------------------------- MODULE MCRPC --------------------------------
(* RPC on small instances. *)
EXTENDS RPC

CONSTANTS h, g, id, flag

\* h serves HTTP, drops what is not sampled and has request samplers; g serves gRPC.
MCVia == (h :> "http") @@ (g :> "grpc")
MCOptions ==
    (h :> <<WithNoopSpan(TRUE)>>) @@
    (g :> <<WithSharedSpans(FALSE), WithExtractFailurePolicy("tag"), WithSampler(NeverSample)>>)
MCRegistry == [s \in Services |-> {id}]
MCEdgeContexts ==
    {EmptyContext, [EmptyContext EXCEPT !.debug = TRUE], [EmptyContext EXCEPT !.sampled = TRUE]}
MCVerdicts == (h :> {None, FALSE}) @@ (g :> {None})
=============================================================================
