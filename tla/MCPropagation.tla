---------------------------- MODULE MCPropagation ----------------------------
(* Propagation on small instances. *)
EXTENDS Propagation

CONSTANTS a, b

\* One service injects as the HTTP transport does, the other the single header only.
MultiAndSingle == [s \in Services |-> IF s = a THEN "multi" ELSE "single"]

\* One tracer is as it comes but for its sampler, the other shares no spans, drops
\* what is not sampled and starts nothing when an extraction fails.
MCOptions ==
    (a :> <<WithSampler(SomeSample)>>) @@
    (b :> <<WithSharedSpans(FALSE), WithNoopSpan(TRUE), WithSampler(SomeSample),
            WithExtractFailurePolicy("error")>>)
=============================================================================
