------------------------------- MODULE Tracer -------------------------------
(***************************************************************************)
(* What a tracer is set up with and what StartSpan makes of a context,     *)
(* tracer.go.  The state of a tracer that changes, its kill switch noop,   *)
(* is with the modules that use this one.                                  *)
(*                                                                         *)
(* Definitions marked Mutant stand before the one they vary: a slip that   *)
(* the properties must catch.  Nothing else uses them.                     *)
(***************************************************************************)
EXTENDS B3, SequencesExt

-----------------------------------------------------------------------------
(* NewTracer.  A sampler is the set of the decisions it may come to.         *)

Policies == {"restart", "error", "tag"}

AlwaysSample == {TRUE}
NeverSample == {FALSE}
SomeSample == BOOLEAN

DefaultTracer ==
    [policy |-> "restart", sampler |-> AlwaysSample, sharedSpans |-> TRUE,
     unsampledNoop |-> FALSE, noop |-> FALSE]

\* The tracers that options without an error make.
TracerType ==
    [policy : Policies, sampler : SUBSET BOOLEAN, sharedSpans : BOOLEAN,
     unsampledNoop : BOOLEAN, noop : BOOLEAN]

\* The options that set a field of the tracer.
WithExtractFailurePolicy(p) == [set |-> "policy", to |-> p]
WithNoopSpan(b) == [set |-> "unsampledNoop", to |-> b]
WithSharedSpans(b) == [set |-> "sharedSpans", to |-> b]
WithSampler(sampler) == [set |-> "sampler", to |-> sampler]
WithNoopTracer(b) == [set |-> "noop", to |-> b]

\* An option that is no good leaves the caller without a tracer.
Applied(option, t) ==
    IF t = None \/ (option.set = "policy" /\ option.to \notin Policies) THEN None
    ELSE [t EXCEPT ![option.set] = option.to]

\* A tracer without a reporter is switched off, unless an option says otherwise.
NewTracer(reporter, options) ==
    FoldLeft(LAMBDA t, option : Applied(option, t),
             [DefaultTracer EXCEPT !.noop = reporter = None], options)

-----------------------------------------------------------------------------
(* Identity of a span.                                                       *)

\* The generators: a root's span ID is its trace ID, any other is new.
SpanID(trace, fresh) == IF trace # 0 THEN trace ELSE fresh

\* A regular child span.
ChildIds(sc, fresh) == [sc EXCEPT !.parent = sc.id, !.id = SpanID(0, fresh)]

\* Mutant: a span that shares is told by its kind alone.
JoinsByKind(t, kind) == kind = "server"

\* A server span that shares the IDs of its client's.
Joins(t, kind) == t.sharedSpans /\ kind = "server"

\* The IDs of a span started with context sc: of a root, of a shared span, or of
\* a child.  Generated IDs do not collide.
Ids(t, kind, sc, fresh) ==
    CASE sc.trace = 0 -> [sc EXCEPT !.trace = fresh, !.id = SpanID(fresh, fresh)]
      [] sc.trace # 0 /\ Joins(t, kind) -> sc
      [] OTHER -> ChildIds(sc, fresh)

-----------------------------------------------------------------------------
(* Sampling.                                                                 *)

\* Mutant: the sampler is asked again.
SampledAnew(sc, decision) == IF sc.debug THEN sc ELSE [sc EXCEPT !.sampled = decision]

\* The sampler is asked only if the decision is deferred.
Sampled(sc, decision) ==
    IF Decided(sc) THEN sc ELSE [sc EXCEPT !.sampled = decision]

MustCollect(sc) == sc.debug \/ sc.sampled = TRUE

-----------------------------------------------------------------------------
(* StartSpan and Extract, of tracer t with its switch at noop.               *)

StartedContext(t, noop, kind, sc, decision, fresh) ==
    IF noop THEN sc ELSE Sampled(Ids(t, kind, sc, fresh), decision)

\* The tracer gives a noopSpan if it is switched off, or if it is told to for what
\* is not sampled.
IsNoop(t, noop, sc) == noop \/ (t.unsampledNoop /\ ~MustCollect(sc))

\* Tracer.Extract, of headers h and a format's extractor.
TracerExtract(noop, extracted) == IF noop THEN Ok(EmptyContext) ELSE extracted

\* The option Parent: with the context of an extraction that failed the trace is
\* restarted, or StartSpan panics.
ParentPanics(t, result) == result.err # "nil" /\ t.policy = "error"
Parent(result) == IF result.err = "nil" THEN result.ctx ELSE EmptyContext
=============================================================================
