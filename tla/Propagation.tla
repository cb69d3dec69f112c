----------------------------- MODULE Propagation -----------------------------
(***************************************************************************)
(* A trace across services: tracers start spans, B3 carries their contexts *)
(* from the client of a request to its server.                             *)
(*                                                                         *)
(* Every service has a tracer of its own, which its operator may switch    *)
(* off and on at any time.  A request is what the client span that made it *)
(* wrote into its headers; the network may lose it, deliver it again, or   *)
(* damage its headers.  A server extracts a context from the headers and   *)
(* starts its span in two steps, each of which looks at the switch.        *)
(*                                                                         *)
(* Definitions marked Mutant stand before the one they vary: a slip that   *)
(* the properties must catch.  Nothing else uses them.                     *)
(***************************************************************************)
EXTENDS Tracer

CONSTANTS
    Services,
    Options,        \* the options each service's tracer is made with
    Style,          \* how the clients of each inject: "multi", "single" or "both"
    Damaging,       \* the network may damage headers
    MaxSpans,       \* a bound on the spans started
    MaxRoots,       \* a bound on those that are started under nothing
    MaxExtracted    \* a bound on the extractions whose span is not started

ASSUME OptionsAssumption ==
    /\ DOMAIN Options = Services
    /\ \A s \in Services : NewTracer("reporter", Options[s]) \in TracerType
ASSUME StyleAssumption == Style \in [Services -> {"multi", "single", "both"}]
ASSUME DamagingAssumption == Damaging \in BOOLEAN
ASSUME BoundsAssumption == MaxSpans \in Nat /\ MaxRoots \in Nat /\ MaxExtracted \in Nat

VARIABLES
    noop,       \* t.noop of each service's tracer
    spans,      \* the spans in the order they were started
    extracted   \* what servers have extracted and not yet used

vars == <<noop, spans, extracted>>

\* A span has its context and, if it is a client's, the headers of its request.
\* `caller' is the span it was started under or called by, 0 if there is none,
\* and `whole' whether all that span knew could be used: its request arrived
\* undamaged and the tracer did not sleep over it.
Index == 1..Len(spans)

Tracers == [s \in Services |-> NewTracer("reporter", Options[s])]

Init ==
    /\ noop = [s \in Services |-> Tracers[s].noop]
    /\ spans = <<>>
    /\ extracted = {}

SetNoop(s) ==
    /\ noop' = [noop EXCEPT ![s] = ~@]
    /\ UNCHANGED <<spans, extracted>>

-----------------------------------------------------------------------------
(* StartSpan                                                                 *)

\* StartSpan(Kind(kind), Parent(sc)): a noopSpan if the tracer is switched off or
\* the trace not sampled.
Started(s, kind, sc, decision, caller, whole) ==
    LET t == Tracers[s]
        ctx == StartedContext(t, noop[s], kind, sc, decision, Len(spans) + 1)
    IN  [service |-> s, kind |-> kind, ctx |-> ctx, noop |-> IsNoop(t, noop[s], ctx),
         caller |-> caller, whole |-> whole, headers |-> NoHeaders]

\* Adds span sp with its headers h.
Log(sp, h) ==
    /\ Len(spans) < MaxSpans
    /\ sp.caller = 0 => Cardinality({i \in Index : spans[i].caller = 0}) < MaxRoots
    /\ spans' = Append(spans, [sp EXCEPT !.headers = h])

-----------------------------------------------------------------------------
(* Application code and clients.                                             *)

\* The span, or none, a goroutine of service s finds in its context.
Parents(s) == {0} \cup {i \in Index : spans[i].service = s}

ParentContext(i) == IF i = 0 THEN EmptyContext ELSE spans[i].ctx

\* RoundTrip: StartSpanFromContext with kind Client, and the injection, which a
\* noopSpan does too.
Call(s, i, decision) ==
    /\ i \in Parents(s)
    /\ decision \in Tracers[s].sampler
    /\ LET sp == Started(s, "client", ParentContext(i), decision, i, TRUE)
       IN  Log(sp, Inject(sp.ctx, Style[s], NoHeaders))
    /\ UNCHANGED <<noop, extracted>>

\* What someone at the edge asks for: a debug trace, a decision, or nothing.
EdgeContexts ==
    {EmptyContext, [EmptyContext EXCEPT !.debug = TRUE]}
    \cup {[EmptyContext EXCEPT !.sampled = d] : d \in BOOLEAN}

\* A request from outside, by a client that has no span.
EdgeCall(sc, style) ==
    /\ Log([service |-> None, kind |-> "client", ctx |-> sc, noop |-> TRUE,
            caller |-> 0, whole |-> TRUE, headers |-> NoHeaders],
           Inject(sc, style, NoHeaders))
    /\ UNCHANGED <<noop, extracted>>

-----------------------------------------------------------------------------
(* Servers.                                                                  *)

\* h with field f lost or unreadable.
Without(h, f) == {[h EXCEPT ![f] = v] : v \in {v \in {None, Garbage} : h[f] # None}}

\* h with a field of the single header unreadable, or all of it lost.
WithoutSingle(h) ==
    {[h EXCEPT !.b3 = <<>>]}
    \cup {[h EXCEPT !.b3[k].id = Garbage] : k \in {k \in DOMAIN h.b3 : h.b3[k].width # 1}}
    \cup {[h EXCEPT !.b3[k].flag = Garbage] : k \in {k \in DOMAIN h.b3 : h.b3[k].width = 1}}

\* What can arrive of headers h: all, nothing, or all but one value.
Arrivals(h) ==
    IF ~Damaging THEN {h}
    ELSE {h, NoHeaders} \cup WithoutSingle(h)
         \cup UNION {Without(h, f) : f \in {"traceId", "spanId", "parentId", "sampled"}}

\* Tracer.Extract with ExtractHTTP.
ExtractRequest(s, i) ==
    /\ spans[i].kind = "client"
    /\ Cardinality(extracted) < MaxExtracted /\ Len(spans) < MaxSpans
    /\ \E h \in Arrivals(spans[i].headers) :
        extracted' = extracted \cup
            {[service |-> s, caller |-> i,
              result |-> TracerExtract(noop[s], Extract(h)),
              whole |-> h = spans[i].headers /\ ~noop[s]]}
    /\ UNCHANGED <<noop, spans>>

\* StartSpan with kind Server, or its panic, which ends the request.
StartServer(e, decision) ==
    /\ e \in extracted
    /\ decision \in Tracers[e.service].sampler
    /\ extracted' = extracted \ {e}
    /\ IF ParentPanics(Tracers[e.service], e.result) THEN UNCHANGED spans
       ELSE Log(Started(e.service, "server", Parent(e.result), decision, e.caller, e.whole),
                NoHeaders)
    /\ UNCHANGED noop

-----------------------------------------------------------------------------

Next ==
    \/ \E s \in Services : SetNoop(s)
    \/ \E s \in Services, i \in 0..Len(spans), decision \in BOOLEAN : Call(s, i, decision)
    \/ \E sc \in EdgeContexts, s \in Services : EdgeCall(sc, Style[s])
    \/ \E s \in Services, i \in Index : ExtractRequest(s, i)
    \/ \E e \in extracted, decision \in BOOLEAN : StartServer(e, decision)

Spec == Init /\ [][Next]_vars

-----------------------------------------------------------------------------
(* Properties.                                                               *)

\* Types; no header that was written by Inject, were one of its values unreadable,
\* makes the parser index out of range.
TypeOK ==
    /\ noop \in [Services -> BOOLEAN]
    /\ \A i \in Index :
        /\ spans[i].service \in Services \cup {None}
        /\ spans[i].kind \in {"client", "server"}
        /\ spans[i].ctx \in ContextType
        /\ spans[i].noop \in BOOLEAN
        /\ spans[i].caller \in 0..(i - 1)
        /\ spans[i].whole \in BOOLEAN
    /\ \A e \in extracted :
        /\ e.service \in Services
        /\ e.caller \in Index
        /\ e.result.ctx \in ContextType /\ e.result.err \in {"nil", "error"}

\* Span i, started by or under span j, is in its trace: it shares its IDs as the
\* server's side of a call, is a child of it, or only passes its context on.
Follows(i, j) ==
    LET sc == spans[i].ctx
        up == spans[j].ctx
    IN  /\ sc.trace = up.trace
        /\ \/ sc.id = i /\ sc.parent = up.id
           \/ /\ sc.id = up.id
              /\ spans[i].noop \/ spans[i].kind = "server"
              /\ sc.parent = up.parent \/ (~spans[i].whole /\ sc.parent = None)

\* A trace of its own, or none.
Restarts(i) == spans[i].ctx.trace \in {0, i} /\ spans[i].ctx.parent = None

\* Whatever headers are lost or damaged, whatever tracers are switched off and on
\* again in between: a span follows the one that called it, or starts a trace of
\* its own; it never takes a part of a context.  It follows when the headers of a
\* caller that had a trace arrived whole.
FollowsOrRestarts ==
    \A i \in Index : spans[i].caller # 0 =>
        LET j == spans[i].caller
        IN  \/ spans[j].ctx.trace # 0 /\ Follows(i, j)
            \/ /\ Restarts(i)
               /\ \/ ~spans[i].whole
                  \/ spans[j].ctx.trace = 0
                  \/ Unwritable(spans[j].ctx)

\* One sampling decision holds all along: once it is made, at the edge or by the
\* sampler of any service, each span the headers reach whole has that decision,
\* and asks no sampler.
DecisionKept ==
    \A i \in Index :
        LET j == spans[i].caller
        IN  j # 0 /\ spans[i].whole /\ Decided(spans[j].ctx) =>
                /\ spans[i].ctx.debug = spans[j].ctx.debug
                /\ MustCollect(spans[i].ctx) = MustCollect(spans[j].ctx)

Collected(i) == ~spans[i].noop /\ MustCollect(spans[i].ctx)

\* The reported part of a trace has no holes: the parent of a reported span is
\* reported too, as long as no damage took a decision or a parent out of headers
\* and left the rest.  Services whose tracer is off make no holes.
NoHoles ==
    (\A i \in Index : spans[i].whole \/ Restarts(i)) =>
        \A i \in Index : Collected(i) /\ spans[i].ctx.parent # None =>
            \E j \in 1..(i - 1) :
                /\ Collected(j)
                /\ spans[j].ctx.trace = spans[i].ctx.trace
                /\ spans[j].ctx.id = spans[i].ctx.parent

\* In a trace an ID belongs to one span; any other that bears it is the server's
\* side of a call, by a service that shares spans.
IdsDistinct ==
    \A i, j \in Index :
        /\ i < j
        /\ ~spans[i].noop /\ ~spans[j].noop
        /\ spans[i].ctx.trace = spans[j].ctx.trace
        /\ spans[i].ctx.id = spans[j].ctx.id
        => spans[j].kind = "server" /\ Tracers[spans[j].service].sharedSpans
=============================================================================
