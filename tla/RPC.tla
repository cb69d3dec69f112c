--------------------------------- MODULE RPC ---------------------------------
(***************************************************************************)
(* Requests through the HTTP and the gRPC middleware: what travels with    *)
(* them besides the IDs (Propagation has those).  Servers keep baggage for *)
(* their handlers and the clients these call with; request samplers on     *)
(* either side overrule decisions; the gRPC handlers finish spans when     *)
(* they are told that an RPC ended.                                        *)
(*                                                                         *)
(* A request may be lost, delivered again, or arrive with headers that     *)
(* cannot be read.  Handlers run concurrently, and on after their RPC.     *)
(*                                                                         *)
(* Definitions marked Mutant stand before the one they vary: a slip that   *)
(* the properties must catch.  Nothing else uses them.                     *)
(***************************************************************************)
EXTENDS Tracer, Baggage

CONSTANTS
    Services,
    Options,    \* the options each service's tracer is made with
    Via,        \* what each serves: "http" or "grpc"
    Registry,   \* the registered keys of each one's baggage handler; None without
    EdgeContexts,  \* what is asked at the edge: a debug trace, a decision, nothing
    Verdicts,   \* what the request samplers of each one's HTTP middleware may say
    MaxSpans,   \* a bound on the spans started, the calls from outside included
    MaxEdge,    \* a bound on the calls from outside
    MaxWrites,  \* a bound on the changes that handlers make to baggage
    MaxEnds     \* a bound on the RPCs that end

ASSUME ServicesAssumption ==
    /\ DOMAIN Options = Services /\ DOMAIN Registry = Services
    /\ \A s \in Services : NewTracer("reporter", Options[s]) \in TracerType
    /\ Via \in [Services -> {"http", "grpc"}]
    /\ \A s \in Services : Registry[s] \in {None} \cup SUBSET Keys
    /\ \A s \in Services : Verdicts[s] \subseteq {None, TRUE, FALSE} /\ None \in Verdicts[s]
ASSUME EdgeAssumption ==
    \A sc \in EdgeContexts :
        sc \in ContextType /\ sc.trace = 0 /\ sc.id = 0 /\ sc.parent = None

VARIABLES
    noop,    \* t.noop of each service's tracer
    spans,   \* the spans, and the edge calls, in the order they were started
    bags,    \* the heap of baggage objects
    writes,  \* what handlers did to which field
    ended    \* how the RPC of each span ended, and what was reported of it

vars == <<noop, spans, bags, writes, ended>>

Index == 1..Len(spans)

Tracers == [s \in Services |-> NewTracer("reporter", Options[s])]

Init ==
    /\ noop = [s \in Services |-> Tracers[s].noop]
    /\ spans = <<>> /\ bags = <<>> /\ writes = {} /\ ended = <<>>

SetNoop(s) ==
    /\ noop' = [noop EXCEPT ![s] = ~@]
    /\ UNCHANGED <<spans, bags, writes, ended>>

\* A span with its context ctx; `bag' is ctx.Baggage.  `md' and `fields' are the
\* headers of its request, the B3 ones and the others, as a client sent or as a
\* server got them.  `asked' is the verdict of a request sampler.  For properties:
\* `whole', the request arrived as it was sent; `read', what the tracer made of it;
\* `reused', the span whose headers it was made from.
SpanOf(kind, via, service, caller, ctx) ==
    [kind |-> kind, via |-> via, service |-> service, caller |-> caller, ctx |-> ctx,
     noop |-> TRUE, bag |-> 0, md |-> <<NoHeaders>>, fields |-> NoFields, asked |-> None,
     inContext |-> Len(spans) + 1, whole |-> TRUE, read |-> "ok", reused |-> 0]

Log(sp) ==
    /\ Len(spans) < MaxSpans
    /\ spans' = Append(spans, sp)
    /\ ended' = Append(ended, [code |-> None, reported |-> None])

\* Someone at the edge sends a request, with a value for every field.
EdgeCall(via, sc) ==
    /\ Cardinality({i \in Index : spans[i].kind = "edge"}) < MaxEdge
    /\ Log([SpanOf("edge", via, None, 0, sc) EXCEPT
            !.md = <<InjectMulti(sc, NoHeaders)>>,
            !.fields = [key \in Keys |-> <<Len(spans) + 1>>]])
    /\ UNCHANGED <<noop, bags, writes>>

-----------------------------------------------------------------------------
(* Servers: handler.ServeHTTP up to the handler, and serverHandler.TagRPC.   *)

\* Mutant: a tracer that is switched off keeps no baggage.
KeepsBaggageUnlessNoop(s) == Registry[s] # None /\ ~noop[s]

KeepsBaggage(s) == Registry[s] # None

\* Mutant: the request sampler is asked like a sampler, if nothing is decided.
OverruledIfDeferred(sc, verdict) ==
    IF verdict = None \/ sc.sampled # None THEN sc ELSE [sc EXCEPT !.sampled = verdict]

\* The verdict of a request sampler; it may have none.
Overruled(sc, verdict) == IF verdict = None THEN sc ELSE [sc EXCEPT !.sampled = verdict]

VerdictsVia(s, via) == IF via = "http" THEN Verdicts[s] ELSE {None}

\* What arrives of metadata: all of it, or a value that cannot be read.
Arrivals(md) == {md, Append(md, [md[Len(md)] EXCEPT !.sampled = Garbage])}

ExtractVia(via, md) == IF via = "http" THEN Extract(md[Len(md)]) ELSE ExtractGRPC(md)

\* The span of a server that reads md from the request of span i.  Parent does not
\* use the context of an extraction that failed: with it go the baggage and the verdict.
Serve(s, i, verdict, decision, md) ==
    LET t == Tracers[s]
        result == TracerExtract(noop[s], ExtractVia(Via[s], md))
        sc == Parent([result EXCEPT !.ctx = Overruled(@, verdict)])
        ctx == StartedContext(t, noop[s], "server", sc, decision, Len(spans) + 1)
        used == result.err = "nil"
        new == IF used /\ KeepsBaggage(s) THEN New(bags, Registry[s])
               ELSE [heap |-> bags, ref |-> 0]
    IN  /\ ~ParentPanics(t, result)
        /\ Log([SpanOf("server", Via[s], s, i, ctx) EXCEPT
                 !.noop = IsNoop(t, noop[s], ctx),
                 !.bag = new.ref, !.md = md, !.fields = spans[i].fields,
                 !.asked = verdict, !.whole = md = spans[i].md,
                 !.read = IF noop[s] THEN "asleep" ELSE IF used THEN "ok" ELSE "error"])
        /\ bags' = IF new.ref = 0 THEN bags
                   ELSE [new.heap EXCEPT ![new.ref] = AddAll(@, spans[i].fields)]
        /\ UNCHANGED <<noop, writes>>

-----------------------------------------------------------------------------
(* Handlers, and the clients they call with.                                 *)

\* Any goroutine of a request adds, sets or deletes a field, at any time; one
\* that is not registered stays as it is.  Values tell whose they are.
Write(i, op, key) ==
    /\ spans[i].kind = "server" /\ spans[i].bag # 0
    /\ Cardinality(writes) < MaxWrites
    /\ key \in Registry[spans[i].service]
    /\ bags' = [bags EXCEPT ![spans[i].bag] =
            CASE op = "add" -> Add(@, key, <<i>>)
              [] op = "set" -> Set(@, key, <<i>>)
              [] op = "delete" -> Delete(@, key)]
    /\ writes' = writes \cup {[by |-> i, op |-> op, key |-> key]}
    /\ UNCHANGED <<noop, spans, ended>>

\* Mutant: the context that goes on is the one the RPC came with.
InContextOfCaller(caller, span) == caller

\* The span that NewContext puts into the context of a client's RPC.
InContext(caller, span) == span

\* The requests whose headers a new one may have: none, the one that is served (a
\* proxy, or metadata passed on), or over HTTP an earlier one, which is tried again.
Reusable(i, via) ==
    {0} \cup {j \in {i} : spans[i].via = via}
        \cup {j \in Index : via = "http" /\ spans[j].kind = "client"
                             /\ spans[j].caller = i /\ spans[j].via = "http"}

InjectVia(via, sc, md) ==
    IF via = "http" THEN <<Inject(sc, "multi", md[Len(md)])>> ELSE InjectGRPC(sc, md)

\* The headers of a request with the baggage in them.
WithBaggage(via, ref, fields) ==
    CASE ref = 0 -> fields
      [] ref # 0 /\ via = "http" -> IterateHTTP(bags[ref], fields)
      [] ref # 0 /\ via = "grpc" -> IterateGRPC(bags[ref], fields)

\* RoundTrip and clientHandler.TagRPC in the handler of span i.  The request sampler
\* has its say on what is injected, unless the client's span is a noopSpan.
Call(i, via, verdict, decision, reused) ==
    LET s == spans[i].service
        t == Tracers[s]
        ctx == StartedContext(t, noop[s], "client", spans[i].ctx, decision, Len(spans) + 1)
        nop == IsNoop(t, noop[s], ctx)
        base == IF reused = 0 THEN SpanOf("client", via, s, i, ctx) ELSE spans[reused]
    IN  /\ nop => verdict = None
        /\ Log([SpanOf("client", via, s, i, ctx) EXCEPT
                 !.noop = nop, !.bag = spans[i].bag, !.asked = verdict,
                 !.md = InjectVia(via, Overruled(ctx, verdict), base.md),
                 !.fields = WithBaggage(via, spans[i].bag, base.fields),
                 !.inContext = InContext(i, @), !.reused = reused])
        /\ UNCHANGED <<noop, bags, writes>>

\* handleRPC of stats.End, with the status of the RPC: Finish reports a span that is
\* collected, the first time.
End(i, code) ==
    /\ spans[i].kind \in {"server", "client"} /\ spans[i].via = "grpc"
    /\ ended[i].code = None
    /\ Cardinality({j \in Index : ended[j].code # None}) < MaxEnds
    /\ LET j == spans[i].inContext
           reports == ~spans[j].noop /\ MustCollect(spans[j].ctx) /\ ended[j].reported = None
           e == [ended EXCEPT ![i].code = code]
       IN  ended' = IF reports THEN [e EXCEPT ![j].reported = code] ELSE e
    /\ UNCHANGED <<noop, spans, bags, writes>>

-----------------------------------------------------------------------------

\* The requests a service may get, and the spans whose handlers may call.
Requests(s) ==
    {i \in Index : spans[i].kind \in {"edge", "client"} /\ spans[i].via = Via[s]
                   /\ Len(spans) < MaxSpans}
Handlers == {i \in Index : spans[i].kind = "server" /\ Len(spans) < MaxSpans}

Next ==
    \/ \E s \in Services : SetNoop(s)
    \/ \E via \in {"http", "grpc"}, sc \in EdgeContexts : EdgeCall(via, sc)
    \/ \E s \in Services : \E i \in Requests(s) :
        \E verdict \in VerdictsVia(s, Via[s]), decision \in Tracers[s].sampler,
           md \in Arrivals(spans[i].md) : Serve(s, i, verdict, decision, md)
    \/ \E i \in Index, op \in {"add", "set", "delete"}, key \in Keys : Write(i, op, key)
    \/ \E i \in Handlers, via \in {"http", "grpc"} :
        \E verdict \in VerdictsVia(spans[i].service, via),
           decision \in Tracers[spans[i].service].sampler, reused \in Reusable(i, via) :
            Call(i, via, verdict, decision, reused)
    \/ \E i \in Index, code \in {"ok", "error"} : End(i, code)

Spec == Init /\ [][Next]_vars

-----------------------------------------------------------------------------
(* Properties.                                                               *)

\* Types; references are to objects of the service's registry.
TypeOK ==
    /\ noop \in [Services -> BOOLEAN]
    /\ Len(ended) = Len(spans)
    /\ \A i \in Index :
        /\ spans[i].caller \in 0..(i - 1)
        /\ spans[i].bag \in 0..Len(bags)
        /\ spans[i].bag # 0 => bags[spans[i].bag].registry = Registry[spans[i].service]
        /\ spans[i].inContext \in 1..i
        /\ ended[i].code \in {None, "ok", "error"}
        /\ ended[i].reported \in {None, "ok", "error"}
    /\ \A k \in DOMAIN bags :
        \A key \in Keys : bags[k].fields[key] # <<>> => key \in bags[k].registry

\* Span i and those it was called by, up to the edge.
Path ==
    LET path[i \in Index] ==
            {i} \cup IF spans[i].caller = 0 THEN {} ELSE path[spans[i].caller]
    IN  path

\* The values of a field that span i has for its handler, or has sent.
Values(i, key) ==
    IF spans[i].kind = "server" /\ spans[i].bag # 0 THEN bags[spans[i].bag].fields[key]
    ELSE spans[i].fields[key]

\* The services up to span i take care of the field, and leave it alone.
Kept(i, key) ==
    \A j \in Path[i] : spans[j].kind = "server" =>
        /\ spans[j].read # "error"
        /\ Registry[spans[j].service] # None /\ key \in Registry[spans[j].service]
        /\ \A w \in writes : w.by = j /\ w.key = key => w.op = "add"

\* Baggage goes where the requests go: a field has values of the request's own path
\* only, whatever handlers run at the same time; and one that every service on the
\* path takes care of gets to them all, once unless requests are made from others',
\* also past tracers that are switched off and spans that are not sampled.
BaggageFollowsRequests ==
    \A i \in Index, key \in Keys :
        /\ \A k \in DOMAIN Values(i, key) : Values(i, key)[k] \in Path[i]
        /\ Kept(i, key) =>
            LET edge == CHOOSE j \in Path[i] : spans[j].kind = "edge"
                found == {k \in DOMAIN Values(i, key) : Values(i, key)[k] = edge}
            IN  /\ found # {}
                /\ (\A j \in Path[i] : spans[j].via = "http" => spans[j].reused = 0) =>
                        Cardinality(found) = 1

\* The headers of the client's request still ask for a debug trace that its span is
\* not in: they were those of a request whose context nobody used.
Stale(i) ==
    /\ ~spans[i].ctx.debug /\ spans[i].reused # 0
    /\ \E k \in DOMAIN spans[i].md : spans[i].md[k].flags # None

\* Whose decision holds: debug above all, then the server's request sampler, then
\* that of the client, then the decision of the client's span.  A request sampler of
\* a client is heard by the server and changes nothing for the client's own span.
SamplerPrecedence ==
    \A i \in Index : spans[i].caller # 0 /\ Decided(spans[spans[i].caller].ctx) =>
        LET sp == spans[i]
            up == spans[sp.caller]
        IN  /\ sp.kind = "client" => MustCollect(sp.ctx) = MustCollect(up.ctx)
            /\ sp.kind = "server" /\ sp.whole /\ sp.read # "asleep" /\ ~Stale(sp.caller) =>
                /\ sp.read = "ok"
                /\ MustCollect(sp.ctx) =
                    CASE up.ctx.debug -> TRUE
                      [] ~up.ctx.debug /\ sp.asked # None -> sp.asked
                      [] ~up.ctx.debug /\ sp.asked = None /\ up.asked # None -> up.asked
                      [] OTHER -> MustCollect(up.ctx)

\* When an RPC ends its own span is reported, if it is to be, with its own status;
\* no span is reported before that, though the RPCs of a handler's clients may end
\* before its own or after.
ReportedAtEnd ==
    \A i \in Index :
        ended[i].reported =
            IF ~spans[i].noop /\ MustCollect(spans[i].ctx) THEN ended[i].code ELSE None
=============================================================================
