# A TLA+ model of zipkin-go

zipkin-go is the tracing library a Go program links to take part in Zipkin
traces. The program (or the HTTP and gRPC middleware in it) starts *spans*; the
context of a span travels in the headers of requests, so that spans of many
services form one *trace*; finished spans go to a *reporter*, which sends them
to a collector. This directory holds TLA+ modules for the parts of the library
where something can go wrong that a unit test hardly reaches, TLC
configurations that check them on small instances, and TLAPS proofs for
instances of any size. Paths below are relative to `src/`.

`PROJECT.json` is the index: components, runs, the source lines behind each
definition (`map`), the mutants that show that each property can fail, the
hazards and the theorems.

## 1. Inventory

| Component | State | Operations | Modules |
|---|---|---|---|
| HTTP reporter, `reporter/http/http.go` | the batch under `batchMtx`; channels `spanC`, `sendC` (one token), `quit`, `shutdown`; two goroutines | `Send`, `Close`; `loop`, `append`, `enqueueSend`; `sendLoop`, `sendBatch` | `HTTPReporter`, `SpanQueue`, `HTTPReporterProofs` |
| Span, `span_implementation.go`, `noop.go` | the span's data under `s.mtx`; `mustCollect` (atomic), `flushOnFinish` | `SetName`, `SetRemoteEndpoint`, `Annotate`, `Tag`, `Finish`, `FinishedWithDuration`, `Flush` | `Span`, `SpanProofs` |
| Tracer, `tracer.go`, options, `context.go` | the switch `noop` (atomic); settings | `NewTracer`, `StartSpan`, `StartSpanFromContext`, `Extract`, `SetNoop` | `Tracer`, used by `Propagation` and `RPC`; `Span`; `TracerProofs` |
| B3, `propagation/b3` | none | `ParseHeaders`, `ParseSingleHeader`, `BuildSingleHeader`; `Extract...` and `Inject...` for HTTP, maps, gRPC | `B3`, `Propagation`; `TracerProofs`, `PropagationProofs` |
| HTTP middleware, `middleware/http` | per request: the span, the intercepted response, the application span | `ServeHTTP`, `RoundTrip`, `DoWithAppSpan`, request samplers | `HTTPMiddleware` (the spans' lives); `Propagation` (contexts); `RPC` (request samplers, baggage); `HTTPMiddlewareProofs` |
| gRPC middleware, `middleware/grpc` | per RPC: the span in its context | `TagRPC` and `HandleRPC` of the client and server handlers | `RPC`, `RPCProofs` |
| Baggage, `propagation/baggage`, `middleware/baggage.go` | fields of a context, shared by reference with its copies; the handler's registry | `New`, `Get`, `Add`, `Set`, `Delete`, `Iterate` | `Baggage`, used by `RPC`; `RPCProofs` |
| Samplers, `sample.go` | the bit set, index and mutex of the counting sampler | always, never, modulo, boundary and counting samplers, `randomBitSet` | `Samplers`, `SamplersProofs` |
| AMQP and Kafka reporters, recorder, log reporter | a channel or producer; the recorder's list; a goroutine that logs errors | `NewReporter`, `Send`, `Close`, `logErrors`; `Flush` | `Reporters`, `ReportersProofs` |
| Model and JSON, `model`; protobuf, `proto/zipkin_proto3`; serializers | none | `MarshalJSON`, `UnmarshalJSON`; `Serialize`, `ParseSpans` | `Codecs`, used by `Reporters`; `ReportersProofs` |
| ID generators, `idgenerator` | a locked random source | `SpanID`, `TraceID` | `Tracer`; their range in `Samplers` |
| Endpoint, `endpoint.go` | none | host name resolution | not modelled |

How they interact. The middleware calls `Tracer.Extract` with a B3 extractor on
a request, starts a span under the result (`Parent`), puts it into the Go
context, and finishes it when the handler returns. The client middleware starts
a span from the Go context, and injects the span's context into the headers of
the request. `Finish` and `Flush` call the reporter's `Send` synchronously,
with the read lock of the span held: the reporter's back pressure is the
application's. The HTTP reporter takes the span from a channel, and its two
goroutines share the batch.

What is hard, and what must hold:

* **HTTP reporter.** Four kinds of actors interleave: callers of `Send`, the
  caller of `Close`, `loop` and `sendLoop`. `append` sheds old spans while a
  post of the same spans is under way; wakeups are dropped when one is pending;
  `Close` must not overtake spans, must flush, and must return. The batch must
  stay bounded and in order, no answered span may be posted again, none may get
  lost, and a slow collector must not block the traced program.
* **Span.** Any number of goroutines call the methods of one span. One `Finish`
  must report it; the duration is written outside the lock; the first error tag
  is kept; a lock must be released on each path.
* **Tracer, B3, middleware.** A trace is put together by services that know
  nothing of each other but headers. Headers get lost or damaged, requests are
  delivered twice, operators switch tracers off and on while a request is served,
  services differ in their settings. A span must follow its caller or restart,
  never take half a context; the decision to sample is made once; the collected
  part of a trace has no holes; IDs are unambiguous.
* **HTTP middleware.** A request has up to three spans with an end each, and
  many ways to end: errors, redirects, panics, bodies that cannot be read. Client
  and server end independently. Each span must be reported at its exit, the
  application's last, and both ends must say the same of the response, or, of its
  size, the server no more than the client.
* **What travels with requests.** Baggage objects are shared by all copies of a
  context, and requests are tried again and passed on: values must reach every
  service, and no other request's. Request samplers of clients and servers, the
  caller's decision and debug overrule one another in an order that nobody wrote
  down in one place. gRPC reports the ends of RPCs in any order.
* **Samplers.** Exact rates, under concurrency and at the boundaries.
* **Other reporters and codecs.** `Close` against `Send` and the error loggers: a
  span must be delivered or an error be told, whatever the broker does. What a
  collector reads must be what was sent, at the edges of words and of time, and what
  is absent, or small, must stay so.

The hazards, each with its line and with the properties that would catch it,
are listed in `PROJECT.json`.

## 2. Plan

Modules, in the order of importance. All of them exist; what is left is at the
end.

1. `HTTPReporter`, with its abstract specification `SpanQueue`, and
   `HTTPReporterProofs`.
2. `Span`, and `SpanProofs`.
3. `B3` and, on it, `Tracer`: operators only, with lemmas in
   `TracerProofs`, used by
4. `Propagation`, which composes tracers, B3 and the request path of the
   HTTP middleware over several services, with `PropagationProofs`, and
5. `RPC`, which composes tracers, B3, `Baggage` and the handlers of the HTTP and
   gRPC middleware, for all that travels besides the IDs, with `RPCProofs`.
6. `HTTPMiddleware`: `ServeHTTP`, `RoundTrip`, `spanCloser` and `DoWithAppSpan`
   for one application call and its redirects, with `HTTPMiddlewareProofs`.
7. `Samplers`, and `SamplersProofs`.
8. `Codecs`, operators only, and on it `Reporters`: AMQP, Kafka, recorder and log,
   with `ReportersProofs`.
9. `MC...` modules, which give the constants their values.

`Propagation` and `RPC` are two views of the same requests. Putting baggage and
request samplers into `Propagation` would multiply its states by theirs, and no
property relates IDs to baggage; `Propagation` damages headers and separates
`Extract` from `StartSpan`, which `RPC` takes as one step.

Every safety property of a run is a theorem. Left: a trace as a tree of spans, which
`Propagation` would implement while nothing is damaged; how many of the generated
IDs a boundary sampler takes (finding 3) for words of any length; the callbacks of
`httptrace`.

## 3. What the modules model

A definition marked *Mutant* is a variant of the definition after it with a
plausible slip. Nothing uses it; it documents what the properties catch.

### HTTPReporter

| Code | Variable | Code | Action |
|---|---|---|---|
| callers of `Send` | `caller` | `Send` | `Send`, `Receive` (the rendezvous on `spanC`) |
| `loop`'s place, its span | `loopPc`, `loopSpan` | `append` | `AppendSpan` |
| `sendC` | `wake`, `sendClosed` | `<-tickerChan` | `Tick` |
| `r.batch` | `batch` | `enqueueSend` | `EnqueueSend` |
| `sendLoop`'s place, its local | `senderPc`, `final`, `sendBatch` | `<-r.quit` | `Quit` |
| `r.shutdown` | `shutdown` | `range r.sendC` | `ReceiveToken`, `ChannelClosed` |
| `Close` | `closer`, `closeErr` | `sendBatch` | `Snapshot`, `Build`, `Answered`, `DoFails`, `Remove` |
| | | `Close` | `Close`, `CloseReturns` |

An action is a stretch of code no other goroutine can see the middle of: a
critical section, a channel operation, or local work. `accepted`, `answered` and
`disposed` are history: no guard reads them. Time is abstracted to choice: a
tick may find `nextSend` past or not, `client.Do` may answer or fail. What is in
a request matters only in that it can be built or not (`Malformed`, `ValidURL`).
A negative `MaxBacklog` makes the code's slice expression panic and is excluded
by an assumption; `BatchSize` is any integer.

`SpanQueue` is what the reporter promises: a bounded queue which sheds its
oldest spans, from which batches are delivered, each span at most once, and in
the order of the queue as long as nothing was shed. After shedding it promises
less, because the code keeps less: see the first finding.

### Span

A *call* is one call of a method by one goroutine; its place is `pc`. The
`sync.RWMutex` follows from the places: `Readers` hold the read lock, `Writer` is
the one that has announced itself, and readers that arrive after it wait
(`rwait`), as in Go. Values written are named after the call that writes them,
so that they tell who wrote them. `StartSpan` takes any decision, as debug,
parent or sampler may make it, and builds a `noopSpan` or a `spanImpl`.
`Finish` stands for `FinishedWithDuration`, which differs in where the duration
comes from; `Write` for the setters whose data no property is about. `Tag` with the
error key is two steps, `Write` (is there an error?) and `SetTag` (there is none),
between which only the lock keeps others away.
`s.Duration` is written with no lock. The model takes that write as one step,
as it is for one word on 64 bit platforms. The `Tags` map that a reported copy
shares with its span is one variable (`error`), so that the model has no stale
copy of it; that a serializer may read the map while `Tag` writes it is a data
race of the code, and has no outcome among the values of the model.

### B3

Operators over headers as records of values: an ID, `None` (not there) or
`Garbage` (does not parse). The single header is the sequence of fields that
dashes join, each with its width, because the parser tells fields apart by
positions. It has three outcomes: a context, an error, and a slice expression
out of range, which the code reaches for a header of a 128 bit trace ID and a
span ID that is too short. Damage to a header that `Inject` wrote loses a value or
makes it unreadable, and keeps the other fields and their widths; with it the slice
stays in range (`TypeOK` of `Propagation`), and headers of other origin, which may
not, are outside of the model. `Inject` sets the headers it has values for in the
headers it is given, and leaves the others.

### Propagation

`spans` is the log of all spans ever started, with their contexts and with the
headers each client sent or server received; `caller` is the span it was started
under or called by; `extracted` holds what servers have read from requests and
not used yet, which is the gap between `Extract` and `StartSpan`. `noop` is the
switch of each tracer, which `SetNoop` flips at any time. `Call` is `RoundTrip`
(start and inject), `ExtractRequest` and `StartServer` are the two halves of the
server handler, `EdgeCall` a request by a client outside, which may ask for a
decision or for debugging. A request can be extracted from any number of times,
and never: lost, duplicated, delayed and reordered. `Arrivals` are the headers
as they may arrive: whole, none, or one of them lost or unreadable.

Abstracted: IDs that are generated never collide (an ID is the number of its
span); the samplers of the instance decide anything; a local span (no kind) is a
client span whose request is never delivered, as `StartSpan` treats the two
alike. Tracers are made by `NewTracer` of `Tracer` from lists of options, which
set the extract failure policy, shared spans, noop spans, the sampler and the
switch. With the policy "error" `Parent` panics, and the request ends without a
span.

### Tracer

Operators, shared by `Propagation` and `RPC`: what `NewTracer` makes of its
options in their order, and what `StartSpan` makes of a context (`Ids`,
`Sampled`, `StartedContext`, `IsNoop`), `Extract` of an extraction, and `Parent`
of one that failed. A sampler is the set of the decisions it may come to.

### RPC and Baggage

`spans` is the log of spans and of calls from outside, with the headers of each
request: `md`, the B3 ones, in layers because a key of gRPC metadata has several
values, and `fields`, the others. `bags` is the heap of baggage objects, which
spans refer to (`bag`), because contexts are copied and objects are not. `writes`
and some fields of a span are history for the properties.

| Code | Action |
|---|---|
| `ServeHTTP` and `serverHandler.TagRPC`, up to the handler | `Serve` |
| `RoundTrip` and `clientHandler.TagRPC`, up to the transport | `Call` |
| `handleRPC` of `stats.End` | `End` |
| a handler's `Add`, `Set`, `Delete` on its baggage | `Write` |

A request can be served any number of times, by any service that speaks its
protocol, and its headers may be damaged (`Arrivals`). A handler may make a
request from the headers of the one it serves (a proxy, metadata passed on), and
over HTTP from one it made before (a retry). The verdict of a request sampler is
any of `Verdicts`. The panic of the policy "error" is left out of `RPC` (no span is
started, and over gRPC the process ends); the default tags are too.

### Samplers

One sampler of those the constructors make, and goroutines that ask it.
`Reserve(j)` is a round of the loop of `randomBitSet` with what `rnd.Intn` gives;
`Lock`, `Decide`, `Advance` and `Unlock` are the lines of the counting sampler;
`Ask` is a question to one of the others. Rates are counted in `Parts` instead of
being floating point numbers, the bit set has `Size` bits instead of 100, and
words have `Bits` bits instead of 64. The powers of two that words are made of are
the function `Power`. `asked` is the log of answers.

### Codecs and Reporters

`Codecs` has the two encodings field by field: a message is a record of the
fields of the span, with times as counts of microseconds. Go's arithmetic is kept
(`Signed`, `Unsigned`, truncating `Quotient`, rounding of instants), with words of
`Word` values; names are lowered; what is left out because it is empty reads as
empty. `Readable`, `SameTime` and `SameSpan` say without the conversions what a
collector may rely on. `SpanType` are the spans there are: any IDs, names, endpoints,
durations of a word and lists of annotations, and instants that a word of nanoseconds
can tell with half a microsecond to spare, since `UnixNano` is undefined beyond.

`Reporters` has one of the four reporters, of which `kind` says which one.

| Code | Action |
|---|---|
| `NewReporter` of AMQP and Kafka | `SetUp`, `SetUpFails` |
| `Send` | `SendAMQP`, `Publish`, `PublishFails`; `SendKafka`; `Record`; `PrintSpan` |
| `logErrors` | `LogError` (AMQP), `LogProducerError` (Kafka) |
| `Close` | `CloseAMQP`, `CloseConn`; `CloseKafka`, `Drain`, `Drained`; `CloseRecorder` |
| `Flush` | `Flush` |
| the clients of the brokers, external | `ChannelLost`, `Take`, `SendPanics`, `Produce`, `ProduceFails`, `ShutDown` |

The AMQP client and sarama's `AsyncProducer` are modelled from what the reporters
rely on: a channel may close at any time and then fails to publish and to close;
a producer takes messages from `Input`, settles each by producing it or by an
error in `Errors`, refuses those it takes while it shuts down, and closes both
channels when all are settled; its `Close` drains `Errors` in competition with
`logErrors`, and returns what it found. Whether closing an AMQP channel that is closed
already gives an error is left open (`CloseChannel`).

The recorder's `Close` flushes into nothing and returns nil; `dropped` are the spans
that vanish so, and `NothingSilent` says that they are the recorder's alone. The other
exception it names is `Swallowed`, a span that the log reporter cannot encode.

### HTTPMiddleware

`exchanges` is the log of round trips. Each record has the client's side
(`clientPc`, its span `client`, the `response` it has, the `body` that somebody has
to close), the server's side (`serverPc`, its span `server`, what `rwInterceptor`
knows, `ri`) and `wire`, what net/http has been told. `calls` has, for each call of
`DoWithAppSpan`, where it is and its span `app`.

| Code | Action |
|---|---|
| `DoWithAppSpan` to `c.Do`, `RoundTrip` to the inner transport | `DoWithAppSpan` |
| a redirect inside `http.Client.Do` | `Redirect` |
| `RoundTrip`: error; response; reading the body of an erroneous response | `Fail`; `Receive`; `ReadBody`, `ReadFails` |
| `DoWithAppSpan` after `c.Do` | `DoFails`, `DoReturns` |
| `spanCloser.Close` | `CloseBody` |
| `ServeHTTP` to the handler | `Arrive` |
| the handler's use of the writer | `Declare` (a Content-Length in `Header()`), `WriteHeader`, `Write` |
| what `wrap` hands on of the original writer | `ReadFrom`, `Flush`, `Hijack` |
| the deferred function, on return and on panic | `Exit` |

The two sides share nothing but `wire`. The client may have the response as soon
as its status is on the wire, and may fail at any time; the request may arrive
after that, or never. Spans are reduced to the tags that depend on how a request
ends. The response writer and `http.Client` are those of the standard library,
modelled from what the middleware relies on, and from what may come between its
two ends:

* the first status counts, the first byte or flush sends 200, `http.Client` closes the
  bodies of redirects;
* a handler may declare a length before the status is sent. `Write` then writes no more
  than that; it may write less, as it answers a HEAD, returns early or panics;
* the length that the client has (`Lengths`) is what was declared, or, if nothing was,
  what a handler that is done has written, or none (net/http counts only bodies that
  fit its buffer). The client may have a declared one while the handler still writes;
* a connection that is taken over (`Hijack`) gets any answer at all. `rwInterceptor` sees
  nothing of it: its span has status 200 and the bytes written before, so that
  `StatusesAgree` and `SizesAgree` are not claimed of such exchanges;
* `CloseNotifier` and `Pusher`, which `wrap` hands on too, change nothing of the response;
* informational statuses are left out.

## 4. Runs

| Run | Instance | Shows |
|---|---|---|
| `http_reporter_safety` | 5 spans, one malformed; batch 2, backlog 3 | `TypeOK` (with the bound of the backlog), `SliceInBounds`, `RetainedIsNewest`, `NeverResent`, `UnansweredRetained`, `NoLostWakeup`, `CloseFlushes`; `ImplementsQueue` |
| `http_reporter_liveness` | 3 spans, one malformed; batch 2, backlog 2 | `SendReturns`, `CloseTerminates`, `SpansLeave` |
| `http_reporter_loses_unsent` | 4 spans; batch 1, backlog 2 | finding 1 |
| `span_concurrency` | 3 calls on one span | `TypeOK`, `FinishedOnce`, `DurationsAgree`, `UnsampledSilent`, `FirstErrorKept`; `CallsReturn` |
| `propagation_trace` | 2 services, 4 spans, 1 root, damage | `TypeOK`, `FollowsOrRestarts`, `DecisionKept`, `NoHoles`, `IdsDistinct` |
| `http_middleware_spans` | 1 call, 2 round trips, statuses 302 and 404 (and the implicit 200), bodies and declared lengths of at most 2, a writer that flushes, copies and can be taken over | `TypeOK`, `ReportedAtExit`, `AppSpanCovers`, `StatusesAgree`, `SizesAgree`; `SpansReported` |
| `http_middleware_size` | 1 round trip, bodies of at most 1, the same writer | finding 2 |
| `rpc` | 2 services (HTTP; gRPC), 2 keys of which 1 is registered, 4 spans, 1 call from outside, 1 write, 1 end | `TypeOK`, `BaggageFollowsRequests`, `SamplerPrecedence`, `ReportedAtEnd` |
| `samplers` | a bit set of 4, rates in eighths, 3 goroutines, 9 questions; words of 4 bits, 3 salts, 4 moduli | `TypeOK`, `WindowExact`, `BoundaryExact` |
| `samplers_generated` | the same, 1 question | finding 3 |
| `reporters` | each reporter, 2 calls, 38 spans and 2; words of 10 bits | `TypeOK`, `NothingSilent`, `ReadAsWritten`, `Rewritten`; `CallsEnd` |
| `reporters_schema` | the same, 1 span without parent, kind and a whole microsecond | findings 4 to 6, all to be seen in its counterexample |

Why the bounds are enough. *HTTP reporter:* the batch (2) is smaller than the
backlog (3), and the backlog smaller than the spans (5), so that a batch can be
full without shedding, shedding can take some or all of the posted spans during
a post, and a malformed span can be anywhere in the batch. Spans are
interchangeable but for the malformed ones (symmetry, in the safety runs only).
*Span:* three calls are a reader, a writer and a third that the announced writer
makes wait, or two `Finish` and a `Flush`; spans share nothing but `noop`.
`UnsampledNoop` is FALSE, with which more spans are `spanImpl`; the theorems cover
both.
*Propagation:* `MaxSpans` = 4 is a client, its server, the client of that server,
and a server in a third hop, or a duplicate of the first delivery; `MaxRoots`
= 1 keeps to one edge, and spans of other traces come about by restarts;
`MaxExtracted` = 1 leaves any number of steps between one extraction and its
span, and delays of others come before the extraction. The services differ in
all settings, `sharedSpans`, `unsampledNoop` and the style of headers.

*HTTP middleware:* two round trips are a redirect, whose handler may still run, and
what follows it; a status for each branch of the code (success, redirect, error).
Two bytes are two writes, a copy and a write, or one of two bytes that were declared.
`Elaborate` = {1} lets the handler of the first round trip do all that a handler can,
before and after its redirect is followed, while that of the second only sets a status;
handlers share no state, so that two elaborate ones would only multiply the states.
Calls share no state either.

*RPC:* four spans are a call from outside, a server, a client and a second server,
client or delivery: a path of two hops, two clients of one handler (one of them a
retry of the other), or two handlers at the same time. One write tells whose it
is; one end shows a span that is reported by another one's RPC. The services
differ in transport, shared spans, noop spans, samplers, policies and request
samplers. Only the verdicts "none" and "discard" are taken: with "sample" more is
collected, by the same code.

*Samplers:* nine questions are two windows of four and the wrap between them, for
each of the rates and every outcome of the draws; the mutex is contended by three.
Size and rate do not matter to the argument, which is proved for all of them. A
word of 4 bits has all the cases of the shift, the salt's sign and the boundary
that a longer one has, since the samplers treat all bits but the lowest alike; that is
proved too.

*Reporters:* calls share the channel, the producer and the error logger, which two
tell apart from one; the spans differ from a plain one in one field at a time, to
both sides of each place where the code changes its mind (a nanosecond, half a
microsecond, the second after the epoch, the largest duration, no parent).

Deadlock is not checked, because the systems do stop: after `Close` the
goroutines of the HTTP reporter end, and a late `Send` has no receiver; the
calls of `Span` and `Reporters` are used up, and a reporter may fail to be set up;
the logs of `Propagation`, `RPC`, `Samplers` and `HTTPMiddleware` fill up. What must not stop
is stated as liveness instead.

Fairness. Goroutines that can run, run: weak fairness of each step of `loop` and
`sendLoop`. `select` picks among its ready cases at random and channels serve
their blocked senders in order: strong fairness of each case of `loop`. A
`sync.RWMutex` starves no waiter: strong fairness of `Lock`. Callers owe
nothing: `Send`, `Close` and `Invoke` have no fairness. What is assumed of the
outside is stated in the property that needs it: `DoReturns` (`reqTimeout`
bounds a post), `CollectorAnswers` (a collector that is reachable time and
again), `ReporterTakes` (the reporter's `Send` returns),
`RoundTripsEnd`, `HandlersEnd`, `BodiesClosed` (transports, handlers and callers of
`DoWithAppSpan` do their part), `ClientsAnswer` (the clients of the brokers take and
settle messages). In `Reporters` only the goroutines of the library are fair: the
error loggers, and `Close` once it is called. `SendReturns` assumes
none of them.

### Findings

1. `OnlySentSpansRemoved`: `sendBatch` removes `len(sendBatch)` spans from the
   front of the batch after a post. If `append` shed posted spans meanwhile, the
   same number of spans that were never posted goes with them, uncounted. The
   comment (`reporter/http/http.go:179`) says that sent spans are removed.
2. `ResponseSizeTagged`: `wrap` passes on the original `io.ReaderFrom`, so that
   `io.Copy` writes past the interceptor and the size is not tagged
   (`middleware/http/server.go:50` says it is).
3. `GeneratedAtRate`: the ID generators use `Int63`, whose highest bit is always 0,
   and the boundary sampler compares the upper 63 of 64 bits with a share of 2^63.
   Of the IDs that are generated, a rate r takes min(1, 2r) with a salt that is not
   negative, and max(0, 2r - 1) with a negative one (`sample.go:65` and `:71` speak of
   a proportional boundary and of a uniform distribution). `BoundaryExact` shows that
   the rate is right for IDs that use all bits, as in the package's own test.
4. `SchemaKept`, of parents: the protobuf encoder writes a missing parent as eight zero
   bytes, which the decoder takes for a parent (`zipkin.proto:62`: "absent if this
   the root span in a trace").
5. `SchemaKept`, of kinds: a span without a kind is encoded with the default value of
   the enumeration, and read as one of the kind `SPAN_KIND_UNSPECIFIED`
   (`zipkin.proto:73`: "Default value interpreted as absent.").
6. `SchemaKept`, of durations: protobuf durations are cut to microseconds, those below one to
   nothing (`zipkin.proto:127`: durations of less than one are rounded up), although
   there is a function that rounds (`durationToMicros`), which is never called.

Things the code does that a reader of the models will meet, and that its comments
do not contradict clearly enough to be called findings:

* A span that was started before `SetNoop(true)` is reported when it is finished
  afterwards. A tracer that is switched off extracts nothing, so that the trace is
  cut at its service; baggage still goes through.
* `InjectHTTP` sets the headers it has values for. On a request that has a `b3`
  header already (a proxy passing on the headers it got) the multiple headers are
  masked by that one, and a debug flag that is there stays (`Stale`).
* An extraction that fails takes the baggage and the server's request sampler's
  verdict with it: `Parent` uses nothing of its context.
* A request that is sent again carries its baggage once more, because the values
  are added to its headers.
* `WriteHeader` after the first byte changes the recorded status, not the sent one.
* Out of protobuf no timestamp is read as the epoch (`Filled`), which then does not
  encode as JSON; the debug flag is the argument's; trace IDs of 8 bytes are refused.
  JSON with an ID of 0, an annotation at or before the epoch, or
  a duration next to the largest is written but cannot be read (`Readable`).
* The log reporter says nothing of a span it cannot encode (`Swallowed`), and the
  recorder's `Close` nothing of the spans it throws away (`dropped`). When
  `NewReporter` or `Close` of the AMQP reporter fails, what was opened stays open, and
  its `logErrors` never ends. `Send` after `Close` of the Kafka reporter panics.

`SpansLeave` is claimed of spans that no malformed one holds up: a batch with one in it
is kept, and fails again with each token, until shedding pushes that span out.

Two limits of the code show as conditions in `Propagation`'s properties rather
than as findings. `Unwritable`: the single header of a context that has a parent
and no decision is one that no parser accepts, so that such a trace restarts.
`NoHoles` is claimed unless a value was lost out of headers that were otherwise
used: a lost sampling header makes the next sampler decide.

## 5. Proofs

All theorems hold for every value of the constants under the named assumptions of
the modules. None of the safety properties is inductive by itself; each proof module
has the invariant that is, `IInv`, a lemma for each step that can disturb a part of
it, and the theorem `Invariance`, from which the others follow.

The assumptions, and why the code justifies them: `Malformed`, `ValidURL`,
`UnsampledNoop` and the options of the HTTP middleware are sets and Booleans of the
kind they are named for; `MaxBacklog` is not negative (above); statuses are those of
HTTP that are not informational; the `Interfaces` are those `wrap` asks for; the values that stand for a nil pointer or an
unreadable header are none of the values that are there
(`NoneAssumption`, `NoneGarbageAssumption`, `NilAssumption`, `NoOneAssumption`);
services have tracers that `NewTracer` makes of options without an error
(`OptionsAssumption`, `ServicesAssumption` with `TracerType`); calls from outside ask
for a decision or for debugging and bring no IDs (`EdgeAssumption`); salts and moduli
are integers; a word is even, a microsecond has an even number of units, a second is at
least two microseconds, a whole number of them, and fits into half a word, and the zero
time is before the epoch (`ScaleAssumption`, `ZeroNanosAssumption`: true of 2^64, 1000
and 10^9); a lowered name is a name.

**HTTPReporterProofs.** `IInv` adds to `TypeOK`:

* `Control`: where the goroutines and `Close` can be at once, and which locals are
  empty there;
* `Retention`: `batch` is a window at the end of `accepted`; the post in flight is
  a window that starts no later, and, if none of it was shed, starts with it;
  what was answered lies before both. That is why the slice expression is in
  bounds: `append` drops as much as it adds to a full batch, and never leaves it
  shorter than it was;
* `Wakeups`: `NoLostWakeup`, and the same of what a post in flight will leave
  behind: if that is a full batch, a token is pending already;
* `Flushing`: a span whose `Send` returned is accepted or about to be, the last
  post takes the whole batch, and a `nil` from it leaves the batch empty.

Each part has a lemma per step that can disturb it. `SliceSafety`,
`RetentionOrder`, `AtMostOnceAnswered`, `NothingLost`, `WakeupsKept` and
`CloseIsFlush` follow from it. `Refinement` shows `Spec => ImplementsQueue`:
`AppendSpan` is `Put`, `Remove` is `Deliver`, `Quit` is `Stop`, and every other
step stutters.

**SpanProofs.** `IInv` adds to `TypeOK`: `Places` (where a call is tells its
method, and that its span was started and sampled), `Started`, `Winner` (the
compare-and-swap has one winner, which alone writes the duration, and there is
one if `mustCollect` is gone), `Copies` (copies agree with the span, whose
duration does not change once set) and `Exclusive` (one call has the write lock, so
that an error which `Tag` did not find is still not there when it sets its own). From
it: `ReportedOnce`, `OneDuration`, `SilentUnlessSampled`, and the action property of
`ErrorKept`.

**SamplersProofs.** `WindowExact` speaks of any window of the log of answers and is not
inductive: the next answer depends on where the index is. `IInv` adds to `TypeOK`:
`Made` (the sampler is one that the constructors make), `Filling` (what is chosen
is among the bits `randomBitSet` has been through, so that a draw moves a one to a
bit that had none; nobody asks before it is done), `Exclusive` (who is inside has
the mutex), `Answers` (the m-th last answer is the bit m behind the cursor, which
is the index, or the one after it once the holder has decided) and `Windows`. Going
back by 1 to `Size` from any position passes every position once
(`BackBijection`), so that a new window has as many ones as the bit set
(`WindowCounted`), which has as many as there are chosen places (`OnesCounted`),
which are as many as the rate says (`OnesRounded`). Assumptions: `SizeAssumption`,
`NoOneAssumption`.

`SharesExact` (`BoundaryExact`) needs no invariant but `Made`. `Xor` is a recursive
function over the bits of words: what it computes is found by least counterexample
(`Smallest`, from the well-foundedness of the naturals), after `Recursion` has shown
that there is a function that satisfies the recursion at all. The lower n bits of two
exclusive ors with the same salt agree only if the lower n bits of the words do
(`LowDetermines`), so that the salt exchanges the words (`XorBijection`), and as many
are below the boundary as there are numbers below twice the boundary
(`BelowCounted`). Assumptions: `SizeAssumption`, `SaltsAssumption`.

**TracerProofs** has what the operators of `B3` and `Tracer` do, for every context and
any headers that may come of it. `Outcome` is the point: out of headers that are those
of a context, each whole, missing or unreadable (`MultiPartOf`, `PartOf`), an extraction
gives an error, no context, or one with both IDs of that context and its parent or none
(`ParseHeadersOutcome`, `ParseSingleHeaderOutcome`: the fields of the single header are
told apart by position, but a field is never taken for another). `ExtractInjected` says
that undamaged headers give the context itself, in each style, except `Unwritable` ones.
`StartedFacts`, `StartedDecision` and `DecisionStays` say the same of `StartSpan`.

**PropagationProofs.** `IInv` says of each span: its IDs are numbers of spans up to itself,
and its headers are its context (`Numbered`); it follows its caller or restarts, and has
its caller's decision if that was made and got through (`Descends`). Of each extraction
under way: its result is the context of its request, or a part of it that cannot mislead
(`Faithful`), which does not depend on what the tracers do meanwhile. `NoHoles` needs
more than it says: spans that are not collected pass contexts on, so `Linked` says of
*every* context, a noop span's too, that it is decided and that, if it is collected, its ID
and its parent are borne by collected spans before it; and it holds only of runs in which
damage has taken nothing out of the middle of a context (`Clean`). Theorems:
`TracesContinue`, `DecisionsHold`, `NoHolesInTraces`, `IdsApart`.

**RPCProofs.** gRPC metadata is proved to be read as if it were one layer of headers
(`Seen`), whatever was appended (`AppendedValue`), so that both transports share the
lemmas of `TracerProofs`. `IInv` has, of each span, who called it (`Called`), whose baggage
object it refers to (`Bagged`), what was reported of it (`Reported`), that the headers of
its request say what was decided (`Sent`), and whose decision it has (`Precedence`).
Theorems: `SamplersPrecede`, `ReportsAtEnd`. For `BaggageFollows`, `BaggageInv` adds that
no two servers have the same object (`BagsApart`), that the values of a request and of an
object are of its path (`OwnFields`, `OwnBag`), and that what the edge sent is still
there, once if no request of the path was made from another's headers (`Carried`). `Path`
is a recursive function over the log, which grows: `PathEquation` finds what it is by least
counterexample, and `PathStays` that it does not change.

**HTTPMiddlewareProofs.** `IInv` splits into what is true of each round trip and of each
call. `ClientSide`: what the client's span tells is what the client has of the response,
which is what was on the wire. `ServerSide`: what `rwInterceptor` knows is what went over
the wire, but for statuses after the first byte (`late`), copied bytes (`copied`) and
connections that were taken over (`hijacked`), and no more than was declared. Client and
server meet only in `wire`, whose status and declared length are settled before the
client has a response, so that `SpansAgree` and `SpansAgreeOnSize` follow from the two
sides, in whichever order they end. `Chain`: a call has one round trip under
way, and those before it are settled, which gives `AppSpansCover`; `EndsReport` is part of
the sides.

**ReportersProofs.** The reporters: `IInv` says that a returned call has left its span, or
the error of it, in exactly one of the places `Sites` and once, the two exceptions
(`Vanished`) and any other call nowhere (`Placed`); `Order` says how far the broker's client and `Close` are, and `Unused` which
parts a reporter does not have. A step moves a call from one site to another (`Moves`),
brings one in (`Arrives`) or leaves it (`Stays`). `NothingGoesMissing` counts the places.
The codecs: `Reads` says for every span of `SpanType` and words of any size that JSON is
read exactly if the span is `Readable`, and then as the same span; that protobuf is read
always, as the span with what the encoding fills in (`Filled`); and that either is written
again as the same message. It
rests on lemmas about Go's arithmetic (`SignedIs`, `UnsignedIs`, `QuotientIs`, `RoundedIs`)
and on one for each kind of time in each codec. `ReadersGetTheSpan` and
`PassedOnUnchanged` apply it to every delivery. Assumptions: `CallsAssumption` and those of
`Codecs`.

Only model-checked: the liveness properties (`SendReturns`, `CloseTerminates`,
`SpansLeave`, `CallsReturn`, `SpansReported`, `CallsEnd`), because liveness under
fairness and `ENABLED` are out of reach of the provers. The findings are properties that
fail, and have no theorems.

## 6. Not modelled

Clocks and formatting; host name resolution (`endpoint.go`); tags other than those
named above, default tags, names and endpoints of spans; the callbacks of
`httptrace`, which only annotate and tag; random number generation (IDs are taken to
be distinct); malformed JSON and protobuf; generated code (`zipkin.pb.go`, the
packages under `proto/testing`). The options of the AMQP reporter for the queue and
the exchange are left out, as `Send` and the checks do not look at them. A second
`Close` of the HTTP reporter (it panics) and `Send` after `Close` returning (it never
does) are outside of what the reporter promises; the model has the late `Send`,
which stays blocked. A post whose answer is lost is sent again: the reporter cannot
know. Data races whose outcome is no value of the model: a serializer reading a
span's tags, or a client iterating over baggage, while another goroutine writes
them.

## 7. Running

    tlc -config HTTPReporterSafety.cfg MCHTTPReporter
    tlc -config HTTPReporterLiveness.cfg MCHTTPReporter
    tlc -config SpanConcurrency.cfg MCSpan
    tlc -config PropagationTrace.cfg MCPropagation
    tlc -config HTTPMiddlewareSpans.cfg MCHTTPMiddleware
    tlc -config RPC.cfg MCRPC
    tlc -config Samplers.cfg MCSamplers
    tlc -config Reporters.cfg MCReporters
    tlapm HTTPReporterProofs.tla
    tlapm SpanProofs.tla
    tlapm SamplersProofs.tla
    tlapm TracerProofs.tla
    tlapm PropagationProofs.tla
    tlapm RPCProofs.tla
    tlapm HTTPMiddlewareProofs.tla
    tlapm ReportersProofs.tla

`HTTPReporterLosesUnsent.cfg`, `HTTPMiddlewareSize.cfg`, `SamplersGenerated.cfg`
and `ReportersSchema.cfg` end with the counterexample of a finding. `PropagationTrace.cfg`,
`RPC.cfg` and `HTTPMiddlewareSpans.cfg` take a minute or two each; the others take seconds.
The proofs take minutes.
