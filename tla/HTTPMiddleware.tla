--------------------------- MODULE HTTPMiddleware ---------------------------
(***************************************************************************)
(* The two ends of a traced HTTP request, middleware/http.                 *)
(*                                                                         *)
(* An application calls DoWithAppSpan, which keeps a span of its own until *)
(* the body of the response is closed.  http.Client may follow redirects,  *)
(* each with a RoundTrip of the instrumented transport, which has a client *)
(* span.  The server's middleware has a server span while the handler      *)
(* runs, and watches what the handler writes through rwInterceptor.  The   *)
(* ends go on independently: the client has its response while the handler *)
(* still writes the body, or has given up before the request arrives.      *)
(*                                                                         *)
(* What spans a trace is made of, and the headers, are in Propagation.     *)
(*                                                                         *)
(* Definitions marked Mutant stand before the one they vary: a slip that   *)
(* the properties must catch.  Nothing else uses them.                     *)
(***************************************************************************)
EXTENDS Naturals, Sequences

CONSTANTS
    Calls,             \* the calls of DoWithAppSpan
    None,              \* no value
    Statuses,          \* the status codes handlers set
    TagResponseSize,   \* the server's option
    ErrResponseReader, \* the transport has one
    Interfaces,        \* what the server's ResponseWriter is besides
    MaxExchanges,      \* a bound on the round trips
    Elaborate,         \* a bound: those whose handlers do more than set a status
    MaxSize            \* a bound on the size of a response

ASSUME NoneAssumption == None \notin Nat
\* Informational ones are left out: they do not end the writing of headers.
ASSUME StatusesAssumption == Statuses \subseteq 200..599
ASSUME OptionsAssumption == {TagResponseSize, ErrResponseReader} \subseteq BOOLEAN
ASSUME InterfacesAssumption ==
    Interfaces \subseteq {"Hijacker", "CloseNotifier", "Pusher", "Flusher", "ReaderFrom"}
ASSUME BoundsAssumption == MaxExchanges \in Nat /\ MaxSize \in Nat

VARIABLES
    calls,      \* of each call, where it is, its current exchange and its span
    exchanges   \* the round trips in the order they were started

vars == <<calls, exchanges>>

Index == 1..Len(exchanges)

-----------------------------------------------------------------------------
(* Spans, by the tags that depend on how a request ends.                     *)

NewSpan(noop) ==
    [noop |-> noop, status |-> None, error |-> FALSE, size |-> None, reported |-> FALSE]

\* The tags of a response.  Each is set on a condition; a success has neither
\* status nor error.
Tagged(sp, status, size) ==
    IF sp.noop THEN sp
    ELSE [sp EXCEPT !.status = IF status \in 200..299 THEN None ELSE status,
                    !.error = @ \/ status > 399,
                    !.size = IF size = 0 THEN None ELSE size]

Erroneous(sp) == IF sp.noop THEN sp ELSE [sp EXCEPT !.error = TRUE]

\* Finish reports a span the first time it is called (Span has that).
Finish(sp) == IF sp.noop THEN sp ELSE [sp EXCEPT !.reported = TRUE]

-----------------------------------------------------------------------------

Init ==
    /\ calls = [c \in Calls |->
                    [pc |-> "idle", current |-> 0, app |-> NewSpan(TRUE)]]
    /\ exchanges = <<>>

\* Mutant: the status is unset until WriteHeader is called.
UnsetInterceptor == [status |-> 0, size |-> 0]

\* rwInterceptor as ServeHTTP makes it.
NewInterceptor == [status |-> 200, size |-> 0]

\* A new round trip: its client span is started, and the request is on its way.
\* response, length and body are what the client has of the response; wire is what
\* the handler has told the server's ResponseWriter, a Content-Length that it has
\* declared included, and ri what rwInterceptor knows of it.
Started(c, noop) ==
    [call |-> c, clientPc |-> "waiting", client |-> NewSpan(noop), body |-> "none",
     response |-> None, length |-> 0,
     serverPc |-> "none", server |-> NewSpan(TRUE),
     late |-> FALSE, copied |-> FALSE, hijacked |-> FALSE,
     wire |-> [status |-> None, size |-> 0, declared |-> None],
     ri |-> NewInterceptor]

\* RoundTrip up to the inner transport.
RoundTrip(c, noop) ==
    /\ Len(exchanges) < MaxExchanges
    /\ exchanges' = Append(exchanges, Started(c, noop))

\* DoWithAppSpan starts its span and calls http.Client.Do.  The spans of a call
\* are all noopSpans or none is: the decision is one, and that the tracer may be
\* switched off in between is left to Propagation.
DoWithAppSpan(c, noop) ==
    /\ calls[c].pc = "idle"
    /\ calls' = [calls EXCEPT ![c].pc = "do", ![c].current = Len(exchanges) + 1,
                              ![c].app = NewSpan(noop)]
    /\ RoundTrip(c, noop)

-----------------------------------------------------------------------------
(* The server.                                                               *)

\* ServeHTTP up to the handler.
Arrive(e, noop) ==
    /\ exchanges[e].serverPc = "none"
    /\ exchanges' = [exchanges EXCEPT ![e].serverPc = "serving", ![e].server = NewSpan(noop)]
    /\ UNCHANGED calls

Serving(e) == exchanges[e].serverPc = "serving"
Writing(e) == Serving(e) /\ e \in Elaborate

\* What wrap returns is whatever the original is, for each of the interfaces, and
\* passes calls of their methods on to it: rwInterceptor sees none of them.
\* CloseNotifier and Pusher change nothing of the response.
Wraps(interface) == interface \in Interfaces

\* net/http's ResponseWriter: the first status holds, the first byte sets 200.
HeaderWritten(w, code) == [w EXCEPT !.status = IF @ = None THEN code ELSE @]
BytesWritten(w, n) == [HeaderWritten(w, 200) EXCEPT !.size = @ + n]

\* What rwInterceptor keeps of WriteHeader(code).  A noopSpan's handler is given
\* the ResponseWriter itself.
Recorded(x, code) == IF x.server.noop THEN x.ri ELSE [x.ri EXCEPT !.status = code]

\* The handler sets Content-Length in Header(), which is the original's.
Declare(e, n) ==
    /\ Writing(e) /\ exchanges[e].wire.status = None
    /\ exchanges' = [exchanges EXCEPT ![e].wire.declared = n]
    /\ UNCHANGED calls

\* late: the handler calls WriteHeader with a status that comes too late.
WriteHeader(e, code) ==
    /\ Serving(e)
    /\ LET x == exchanges[e]
       IN  exchanges' = [exchanges EXCEPT
               ![e].wire = HeaderWritten(x.wire, code),
               ![e].ri = Recorded(x, code),
               ![e].late = @ \/ (x.wire.status # None /\ x.wire.status # code)]
    /\ UNCHANGED calls

\* Mutant: the bytes to write are counted, not those written.
CountedAll(x, len, n) == IF x.server.noop THEN x.ri ELSE [x.ri EXCEPT !.size = @ + len]

Counted(x, len, n) == IF x.server.noop THEN x.ri ELSE [x.ri EXCEPT !.size = @ + n]

\* What net/http lets Write write: no more than was declared, and nothing to a
\* connection that was taken over.
Accepts(x, n) ==
    /\ x.wire.size + n <= MaxSize
    /\ x.hijacked => n = 0
    /\ n > 0 /\ x.wire.declared # None => x.wire.size + n <= x.wire.declared

\* rwInterceptor.Write of len bytes, of which n are written.
Write(e, len, n) ==
    /\ Writing(e)
    /\ n <= len /\ Accepts(exchanges[e], n)
    /\ exchanges' = [exchanges EXCEPT
            ![e].wire = BytesWritten(@, n),
            ![e].ri = Counted(exchanges[e], len, n)]
    /\ UNCHANGED calls

Flush(e) ==
    /\ Wraps("Flusher") /\ Writing(e)
    /\ exchanges' = [exchanges EXCEPT ![e].wire = HeaderWritten(@, 200)]
    /\ UNCHANGED calls

\* The handler takes the connection over, and answers on it as it likes.
Hijack(e, code) ==
    /\ Wraps("Hijacker") /\ Writing(e) /\ ~exchanges[e].hijacked
    /\ exchanges' = [exchanges EXCEPT ![e].wire = HeaderWritten(@, code), ![e].hijacked = TRUE]
    /\ UNCHANGED calls

\* io.Copy finds the ReadFrom of what wrap returns, which is the original's.
ReadFrom(e, n) ==
    /\ Wraps("ReaderFrom") /\ Writing(e)
    /\ n > 0 /\ exchanges[e].wire.size + n <= MaxSize /\ ~exchanges[e].hijacked
    /\ exchanges' = [exchanges EXCEPT ![e].wire = BytesWritten(@, n), ![e].copied = TRUE]
    /\ UNCHANGED calls

\* Mutant: the span ends after the handler and not in a deferred function.
EndedUnlessPanic(x, panics) ==
    IF panics THEN x.server
    ELSE Finish(Tagged(x.server, x.ri.status, IF TagResponseSize THEN x.ri.size ELSE 0))

\* The deferred function.
Ended(x, panics) ==
    Finish(Tagged(x.server, x.ri.status, IF TagResponseSize THEN x.ri.size ELSE 0))

\* The handler returns or panics.  The server completes what returned, and cuts
\* the connection of what panicked.
Exit(e, panics) ==
    /\ Serving(e)
    /\ exchanges' = [exchanges EXCEPT
            ![e].serverPc = IF panics THEN "aborted" ELSE "done",
            ![e].server = Ended(exchanges[e], panics),
            ![e].wire = IF panics THEN @ ELSE HeaderWritten(@, 200)]
    /\ UNCHANGED calls

-----------------------------------------------------------------------------
(* The client.                                                               *)

Reading(x, status) == ErrResponseReader /\ status > 399 /\ ~x.client.noop

\* The ContentLength of a response as far as it is positive: what the handler has
\* declared, whether it writes that much or not, or what a handler that is done has
\* written, if net/http has counted it.  On a connection that was taken over it is
\* what the handler says.
Lengths(x) ==
    {n \in 0..MaxSize :
        \/ n = 0 \/ n = x.wire.declared \/ x.hijacked
        \/ x.wire.declared = None /\ x.serverPc = "done" /\ n = x.wire.size}

\* RoundTrip has a response.  The handler may still be writing the body.
Receive(e, length) ==
    LET x == exchanges[e]
        sp == Tagged(x.client, x.wire.status, length)
    IN  /\ x.clientPc = "waiting"
        /\ x.wire.status # None
        /\ length \in Lengths(x)
        /\ exchanges' = [exchanges EXCEPT
                ![e].response = x.wire.status, ![e].length = length,
                ![e].body = "open",
                ![e].clientPc = IF Reading(x, x.wire.status) THEN "reading" ELSE "over",
                ![e].client = IF Reading(x, x.wire.status) THEN sp ELSE Finish(sp)]
        /\ UNCHANGED calls

\* The ErrResponseReader is given a copy of the body, which then replaces it.
ReadBody(e) ==
    /\ exchanges[e].clientPc = "reading"
    /\ exchanges[e].serverPc = "done"
    /\ exchanges' = [exchanges EXCEPT ![e].clientPc = "over", ![e].client = Finish(@),
                                      ![e].body = "closed"]
    /\ UNCHANGED calls

\* Reading fails: the body is returned as it is.
ReadFails(e) ==
    /\ exchanges[e].clientPc = "reading"
    /\ exchanges' = [exchanges EXCEPT ![e].clientPc = "over", ![e].client = Finish(@)]
    /\ UNCHANGED calls

\* The inner RoundTrip gives an error: the network's, or a timeout's.
Fail(e) ==
    /\ exchanges[e].clientPc = "waiting"
    /\ exchanges' = [exchanges EXCEPT ![e].clientPc = "failed", ![e].client = Finish(Erroneous(@))]
    /\ UNCHANGED calls

Current(c) == exchanges[calls[c].current]

\* http.Client closes the body of a redirect, then follows it.
Redirect(c) ==
    /\ calls[c].pc = "do"
    /\ Current(c).clientPc = "over" /\ Current(c).response \in 300..399
    /\ Len(exchanges) < MaxExchanges
    /\ exchanges' = Append([exchanges EXCEPT ![calls[c].current].body = "closed"],
                           Started(c, calls[c].app.noop))
    /\ calls' = [calls EXCEPT ![c].current = Len(exchanges) + 1]

\* Mutant: the span is left to a body that nobody has.
ErrUnended(sp) == Erroneous(sp)

ErrEnded(sp) == Finish(Erroneous(sp))

\* http.Client.Do gives an error: a round trip failed, or a redirect is refused,
\* whose body http.Client has closed.
DoFails(c) ==
    /\ calls[c].pc = "do"
    /\ \/ Current(c).clientPc = "failed"
       \/ Current(c).clientPc = "over" /\ Current(c).response \in 300..399
    /\ calls' = [calls EXCEPT ![c].pc = "failed", ![c].app = ErrEnded(@)]
    /\ exchanges' = [exchanges EXCEPT ![calls[c].current].body =
                        IF @ = "open" THEN "closed" ELSE @]

\* DoWithAppSpan returns the response, its body in a spanCloser.
DoReturns(c) ==
    /\ calls[c].pc = "do"
    /\ Current(c).clientPc = "over"
    /\ calls' = [calls EXCEPT ![c].pc = "returned",
                    ![c].app = Tagged(@, Current(c).response, Current(c).length)]
    /\ UNCHANGED exchanges

\* Mutant: spanCloser.Close hides the Close of the body.
ClosedSpanOnly(body) == body

ClosedBody(body) == "closed"

\* spanCloser.Close, which may be called again.
CloseBody(c) ==
    /\ calls[c].pc = "returned"
    /\ exchanges' = [exchanges EXCEPT ![calls[c].current].body = ClosedBody(@)]
    /\ calls' = [calls EXCEPT ![c].app = Finish(@)]

-----------------------------------------------------------------------------

Do(c) == DoFails(c) \/ DoReturns(c) \/ Redirect(c)

Transport(e) == \/ \E length \in 0..MaxSize : Receive(e, length)
                \/ ReadBody(e) \/ ReadFails(e) \/ Fail(e)

Handle(e) == \/ \E code \in Statuses : WriteHeader(e, code)
             \/ \E len, n \in 0..MaxSize : Write(e, len, n)
             \/ \E n \in 0..MaxSize : ReadFrom(e, n) \/ Declare(e, n)
             \/ Flush(e)
             \/ \E code \in Statuses : Hijack(e, code)

Return(e) == \E panics \in BOOLEAN : Exit(e, panics)

Next ==
    \/ \E c \in Calls :
        \/ \E noop \in BOOLEAN : DoWithAppSpan(c, noop)
        \/ Do(c) \/ CloseBody(c)
    \/ \E e \in Index :
        \/ \E noop \in BOOLEAN : Arrive(e, noop)
        \/ Transport(e) \/ Handle(e) \/ Return(e)

Spec == Init /\ [][Next]_vars

\* http.Client goes on when a round trip has ended.  The rest depends on others,
\* and is assumed by the property that needs it.
FairSpec == Spec /\ \A c \in Calls : WF_vars(Do(c))

RoundTripsEnd == \A e \in 1..MaxExchanges : WF_vars(e \in Index /\ Transport(e))
HandlersEnd == \A e \in 1..MaxExchanges : WF_vars(e \in Index /\ Return(e))
BodiesClosed == \A c \in Calls : WF_vars(CloseBody(c))

-----------------------------------------------------------------------------
(* Properties.                                                               *)

SpanType ==
    [noop : BOOLEAN, status : Statuses \cup {None}, error : BOOLEAN,
     size : (1..MaxSize) \cup {None}, reported : BOOLEAN]

\* Types.
TypeOK ==
    /\ \A c \in Calls :
        /\ calls[c].pc \in {"idle", "do", "returned", "failed"}
        /\ calls[c].current \in 0..Len(exchanges)
        /\ calls[c].app \in SpanType
    /\ \A e \in Index :
        /\ exchanges[e].call \in Calls
        /\ exchanges[e].clientPc \in {"waiting", "reading", "over", "failed"}
        /\ exchanges[e].serverPc \in {"none", "serving", "done", "aborted"}
        /\ exchanges[e].client \in SpanType /\ exchanges[e].server \in SpanType
        /\ exchanges[e].body \in {"none", "open", "closed"}
        /\ exchanges[e].response \in Statuses \cup {200, None}
        /\ exchanges[e].length \in 0..MaxSize
        /\ exchanges[e].wire.size \in 0..MaxSize
        /\ exchanges[e].wire.declared \in (0..MaxSize) \cup {None}

\* Each way out of RoundTrip and of ServeHTTP reports the span, and none reports
\* it earlier: an error, a panic, a response that comes after the client has
\* given up, a body that cannot be read.
ReportedAtExit ==
    \A e \in Index :
        LET x == exchanges[e]
        IN  /\ ~x.client.noop => (x.client.reported <=> x.clientPc \in {"over", "failed"})
            /\ x.serverPc # "none" /\ ~x.server.noop =>
                    (x.server.reported <=> x.serverPc \in {"done", "aborted"})

\* The application's span covers all it stands for: when it is reported, the
\* client span of each redirect is reported, and no body of a response is open
\* any more, whether the transport has replaced it, http.Client has closed it or
\* spanCloser.
AppSpanCovers ==
    \A c \in Calls : calls[c].app.reported =>
        \A e \in Index : exchanges[e].call = c =>
            /\ exchanges[e].clientPc \in {"over", "failed"}
            /\ exchanges[e].client.noop \/ exchanges[e].client.reported
            /\ exchanges[e].body # "open"

\* The client and the server, which the same span may have as its two halves, say
\* the same of the response, if the client has one and the handler has neither tried
\* to change a status it had already sent nor taken the connection over: whoever is
\* done first, and whether the handler has set a status, flushed, only written a body,
\* or panicked.
StatusesAgree ==
    \A e \in Index :
        LET x == exchanges[e]
        IN  /\ ~x.client.noop /\ x.response # None /\ x.server.reported
            /\ ~x.late /\ ~x.hijacked
            => x.client.status = x.server.status /\ x.client.error = x.server.error

\* The server never says more of the size than the client, whose size may be one that
\* the handler has declared: before it writes, for a HEAD, or before a panic.  They say
\* the same if it has written what it declared, or declared nothing, and has not
\* copied.  Of a connection that was taken over the server knows nothing.
SizesAgree ==
    \A e \in Index :
        LET x == exchanges[e]
        IN  TagResponseSize /\ x.client.size # None /\ x.server.reported /\ ~x.hijacked =>
                /\ x.server.size # None => x.server.size <= x.client.size
                /\ ~x.copied /\ (x.wire.declared = None \/ x.wire.declared = x.wire.size) =>
                        x.server.size = x.client.size

Unreported(sp) == ~sp.noop /\ ~sp.reported

\* Every span is reported, as long as round trips and handlers end and responses
\* that DoWithAppSpan returns are closed: again and again none is left.
SpansReported ==
    RoundTripsEnd /\ HandlersEnd /\ BodiesClosed =>
        []<>(/\ \A c \in Calls : ~Unreported(calls[c].app)
             /\ \A e \in Index :
                    ~Unreported(exchanges[e].client) /\ ~Unreported(exchanges[e].server))

\* What the comment of TagResponseSize says: the size of the response is tagged.
ResponseSizeTagged ==
    \A e \in Index :
        LET x == exchanges[e]
        IN  TagResponseSize /\ x.server.reported /\ x.wire.size > 0 =>
                x.server.size = x.wire.size
=============================================================================
