----------------------- MODULE HTTPMiddlewareProofs -----------------------
(* Theorems about HTTPMiddleware, for any calls, statuses, options and any *)
(* number of round trips and redirects.                                    *)
EXTENDS HTTPMiddleware, SequenceTheorems, TLAPS

-----------------------------------------------------------------------------
(* The inductive invariant.  It speaks of each exchange alone, and of each   *)
(* call together with its exchanges.                                         *)

WireType ==
    [status : Statuses \cup {200, None}, size : 0..MaxSize, declared : (0..MaxSize) \cup {None}]

CallType ==
    [pc : {"idle", "do", "returned", "failed"}, current : Nat, app : SpanType]

ExchangeType ==
    [call : Calls,
     clientPc : {"waiting", "reading", "over", "failed"}, client : SpanType,
     body : {"none", "open", "closed"},
     response : Statuses \cup {200, None}, length : 0..MaxSize,
     serverPc : {"none", "serving", "done", "aborted"}, server : SpanType,
     late : BOOLEAN, copied : BOOLEAN, hijacked : BOOLEAN,
     wire : WireType,
     ri : [status : Statuses \cup {200}, size : 0..MaxSize]]

Shapes ==
    /\ calls \in [Calls -> CallType]
    /\ exchanges \in Seq(ExchangeType)

\* The tags of a response's status.
StatusTag(status) == IF status \in 200..299 THEN None ELSE status
SizeTag(size) == IF size = 0 THEN None ELSE size

\* The status that the client gets, or will get if the handler does no more.
Sent(wire) == IF wire.status = None THEN 200 ELSE wire.status

\* A noopSpan stays as it is made.
NoopBlank(sp) == sp.noop => sp = NewSpan(TRUE)

\* How far the client's span tells what the client has of the response, and when it
\* is reported.  A body is there from the response on.
ClientSide(x) ==
    /\ NoopBlank(x.client)
    /\ ~x.client.noop => (x.client.reported <=> x.clientPc \in {"over", "failed"})
    /\ x.clientPc = "waiting" => ~x.client.error
    /\ x.clientPc \in {"waiting", "failed"} =>
            x.response = None /\ x.body = "none" /\ x.client.size = None
    /\ x.clientPc \in {"reading", "over"} =>
            x.response # None /\ x.response = x.wire.status /\ x.body # "none"
    /\ x.response # None /\ ~x.client.noop =>
            /\ x.client.status = StatusTag(x.response)
            /\ x.client.error <=> x.response > 399
    /\ x.client.size # None =>
            \/ x.hijacked
            \/ x.client.size = x.wire.declared
            \/ x.wire.declared = None /\ x.serverPc = "done" /\ x.client.size = x.wire.size

\* What rwInterceptor knows is what went over the wire, but for late statuses, copied
\* bytes and connections that were taken over, and no more than was declared; the
\* server's span tells what rwInterceptor knows.
ServerSide(x) ==
    /\ NoopBlank(x.server)
    /\ x.serverPc = "none" =>
            /\ x.server.noop /\ x.wire = [status |-> None, size |-> 0, declared |-> None]
            /\ x.ri = NewInterceptor /\ ~x.late /\ ~x.hijacked
    /\ ~x.server.noop => (x.server.reported <=> x.serverPc \in {"done", "aborted"})
    /\ x.serverPc = "serving" => ~x.server.error
    /\ ~x.server.noop /\ ~x.late /\ ~x.hijacked => x.ri.status = Sent(x.wire)
    /\ x.wire.status = None => x.wire.size = 0
    /\ x.ri.size <= x.wire.size
    /\ x.wire.declared # None => x.ri.size <= x.wire.declared
    /\ ~x.server.noop /\ ~x.copied => x.ri.size = x.wire.size
    /\ x.server.reported =>
            /\ x.server.status = StatusTag(x.ri.status)
            /\ x.server.error <=> x.ri.status > 399
            /\ TagResponseSize => x.server.size = SizeTag(x.ri.size)

Sides == \A e \in Index : ClientSide(exchanges[e]) /\ ServerSide(exchanges[e])

Settled(x) == x.clientPc \in {"over", "failed"} /\ x.body # "open"

\* A call has one round trip under way; those before it were redirects.  Its span is
\* reported when the last one is settled too.
Chain(c) ==
    LET k == calls[c].current
    IN  /\ NoopBlank(calls[c].app)
        /\ calls[c].pc = "idle" =>
                /\ calls[c].current = 0 /\ ~calls[c].app.reported
                /\ \A e \in Index : exchanges[e].call # c
        /\ calls[c].pc # "idle" =>
                /\ k \in Index /\ exchanges[k].call = c
                /\ \A e \in Index : exchanges[e].call = c => e = k \/ Settled(exchanges[e])
        /\ calls[c].pc = "do" => ~calls[c].app.reported
        /\ calls[c].pc = "returned" =>
                /\ exchanges[k].clientPc = "over"
                /\ calls[c].app.reported => exchanges[k].body = "closed"
        /\ calls[c].pc = "failed" => Settled(exchanges[k])

Chains == \A c \in Calls : Chain(c)

IInv == Shapes /\ Sides /\ Chains

-----------------------------------------------------------------------------
(* Frames.                                                                   *)

LEMMA ExchangeFacts ==
    ASSUME IInv, NEW e \in Index
    PROVE  /\ exchanges[e] \in ExchangeType
           /\ ClientSide(exchanges[e]) /\ ServerSide(exchanges[e])
           /\ exchanges[e].clientPc \in {"waiting", "reading", "over", "failed"}
<1>1. exchanges[e] \in ExchangeType
    BY DEF IInv, Shapes, Index
<1>. QED
    BY <1>1 DEF IInv, Sides, ExchangeType

\* A step of one exchange keeps the invariant if the exchange is all right after it,
\* and what is settled stays as it is.
LEMMA ExchangeStep ==
    ASSUME IInv, NEW e \in Index, NEW y \in ExchangeType,
           ClientSide(y), ServerSide(y), y.call = exchanges[e].call,
           exchanges[e].clientPc \in {"over", "failed"} =>
                y.clientPc = exchanges[e].clientPc /\ y.body = exchanges[e].body,
           exchanges' = [exchanges EXCEPT ![e] = y], UNCHANGED calls
    PROVE  IInv'
<1>1. /\ exchanges' \in Seq(ExchangeType) /\ Len(exchanges') = Len(exchanges)
      /\ \A f \in Index : exchanges'[f] = IF f = e THEN y ELSE exchanges[f]
    BY DEF IInv, Shapes, Index
<1>2. Shapes'
    BY <1>1 DEF IInv, Shapes
<1>3. Sides'
    BY <1>1 DEF IInv, Sides, Index
<1>4. Chains'
    BY <1>1 DEF IInv, Chains, Chain, Index, Settled
<1>. QED
    BY <1>2, <1>3, <1>4 DEF IInv

\* y is x as far as its client is concerned, or its server.
SameClient(x, y) ==
    /\ y.call = x.call /\ y.clientPc = x.clientPc /\ y.client = x.client
    /\ y.body = x.body /\ y.response = x.response /\ y.length = x.length

SameServer(x, y) ==
    /\ y.call = x.call /\ y.serverPc = x.serverPc /\ y.server = x.server /\ y.wire = x.wire
    /\ y.ri = x.ri /\ y.late = x.late /\ y.copied = x.copied /\ y.hijacked = x.hijacked

-----------------------------------------------------------------------------
(* Spans.                                                                    *)

LEMMA SpanTypes ==
    /\ \A noop \in BOOLEAN : NewSpan(noop) \in SpanType
    /\ \A sp \in SpanType :
        /\ Finish(sp) \in SpanType /\ Erroneous(sp) \in SpanType
        /\ \A status \in Statuses \cup {200}, size \in 0..MaxSize :
                Tagged(sp, status, size) \in SpanType
<1>1. ASSUME NEW noop \in BOOLEAN PROVE NewSpan(noop) \in SpanType
    BY DEF NewSpan, SpanType
<1>2. ASSUME NEW sp \in SpanType PROVE Finish(sp) \in SpanType /\ Erroneous(sp) \in SpanType
    BY DEF Finish, Erroneous, SpanType
<1>3. ASSUME NEW sp \in SpanType, NEW status \in Statuses \cup {200}, NEW size \in 0..MaxSize
      PROVE  Tagged(sp, status, size) \in SpanType
    <2>. DEFINE st == IF status \in 200..299 THEN None ELSE status
                er == sp.error \/ status > 399
                sz == IF size = 0 THEN None ELSE size
    <2>1. st \in Statuses \cup {None} /\ er \in BOOLEAN /\ sz \in (1..MaxSize) \cup {None}
        BY BoundsAssumption
    <2>2. Tagged(sp, status, size) = sp
            \/ Tagged(sp, status, size) = [sp EXCEPT !.status = st, !.error = er, !.size = sz]
        BY DEF Tagged
    <2>. HIDE DEF st, er, sz
    <2>3. [sp EXCEPT !.status = st, !.error = er, !.size = sz] \in SpanType
        BY <2>1, ZenonT(60) DEF SpanType
    <2>. QED
        BY <2>2, <2>3
<1>. QED
    BY <1>1, <1>2, <1>3

\* What these do to a span that is none, and to one that is.
LEMMA SpanValues ==
    ASSUME NEW sp \in SpanType
    PROVE  /\ sp.noop => Finish(sp) = sp /\ Erroneous(sp) = sp
           /\ ~sp.noop =>
                /\ ~Finish(sp).noop /\ Finish(sp).reported
                /\ Finish(sp).status = sp.status /\ Finish(sp).error = sp.error
                /\ Finish(sp).size = sp.size
                /\ ~Erroneous(sp).noop /\ Erroneous(sp).error
                /\ Erroneous(sp).reported = sp.reported /\ Erroneous(sp).status = sp.status
                /\ Erroneous(sp).size = sp.size
BY DEF Finish, Erroneous, SpanType

LEMMA TaggedValues ==
    ASSUME NEW sp \in SpanType, NEW status \in Statuses \cup {200}, NEW size \in 0..MaxSize
    PROVE  /\ sp.noop => Tagged(sp, status, size) = sp
           /\ ~sp.noop =>
                /\ ~Tagged(sp, status, size).noop
                /\ Tagged(sp, status, size).reported = sp.reported
                /\ Tagged(sp, status, size).status = StatusTag(status)
                /\ Tagged(sp, status, size).error <=> sp.error \/ status > 399
                /\ Tagged(sp, status, size).size = SizeTag(size)
<1>. DEFINE st == IF status \in 200..299 THEN None ELSE status
            er == sp.error \/ status > 399
            sz == IF size = 0 THEN None ELSE size
<1>1. /\ sp.noop => Tagged(sp, status, size) = sp
      /\ ~sp.noop =>
            Tagged(sp, status, size) = [sp EXCEPT !.status = st, !.error = er, !.size = sz]
    BY DEF Tagged
<1>2. st = StatusTag(status) /\ sz = SizeTag(size) /\ (er <=> sp.error \/ status > 399)
    BY DEF StatusTag, SizeTag
<1>. HIDE DEF st, er, sz
<1>. QED
    BY <1>1, <1>2, ZenonT(60) DEF SpanType

LEMMA WireValues ==
    ASSUME NEW w \in WireType, NEW code \in Statuses \cup {200}
    PROVE  /\ HeaderWritten(w, code).status = IF w.status = None THEN code ELSE w.status
           /\ HeaderWritten(w, code).size = w.size
           /\ HeaderWritten(w, code).declared = w.declared
           /\ HeaderWritten(w, code) \in WireType
<1>. DEFINE status == IF w.status = None THEN code ELSE w.status
<1>1. HeaderWritten(w, code) = [w EXCEPT !.status = status]
    BY DEF HeaderWritten
<1>2. status \in Statuses \cup {200, None}
    BY DEF WireType
<1>. HIDE DEF status
<1>3. [w EXCEPT !.status = status] \in WireType
    BY <1>2 DEF WireType
<1>4. /\ [w EXCEPT !.status = status].status = status /\ [w EXCEPT !.status = status].size = w.size
      /\ [w EXCEPT !.status = status].declared = w.declared
    BY DEF WireType
<1>. QED
    BY <1>1, <1>3, <1>4 DEF status

LEMMA BytesValues ==
    ASSUME NEW w \in WireType, NEW n \in 0..MaxSize, w.size + n <= MaxSize
    PROVE  /\ BytesWritten(w, n).status = IF w.status = None THEN 200 ELSE w.status
           /\ BytesWritten(w, n).size = w.size + n
           /\ BytesWritten(w, n).declared = w.declared
           /\ BytesWritten(w, n) \in WireType
<1>. DEFINE v == HeaderWritten(w, 200)
<1>1. /\ v.status = IF w.status = None THEN 200 ELSE w.status
      /\ v.size = w.size /\ v.declared = w.declared /\ v \in WireType
    BY WireValues
<1>2. BytesWritten(w, n) = [v EXCEPT !.size = @ + n]
    BY DEF BytesWritten
<1>3. w.size + n \in 0..MaxSize
    BY BoundsAssumption DEF WireType
<1>. HIDE DEF v
<1>4. [v EXCEPT !.size = @ + n] = [v EXCEPT !.size = w.size + n]
    BY <1>1
<1>5. [v EXCEPT !.size = w.size + n] \in WireType
    BY <1>1, <1>3 DEF WireType
<1>. QED
    BY <1>1, <1>2, <1>4, <1>5 DEF WireType

LEMMA StartedType ==
    ASSUME NEW c \in Calls, NEW noop \in BOOLEAN
    PROVE  /\ Started(c, noop) \in ExchangeType
           /\ ClientSide(Started(c, noop)) /\ ServerSide(Started(c, noop))
           /\ Started(c, noop).call = c
<1>1. Started(c, noop) \in ExchangeType
    <2>1. NewSpan(noop) \in SpanType /\ NewSpan(TRUE) \in SpanType
        BY SpanTypes
    <2>4. 0 \in 0..MaxSize
        BY BoundsAssumption
    <2>2. [status |-> None, size |-> 0, declared |-> None] \in WireType
        BY <2>4 DEF WireType
    <2>3. NewInterceptor \in [status : Statuses \cup {200}, size : 0..MaxSize]
        BY <2>4 DEF NewInterceptor
    <2>. QED
        BY <2>1, <2>2, <2>3, <2>4 DEF Started, ExchangeType
<1>2. ClientSide(Started(c, noop))
    BY DEF Started, ClientSide, NoopBlank, NewSpan
<1>3. ServerSide(Started(c, noop))
    BY NoneAssumption DEF Started, ServerSide, NoopBlank, NewSpan, NewInterceptor, Sent
<1>. QED
    BY <1>1, <1>2, <1>3 DEF Started

-----------------------------------------------------------------------------
(* The steps of the server.                                                  *)

\* What the server does leaves the client's side alone, and the status on the wire
\* once there is one.
LEMMA ServerStep ==
    ASSUME IInv, NEW e \in Index, NEW y \in ExchangeType,
           exchanges[e].serverPc \in {"none", "serving"},
           SameClient(exchanges[e], y), ServerSide(y),
           exchanges[e].wire.status # None =>
                /\ y.wire.status = exchanges[e].wire.status
                /\ y.wire.declared = exchanges[e].wire.declared,
           exchanges[e].hijacked => y.hijacked,
           exchanges' = [exchanges EXCEPT ![e] = y], UNCHANGED calls
    PROVE  IInv'
<1>. DEFINE x == exchanges[e]
<1>1. ClientSide(x) /\ x.clientPc \in {"waiting", "reading", "over", "failed"}
    BY ExchangeFacts
<1>. HIDE DEF x
<1>2. x.response # None => y.wire.status = x.response /\ y.wire.declared = x.wire.declared
    BY <1>1 DEF ClientSide, x
<1>3. x.client.size # None => x.response # None /\ (x.hijacked \/ x.client.size = x.wire.declared)
    BY <1>1 DEF ClientSide, x
<1>4. x.hijacked => y.hijacked
    BY DEF x
<1>5. ClientSide(y)
    BY <1>1, <1>2, <1>3, <1>4 DEF ClientSide, SameClient, x
<1>. QED
    BY <1>5, ExchangeStep DEF SameClient

LEMMA ArriveStep ==
    ASSUME IInv, NEW e \in Index, NEW noop \in BOOLEAN, Arrive(e, noop)
    PROVE  IInv'
<1>. DEFINE x == exchanges[e]
            y == [x EXCEPT !.serverPc = "serving", !.server = NewSpan(noop)]
<1>1. x \in ExchangeType /\ x.serverPc = "none" /\ ServerSide(x)
    BY ExchangeFacts DEF Arrive
<1>2. exchanges' = [exchanges EXCEPT ![e] = y] /\ UNCHANGED calls
    BY DEF Arrive
<1>3. NewSpan(noop) \in SpanType
    BY SpanTypes
<1>. HIDE DEF x
<1>4. y \in ExchangeType
    BY <1>1, <1>3, ZenonT(60) DEF ExchangeType, WireType
<1>5. /\ SameClient(x, y)
      /\ y.serverPc = "serving" /\ y.server = NewSpan(noop) /\ y.wire = x.wire
      /\ y.ri = x.ri /\ y.late = x.late /\ y.copied = x.copied /\ y.hijacked = x.hijacked
    BY <1>1 DEF ExchangeType, SameClient
<1>. HIDE DEF y
<1>6. /\ x.wire.status = None /\ x.wire.size = 0 /\ x.wire.declared = None
      /\ x.ri.status = 200 /\ x.ri.size = 0 /\ ~x.late /\ ~x.hijacked
    BY <1>1 DEF ServerSide, NewInterceptor
<1>7. /\ NoopBlank(NewSpan(noop)) /\ NewSpan(noop).noop = noop
      /\ ~NewSpan(noop).reported /\ ~NewSpan(noop).error
    BY DEF NoopBlank, NewSpan
<1>8. ServerSide(y)
    BY <1>5, <1>6, <1>7 DEF ServerSide, Sent
<1>. QED
    BY <1>1, <1>2, <1>4, <1>5, <1>6, <1>8, ServerStep DEF x

LEMMA WriteHeaderStep ==
    ASSUME IInv, NEW e \in Index, NEW code \in Statuses, WriteHeader(e, code)
    PROVE  IInv'
<1>. DEFINE x == exchanges[e]
            wire == HeaderWritten(x.wire, code)
            ri == Recorded(x, code)
            late == x.late \/ (x.wire.status # None /\ x.wire.status # code)
            y == [x EXCEPT !.wire = wire, !.ri = ri, !.late = late]
<1>1. x \in ExchangeType /\ x.serverPc = "serving" /\ ServerSide(x)
    BY ExchangeFacts DEF WriteHeader, Serving
<1>2. exchanges' = [exchanges EXCEPT ![e] = y] /\ UNCHANGED calls
    BY DEF WriteHeader
<1>. HIDE DEF x
<1>3. /\ wire.status = IF x.wire.status = None THEN code ELSE x.wire.status
      /\ wire.size = x.wire.size /\ wire.declared = x.wire.declared /\ wire \in WireType
    BY <1>1, WireValues DEF ExchangeType
<1>4. /\ x.server.noop => ri = x.ri
      /\ ~x.server.noop => ri.status = code /\ ri.size = x.ri.size
      /\ ri \in [status : Statuses \cup {200}, size : 0..MaxSize]
    BY <1>1 DEF ExchangeType, Recorded
<1>5. late \in BOOLEAN
    BY <1>1 DEF ExchangeType, WireType
<1>6. late <=> x.late \/ (x.wire.status # None /\ x.wire.status # code)
    OBVIOUS
<1>. HIDE DEF wire, ri, late
<1>7. y \in ExchangeType
    BY <1>1, <1>3, <1>4, <1>5, ZenonT(60) DEF ExchangeType, WireType
<1>8. /\ SameClient(x, y)
      /\ y.serverPc = x.serverPc /\ y.server = x.server /\ y.copied = x.copied
      /\ y.wire = wire /\ y.ri = ri /\ y.late = late /\ y.hijacked = x.hijacked
    BY <1>1 DEF ExchangeType, SameClient
<1>. HIDE DEF y
<1>9. ServerSide(y)
    BY <1>1, <1>3, <1>4, <1>6, <1>8, NoneAssumption, StatusesAssumption
       DEF ServerSide, Sent
<1>. QED
    BY <1>1, <1>2, <1>3, <1>7, <1>8, <1>9, ServerStep DEF x

LEMMA WriteStep ==
    ASSUME IInv, NEW e \in Index, NEW len \in 0..MaxSize, NEW n \in 0..MaxSize, Write(e, len, n)
    PROVE  IInv'
<1>. DEFINE x == exchanges[e]
            wire == BytesWritten(x.wire, n)
            ri == Counted(x, len, n)
            y == [x EXCEPT !.wire = wire, !.ri = ri]
<1>1. /\ x \in ExchangeType /\ x.serverPc = "serving" /\ ServerSide(x)
      /\ x.wire.size + n <= MaxSize
      /\ n > 0 /\ x.wire.declared # None => x.wire.size + n <= x.wire.declared
    BY ExchangeFacts DEF Write, Serving, Writing, Accepts
<1>2. exchanges' = [exchanges EXCEPT ![e] = y] /\ UNCHANGED calls
    BY DEF Write
<1>. HIDE DEF x
<1>3. /\ wire.status = IF x.wire.status = None THEN 200 ELSE x.wire.status
      /\ wire.size = x.wire.size + n /\ wire.declared = x.wire.declared /\ wire \in WireType
    BY <1>1, BytesValues DEF ExchangeType
<1>4. /\ x.server.noop => ri = x.ri
      /\ ~x.server.noop => ri.status = x.ri.status /\ ri.size = x.ri.size + n
      /\ ri \in [status : Statuses \cup {200}, size : 0..MaxSize]
    <2>1. x.ri \in [status : Statuses \cup {200}, size : 0..MaxSize]
        BY <1>1 DEF ExchangeType, WireType
    <2>2. x.ri.size + n \in 0..MaxSize
        BY <1>1, <2>1, BoundsAssumption DEF ServerSide, ExchangeType, WireType
    <2>. QED
        BY <2>1, <2>2 DEF Counted
<1>. HIDE DEF wire, ri
<1>5. y \in ExchangeType
    BY <1>1, <1>3, <1>4, ZenonT(60) DEF ExchangeType, WireType
<1>6. /\ SameClient(x, y)
      /\ y.serverPc = x.serverPc /\ y.server = x.server /\ y.copied = x.copied
      /\ y.wire = wire /\ y.ri = ri /\ y.late = x.late /\ y.hijacked = x.hijacked
    BY <1>1 DEF ExchangeType, SameClient
<1>. HIDE DEF y
<1>7. /\ x.wire.size \in Nat /\ x.ri.size \in Nat /\ n \in Nat
      /\ x.wire.declared \in Nat \cup {None}
    BY <1>1, BoundsAssumption DEF ExchangeType, WireType
<1>8. ServerSide(y)
    BY <1>1, <1>3, <1>4, <1>6, <1>7, NoneAssumption, StatusesAssumption
       DEF ServerSide, Sent
<1>. QED
    BY <1>1, <1>2, <1>3, <1>5, <1>6, <1>8, ServerStep DEF x

LEMMA ReadFromStep ==
    ASSUME IInv, NEW e \in Index, NEW n \in 0..MaxSize, ReadFrom(e, n)
    PROVE  IInv'
<1>. DEFINE x == exchanges[e]
            wire == BytesWritten(x.wire, n)
            y == [x EXCEPT !.wire = wire, !.copied = TRUE]
<1>1. /\ x \in ExchangeType /\ x.serverPc = "serving" /\ ServerSide(x)
      /\ x.wire.size + n <= MaxSize
    BY ExchangeFacts DEF ReadFrom, Serving, Writing
<1>2. exchanges' = [exchanges EXCEPT ![e] = y] /\ UNCHANGED calls
    BY DEF ReadFrom
<1>. HIDE DEF x
<1>3. /\ wire.status = IF x.wire.status = None THEN 200 ELSE x.wire.status
      /\ wire.size = x.wire.size + n /\ wire.declared = x.wire.declared /\ wire \in WireType
    BY <1>1, BytesValues DEF ExchangeType
<1>. HIDE DEF wire
<1>4. y \in ExchangeType
    BY <1>1, <1>3, ZenonT(60) DEF ExchangeType, WireType
<1>5. /\ SameClient(x, y)
      /\ y.serverPc = x.serverPc /\ y.server = x.server /\ y.copied
      /\ y.wire = wire /\ y.ri = x.ri /\ y.late = x.late /\ y.hijacked = x.hijacked
    BY <1>1 DEF ExchangeType, SameClient
<1>. HIDE DEF y
<1>6. /\ x.wire.size \in Nat /\ x.ri.size \in Nat /\ n \in Nat
      /\ x.wire.declared \in Nat \cup {None}
    BY <1>1, BoundsAssumption DEF ExchangeType, WireType
<1>7. ServerSide(y)
    BY <1>1, <1>3, <1>5, <1>6, NoneAssumption, StatusesAssumption
       DEF ServerSide, Sent
<1>. QED
    BY <1>1, <1>2, <1>3, <1>4, <1>5, <1>7, ServerStep DEF x

LEMMA DeclareStep ==
    ASSUME IInv, NEW e \in Index, NEW n \in 0..MaxSize, Declare(e, n)
    PROVE  IInv'
<1>. DEFINE x == exchanges[e]
            wire == [x.wire EXCEPT !.declared = n]
            y == [x EXCEPT !.wire = wire]
<1>1. /\ x \in ExchangeType /\ x.serverPc = "serving" /\ ServerSide(x)
      /\ x.wire.status = None
    BY ExchangeFacts DEF Declare, Serving, Writing
<1>2. exchanges' = [exchanges EXCEPT ![e] = y] /\ UNCHANGED calls
    BY DEF Declare
<1>. HIDE DEF x
<1>3. /\ wire.status = None /\ wire.size = x.wire.size /\ wire.declared = n
      /\ wire \in WireType
    BY <1>1 DEF ExchangeType, WireType
<1>. HIDE DEF wire
<1>4. y \in ExchangeType
    BY <1>1, <1>3, ZenonT(60) DEF ExchangeType
<1>5. /\ SameClient(x, y)
      /\ y.serverPc = x.serverPc /\ y.server = x.server /\ y.copied = x.copied
      /\ y.wire = wire /\ y.ri = x.ri /\ y.late = x.late /\ y.hijacked = x.hijacked
    BY <1>1 DEF ExchangeType, SameClient
<1>. HIDE DEF y
<1>6. x.wire.size = 0 /\ x.ri.size \in Nat /\ x.ri.size <= 0 /\ n \in Nat
    BY <1>1, BoundsAssumption DEF ExchangeType, WireType, ServerSide
<1>7. ServerSide(y)
    BY <1>1, <1>3, <1>5, <1>6, NoneAssumption DEF ServerSide, Sent
<1>. QED
    BY <1>1, <1>2, <1>3, <1>4, <1>5, <1>7, ServerStep DEF x

\* What the handler does to the ResponseWriter behind rwInterceptor's back.
LEMMA PassedOnStep ==
    ASSUME IInv, NEW e \in Index,
           Flush(e) \/ \E code \in Statuses : Hijack(e, code)
    PROVE  IInv'
<1>. DEFINE x == exchanges[e]
<1>1. x \in ExchangeType /\ x.serverPc = "serving" /\ ServerSide(x)
    BY ExchangeFacts DEF Flush, Hijack, Serving, Writing
<1>2. PICK code \in Statuses \cup {200}, hijacked \in BOOLEAN :
        /\ exchanges' = [exchanges EXCEPT ![e] =
                [x EXCEPT !.wire = HeaderWritten(x.wire, code), !.hijacked = hijacked]]
        /\ x.hijacked => hijacked
        /\ hijacked \/ code = 200
    <2>1. CASE Flush(e)
        <3>1. [x EXCEPT !.wire = HeaderWritten(x.wire, 200)]
                = [x EXCEPT !.wire = HeaderWritten(x.wire, 200), !.hijacked = x.hijacked]
            BY <1>1 DEF ExchangeType
        <3>2. x.hijacked \in BOOLEAN
            BY <1>1 DEF ExchangeType
        <3>3. exchanges' = [exchanges EXCEPT ![e] = [x EXCEPT !.wire = HeaderWritten(x.wire, 200)]]
            BY <2>1 DEF Flush
        <3>4. exchanges' = [exchanges EXCEPT ![e] =
                [x EXCEPT !.wire = HeaderWritten(x.wire, 200), !.hijacked = x.hijacked]]
            BY <3>1, <3>3
        <3>. QED
            BY <3>2, <3>4, Zenon
    <2>2. ASSUME NEW code \in Statuses, Hijack(e, code)
          PROVE  exchanges' = [exchanges EXCEPT ![e] =
                    [x EXCEPT !.wire = HeaderWritten(x.wire, code), !.hijacked = TRUE]]
        BY <2>2 DEF Hijack
    <2>. QED
        BY <2>1, <2>2
<1>. DEFINE wire == HeaderWritten(x.wire, code)
            y == [x EXCEPT !.wire = wire, !.hijacked = hijacked]
<1>3. exchanges' = [exchanges EXCEPT ![e] = y] /\ UNCHANGED calls
    BY <1>2 DEF Flush, Hijack
<1>. HIDE DEF x
<1>4. /\ wire.status = IF x.wire.status = None THEN code ELSE x.wire.status
      /\ wire.size = x.wire.size /\ wire.declared = x.wire.declared /\ wire \in WireType
    BY <1>1, WireValues DEF ExchangeType
<1>. HIDE DEF wire
<1>5. y \in ExchangeType
    BY <1>1, <1>4, ZenonT(60) DEF ExchangeType
<1>6. /\ SameClient(x, y)
      /\ y.serverPc = x.serverPc /\ y.server = x.server /\ y.copied = x.copied
      /\ y.wire = wire /\ y.ri = x.ri /\ y.late = x.late /\ y.hijacked = hijacked
    BY <1>1 DEF ExchangeType, SameClient
<1>. HIDE DEF y
<1>7. ServerSide(y)
    BY <1>1, <1>2, <1>4, <1>6, NoneAssumption, StatusesAssumption DEF ServerSide, Sent
<1>. QED
    BY <1>1, <1>2, <1>3, <1>4, <1>5, <1>6, <1>7, ServerStep DEF x

LEMMA ExitStep ==
    ASSUME IInv, NEW e \in Index, NEW panics \in BOOLEAN, Exit(e, panics)
    PROVE  IInv'
<1>. DEFINE x == exchanges[e]
            pc == IF panics THEN "aborted" ELSE "done"
            size == IF TagResponseSize THEN x.ri.size ELSE 0
            server == Ended(x, panics)
            wire == IF panics THEN x.wire ELSE HeaderWritten(x.wire, 200)
            y == [x EXCEPT !.serverPc = pc, !.server = server, !.wire = wire]
<1>1. x \in ExchangeType /\ x.serverPc = "serving" /\ ServerSide(x)
    BY ExchangeFacts DEF Exit, Serving
<1>2. exchanges' = [exchanges EXCEPT ![e] = y] /\ UNCHANGED calls
    BY ZenonT(60) DEF Exit
<1>. HIDE DEF x
<1>3. pc \in {"done", "aborted"}
    OBVIOUS
<1>4. /\ x.wire.status # None => wire.status = x.wire.status
      /\ x.wire.status = None => wire.status \in {None, 200}
      /\ wire.size = x.wire.size /\ wire.declared = x.wire.declared /\ wire \in WireType
    BY <1>1, WireValues DEF ExchangeType
<1>5. /\ x.server \in SpanType /\ x.ri.status \in Statuses \cup {200}
      /\ x.ri.size \in 0..MaxSize /\ size \in 0..MaxSize
    BY <1>1, BoundsAssumption DEF ExchangeType, WireType
<1>6. server = Finish(Tagged(x.server, x.ri.status, size))
    BY DEF Ended
<1>7. size = x.ri.size \/ ~TagResponseSize
    OBVIOUS
<1>. HIDE DEF pc, size, server, wire
<1>8. Tagged(x.server, x.ri.status, size) \in SpanType /\ server \in SpanType
    <2>1. Tagged(x.server, x.ri.status, size) \in SpanType
        BY <1>5, SpanTypes, SMTT(60)
    <2>2. Finish(Tagged(x.server, x.ri.status, size)) \in SpanType
        BY <2>1, SpanTypes
    <2>. QED
        BY <2>1, <2>2, <1>6
<1>9. /\ x.server.noop => server = x.server
      /\ ~x.server.noop =>
            /\ ~server.noop /\ server.reported
            /\ server.status = StatusTag(x.ri.status)
            /\ server.error <=> (x.server.error \/ x.ri.status > 399)
            /\ server.size = SizeTag(size)
    <2>1. CASE x.server.noop
        BY <2>1, <1>5, <1>6, SpanValues, TaggedValues
    <2>2. CASE ~x.server.noop
        <3>. DEFINE tagged == Tagged(x.server, x.ri.status, size)
        <3>1. /\ ~tagged.noop /\ tagged.status = StatusTag(x.ri.status)
              /\ tagged.error <=> (x.server.error \/ x.ri.status > 399)
              /\ tagged.size = SizeTag(size)
            BY <2>2, <1>5, TaggedValues
        <3>2. tagged \in SpanType /\ server = Finish(tagged)
            BY <1>6, <1>8
        <3>. HIDE DEF tagged
        <3>. QED
            BY <2>2, <3>1, <3>2, SpanValues
    <2>. QED
        BY <2>1, <2>2
<1>10. y \in ExchangeType
    BY <1>1, <1>3, <1>4, <1>8, ZenonT(60) DEF ExchangeType, WireType
<1>11. /\ SameClient(x, y)
       /\ y.serverPc = pc /\ y.server = server /\ y.copied = x.copied
       /\ y.wire = wire /\ y.ri = x.ri /\ y.late = x.late /\ y.hijacked = x.hijacked
    BY <1>1 DEF ExchangeType, SameClient
<1>. HIDE DEF y
<1>12. ServerSide(y)
    BY <1>1, <1>3, <1>4, <1>5, <1>7, <1>9, <1>11, NoneAssumption, StatusesAssumption
       DEF ServerSide, Sent, NoopBlank, NewSpan
<1>13. x.wire.status # None =>
            y.wire.status = x.wire.status /\ y.wire.declared = x.wire.declared
    BY <1>4, <1>11
<1>14. x.hijacked => y.hijacked
    BY <1>11
<1>. QED
    BY <1>1, <1>2, <1>10, <1>11, <1>12, <1>13, <1>14, ServerStep DEF x

-----------------------------------------------------------------------------
(* The steps of the client.                                                  *)

\* What the transport does leaves the server's side alone.
LEMMA ClientStep ==
    ASSUME IInv, NEW e \in Index, NEW y \in ExchangeType,
           exchanges[e].clientPc \in {"waiting", "reading"},
           SameServer(exchanges[e], y), ClientSide(y),
           exchanges' = [exchanges EXCEPT ![e] = y], UNCHANGED calls
    PROVE  IInv'
<1>1. ServerSide(exchanges[e])
    BY ExchangeFacts
<1>2. ServerSide(y)
    BY <1>1 DEF ServerSide, SameServer
<1>. QED
    BY <1>2, ExchangeStep DEF SameServer

LEMMA ReceiveStep ==
    ASSUME IInv, NEW e \in Index, NEW length \in 0..MaxSize, Receive(e, length)
    PROVE  IInv'
<1>. DEFINE x == exchanges[e]
            status == x.wire.status
            reads == Reading(x, status)
            pc == IF reads THEN "reading" ELSE "over"
            sp == Tagged(x.client, status, length)
            client == IF reads THEN sp ELSE Finish(sp)
            y == [x EXCEPT !.response = status, !.length = length, !.body = "open",
                           !.clientPc = pc, !.client = client]
<1>1. /\ x \in ExchangeType /\ x.clientPc = "waiting" /\ ClientSide(x)
      /\ status # None
      /\ length # 0 =>
            \/ x.hijacked \/ length = x.wire.declared
            \/ x.wire.declared = None /\ x.serverPc = "done" /\ length = x.wire.size
    BY ExchangeFacts DEF Receive, Lengths
<1>2. exchanges' = [exchanges EXCEPT ![e] = y] /\ UNCHANGED calls
    BY DEF Receive
<1>3. status \in Statuses \cup {200} /\ x.client \in SpanType
    BY <1>1 DEF ExchangeType, WireType
<1>. HIDE DEF x, status
<1>4. pc \in {"reading", "over"} /\ (pc = "reading" <=> reads) /\ (reads => ~x.client.noop)
    BY DEF Reading
<1>. HIDE DEF reads, pc
<1>5. Tagged(x.client, status, length) \in SpanType /\ sp \in SpanType
    BY <1>3, SpanTypes
<1>6. /\ x.client.noop => sp = x.client
      /\ ~x.client.noop =>
            /\ ~sp.noop /\ sp.reported = x.client.reported
            /\ sp.status = StatusTag(status) /\ sp.size = SizeTag(length)
            /\ sp.error <=> x.client.error \/ status > 399
    BY <1>3, TaggedValues
<1>. HIDE DEF sp
<1>7. /\ client \in SpanType
      /\ x.client.noop => client = x.client
      /\ ~x.client.noop =>
            /\ ~client.noop /\ client.status = StatusTag(status)
            /\ client.size = SizeTag(length)
            /\ client.error <=> x.client.error \/ status > 399
            /\ client.reported <=> x.client.reported \/ ~reads
    BY <1>4, <1>5, <1>6, SpanTypes, SpanValues
<1>. HIDE DEF client
<1>8. y \in ExchangeType
    <2>1. status \in Statuses \cup {200, None} /\ "open" \in {"none", "open", "closed"}
        BY <1>3
    <2>2. pc \in {"waiting", "reading", "over", "failed"} /\ client \in SpanType
        BY <1>4, <1>7
    <2>. DEFINE z == [x EXCEPT !.response = status, !.length = length, !.body = "open"]
    <2>3. z \in ExchangeType
        BY <1>1, <2>1, ZenonT(60) DEF ExchangeType
    <2>4. y = [z EXCEPT !.clientPc = pc, !.client = client]
        OBVIOUS
    <2>. HIDE DEF z
    <2>5. [z EXCEPT !.clientPc = pc, !.client = client] \in ExchangeType
        BY <2>2, <2>3, ZenonT(60) DEF ExchangeType
    <2>. HIDE DEF y
    <2>. QED
        BY <2>4, <2>5
<1>9. /\ SameServer(x, y)
      /\ y.clientPc = pc /\ y.client = client /\ y.body = "open" /\ y.response = status
    BY <1>1 DEF ExchangeType, SameServer
<1>. HIDE DEF y
<1>10. x.wire.status = status /\ (x.client.noop => client.size = None)
    BY <1>1, <1>7 DEF ClientSide, status
<1>11. ClientSide(y)
    BY <1>1, <1>4, <1>7, <1>9, <1>10, ZenonT(60) DEF ClientSide, SameServer, NoopBlank, SizeTag
<1>. QED
    BY <1>1, <1>2, <1>8, <1>9, <1>11, ClientStep DEF x

LEMMA ReadBodyStep ==
    ASSUME IInv, NEW e \in Index, ReadBody(e) \/ ReadFails(e)
    PROVE  IInv'
<1>. DEFINE x == exchanges[e]
            client == Finish(x.client)
<1>1. /\ x \in ExchangeType /\ x.clientPc = "reading" /\ ClientSide(x)
    BY ExchangeFacts DEF ReadBody, ReadFails
<1>2. PICK body \in {"closed", x.body} :
        exchanges' = [exchanges EXCEPT ![e] =
            [x EXCEPT !.clientPc = "over", !.client = client, !.body = body]]
    <2>1. CASE ReadBody(e)
        BY <2>1 DEF ReadBody
    <2>2. CASE ReadFails(e)
        <3>1. [x EXCEPT !.clientPc = "over", !.client = client]
                = [x EXCEPT !.clientPc = "over", !.client = client, !.body = x.body]
            BY <1>1 DEF ExchangeType
        <3>. QED
            BY <2>2, <3>1 DEF ReadFails
    <2>. QED
        BY <2>1, <2>2
<1>. DEFINE y == [x EXCEPT !.clientPc = "over", !.client = client, !.body = body]
<1>3. exchanges' = [exchanges EXCEPT ![e] = y] /\ UNCHANGED calls
    BY <1>2 DEF ReadBody, ReadFails
<1>. HIDE DEF x
<1>4. /\ x.client \in SpanType /\ client \in SpanType
      /\ body \in {"none", "open", "closed"} /\ body # "none"
    BY <1>1, SpanTypes DEF ExchangeType, ClientSide
<1>5. /\ x.client.noop => client = x.client
      /\ ~x.client.noop =>
            /\ ~client.noop /\ client.reported /\ client.status = x.client.status
            /\ client.error = x.client.error /\ client.size = x.client.size
    BY <1>4, SpanValues
<1>. HIDE DEF client
<1>6. y \in ExchangeType
    BY <1>1, <1>4, ZenonT(60) DEF ExchangeType
<1>7. /\ SameServer(x, y)
      /\ y.clientPc = "over" /\ y.client = client /\ y.body = body /\ y.response = x.response
    BY <1>1 DEF ExchangeType, SameServer
<1>. HIDE DEF y
<1>8. ClientSide(y)
    BY <1>1, <1>4, <1>5, <1>7, ZenonT(60) DEF ClientSide, SameServer, NoopBlank
<1>. QED
    BY <1>1, <1>3, <1>6, <1>7, <1>8, ClientStep DEF x

LEMMA FailStep ==
    ASSUME IInv, NEW e \in Index, Fail(e)
    PROVE  IInv'
<1>. DEFINE x == exchanges[e]
            erroneous == Erroneous(x.client)
            client == Finish(erroneous)
            y == [x EXCEPT !.clientPc = "failed", !.client = client]
<1>1. /\ x \in ExchangeType /\ x.clientPc = "waiting" /\ ClientSide(x)
    BY ExchangeFacts DEF Fail
<1>2. exchanges' = [exchanges EXCEPT ![e] = y] /\ UNCHANGED calls
    BY DEF Fail
<1>. HIDE DEF x
<1>3. /\ x.client \in SpanType /\ erroneous \in SpanType /\ client \in SpanType
    BY <1>1, SpanTypes DEF ExchangeType
<1>4. /\ x.client.noop => client = x.client
      /\ ~x.client.noop =>
            ~client.noop /\ client.reported /\ client.size = x.client.size
    <2>1. /\ x.client.noop => erroneous = x.client
          /\ ~x.client.noop => ~erroneous.noop /\ erroneous.size = x.client.size
        BY <1>3, SpanValues
    <2>. HIDE DEF erroneous
    <2>. QED
        BY <1>3, <2>1, SpanValues
<1>. HIDE DEF client
<1>5. y \in ExchangeType
    BY <1>1, <1>3, ZenonT(60) DEF ExchangeType
<1>6. /\ SameServer(x, y)
      /\ y.clientPc = "failed" /\ y.client = client /\ y.body = x.body /\ y.response = x.response
    BY <1>1 DEF ExchangeType, SameServer
<1>. HIDE DEF y
<1>7. ClientSide(y)
    BY <1>1, <1>4, <1>6 DEF ClientSide, SameServer, NoopBlank
<1>. QED
    BY <1>1, <1>2, <1>5, <1>6, <1>7, ClientStep DEF x

-----------------------------------------------------------------------------
(* The steps of DoWithAppSpan, http.Client and spanCloser.                   *)

LEMMA BodyStep ==
    ASSUME NEW x \in ExchangeType, ClientSide(x), ServerSide(x), x.clientPc = "over",
           NEW body \in {"open", "closed"}
    PROVE  /\ [x EXCEPT !.body = body] \in ExchangeType
           /\ ClientSide([x EXCEPT !.body = body]) /\ ServerSide([x EXCEPT !.body = body])
           /\ [x EXCEPT !.body = body].call = x.call
           /\ [x EXCEPT !.body = body].clientPc = "over"
           /\ [x EXCEPT !.body = body].body = body
<1>. DEFINE y == [x EXCEPT !.body = body]
<1>1. y \in ExchangeType
    BY DEF ExchangeType
<1>2. /\ SameServer(x, y)
      /\ y.clientPc = "over" /\ y.client = x.client /\ y.body = body /\ y.response = x.response
    BY DEF ExchangeType, SameServer
<1>. HIDE DEF y
<1>3. ClientSide(y)
    BY <1>2, ZenonT(60) DEF ClientSide, SameServer, NoopBlank
<1>4. ServerSide(y)
    BY <1>2 DEF ServerSide, SameServer
<1>5. y.call = x.call
    BY <1>2 DEF SameServer
<1>. QED
    BY <1>1, <1>2, <1>3, <1>4, <1>5 DEF y

LEMMA CallFacts ==
    ASSUME IInv, NEW c \in Calls
    PROVE  /\ calls[c] \in CallType /\ Chain(c)
           /\ calls[c].pc # "idle" =>
                calls[c].current \in Index /\ exchanges[calls[c].current].call = c
BY DEF IInv, Shapes, Chains, Chain

LEMMA DoWithAppSpanStep ==
    ASSUME IInv, NEW c \in Calls, NEW noop \in BOOLEAN, DoWithAppSpan(c, noop)
    PROVE  IInv'
<1>. DEFINE call == [calls[c] EXCEPT !.pc = "do", !.current = Len(exchanges) + 1,
                                     !.app = NewSpan(noop)]
<1>1. calls' = [calls EXCEPT ![c] = call]
    BY DEF DoWithAppSpan
<1>2. exchanges' = Append(exchanges, Started(c, noop))
    BY DEF DoWithAppSpan, RoundTrip
<1>3. /\ Started(c, noop) \in ExchangeType
      /\ ClientSide(Started(c, noop)) /\ ServerSide(Started(c, noop))
      /\ Started(c, noop).call = c
    BY StartedType
<1>4. /\ NewSpan(noop) \in SpanType /\ ~NewSpan(noop).reported /\ NoopBlank(NewSpan(noop))
    BY SpanTypes DEF NewSpan, NoopBlank
<1>5. Len(exchanges) \in Nat /\ calls[c] \in CallType /\ calls[c].pc = "idle"
    BY CallFacts DEF IInv, Shapes, DoWithAppSpan
<1>6. /\ call \in CallType
      /\ call.pc = "do" /\ call.current = Len(exchanges) + 1 /\ call.app = NewSpan(noop)
    <2>. DEFINE app == NewSpan(noop)
                n == Len(exchanges) + 1
    <2>1. app \in SpanType /\ n \in Nat /\ app = NewSpan(noop) /\ n = Len(exchanges) + 1
        BY <1>4, <1>5
    <2>2. call = [calls[c] EXCEPT !.pc = "do", !.current = n, !.app = app]
        OBVIOUS
    <2>. HIDE DEF app, n, call
    <2>3. /\ call \in CallType
          /\ call.pc = "do" /\ call.current = n /\ call.app = app
        BY <1>5, <2>1, <2>2 DEF CallType
    <2>. QED
        BY <2>1, <2>3
<1>. HIDE DEF call
<1>7. /\ exchanges' \in Seq(ExchangeType) /\ Len(exchanges') = Len(exchanges) + 1
      /\ \A e \in 1..Len(exchanges) : exchanges'[e] = exchanges[e]
      /\ exchanges'[Len(exchanges) + 1] = Started(c, noop)
    BY <1>2, <1>3 DEF IInv, Shapes
<1>8. Shapes'
    BY <1>1, <1>6, <1>7 DEF IInv, Shapes
<1>9. Sides'
    BY <1>3, <1>5, <1>7 DEF IInv, Sides, Index
<1>10. ASSUME NEW d \in Calls PROVE Chain(d)'
    <2>1. CASE d = c
        <3>1. calls'[c] = call
            BY <1>1 DEF IInv, Shapes
        <3>2. \A e \in 1..Len(exchanges) : exchanges[e].call # c
            BY <1>5, CallFacts DEF Chain, Index
        <3>. QED
            BY <2>1, <3>1, <3>2, <1>3, <1>4, <1>5, <1>6, <1>7 DEF Chain, Index
    <2>2. CASE d # c
        <3>1. calls'[d] = calls[d] /\ Chain(d)
            BY <1>1, <2>2, CallFacts DEF IInv, Shapes
        <3>. QED
            BY <2>2, <3>1, <1>3, <1>5, <1>7 DEF Chain, Index, Settled
    <2>. QED
        BY <2>1, <2>2
<1>. QED
    BY <1>8, <1>9, <1>10 DEF IInv, Chains

LEMMA RedirectStep ==
    ASSUME IInv, NEW c \in Calls, Redirect(c)
    PROVE  IInv'
<1>. DEFINE k == calls[c].current
            closed == [exchanges[k] EXCEPT !.body = "closed"]
            new == Started(c, calls[c].app.noop)
            call == [calls[c] EXCEPT !.current = Len(exchanges) + 1]
<1>1. /\ calls[c] \in CallType /\ calls[c].pc = "do" /\ Chain(c) /\ Len(exchanges) \in Nat
      /\ k \in Index /\ exchanges[k].call = c /\ exchanges[k].clientPc = "over"
    BY CallFacts DEF Redirect, Current, IInv, Shapes
<1>2. calls' = [calls EXCEPT ![c] = call]
    BY DEF Redirect
<1>3. exchanges' = Append([exchanges EXCEPT ![k] = closed], new)
    BY DEF Redirect
<1>4. calls[c].app.noop \in BOOLEAN
    BY <1>1 DEF CallType, SpanType
<1>5. new \in ExchangeType /\ ClientSide(new) /\ ServerSide(new) /\ new.call = c
    BY <1>4, StartedType
<1>6. /\ exchanges[k] \in ExchangeType /\ ClientSide(exchanges[k]) /\ ServerSide(exchanges[k])
    BY <1>1, ExchangeFacts
<1>7. /\ closed \in ExchangeType /\ ClientSide(closed) /\ ServerSide(closed)
      /\ closed.call = c /\ Settled(closed)
    BY <1>1, <1>6, BodyStep DEF Settled
<1>8. /\ call \in CallType /\ call.pc = "do" /\ call.app = calls[c].app
      /\ call.current = Len(exchanges) + 1
    BY <1>1 DEF CallType
<1>. HIDE DEF closed, new, call
<1>9. [exchanges EXCEPT ![k] = closed] \in Seq(ExchangeType)
    BY <1>1, <1>7 DEF IInv, Shapes, Index
<1>10. /\ exchanges' \in Seq(ExchangeType) /\ Len(exchanges') = Len(exchanges) + 1
       /\ \A e \in 1..Len(exchanges) : exchanges'[e] = IF e = k THEN closed ELSE exchanges[e]
       /\ exchanges'[Len(exchanges) + 1] = new
    BY <1>3, <1>5, <1>9 DEF IInv, Shapes
<1>11. Shapes'
    BY <1>2, <1>8, <1>10 DEF IInv, Shapes
<1>12. Sides'
    BY <1>1, <1>5, <1>7, <1>10 DEF IInv, Sides, Index
<1>13. ASSUME NEW d \in Calls PROVE Chain(d)'
    <2>1. CASE d = c
        <3>1. calls'[c] = call
            BY <1>2 DEF IInv, Shapes
        <3>2. \A e \in 1..Len(exchanges) : exchanges'[e].call = c => Settled(exchanges'[e])
            BY <1>1, <1>7, <1>10 DEF Chain, Index
        <3>. QED
            BY <2>1, <3>1, <3>2, <1>1, <1>5, <1>8, <1>10 DEF Chain, Index
    <2>2. CASE d # c
        <3>1. calls'[d] = calls[d] /\ Chain(d)
            BY <1>2, <2>2, CallFacts DEF IInv, Shapes
        <3>. QED
            BY <2>2, <3>1, <1>1, <1>5, <1>7, <1>10, SMTT(30) DEF Chain, Index, Settled
    <2>. QED
        BY <2>1, <2>2
<1>. QED
    BY <1>11, <1>12, <1>13 DEF IInv, Chains

\* A step of a call at the end of its last round trip, whose body it may close.
LEMMA CallStep ==
    ASSUME IInv, NEW c \in Calls, NEW call \in CallType, NEW y,
           calls[c].pc # "idle", call.pc \in {"returned", "failed"},
           call.current = calls[c].current, NoopBlank(call.app),
           y = exchanges[calls[c].current]
             \/ /\ exchanges[calls[c].current].clientPc = "over"
                /\ \E body \in {"open", "closed"} :
                        y = [exchanges[calls[c].current] EXCEPT !.body = body],
           call.pc = "returned" =>
                y.clientPc = "over" /\ (call.app.reported => y.body = "closed"),
           call.pc = "failed" => Settled(y),
           calls' = [calls EXCEPT ![c] = call],
           exchanges' = [exchanges EXCEPT ![calls[c].current] = y]
    PROVE  IInv'
<1>. DEFINE k == calls[c].current
<1>1. k \in Index /\ exchanges[k].call = c /\ Chain(c)
    BY CallFacts
<1>2. exchanges[k] \in ExchangeType /\ ClientSide(exchanges[k]) /\ ServerSide(exchanges[k])
    BY <1>1, ExchangeFacts
<1>3. y \in ExchangeType /\ ClientSide(y) /\ ServerSide(y) /\ y.call = c
    <2>1. CASE y = exchanges[k]
        BY <1>1, <1>2, <2>1
    <2>2. CASE /\ exchanges[k].clientPc = "over"
               /\ \E body \in {"open", "closed"} : y = [exchanges[k] EXCEPT !.body = body]
        <3>1. PICK body \in {"open", "closed"} : y = [exchanges[k] EXCEPT !.body = body]
            BY <2>2
        <3>. DEFINE x == exchanges[k]
        <3>2. /\ x \in ExchangeType /\ ClientSide(x) /\ ServerSide(x)
              /\ x.clientPc = "over" /\ x.call = c /\ y = [x EXCEPT !.body = body]
            BY <1>1, <1>2, <2>2, <3>1
        <3>. HIDE DEF x
        <3>. QED
            BY <3>2, BodyStep
    <2>. QED
        BY <2>1, <2>2
<1>4. /\ exchanges' \in Seq(ExchangeType) /\ Len(exchanges') = Len(exchanges)
      /\ \A e \in Index : exchanges'[e] = IF e = k THEN y ELSE exchanges[e]
    BY <1>1, <1>3 DEF IInv, Shapes, Index
<1>5. Shapes'
    BY <1>4 DEF IInv, Shapes
<1>6. Sides'
    BY <1>3, <1>4 DEF IInv, Sides, Index
<1>7. ASSUME NEW d \in Calls PROVE Chain(d)'
    <2>1. CASE d = c
        <3>1. calls'[c] = call
            BY DEF IInv, Shapes
        <3>. QED
            BY <2>1, <3>1, <1>1, <1>3, <1>4 DEF Chain, Index
    <2>2. CASE d # c
        <3>1. calls'[d] = calls[d] /\ Chain(d)
            BY <2>2, CallFacts DEF IInv, Shapes
        <3>. QED
            BY <2>2, <3>1, <1>1, <1>3, <1>4 DEF Chain, Index
    <2>. QED
        BY <2>1, <2>2
<1>. QED
    BY <1>5, <1>6, <1>7 DEF IInv, Chains

LEMMA DoFailsStep ==
    ASSUME IInv, NEW c \in Calls, DoFails(c)
    PROVE  IInv'
<1>. DEFINE k == calls[c].current
            x == exchanges[k]
            app == ErrEnded(calls[c].app)
            call == [calls[c] EXCEPT !.pc = "failed", !.app = app]
            y == [x EXCEPT !.body = IF @ = "open" THEN "closed" ELSE @]
<1>1. /\ calls[c] \in CallType /\ calls[c].pc = "do" /\ Chain(c) /\ k \in Index
    BY CallFacts DEF DoFails
<1>2. x \in ExchangeType /\ ClientSide(x) /\ ServerSide(x)
    BY <1>1, ExchangeFacts
<1>3. calls' = [calls EXCEPT ![c] = call] /\ exchanges' = [exchanges EXCEPT ![k] = y]
    BY DEF DoFails
<1>4. x.clientPc = "failed" \/ x.clientPc = "over"
    BY DEF DoFails, Current
<1>5. app \in SpanType /\ NoopBlank(app)
    <2>. DEFINE sp == calls[c].app
    <2>1. sp \in SpanType /\ NoopBlank(sp)
        BY <1>1 DEF CallType, Chain
    <2>2. Erroneous(sp) \in SpanType /\ Finish(Erroneous(sp)) \in SpanType
        BY <2>1, SpanTypes
    <2>. HIDE DEF sp
    <2>3. NoopBlank(Finish(Erroneous(sp)))
        BY <2>1, <2>2, SpanValues DEF NoopBlank
    <2>. QED
        BY <2>2, <2>3 DEF ErrEnded, sp
<1>. HIDE DEF app
<1>6. /\ call \in CallType /\ call.pc = "failed"
      /\ call.current = calls[c].current /\ call.app = app
    BY <1>1, <1>5 DEF CallType
<1>7. /\ Settled(y)
      /\ \/ y = x
         \/ x.clientPc = "over" /\ \E body \in {"open", "closed"} : y = [x EXCEPT !.body = body]
    <2>. HIDE DEF x
    <2>1. CASE x.body = "open"
        <3>1. x.clientPc = "over"
            BY <1>2, <1>4, <2>1 DEF ClientSide
        <3>. QED
            BY <1>2, <2>1, <3>1 DEF Settled, ExchangeType
    <2>2. CASE x.body # "open"
        <3>1. y = x
            BY <1>2, <2>2 DEF ExchangeType
        <3>. QED
            BY <1>4, <2>2, <3>1 DEF Settled
    <2>. QED
        BY <2>1, <2>2
<1>. HIDE DEF call, y
<1>. QED
    BY <1>1, <1>3, <1>5, <1>6, <1>7, CallStep

LEMMA DoReturnsStep ==
    ASSUME IInv, NEW c \in Calls, DoReturns(c)
    PROVE  IInv'
<1>. DEFINE k == calls[c].current
            x == exchanges[k]
            app == Tagged(calls[c].app, x.response, x.length)
            call == [calls[c] EXCEPT !.pc = "returned", !.app = app]
<1>1. /\ calls[c] \in CallType /\ calls[c].pc = "do" /\ Chain(c) /\ k \in Index
    BY CallFacts DEF DoReturns
<1>2. x \in ExchangeType /\ ClientSide(x) /\ ServerSide(x) /\ x.clientPc = "over"
    BY <1>1, ExchangeFacts DEF DoReturns, Current
<1>3. calls' = [calls EXCEPT ![c] = call] /\ exchanges' = [exchanges EXCEPT ![k] = x]
    <2>1. exchanges = [exchanges EXCEPT ![k] = x]
        BY <1>1 DEF IInv, Shapes, Index
    <2>. QED
        BY <2>1 DEF DoReturns, Current
<1>4. app \in SpanType /\ NoopBlank(app) /\ ~app.reported
    <2>. DEFINE sp == calls[c].app
                status == x.response
                length == x.length
    <2>1. sp \in SpanType /\ NoopBlank(sp) /\ ~sp.reported
        BY <1>1 DEF CallType, Chain
    <2>2. status \in Statuses \cup {200} /\ length \in 0..MaxSize
        BY <1>2 DEF ExchangeType, ClientSide
    <2>3. app = Tagged(sp, status, length)
        OBVIOUS
    <2>. HIDE DEF sp, status, length, app
    <2>4. app \in SpanType
        BY <2>1, <2>2, <2>3, SpanTypes
    <2>5. CASE sp.noop
        <3>1. app = sp
            BY <2>1, <2>2, <2>3, <2>5, TaggedValues
        <3>. QED
            BY <2>1, <2>4, <3>1
    <2>6. CASE ~sp.noop
        <3>1. ~app.noop /\ app.reported = sp.reported
            BY <2>1, <2>2, <2>3, <2>6, TaggedValues
        <3>. QED
            BY <2>1, <2>4, <3>1 DEF NoopBlank
    <2>. QED
        BY <2>5, <2>6
<1>. HIDE DEF app
<1>5. /\ call \in CallType /\ call.pc = "returned"
      /\ call.current = calls[c].current /\ call.app = app
    BY <1>1, <1>4 DEF CallType
<1>. HIDE DEF call
<1>. QED
    BY <1>1, <1>2, <1>3, <1>4, <1>5, CallStep

LEMMA CloseBodyStep ==
    ASSUME IInv, NEW c \in Calls, CloseBody(c)
    PROVE  IInv'
<1>. DEFINE k == calls[c].current
            x == exchanges[k]
            app == Finish(calls[c].app)
            call == [calls[c] EXCEPT !.app = app]
            y == [x EXCEPT !.body = "closed"]
<1>1. /\ calls[c] \in CallType /\ calls[c].pc = "returned" /\ Chain(c) /\ k \in Index
    BY CallFacts DEF CloseBody
<1>2. x \in ExchangeType /\ x.clientPc = "over"
    BY <1>1, ExchangeFacts DEF Chain
<1>3. calls' = [calls EXCEPT ![c] = call] /\ exchanges' = [exchanges EXCEPT ![k] = y]
    BY DEF CloseBody, ClosedBody
<1>4. app \in SpanType /\ NoopBlank(app)
    <2>. DEFINE sp == calls[c].app
    <2>1. sp \in SpanType /\ NoopBlank(sp)
        BY <1>1 DEF CallType, Chain
    <2>. HIDE DEF sp
    <2>. QED
        BY <2>1, SpanTypes, SpanValues DEF NoopBlank, sp
<1>. HIDE DEF app
<1>5. /\ call \in CallType /\ call.pc = "returned"
      /\ call.current = calls[c].current /\ call.app = app
    BY <1>1, <1>4 DEF CallType
<1>6. /\ y.clientPc = "over" /\ y.body = "closed"
      /\ \E body \in {"open", "closed"} : y = [x EXCEPT !.body = body]
    BY <1>2 DEF ExchangeType
<1>. HIDE DEF call, y
<1>. QED
    BY <1>1, <1>2, <1>3, <1>4, <1>5, <1>6, CallStep

-----------------------------------------------------------------------------
(* The invariant, and what follows from it.                                  *)

LEMMA InitInvariant == Init => IInv
<1>. SUFFICES ASSUME Init PROVE IInv
    OBVIOUS
<1>. DEFINE blank == NewSpan(TRUE)
<1>1. blank \in SpanType /\ ~blank.reported /\ NoopBlank(blank)
    BY SpanTypes DEF NewSpan, NoopBlank
<1>2. calls = [c \in Calls |-> [pc |-> "idle", current |-> 0, app |-> blank]]
    BY DEF Init
<1>3. exchanges = <<>> /\ Index = {}
    BY DEF Init, Index
<1>. HIDE DEF blank
<1>4. Shapes
    BY <1>1, <1>2, <1>3 DEF Shapes, CallType
<1>5. Sides
    BY <1>3 DEF Sides
<1>6. ASSUME NEW c \in Calls
      PROVE  calls[c].pc = "idle" /\ calls[c].current = 0 /\ calls[c].app = blank
    BY <1>2
<1>7. Chains
    BY <1>1, <1>3, <1>6 DEF Chains, Chain
<1>. QED
    BY <1>4, <1>5, <1>7 DEF IInv

LEMMA NextInvariant == IInv /\ [Next]_vars => IInv'
<1>. SUFFICES ASSUME IInv, [Next]_vars PROVE IInv'
    OBVIOUS
<1>1. ASSUME NEW c \in Calls, NEW noop \in BOOLEAN, DoWithAppSpan(c, noop) PROVE IInv'
    BY <1>1, DoWithAppSpanStep
<1>2. ASSUME NEW c \in Calls, Do(c) PROVE IInv'
    BY <1>2, DoFailsStep, DoReturnsStep, RedirectStep DEF Do
<1>3. ASSUME NEW c \in Calls, CloseBody(c) PROVE IInv'
    BY <1>3, CloseBodyStep
<1>4. ASSUME NEW e \in Index, NEW noop \in BOOLEAN, Arrive(e, noop) PROVE IInv'
    BY <1>4, ArriveStep
<1>5. ASSUME NEW e \in Index, Transport(e) PROVE IInv'
    <2>1. ASSUME NEW length \in 0..MaxSize, Receive(e, length) PROVE IInv'
        BY <2>1, ReceiveStep
    <2>2. CASE ReadBody(e) \/ ReadFails(e)
        BY <2>2, ReadBodyStep
    <2>3. CASE Fail(e)
        BY <2>3, FailStep
    <2>. QED
        BY <1>5, <2>1, <2>2, <2>3 DEF Transport
<1>6. ASSUME NEW e \in Index, Handle(e) PROVE IInv'
    <2>1. ASSUME NEW code \in Statuses, WriteHeader(e, code) PROVE IInv'
        BY <2>1, WriteHeaderStep
    <2>2. ASSUME NEW len \in 0..MaxSize, NEW n \in 0..MaxSize, Write(e, len, n) PROVE IInv'
        BY <2>2, WriteStep
    <2>3. ASSUME NEW n \in 0..MaxSize, ReadFrom(e, n) \/ Declare(e, n) PROVE IInv'
        BY <2>3, ReadFromStep, DeclareStep
    <2>4. CASE Flush(e) \/ \E code \in Statuses : Hijack(e, code)
        BY <2>4, PassedOnStep
    <2>. QED
        BY <1>6, <2>1, <2>2, <2>3, <2>4 DEF Handle
<1>7. ASSUME NEW e \in Index, Return(e) PROVE IInv'
    BY <1>7, ExitStep DEF Return
<1>8. CASE UNCHANGED vars
    BY <1>8 DEF vars, IInv, Shapes, Sides, Chains, Chain, Index
<1>. QED
    BY <1>1, <1>2, <1>3, <1>4, <1>5, <1>6, <1>7, <1>8 DEF Next

\* The invariant holds in every state.
THEOREM Invariance == Spec => []IInv
BY InitInvariant, NextInvariant, PTL DEF Spec

\* The state is of the shape that the types say.
THEOREM TypeCorrect == Spec => []TypeOK
<1>1. IInv => TypeOK
    <2>. SUFFICES ASSUME IInv PROVE TypeOK
        OBVIOUS
    <2>1. ASSUME NEW c \in Calls
          PROVE  /\ calls[c].pc \in {"idle", "do", "returned", "failed"}
                 /\ calls[c].current \in 0..Len(exchanges)
                 /\ calls[c].app \in SpanType
        BY CallFacts DEF Chain, CallType, Index, IInv, Shapes
    <2>2. ASSUME NEW e \in Index
          PROVE  /\ exchanges[e].call \in Calls
                 /\ exchanges[e].clientPc \in {"waiting", "reading", "over", "failed"}
                 /\ exchanges[e].serverPc \in {"none", "serving", "done", "aborted"}
                 /\ exchanges[e].client \in SpanType /\ exchanges[e].server \in SpanType
                 /\ exchanges[e].body \in {"none", "open", "closed"}
                 /\ exchanges[e].response \in Statuses \cup {200, None}
                 /\ exchanges[e].length \in 0..MaxSize
                 /\ exchanges[e].wire.size \in 0..MaxSize
                 /\ exchanges[e].wire.declared \in (0..MaxSize) \cup {None}
        BY ExchangeFacts DEF ExchangeType, WireType
    <2>. QED
        BY <2>1, <2>2 DEF TypeOK
<1>. QED
    BY <1>1, Invariance, PTL

\* RoundTrip and ServeHTTP report their spans at every way out and at no other time.
THEOREM EndsReport == Spec => []ReportedAtExit
<1>1. IInv => ReportedAtExit
    <2>. SUFFICES ASSUME IInv, NEW e \in Index
         PROVE  /\ ~exchanges[e].client.noop =>
                        (exchanges[e].client.reported <=>
                            exchanges[e].clientPc \in {"over", "failed"})
                /\ exchanges[e].serverPc # "none" /\ ~exchanges[e].server.noop =>
                        (exchanges[e].server.reported <=>
                            exchanges[e].serverPc \in {"done", "aborted"})
        BY DEF ReportedAtExit
    <2>. QED
        BY ExchangeFacts DEF ClientSide, ServerSide
<1>. QED
    BY <1>1, Invariance, PTL

\* When the span that DoWithAppSpan keeps is reported, every redirect's client span is,
\* and no body of a response is open.
THEOREM AppSpansCover == Spec => []AppSpanCovers
<1>1. IInv => AppSpanCovers
    <2>. SUFFICES ASSUME IInv, NEW c \in Calls, calls[c].app.reported,
                         NEW e \in Index, exchanges[e].call = c
         PROVE  /\ exchanges[e].clientPc \in {"over", "failed"}
                /\ exchanges[e].client.noop \/ exchanges[e].client.reported
                /\ exchanges[e].body # "open"
        BY DEF AppSpanCovers
    <2>1. calls[c].pc \in {"returned", "failed"} /\ Chain(c)
        BY CallFacts DEF Chain, CallType
    <2>2. Settled(exchanges[e])
        BY <2>1 DEF Chain, Settled
    <2>. QED
        BY <2>2, ExchangeFacts DEF Settled, ClientSide
<1>. QED
    BY <1>1, Invariance, PTL

\* The client's span and the server's tag the same status and the same error.
THEOREM SpansAgree == Spec => []StatusesAgree
<1>1. IInv => StatusesAgree
    <2>. SUFFICES ASSUME IInv, NEW e \in Index,
                         ~exchanges[e].client.noop, exchanges[e].response # None,
                         exchanges[e].server.reported, ~exchanges[e].late,
                         ~exchanges[e].hijacked
         PROVE  /\ exchanges[e].client.status = exchanges[e].server.status
                /\ exchanges[e].client.error = exchanges[e].server.error
        BY DEF StatusesAgree
    <2>. DEFINE x == exchanges[e]
    <2>1. x \in ExchangeType /\ ClientSide(x) /\ ServerSide(x)
        BY ExchangeFacts
    <2>2. ~x.client.noop /\ x.response # None /\ x.server.reported /\ ~x.late /\ ~x.hijacked
        OBVIOUS
    <2>3. x.client.error \in BOOLEAN /\ x.server.error \in BOOLEAN
        BY <2>1 DEF ExchangeType, SpanType
    <2>. HIDE DEF x
    <2>4. ~x.server.noop
        BY <2>1, <2>2 DEF ServerSide, NoopBlank, NewSpan
    <2>5. x.response = x.wire.status /\ x.ri.status = x.wire.status
        BY <2>1, <2>2, <2>4 DEF ClientSide, ServerSide, ExchangeType, Sent
    <2>6. x.client.status = StatusTag(x.response) /\ (x.client.error <=> x.response > 399)
        BY <2>1, <2>2 DEF ClientSide
    <2>7. x.server.status = StatusTag(x.ri.status) /\ (x.server.error <=> x.ri.status > 399)
        BY <2>1, <2>2 DEF ServerSide
    <2>8. x.client.status = x.server.status /\ (x.client.error <=> x.server.error)
        BY <2>5, <2>6, <2>7
    <2>. QED
        BY <2>3, <2>8 DEF x
<1>. QED
    BY <1>1, Invariance, PTL

\* The server tags no more than the client, which may have been told a size that the
\* handler has declared; and the same, if the handler has written what it declared or
\* declared nothing, and has copied nothing past rwInterceptor.
THEOREM SpansAgreeOnSize == Spec => []SizesAgree
<1>1. IInv => SizesAgree
    <2>. SUFFICES ASSUME IInv, NEW e \in Index, TagResponseSize,
                         exchanges[e].client.size # None,
                         exchanges[e].server.reported, ~exchanges[e].hijacked
         PROVE  /\ exchanges[e].server.size # None =>
                        exchanges[e].server.size <= exchanges[e].client.size
                /\ /\ ~exchanges[e].copied
                   /\ \/ exchanges[e].wire.declared = None
                      \/ exchanges[e].wire.declared = exchanges[e].wire.size
                   => exchanges[e].server.size = exchanges[e].client.size
        BY DEF SizesAgree
    <2>. DEFINE x == exchanges[e]
    <2>1. x \in ExchangeType /\ ClientSide(x) /\ ServerSide(x)
        BY ExchangeFacts
    <2>2. x.client.size # None /\ x.server.reported /\ ~x.hijacked
        OBVIOUS
    <2>. HIDE DEF x
    <2>3. ~x.server.noop
        BY <2>1, <2>2 DEF ServerSide, NoopBlank, NewSpan
    <2>4. /\ x.client.size \in Nat /\ x.client.size > 0
          /\ x.ri.size \in Nat /\ x.wire.size \in Nat
        BY <2>1, <2>2, BoundsAssumption DEF ExchangeType, WireType, SpanType
    <2>5. \/ x.wire.declared = x.client.size /\ x.wire.declared # None
          \/ x.wire.declared = None /\ x.wire.size = x.client.size
        BY <2>1, <2>2 DEF ClientSide
    <2>6. /\ x.ri.size <= x.wire.size /\ (~x.copied => x.ri.size = x.wire.size)
          /\ x.wire.declared # None => x.ri.size <= x.wire.declared
        BY <2>1, <2>3 DEF ServerSide
    <2>7. x.server.size = SizeTag(x.ri.size)
        BY <2>1, <2>2 DEF ServerSide
    <2>8. x.server.size # None => x.server.size <= x.client.size
        BY <2>4, <2>5, <2>6, <2>7 DEF SizeTag
    <2>9. ~x.copied /\ (x.wire.declared = None \/ x.wire.declared = x.wire.size) =>
                x.server.size = x.client.size
        BY <2>4, <2>5, <2>6, <2>7 DEF SizeTag
    <2>. QED
        BY <2>8, <2>9 DEF x
<1>. QED
    BY <1>1, Invariance, PTL
=============================================================================
