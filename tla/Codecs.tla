------------------------------- MODULE Codecs -------------------------------
(***************************************************************************)
(* How a span is written for a collector and read again: the JSON encoding *)
(* of model/ and the protobuf encoding of proto/zipkin_proto3.             *)
(*                                                                         *)
(* A span is a record; what is written is a record of the same fields,     *)
(* whose times are counts of microseconds.  An instant is its nanoseconds  *)
(* since the epoch, or NoTime for the zero time.Time.  Words have Word     *)
(* values instead of 2^64, and microseconds and seconds are shorter.       *)
(*                                                                         *)
(* Definitions marked Mutant stand before the one they vary: a slip that   *)
(* the properties must catch.  Nothing else uses them.                     *)
(***************************************************************************)
EXTENDS Integers, Sequences

CONSTANTS
    Word,       \* the values of a 64 bit word
    Micro,      \* nanoseconds of a microsecond
    Second,     \* nanoseconds of a second
    ZeroNanos,  \* UnixNano of the zero time.Time, which is long before the epoch
    NoTime,     \* the zero time.Time
    Nil,        \* a nil pointer
    Names       \* the names of spans and endpoints

ASSUME ScaleAssumption ==
    /\ {Word, Micro, Second} \subseteq Nat \ {0}
    /\ Word % 2 = 0 /\ Micro % 2 = 0 /\ Second % Micro = 0
    /\ 2 * Micro <= Second /\ Second < Word \div 2
ASSUME ZeroNanosAssumption == ZeroNanos \in Int /\ ZeroNanos < 0 /\ -ZeroNanos < Word \div 2
ASSUME NilAssumption == NoTime \notin Int /\ Nil \notin Nat \cup [name : Names, addr : Nat]

-----------------------------------------------------------------------------
(* Go's arithmetic: words wrap, and / truncates towards zero.                *)

Unsigned(n) == n % Word
MaxSigned == Word \div 2 - 1
Signed(n) == ((n + MaxSigned + 1) % Word) - (MaxSigned + 1)

Quotient(a, b) == IF a >= 0 THEN a \div b ELSE -((-a) \div b)

UnixNano(t) == IF t = NoTime THEN ZeroNanos ELSE Signed(t)

\* t.Round(time.Microsecond): half a microsecond goes up.
Rounded(t) ==
    IF t = NoTime THEN NoTime ELSE ((t + Micro \div 2) \div Micro) * Micro

RoundedMicros(t) == Quotient(UnixNano(Rounded(t)), Micro)

\* time.Unix and time.Duration of a count of microseconds that is a uint64.
FromMicros(us) == Signed(us * Micro)

\* The instants a word of nanoseconds can tell, with room to round them.
Instants == (Micro - Word \div 2)..(MaxSigned - Micro \div 2) \cup {NoTime}
Durations == -(Word \div 2)..MaxSigned
Endpoints == [name : Names, addr : Nat] \cup {Nil}

\* model.SpanModel.
SpanType ==
    [trace : [high : Nat, low : Nat], id : Nat, parent : Nat \cup {Nil}, debug : BOOLEAN,
     kind : STRING, name : Names, timestamp : Instants, duration : Durations,
     shared : BOOLEAN, local : Endpoints, remote : Endpoints, annotations : Seq(Instants)]

-----------------------------------------------------------------------------
(* Reading and writing may fail.                                             *)

Written(m) == [ok |-> TRUE, value |-> m]
Failed == [ok |-> FALSE]

\* strings.ToLower, on the names that instances use.
ToLower(name) == IF name = "Get" THEN "get" ELSE name

ASSUME NamesAssumption == \A name \in Names : ToLower(name) \in Names

\* Endpoint.Empty; `addr' stands for the addresses and the port.
EmptyEndpoint(e) == e = Nil \/ (e.name = "" /\ e.addr = 0)

-----------------------------------------------------------------------------
(* JSON.                                                                     *)

EndpointToJSON(e) == IF EmptyEndpoint(e) THEN Nil ELSE [e EXCEPT !.name = ToLower(@)]

\* TraceID.String and TraceIDFromHex: a high word of zero is left out.
TraceToHex(trace) == IF trace.high = 0 THEN <<trace.low>> ELSE <<trace.high, trace.low>>
TraceFromHex(hex) == [high |-> IF Len(hex) = 2 THEN hex[1] ELSE 0, low |-> hex[Len(hex)]]

\* Mutant: a duration is cut off to microseconds.
DurationToJSONCut(d) == Quotient(d, Micro)

\* Mutant: a duration is cut off and made up for by a microsecond.
DurationToJSONUp(d) == Quotient(d, Micro) + 1

\* A microsecond at least, rounded to the nearest; Duration += 500ns may overflow.
DurationToJSON(d) ==
    IF 0 < d /\ d < Micro THEN 1 ELSE Quotient(Signed(d + Micro \div 2), Micro)

\* Neither seconds before the first after the epoch nor negative durations.
Marshalable(s) ==
    /\ s.timestamp # NoTime => s.timestamp \div Second >= 1
    /\ s.duration >= 0

\* SpanModel.MarshalJSON.  What is left out because it is empty reads as empty.
MarshalJSON(s) ==
    IF ~Marshalable(s) THEN Failed
    ELSE Written([s EXCEPT
            !.trace = TraceToHex(@),
            !.name = ToLower(@),
            !.timestamp = IF @ = NoTime THEN 0 ELSE RoundedMicros(@),
            !.duration = DurationToJSON(@),
            !.local = EndpointToJSON(@),
            !.remote = EndpointToJSON(@),
            !.annotations = [k \in DOMAIN @ |-> RoundedMicros(@[k])]])

\* Counts are read as uint64; an ID and the times of annotations must not be zero.
Unmarshalable(m) ==
    /\ m.timestamp >= 0 /\ m.duration >= 0 /\ m.id >= 1
    /\ \A k \in DOMAIN m.annotations : m.annotations[k] >= 1

\* SpanModel.UnmarshalJSON.
UnmarshalJSON(m) ==
    IF ~Unmarshalable(m) THEN Failed
    ELSE Written([m EXCEPT
            !.trace = TraceFromHex(@),
            !.timestamp = IF @ > 0 THEN FromMicros(@) ELSE NoTime,
            !.duration = FromMicros(@),
            !.local = IF EmptyEndpoint(@) THEN Nil ELSE @,
            !.remote = IF EmptyEndpoint(@) THEN Nil ELSE @,
            !.annotations = [k \in DOMAIN @ |-> FromMicros(@[k])]])

-----------------------------------------------------------------------------
(* Protobuf.  An ID is bytes: a sequence of words, empty if it is absent.    *)

\* Span_Kind_value and Span_Kind.String.
KindToProto(kind) == IF kind = "" THEN "SPAN_KIND_UNSPECIFIED" ELSE kind

\* An annotation's time is not rounded, and divided as a uint64.
TimeToProto(t) == IF t = NoTime THEN 0 ELSE Unsigned(UnixNano(t)) \div Micro

\* Mutant: the time of a span goes the way of an annotation's, zero time and all.
SpanTimeUnguarded(t) == Unsigned(UnixNano(t)) \div Micro

SpanTimeToProto(t) == IF t = NoTime THEN 0 ELSE Unsigned(RoundedMicros(t))

\* modelSpanToProtoSpan, which refuses nothing.
SpanToProto(s) ==
    Written([s EXCEPT
        !.trace = <<@.high, @.low>>,
        !.parent = <<IF @ = Nil THEN 0 ELSE @>>,
        !.id = <<@>>,
        !.kind = KindToProto(@),
        !.timestamp = SpanTimeToProto(@),
        !.duration = Unsigned(Quotient(@, Micro)),
        !.annotations = [k \in DOMAIN @ |-> TimeToProto(@[k])]])

\* protoSpanIDToModelSpanID.
IdFromProto(bytes) == IF bytes = <<>> THEN Nil ELSE bytes[1]

\* protoSpanToModelSpan; `debugWasSet' replaces the span's own flag.
SpanFromProto(m, debugWasSet) ==
    IF Len(m.trace) # 2 \/ m.id = <<>> THEN Failed
    ELSE Written([m EXCEPT
            !.trace = [high |-> @[1], low |-> @[2]],
            !.parent = IdFromProto(@),
            !.id = IdFromProto(@),
            !.debug = debugWasSet,
            !.timestamp = FromMicros(@),
            !.duration = FromMicros(@),
            !.annotations = [k \in DOMAIN @ |-> FromMicros(@[k])]])

-----------------------------------------------------------------------------
(* The serializers of reporters, and the parsers of collectors.              *)

Serialize(codec, s) == IF codec = "json" THEN MarshalJSON(s) ELSE SpanToProto(s)

Parse(codec, m, debugWasSet) ==
    IF codec = "json" THEN UnmarshalJSON(m) ELSE SpanFromProto(m, debugWasSet)

-----------------------------------------------------------------------------
(* What a collector may rely on, said without the conversions.               *)

\* What the JSON of a span must have to be read again: an ID, annotations after
\* the epoch, a duration that can be rounded.  Nothing checks it when writing.
Readable(s) ==
    /\ s.id # 0
    /\ \A k \in DOMAIN s.annotations : s.annotations[k] # NoTime /\ 2 * s.annotations[k] >= Micro
    /\ s.duration + Micro \div 2 <= MaxSigned

\* The instant u stands for t: less than a microsecond off.
SameTime(t, u) ==
    IF t = NoTime THEN u = NoTime ELSE u # NoTime /\ -Micro < u - t /\ u - t < Micro

SameEndpoint(e, f) ==
    IF EmptyEndpoint(e) THEN EmptyEndpoint(f)
    ELSE f # Nil /\ f.addr = e.addr /\ ToLower(f.name) = ToLower(e.name)

\* r is s: every field the same, times to the microsecond.
SameSpan(s, r) ==
    /\ r.trace = s.trace /\ r.id = s.id /\ r.parent = s.parent
    /\ r.debug = s.debug /\ r.kind = s.kind /\ r.shared = s.shared
    /\ ToLower(r.name) = ToLower(s.name)
    /\ SameTime(s.timestamp, r.timestamp)
    /\ SameTime(s.duration, r.duration)
    /\ SameEndpoint(s.local, r.local) /\ SameEndpoint(s.remote, r.remote)
    /\ Len(r.annotations) = Len(s.annotations)
    /\ \A k \in DOMAIN s.annotations : SameTime(s.annotations[k], r.annotations[k])

\* What protobuf makes of s: it has zeros for a parent, a kind and times that are
\* absent, and its reader takes them for a parent, a kind and the epoch.
Filled(s) ==
    [s EXCEPT
        !.parent = IF @ = Nil THEN 0 ELSE @,
        !.kind = KindToProto(@),
        !.timestamp = IF @ = NoTime THEN 0 ELSE @,
        !.annotations = [k \in DOMAIN @ |-> IF @[k] = NoTime THEN 0 ELSE @[k]]]
=============================================================================
