------------------------------ MODULE RPCProofs ------------------------------
(* Theorems about RPC, for any services and options, any keys and           *)
(* registries, whatever the edge asks for and request samplers say, and     *)
(* requests of any length.                                                  *)
EXTENDS RPC, TracerProofs, WellFoundedInduction, FiniteSetTheorems

-----------------------------------------------------------------------------
(* Natural numbers.                                                          *)

LEMMA Smallest ==
    ASSUME NEW T, T \subseteq Nat, T # {}
    PROVE  \E n \in T : \A m \in T : n <= m
<1>. DEFINE R == {ss \in Nat \X Nat : ss[1] < ss[2]}
<1>1. IsWellFoundedOn(R, Nat)
    BY NatLessThanWellFounded DEF OpToRel
<1>2. \A m, n \in Nat : m < n => <<m, n>> \in R
    OBVIOUS
<1>. HIDE DEF R
<1>3. PICK n \in T : \A m \in T : ~ (<<m, n>> \in R)
    BY <1>1, WFMin
<1>4. ASSUME NEW m \in T PROVE n <= m
    <2>1. m \in Nat /\ n \in Nat
        OBVIOUS
    <2>2. ~ (m < n)
        BY <1>2, <1>3, <2>1
    <2>. QED
        BY <2>1, <2>2
<1>. QED
    BY <1>4

LEMMA Largest ==
    ASSUME NEW len \in Nat, NEW T, T \subseteq 1..len, T # {}
    PROVE  \E n \in T : \A m \in T : m <= n
<1>. DEFINE U == {n \in Nat : \A m \in T : m <= n}
<1>1. len \in U
    OBVIOUS
<1>2. PICK n \in U : \A m \in U : n <= m
    BY <1>1, Smallest
<1>3. n \in T
    <2>. SUFFICES ASSUME n \notin T PROVE FALSE
        OBVIOUS
    <2>1. PICK k \in T : TRUE
        OBVIOUS
    <2>2. k \in Nat /\ k >= 1 /\ k <= n /\ n \in Nat
        BY <2>1
    <2>3. n - 1 \in Nat
        BY <2>2
    <2>4. \A m \in T : m <= n - 1
        BY <2>2
    <2>5. n - 1 \in U
        BY <2>3, <2>4
    <2>. QED
        BY <1>2, <2>2, <2>5
<1>. QED
    BY <1>3

-----------------------------------------------------------------------------
(* Headers, and metadata as layers of them.                                  *)

LayerType ==
    {h \in [traceId : Nat \cup {None}, spanId : Nat \cup {None}, parentId : Nat \cup {None},
            sampled : {None, "0", "1", Garbage}, flags : {None, "1"}, b3 : {<<>>}] :
        /\ h.traceId = None <=> h.spanId = None
        /\ h.parentId # None => h.traceId # None}

Metadata == {md \in Seq(LayerType) : md # <<>>}

\* The values the extractor of a middleware sees.
Seen(via, md) ==
    IF via = "http" THEN md[Len(md)]
    ELSE [NoHeaders EXCEPT
            !.traceId = GetGRPCHeader(md, "traceId"),
            !.spanId = GetGRPCHeader(md, "spanId"),
            !.parentId = GetGRPCHeader(md, "parentId"),
            !.sampled = GetGRPCHeader(md, "sampled"),
            !.flags = GetGRPCHeader(md, "flags")]

LEMMA NoHeadersLayer == NoHeaders \in LayerType /\ <<NoHeaders>> \in Metadata
<1>1. NoHeaders \in LayerType
    BY DEF NoHeaders, LayerType
<1>. QED
    BY <1>1 DEF Metadata

\* The last layer that has a value.
LEMMA LastValue ==
    ASSUME NEW md \in Metadata, NEW key
    PROVE  \/ GetGRPCHeader(md, key) = None /\ \A k \in 1..Len(md) : md[k][key] = None
           \/ \E k \in 1..Len(md) :
                /\ md[k][key] # None /\ GetGRPCHeader(md, key) = md[k][key]
                /\ \A l \in 1..Len(md) : md[l][key] # None => l <= k
<1>. DEFINE layers == {k \in DOMAIN md : md[k][key] # None}
            last == CHOOSE k \in layers : \A l \in layers : l <= k
<1>1. DOMAIN md = 1..Len(md) /\ Len(md) \in Nat
    BY DEF Metadata
<1>2. CASE layers = {}
    BY <1>1, <1>2 DEF GetGRPCHeader
<1>3. CASE layers # {}
    <2>1. \E k \in layers : \A l \in layers : l <= k
        BY <1>1, <1>3, Largest
    <2>2. last \in layers /\ \A l \in layers : l <= last
        BY <2>1
    <2>3. GetGRPCHeader(md, key) = md[last][key]
        BY <1>3 DEF GetGRPCHeader
    <2>. QED
        BY <1>1, <2>2, <2>3
<1>. QED
    BY <1>2, <1>3

\* What a layer that is appended has values for comes from it.
LEMMA AppendedValue ==
    ASSUME NEW md \in Metadata, NEW layer \in LayerType, NEW key,
           NEW m, m = Append(md, layer)
    PROVE  /\ m \in Metadata
           /\ GetGRPCHeader(m, key) =
                IF layer[key] # None THEN layer[key] ELSE GetGRPCHeader(md, key)
<1>1. /\ md \in Seq(LayerType) /\ Len(md) \in Nat
      /\ m \in Seq(LayerType) /\ Len(m) = Len(md) + 1 /\ m[Len(md) + 1] = layer
      /\ \A k \in 1..Len(md) : m[k] = md[k]
    BY DEF Metadata
<1>2. m \in Metadata
    BY <1>1 DEF Metadata
<1>3. \/ GetGRPCHeader(m, key) = None /\ \A k \in 1..Len(m) : m[k][key] = None
      \/ \E k \in 1..Len(m) :
            /\ m[k][key] # None /\ GetGRPCHeader(m, key) = m[k][key]
            /\ \A l \in 1..Len(m) : m[l][key] # None => l <= k
    BY <1>2, LastValue
<1>4. CASE layer[key] # None
    <2>1. PICK k \in 1..Len(m) : /\ GetGRPCHeader(m, key) = m[k][key]
                                 /\ \A l \in 1..Len(m) : m[l][key] # None => l <= k
        <3>1. Len(md) + 1 \in 1..Len(m) /\ m[Len(md) + 1][key] # None
            BY <1>1, <1>4
        <3>. QED
            BY <1>3, <3>1
    <2>2. k = Len(md) + 1
        BY <1>1, <1>4, <2>1
    <2>. QED
        BY <1>1, <1>2, <1>4, <2>1, <2>2
<1>5. CASE layer[key] = None
    <2>1. CASE \A k \in 1..Len(md) : md[k][key] = None
        <3>1. \A k \in 1..Len(m) : m[k][key] = None
            BY <1>1, <1>5, <2>1
        <3>2. GetGRPCHeader(m, key) = None /\ GetGRPCHeader(md, key) = None
            BY <1>2, <2>1, <3>1, LastValue
        <3>. QED
            BY <1>2, <1>5, <3>2
    <2>2. ASSUME NEW j \in 1..Len(md), md[j][key] # None
          PROVE  GetGRPCHeader(m, key) = GetGRPCHeader(md, key)
        <3>1. PICK k \in 1..Len(md) : /\ md[k][key] # None /\ GetGRPCHeader(md, key) = md[k][key]
                                      /\ \A l \in 1..Len(md) : md[l][key] # None => l <= k
            BY <2>2, LastValue
        <3>2. j \in 1..Len(m) /\ m[j][key] # None
            BY <1>1, <2>2
        <3>3. PICK k2 \in 1..Len(m) : /\ m[k2][key] # None /\ GetGRPCHeader(m, key) = m[k2][key]
                                      /\ \A l \in 1..Len(m) : m[l][key] # None => l <= k2
            BY <1>3, <3>2
        <3>4. k2 # Len(md) + 1
            BY <1>1, <1>5, <3>3
        <3>5. k2 \in 1..Len(md) /\ k \in 1..Len(m)
            BY <1>1, <3>4
        <3>6. k2 = k
            BY <1>1, <3>1, <3>3, <3>5
        <3>. QED
            BY <1>1, <3>1, <3>3, <3>6
    <2>. QED
        BY <1>2, <1>5, <2>1, <2>2
<1>. QED
    BY <1>2, <1>4, <1>5

LEMMA SeenType ==
    ASSUME NEW md \in Metadata, NEW via \in {"http", "grpc"}
    PROVE  /\ Seen(via, md) \in LayerType
           /\ Seen(via, md).flags # None => \E k \in DOMAIN md : md[k].flags # None
<1>1. md \in Seq(LayerType) /\ Len(md) \in Nat \ {0} /\ DOMAIN md = 1..Len(md)
    BY DEF Metadata
<1>2. CASE via = "http"
    BY <1>1, <1>2 DEF Seen
<1>3. CASE via # "http"
    <2>1. \A k \in 1..Len(md) : md[k] \in LayerType
        BY <1>1
    <2>. DEFINE V(key) == GetGRPCHeader(md, key)
    <2>2. V("sampled") \in {None, "0", "1", Garbage}
        BY <2>1, LastValue DEF LayerType
    <2>3. V("flags") \in {None, "1"} /\ (V("flags") # None => \E k \in DOMAIN md : md[k].flags # None)
        BY <1>1, <2>1, LastValue DEF LayerType
    <2>4. V("traceId") \in Nat \cup {None}
        BY <2>1, LastValue DEF LayerType
    <2>5. V("spanId") \in Nat \cup {None}
        BY <2>1, LastValue DEF LayerType
    <2>6. V("parentId") \in Nat \cup {None}
        BY <2>1, LastValue DEF LayerType
    <2>7. \A k \in 1..Len(md) : /\ md[k].traceId = None <=> md[k].spanId = None
                                /\ md[k].parentId # None => md[k].traceId # None
        BY <2>1 DEF LayerType
    <2>8. V("traceId") = None <=> V("spanId") = None
        BY <2>7, LastValue
    <2>9. V("parentId") # None => V("traceId") # None
        BY <2>7, LastValue
    <2>. HIDE DEF V
    <2>10. Seen(via, md) = [traceId |-> V("traceId"), spanId |-> V("spanId"),
                            parentId |-> V("parentId"), sampled |-> V("sampled"),
                            flags |-> V("flags"), b3 |-> <<>>]
        BY <1>3 DEF Seen, NoHeaders, V
    <2>. QED
        BY <2>2, <2>3, <2>4, <2>5, <2>6, <2>8, <2>9, <2>10 DEF LayerType
<1>. QED
    BY <1>2, <1>3

-----------------------------------------------------------------------------
(* Injection and extraction.                                                 *)

Digit(decision) == IF decision THEN "1" ELSE "0"

LEMMA InjectMultiLayer ==
    ASSUME NEW sc \in ContextType, NEW h \in LayerType, NEW layer, layer = InjectMulti(sc, h)
    PROVE  /\ layer \in LayerType
           /\ sc.debug => layer.flags = "1" /\ layer.sampled = h.sampled
           /\ ~sc.debug => layer.flags = h.flags
           /\ ~sc.debug /\ sc.sampled # None => layer.sampled = Digit(sc.sampled)
<1>. DEFINE flags == IF sc.debug THEN "1" ELSE h.flags
            sampled == IF sc.debug \/ sc.sampled = None THEN h.sampled
                       ELSE IF sc.sampled THEN "1" ELSE "0"
            traceId == IF HasIds(sc) THEN sc.trace ELSE h.traceId
            spanId == IF HasIds(sc) THEN sc.id ELSE h.spanId
            parentId == IF HasIds(sc) /\ sc.parent # None THEN sc.parent ELSE h.parentId
<1>1. h \in [traceId : Nat \cup {None}, spanId : Nat \cup {None}, parentId : Nat \cup {None},
             sampled : {None, "0", "1", Garbage}, flags : {None, "1"}, b3 : {<<>>}]
    BY DEF LayerType
<1>2. layer = [h EXCEPT !.flags = flags, !.sampled = sampled, !.traceId = traceId,
                        !.spanId = spanId, !.parentId = parentId]
    BY DEF InjectMulti
<1>3. /\ sc.trace \in Nat /\ sc.id \in Nat /\ sc.parent \in Nat \cup {None}
      /\ None \notin Nat
    BY NoneGarbageAssumption DEF ContextType
<1>4. flags \in {None, "1"} /\ sampled \in {None, "0", "1", Garbage}
    BY <1>1
<1>5. traceId \in Nat \cup {None} /\ spanId \in Nat \cup {None} /\ parentId \in Nat \cup {None}
    BY <1>1, <1>3
<1>6. traceId = None <=> spanId = None
    BY <1>3 DEF LayerType
<1>7. parentId # None => traceId # None
    BY <1>3 DEF LayerType
<1>8. /\ sc.debug => flags = "1" /\ sampled = h.sampled
      /\ ~sc.debug => flags = h.flags
      /\ ~sc.debug /\ sc.sampled # None => sampled = Digit(sc.sampled)
    BY DEF Digit
<1>. HIDE DEF flags, sampled, traceId, spanId, parentId
<1>9. /\ layer = [traceId |-> traceId, spanId |-> spanId, parentId |-> parentId,
                  sampled |-> sampled, flags |-> flags, b3 |-> <<>>]
    BY <1>1, <1>2
<1>10. /\ layer.flags = flags /\ layer.sampled = sampled
       /\ layer.traceId = traceId /\ layer.spanId = spanId /\ layer.parentId = parentId
    BY <1>9
<1>11. layer \in LayerType
    BY <1>4, <1>5, <1>6, <1>7, <1>9, <1>10 DEF LayerType
<1>. QED
    BY <1>8, <1>10, <1>11

\* What is injected is seen, on top of what was there.
LEMMA InjectViaSeen ==
    ASSUME NEW via \in {"http", "grpc"}, NEW sc \in ContextType, NEW md \in Metadata,
           NEW m, m = InjectVia(via, sc, md)
    PROVE  /\ m \in Metadata
           /\ sc.debug =>
                Seen(via, m).flags = "1" /\ Seen(via, m).sampled = Seen(via, md).sampled
           /\ ~sc.debug => Seen(via, m).flags = Seen(via, md).flags
           /\ ~sc.debug /\ sc.sampled # None => Seen(via, m).sampled = Digit(sc.sampled)
<1>1. md \in Seq(LayerType) /\ Len(md) \in Nat \ {0} /\ md[Len(md)] \in LayerType
    BY DEF Metadata
<1>2. CASE sc = EmptyContext
    <2>1. ~sc.debug /\ sc.sampled = None
        BY <1>2, EmptyContextFacts
    <2>2. m \in Metadata /\ Seen(via, m) = Seen(via, md)
        <3>1. CASE via = "grpc"
            BY <1>2, <3>1 DEF InjectVia, InjectGRPC
        <3>2. CASE via = "http"
            <4>1. m = <<md[Len(md)]>>
                BY <1>2, <3>2 DEF InjectVia, Inject
            <4>2. m \in Metadata
                BY <1>1, <4>1 DEF Metadata
            <4>3. Len(m) = 1 /\ m[1] = md[Len(md)]
                BY <4>1
            <4>. QED
                BY <3>2, <4>2, <4>3 DEF Seen
        <3>. QED
            BY <3>1, <3>2
    <2>. QED
        BY <2>1, <2>2
<1>3. CASE sc # EmptyContext /\ via = "http"
    <2>1. PICK layer : layer = InjectMulti(sc, md[Len(md)])
        OBVIOUS
    <2>2. m = <<layer>>
        BY <1>3, <2>1 DEF InjectVia, Inject
    <2>3. layer \in LayerType
        BY <1>1, <2>1, InjectMultiLayer
    <2>4. m \in Metadata /\ Len(m) = 1 /\ m[1] = layer
        BY <2>2, <2>3 DEF Metadata
    <2>5. Seen(via, m) = layer /\ Seen(via, md) = md[Len(md)]
        BY <1>3, <2>4 DEF Seen
    <2>. QED
        BY <1>1, <2>1, <2>4, <2>5, InjectMultiLayer
<1>4. CASE sc # EmptyContext /\ via = "grpc"
    <2>1. PICK layer : layer = InjectMulti(sc, NoHeaders)
        OBVIOUS
    <2>2. m = Append(md, layer)
        BY <1>4, <2>1 DEF InjectVia, InjectGRPC
    <2>3. /\ layer \in LayerType
          /\ sc.debug => layer.flags = "1" /\ layer.sampled = None
          /\ ~sc.debug => layer.flags = None
          /\ ~sc.debug /\ sc.sampled # None => layer.sampled = Digit(sc.sampled)
        <3>1. NoHeaders.flags = None /\ NoHeaders.sampled = None
            BY DEF NoHeaders
        <3>. QED
            BY <2>1, <3>1, NoHeadersLayer, InjectMultiLayer
    <2>4. m \in Metadata
        BY <2>2, <2>3, AppendedValue
    <2>5. \A mm : /\ Seen(via, mm).flags = GetGRPCHeader(mm, "flags")
                  /\ Seen(via, mm).sampled = GetGRPCHeader(mm, "sampled")
        BY <1>4 DEF Seen, NoHeaders
    <2>6. Seen(via, m).flags = IF layer.flags # None THEN layer.flags ELSE Seen(via, md).flags
        BY <2>2, <2>3, <2>5, AppendedValue, ZenonT(60)
    <2>7. Seen(via, m).sampled =
            IF layer.sampled # None THEN layer.sampled ELSE Seen(via, md).sampled
        BY <2>2, <2>3, <2>5, AppendedValue, ZenonT(60)
    <2>8. None \notin {"0", "1"} /\ \A d : Digit(d) \in {"0", "1"}
        BY NoneGarbageAssumption DEF Digit
    <2>. QED
        BY <2>3, <2>4, <2>6, <2>7, <2>8
<1>. QED
    BY <1>2, <1>3, <1>4

\* What an extraction makes of what is seen.
LEMMA ReadLayer ==
    ASSUME NEW h \in LayerType, NEW result, result = ParseHeaders(h)
    PROVE  /\ result.ctx \in ContextType
           /\ h.sampled = Garbage => result = Error
           /\ h.sampled # Garbage =>
                /\ result = Ok(result.ctx)
                /\ result.ctx.debug <=> h.flags = "1"
                /\ h.flags # "1" /\ h.sampled = "1" => result.ctx.sampled = TRUE
                /\ h.flags # "1" /\ h.sampled = "0" => result.ctx.sampled = FALSE
<1>1. /\ h.traceId \in Nat \cup {None} /\ h.spanId \in Nat \cup {None}
      /\ h.parentId \in Nat \cup {None}
      /\ h.traceId = None <=> h.spanId = None
      /\ h.parentId # None => h.traceId # None
      /\ None # Garbage /\ Garbage \notin Nat
    BY NoneGarbageAssumption DEF LayerType
<1>2. CASE h.sampled = Garbage
    <2>1. result = Error
        BY <1>2 DEF ParseHeaders, Invalid
    <2>. QED
        BY <1>2, <2>1, EmptyContextFacts DEF Error
<1>3. CASE h.sampled # Garbage
    <2>. DEFINE trace == IdOf(h.traceId)
                id == IdOf(h.spanId)
                ctx == [Decision(h) EXCEPT !.trace = trace, !.id = id, !.parent = h.parentId]
    <2>1. ~Invalid(h)
        BY <1>1, <1>3 DEF Invalid
    <2>2. result = Ok(ctx)
        BY <2>1 DEF ParseHeaders
    <2>3. trace \in Nat /\ id \in Nat
        BY <1>1 DEF IdOf
    <2>. HIDE DEF trace, id
    <2>4. ctx \in ContextType /\ ctx.debug = Decision(h).debug /\ ctx.sampled = Decision(h).sampled
        BY <1>1, <2>3, DecisionFacts DEF ContextType
    <2>. HIDE DEF ctx
    <2>5. result.ctx = ctx
        BY <2>2 DEF Ok
    <2>. QED
        BY <1>3, <2>2, <2>4, <2>5, DecisionFacts
<1>. QED
    BY <1>2, <1>3

LEMMA ReadVia ==
    ASSUME NEW via \in {"http", "grpc"}, NEW md \in Metadata
    PROVE  ExtractVia(via, md) = ParseHeaders(Seen(via, md))
<1>1. CASE via = "http"
    <2>1. Seen(via, md).b3 = <<>>
        BY SeenType DEF LayerType
    <2>. QED
        BY <1>1, <2>1 DEF ExtractVia, Extract, Seen
<1>2. CASE via = "grpc"
    BY <1>2 DEF ExtractVia, ExtractGRPC, Seen
<1>. QED
    BY <1>1, <1>2

\* What arrives of metadata is metadata.
LEMMA ArrivalsMetadata ==
    ASSUME NEW md \in Metadata, NEW m \in Arrivals(md)
    PROVE  m \in Metadata
<1>1. md \in Seq(LayerType) /\ Len(md) \in Nat \ {0} /\ md[Len(md)] \in LayerType
    BY DEF Metadata
<1>2. PICK layer : layer = [md[Len(md)] EXCEPT !.sampled = Garbage]
    OBVIOUS
<1>3. layer \in LayerType
    BY <1>1, <1>2 DEF LayerType
<1>4. Append(md, layer) \in Metadata
    BY <1>3, AppendedValue
<1>. QED
    BY <1>2, <1>4 DEF Arrivals

-----------------------------------------------------------------------------
(* The inductive invariant, but for baggage.                                 *)

FieldsType == [Keys -> Seq(Nat)]
BagType == [registry : SUBSET Keys, fields : FieldsType]
EndType == [code : {None, "ok", "error"}, reported : {None, "ok", "error"}]

SpanType ==
    [kind : {"edge", "server", "client"}, via : {"http", "grpc"},
     service : Services \cup {None}, caller : Nat, ctx : ContextType, noop : BOOLEAN,
     bag : Nat, md : Metadata, fields : FieldsType, asked : BOOLEAN \cup {None},
     inContext : Nat, whole : BOOLEAN, read : {"ok", "asleep", "error"}, reused : Nat]

Shapes ==
    /\ noop \in [Services -> BOOLEAN]
    /\ spans \in Seq(SpanType)
    /\ ended \in Seq(EndType) /\ Len(ended) = Len(spans)
    /\ bags \in Seq(BagType)

\* What kind of span it is, by the one that called it.
Called(i) ==
    LET sp == spans[i]
        up == spans[sp.caller]
    IN  /\ sp.caller \in 0..(i - 1) /\ sp.reused \in 0..(i - 1) /\ sp.inContext = i
        /\ sp.kind = "edge" <=> sp.caller = 0
        /\ sp.kind = "edge" => sp.noop /\ sp.bag = 0 /\ sp.asked = None
        /\ sp.kind # "edge" => sp.service \in Services
        /\ sp.kind = "client" =>
                up.kind = "server" /\ sp.service = up.service /\ sp.bag = up.bag
        /\ sp.kind = "server" => up.kind # "server" /\ sp.via = up.via

\* The baggage a span refers to is its service's.
Bagged(i) ==
    /\ spans[i].bag \in 0..Len(bags)
    /\ spans[i].bag # 0 => bags[spans[i].bag].registry = Registry[spans[i].service]

RegisteredOnly(bag) == \A key \in Keys : bag.fields[key] # <<>> => key \in bag.registry

Reported(i) ==
    ended[i].reported =
        IF ~spans[i].noop /\ MustCollect(spans[i].ctx) THEN ended[i].code ELSE None

\* The headers of a request say what was decided, in words that can be read; so do
\* those a debug trace was extracted from.
Sent(i) ==
    LET sp == spans[i]
        h == Seen(sp.via, sp.md)
    IN  /\ sp.ctx.debug => h.sampled # Garbage
        /\ sp.kind # "server" /\ Decided(sp.ctx) /\ ~Stale(i) =>
                /\ h.sampled # Garbage
                /\ sp.ctx.debug => h.flags = "1"
                /\ ~sp.ctx.debug =>
                    /\ h.flags = None
                    /\ h.sampled = Digit(IF sp.asked # None THEN sp.asked ELSE sp.ctx.sampled)

\* What SamplerPrecedence says, and that a client's span is in a debug trace if the
\* server's is.
Precedence(i) ==
    LET sp == spans[i]
        up == spans[sp.caller]
    IN  /\ sp.kind = "client" => sp.ctx.debug = up.ctx.debug
        /\ sp.kind = "client" /\ Decided(up.ctx) => MustCollect(sp.ctx) = MustCollect(up.ctx)
        /\ /\ sp.kind = "server" /\ Decided(up.ctx)
           /\ sp.whole /\ sp.read # "asleep" /\ ~Stale(sp.caller)
           => /\ sp.read = "ok"
              /\ MustCollect(sp.ctx) =
                    CASE up.ctx.debug -> TRUE
                      [] ~up.ctx.debug /\ sp.asked # None -> sp.asked
                      [] ~up.ctx.debug /\ sp.asked = None /\ up.asked # None -> up.asked
                      [] OTHER -> MustCollect(up.ctx)

IInv ==
    /\ Shapes
    /\ \A i \in Index : Called(i) /\ Bagged(i) /\ Reported(i) /\ Sent(i) /\ Precedence(i)
    /\ \A k \in DOMAIN bags : RegisteredOnly(bags[k])

LEMMA IndexFacts ==
    ASSUME IInv
    PROVE  /\ Len(spans) \in Nat /\ Len(bags) \in Nat
           /\ Index = DOMAIN ended /\ DOMAIN bags = 1..Len(bags)
           /\ \A i \in Index : i \in Nat /\ i >= 1 /\ spans[i] \in SpanType /\ ended[i] \in EndType
           /\ \A k \in DOMAIN bags : bags[k] \in BagType
BY DEF IInv, Shapes, Index

LEMMA TracerFacts ==
    ASSUME NEW s \in Services
    PROVE  /\ Tracers[s].sampler \subseteq BOOLEAN
           /\ Tracers[s].unsampledNoop \in BOOLEAN
           /\ Tracers[s].noop \in BOOLEAN
BY ServicesAssumption DEF Tracers, TracerType

\* Two spans that are what they were, and baggage of the same registry.
LEMMA OtherSpans ==
    ASSUME IInv, NEW i \in Index,
           spans'[i] = spans[i], spans'[spans[i].caller] = spans[spans[i].caller],
           Len(bags') \in Nat, Len(bags') >= Len(bags),
           \A k \in DOMAIN bags : bags'[k].registry = bags[k].registry
    PROVE  Called(i)' /\ Bagged(i)' /\ Sent(i)' /\ Precedence(i)'
<1>1. Called(i) /\ Bagged(i) /\ Sent(i) /\ Precedence(i)
    BY DEF IInv
<1>2. Called(i)'
    BY <1>1 DEF Called
<1>3. Bagged(i)'
    BY <1>1, IndexFacts DEF Bagged
<1>4. Stale(i)' <=> Stale(i)
    BY DEF Stale
<1>5. Sent(i)'
    BY <1>1, <1>4 DEF Sent
<1>6. Precedence(i)'
    <2>1. Stale(spans[i].caller)' <=> Stale(spans[i].caller)
        BY DEF Stale
    <2>. QED
        BY <1>1, <2>1 DEF Precedence
<1>. QED
    BY <1>2, <1>3, <1>5, <1>6

\* Adding a span.
LEMMA AppendFacts ==
    ASSUME IInv, NEW y \in SpanType, NEW n, n = Len(spans) + 1, spans' = Append(spans, y)
    PROVE  /\ spans' \in Seq(SpanType) /\ Len(spans') = n /\ n \in Nat /\ n >= 1
           /\ Index' = Index \cup {n}
           /\ \A i \in Index : spans'[i] = spans[i] /\ i < n /\ i \in Nat /\ i >= 1
           /\ \A i \in Index : spans[i].caller # 0 =>
                spans[i].caller \in Index /\ spans'[spans[i].caller] = spans[spans[i].caller]
           /\ spans'[n] = y
<1>1. spans \in Seq(SpanType) /\ Len(spans) \in Nat
    BY DEF IInv, Shapes
<1>2. spans' \in Seq(SpanType) /\ Len(spans') = n /\ spans'[n] = y
    BY <1>1
<1>3. Index' = Index \cup {n} /\ \A i \in Index : spans'[i] = spans[i] /\ i < n /\ i \in Nat /\ i >= 1
    BY <1>1, <1>2 DEF Index
<1>4. \A i \in Index : spans[i].caller \in 0..(i - 1)
    BY DEF IInv, Called
<1>5. \A i \in Index : spans[i].caller # 0 => spans[i].caller \in Index
    BY <1>1, <1>4 DEF Index
<1>. QED
    BY <1>1, <1>2, <1>3, <1>5

LEMMA AppendStep ==
    ASSUME IInv, NEW y \in SpanType, NEW n, n = Len(spans) + 1, spans' = Append(spans, y),
           ended' = Append(ended, [code |-> None, reported |-> None]),
           UNCHANGED noop, bags' \in Seq(BagType), Len(bags') >= Len(bags),
           \A k \in DOMAIN bags : bags'[k].registry = bags[k].registry,
           \A k \in DOMAIN bags' : RegisteredOnly(bags'[k]),
           Called(n)', Bagged(n)', Sent(n)', Precedence(n)'
    PROVE  IInv'
<1>1. /\ spans' \in Seq(SpanType) /\ Len(spans') = n /\ n \in Nat /\ n >= 1
      /\ Index' = Index \cup {n}
      /\ \A i \in Index : spans'[i] = spans[i] /\ i < n /\ i \in Nat /\ i >= 1
    BY AppendFacts
<1>2. /\ ended' \in Seq(EndType) /\ Len(ended') = n
      /\ ended'[n] = [code |-> None, reported |-> None]
      /\ \A i \in Index : ended'[i] = ended[i]
    <2>1. [code |-> None, reported |-> None] \in EndType
        BY DEF EndType
    <2>2. ended \in Seq(EndType) /\ Len(ended) = Len(spans) /\ Len(spans) \in Nat
        BY DEF IInv, Shapes
    <2>. QED
        BY <2>1, <2>2 DEF Index
<1>3. Shapes'
    BY <1>1, <1>2 DEF IInv, Shapes
<1>4. Reported(n)'
    BY <1>2 DEF Reported
<1>5. ASSUME NEW i \in Index
      PROVE  Called(i)' /\ Bagged(i)' /\ Reported(i)' /\ Sent(i)' /\ Precedence(i)'
    <2>1. Reported(i)'
        BY <1>1, <1>2 DEF IInv, Reported
    <2>2. CASE spans[i].caller # 0
        <3>1. spans'[spans[i].caller] = spans[spans[i].caller]
            BY <2>2, AppendFacts
        <3>2. Len(bags') \in Nat
            OBVIOUS
        <3>. QED
            BY <1>1, <2>1, <3>1, <3>2, OtherSpans
    <2>3. CASE spans[i].caller = 0
        <3>1. spans'[i] = spans[i] /\ spans[i].kind = "edge"
            BY <1>1, <2>3 DEF IInv, Called
        <3>2. Called(i)' /\ Bagged(i)'
            <4>1. Called(i) /\ Bagged(i) /\ Len(bags') \in Nat
                BY DEF IInv
            <4>. QED
                BY <3>1, <4>1, IndexFacts DEF Called, Bagged
        <3>3. Stale(i)' <=> Stale(i)
            BY <3>1 DEF Stale
        <3>4. Sent(i)'
            BY <3>1, <3>3 DEF IInv, Sent
        <3>5. Precedence(i)'
            BY <3>1 DEF Precedence
        <3>. QED
            BY <2>1, <3>2, <3>4, <3>5
    <2>. QED
        BY <2>2, <2>3
<1>. QED
    BY <1>1, <1>3, <1>4, <1>5 DEF IInv

\* A span before what the action puts into it.
Blank(r, kind, via, service, caller, ctx, n) ==
    /\ r.kind = kind /\ r.via = via /\ r.service = service /\ r.caller = caller
    /\ r.ctx = ctx /\ r.noop = TRUE /\ r.bag = 0 /\ r.md = <<NoHeaders>>
    /\ r.fields = NoFields /\ r.asked = None /\ r.inContext = n /\ r.reused = 0

LEMMA SpanOfFields ==
    ASSUME IInv, NEW n, n = Len(spans) + 1,
           NEW kind \in {"edge", "server", "client"}, NEW via \in {"http", "grpc"},
           NEW service \in Services \cup {None}, NEW caller \in Nat, NEW ctx \in ContextType,
           NEW r, r = SpanOf(kind, via, service, caller, ctx)
    PROVE  r \in SpanType /\ Blank(r, kind, via, service, caller, ctx, n)
<1>1. n \in Nat
    BY IndexFacts
<1>2. PICK yes \in BOOLEAN : yes = TRUE
    OBVIOUS
<1>3. NoFields \in FieldsType
    BY DEF NoFields, FieldsType
<1>4. r = [kind |-> kind, via |-> via, service |-> service, caller |-> caller, ctx |-> ctx,
           noop |-> yes, bag |-> 0, md |-> <<NoHeaders>>, fields |-> NoFields, asked |-> None,
           inContext |-> n, whole |-> yes, read |-> "ok", reused |-> 0]
    BY <1>2 DEF SpanOf
<1>5. r \in SpanType
    BY <1>1, <1>3, <1>4, NoHeadersLayer DEF SpanType
<1>6. Blank(r, kind, via, service, caller, ctx, n)
    BY <1>2, <1>4 DEF Blank
<1>. QED
    BY <1>5, <1>6

-----------------------------------------------------------------------------
(* The actions that start no span.                                           *)

LEMMA SetNoopStep ==
    ASSUME IInv, NEW s \in Services, SetNoop(s)
    PROVE  IInv'
<1>1. noop' \in [Services -> BOOLEAN] /\ UNCHANGED <<spans, bags, ended>> /\ Index' = Index
    BY DEF IInv, Shapes, SetNoop, Index
<1>2. Shapes' /\ \A k \in DOMAIN bags' : RegisteredOnly(bags'[k])
    BY <1>1 DEF IInv, Shapes
<1>3. ASSUME NEW i \in Index'
      PROVE  Called(i)' /\ Bagged(i)' /\ Reported(i)' /\ Sent(i)' /\ Precedence(i)'
    <2>1. Len(bags') \in Nat /\ Len(bags') >= Len(bags)
        BY <1>1, IndexFacts
    <2>2. Reported(i)'
        BY <1>1 DEF IInv, Reported
    <2>. QED
        BY <1>1, <2>1, <2>2, OtherSpans
<1>. QED
    BY <1>2, <1>3 DEF IInv

\* What Add, Set and Delete do to an object.
Changed(bag, op, key, i) ==
    CASE op = "add" -> Add(bag, key, <<i>>)
      [] op = "set" -> Set(bag, key, <<i>>)
      [] op = "delete" -> Delete(bag, key)

Effect(bag, op, key, i, new) ==
    /\ new \in BagType /\ RegisteredOnly(new) /\ new.registry = bag.registry
    /\ \A other \in Keys : other # key => new.fields[other] = bag.fields[other]
    /\ op = "add" => new.fields[key] = Append(bag.fields[key], i)
    /\ \A k \in DOMAIN new.fields[key] :
            \/ new.fields[key][k] = i
            \/ \E l \in DOMAIN bag.fields[key] : new.fields[key][k] = bag.fields[key][l]

LEMMA BagWritten ==
    ASSUME NEW bag \in BagType, RegisteredOnly(bag), NEW key \in Keys, key \in bag.registry,
           NEW i \in Nat, NEW op \in {"add", "set", "delete"},
           NEW new, new = Changed(bag, op, key, i)
    PROVE  Effect(bag, op, key, i, new)
<1>1. bag.fields \in FieldsType /\ bag.registry \in SUBSET Keys /\ bag.fields[key] \in Seq(Nat)
    BY DEF BagType, FieldsType
<1>2. ASSUME NEW values \in Seq(Nat), new = [bag EXCEPT !.fields[key] = values]
      PROVE  /\ new \in BagType /\ RegisteredOnly(new) /\ new.registry = bag.registry
             /\ \A other \in Keys : other # key => new.fields[other] = bag.fields[other]
             /\ new.fields[key] = values
    <2>. DEFINE fields == [bag.fields EXCEPT ![key] = values]
    <2>1. /\ fields \in FieldsType /\ fields[key] = values
          /\ \A other \in Keys : other # key => fields[other] = bag.fields[other]
        BY <1>1, <1>2 DEF FieldsType
    <2>2. new = [bag EXCEPT !.fields = fields]
        BY <1>2
    <2>. HIDE DEF fields
    <2>3. new \in BagType /\ new.registry = bag.registry /\ new.fields = fields
        BY <2>1, <2>2 DEF BagType
    <2>. QED
        BY <2>1, <2>3 DEF RegisteredOnly
<1>3. <<i>> # <<>> /\ <<i>> \in Seq(Nat) /\ <<>> \in Seq(Nat)
    OBVIOUS
<1>4. CASE op = "add"
    <2>1. new = [bag EXCEPT !.fields[key] = bag.fields[key] \o <<i>>]
        BY <1>3, <1>4 DEF Changed, Add
    <2>2. /\ bag.fields[key] \o <<i>> \in Seq(Nat)
          /\ bag.fields[key] \o <<i>> = Append(bag.fields[key], i)
        BY <1>1
    <2>3. PICK values : values = Append(bag.fields[key], i)
        OBVIOUS
    <2>4. \A k \in DOMAIN values :
            values[k] = i \/ \E l \in DOMAIN bag.fields[key] : values[k] = bag.fields[key][l]
        BY <1>1, <2>3
    <2>5. /\ new \in BagType /\ RegisteredOnly(new) /\ new.registry = bag.registry
          /\ \A other \in Keys : other # key => new.fields[other] = bag.fields[other]
          /\ new.fields[key] = values
        BY <1>2, <2>1, <2>2, <2>3
    <2>. QED
        BY <2>3, <2>4, <2>5 DEF Effect
<1>5. CASE op = "set"
    <2>1. new = [bag EXCEPT !.fields[key] = <<i>>]
        BY <1>3, <1>5 DEF Changed, Set
    <2>2. \A k \in DOMAIN <<i>> : <<i>>[k] = i
        OBVIOUS
    <2>. QED
        BY <1>2, <1>3, <1>5, <2>1, <2>2 DEF Effect
<1>6. CASE op = "delete"
    <2>1. new = [bag EXCEPT !.fields[key] = <<>>]
        BY <1>6 DEF Changed, Delete
    <2>2. DOMAIN <<>> = {}
        OBVIOUS
    <2>. QED
        BY <1>2, <1>3, <1>6, <2>1, <2>2 DEF Effect
<1>. QED
    BY <1>4, <1>5, <1>6

\* One object changes.
Wrote(i, op, key, b) ==
    /\ b \in DOMAIN bags /\ UNCHANGED <<noop, spans, ended>>
    /\ spans[i].kind = "server" /\ key \in bags[b].registry
    /\ bags' \in Seq(BagType) /\ Len(bags') = Len(bags)
    /\ \A k \in DOMAIN bags : k # b => bags'[k] = bags[k]
    /\ bags'[b] \in BagType /\ RegisteredOnly(bags'[b])
    /\ bags'[b].registry = bags[b].registry
    /\ \A other \in Keys : other # key => bags'[b].fields[other] = bags[b].fields[other]
    /\ op = "add" => bags'[b].fields[key] = Append(bags[b].fields[key], i)
    /\ \A k \in DOMAIN bags'[b].fields[key] :
            \/ bags'[b].fields[key][k] = i
            \/ \E l \in DOMAIN bags[b].fields[key] :
                    bags'[b].fields[key][k] = bags[b].fields[key][l]
    /\ writes' = writes \cup {[by |-> i, op |-> op, key |-> key]}

LEMMA WriteFacts ==
    ASSUME IInv, NEW i \in Index, NEW op \in {"add", "set", "delete"}, NEW key \in Keys,
           Write(i, op, key), NEW b, b = spans[i].bag
    PROVE  Wrote(i, op, key, b)
<1>1. /\ spans[i].kind = "server" /\ b # 0 /\ key \in Registry[spans[i].service]
      /\ UNCHANGED <<noop, spans, ended>>
      /\ writes' = writes \cup {[by |-> i, op |-> op, key |-> key]}
    BY DEF Write
<1>2. b \in 1..Len(bags) /\ bags[b].registry = Registry[spans[i].service] /\ Len(bags) \in Nat
    BY <1>1, IndexFacts DEF IInv, Bagged
<1>3. b \in DOMAIN bags /\ bags \in Seq(BagType) /\ bags[b] \in BagType /\ RegisteredOnly(bags[b])
    BY <1>2, IndexFacts DEF IInv, Shapes
<1>4. i \in Nat
    BY IndexFacts
<1>5. PICK new : new = Changed(bags[b], op, key, i)
    OBVIOUS
<1>6. Effect(bags[b], op, key, i, new)
    <2>1. key \in bags[b].registry
        BY <1>1, <1>2
    <2>. QED
        BY <1>3, <1>4, <1>5, <2>1, BagWritten
<1>7. bags' = [bags EXCEPT ![b] = new]
    BY <1>5 DEF Write, Changed
<1>8. /\ bags' \in Seq(BagType) /\ Len(bags') = Len(bags)
      /\ bags'[b] = new /\ \A k \in DOMAIN bags : k # b => bags'[k] = bags[k]
    BY <1>2, <1>3, <1>6, <1>7, IndexFacts, ExceptSeq DEF Effect
<1>. QED
    BY <1>1, <1>2, <1>3, <1>6, <1>8 DEF Effect, Wrote

LEMMA WriteStep ==
    ASSUME IInv, NEW i \in Index, NEW op \in {"add", "set", "delete"}, NEW key \in Keys,
           Write(i, op, key)
    PROVE  IInv'
<1>1. PICK b : b = spans[i].bag
    OBVIOUS
<1>2. /\ b \in DOMAIN bags /\ UNCHANGED <<noop, spans, ended>>
      /\ bags' \in Seq(BagType) /\ Len(bags') = Len(bags)
      /\ \A k \in DOMAIN bags : k # b => bags'[k] = bags[k]
      /\ RegisteredOnly(bags'[b]) /\ bags'[b].registry = bags[b].registry
    BY <1>1, WriteFacts DEF Wrote
<1>3. DOMAIN bags' = DOMAIN bags /\ Index' = Index
    BY <1>2, IndexFacts DEF Index
<1>4. Shapes' /\ \A k \in DOMAIN bags' : RegisteredOnly(bags'[k])
    BY <1>2, <1>3 DEF IInv, Shapes
<1>5. ASSUME NEW j \in Index'
      PROVE  Called(j)' /\ Bagged(j)' /\ Reported(j)' /\ Sent(j)' /\ Precedence(j)'
    <2>1. Reported(j)'
        BY <1>2, <1>3 DEF IInv, Reported
    <2>2. \A k \in DOMAIN bags : bags'[k].registry = bags[k].registry
        BY <1>2
    <2>. QED
        BY <1>2, <1>3, <2>1, <2>2, IndexFacts, OtherSpans
<1>. QED
    BY <1>4, <1>5 DEF IInv

LEMMA EndStep ==
    ASSUME IInv, NEW i \in Index, NEW code \in {"ok", "error"}, End(i, code)
    PROVE  IInv'
<1>1. spans[i].inContext = i /\ i \in DOMAIN ended /\ ended[i] \in EndType
    BY IndexFacts DEF IInv, Called
<1>2. PICK reports \in BOOLEAN :
        reports <=> ~spans[i].noop /\ MustCollect(spans[i].ctx) /\ ended[i].reported = None
    OBVIOUS
<1>3. /\ ended[i].code = None /\ UNCHANGED <<noop, spans, bags, writes>>
      /\ ended' = IF reports THEN [[ended EXCEPT ![i].code = code] EXCEPT ![i].reported = code]
                  ELSE [ended EXCEPT ![i].code = code]
    BY <1>1, <1>2 DEF End
<1>4. ended[i].reported = None
    BY <1>3 DEF IInv, Reported
<1>5. PICK e : e = [code |-> code, reported |-> IF reports THEN code ELSE None]
    OBVIOUS
<1>6. e \in EndType /\ e.code = code /\ e.reported = IF reports THEN code ELSE None
    BY <1>5 DEF EndType
<1>7. ended' = [ended EXCEPT ![i] = e]
    <2>1. ended[i] = [code |-> None, reported |-> None]
        BY <1>1, <1>3, <1>4 DEF EndType
    <2>2. PICK e1 : e1 = [code |-> code, reported |-> None]
        OBVIOUS
    <2>3. [ended EXCEPT ![i].code = code] = [ended EXCEPT ![i] = e1]
        <3>1. [ended[i] EXCEPT !.code = code] = e1
            BY <2>1, <2>2
        <3>. QED
            BY <3>1
    <2>4. [[ended EXCEPT ![i].code = code] EXCEPT ![i].reported = code]
          = [ended EXCEPT ![i] = [e1 EXCEPT !.reported = code]]
        BY <1>1, <2>3
    <2>5. [e1 EXCEPT !.reported = code] = [code |-> code, reported |-> code]
        BY <2>2
    <2>. QED
        BY <1>3, <1>5, <2>2, <2>3, <2>4, <2>5
<1>8. ended \in Seq(EndType) /\ Len(ended) = Len(spans) /\ Index = 1..Len(spans)
    BY DEF IInv, Shapes, Index
<1>9. /\ ended' \in Seq(EndType) /\ Len(ended') = Len(spans') /\ ended'[i] = e
      /\ \A j \in Index : j # i => ended'[j] = ended[j]
    <2>1. i \in 1..Len(ended)
        BY <1>8
    <2>2. /\ [ended EXCEPT ![i] = e] \in Seq(EndType)
          /\ Len([ended EXCEPT ![i] = e]) = Len(ended)
          /\ \A j \in 1..Len(ended) : [ended EXCEPT ![i] = e][j] = IF j = i THEN e ELSE ended[j]
        BY <1>6, <1>8, <2>1, ExceptSeq
    <2>. QED
        BY <1>3, <1>7, <1>8, <2>1, <2>2
<1>10. Index' = Index
    BY <1>3 DEF Index
<1>11. Shapes' /\ \A k \in DOMAIN bags' : RegisteredOnly(bags'[k])
    BY <1>3, <1>9 DEF IInv, Shapes
<1>12. ASSUME NEW j \in Index PROVE Reported(j)'
    <2>1. CASE j = i
        <3>1. ended'[i].reported = IF reports THEN ended'[i].code ELSE None
            BY <1>6, <1>9
        <3>2. reports <=> ~spans'[i].noop /\ MustCollect(spans'[i].ctx)
            BY <1>2, <1>3, <1>4
        <3>3. CASE reports
            BY <2>1, <3>1, <3>2, <3>3 DEF Reported
        <3>4. CASE ~reports
            BY <2>1, <3>1, <3>2, <3>4 DEF Reported
        <3>. QED
            BY <3>3, <3>4
    <2>2. CASE j # i
        <3>1. Reported(j) /\ ended'[j] = ended[j] /\ spans' = spans
            BY <1>3, <1>9, <2>2 DEF IInv
        <3>. QED
            BY <3>1 DEF Reported
    <2>. QED
        BY <2>1, <2>2
<1>13. ASSUME NEW j \in Index PROVE Called(j)' /\ Bagged(j)' /\ Sent(j)' /\ Precedence(j)'
    BY <1>3, IndexFacts, OtherSpans
<1>. QED
    BY <1>10, <1>11, <1>12, <1>13 DEF IInv

-----------------------------------------------------------------------------
(* The actions that start a span: what they add, and that it is all right.   *)

NotEnded == [code |-> None, reported |-> None]

EdgeSpan(y, via, sc, n) ==
    /\ y.kind = "edge" /\ y.via = via /\ y.caller = 0 /\ y.ctx = sc /\ y.noop = TRUE
    /\ y.bag = 0 /\ y.md = <<InjectMulti(sc, NoHeaders)>>
    /\ y.fields = [key \in Keys |-> <<n>>] /\ y.asked = None
    /\ y.inContext = n /\ y.reused = 0

LEMMA EdgeCallFacts ==
    ASSUME IInv, NEW via \in {"http", "grpc"}, NEW sc \in EdgeContexts, EdgeCall(via, sc),
           NEW n, n = Len(spans) + 1
    PROVE  /\ ended' = Append(ended, NotEnded) /\ UNCHANGED <<noop, bags, writes>>
           /\ \E y \in SpanType : spans' = Append(spans, y) /\ EdgeSpan(y, via, sc, n)
<1>1. PICK md : md = <<InjectMulti(sc, NoHeaders)>>
    OBVIOUS
<1>2. PICK fields : fields = [key \in Keys |-> <<n>>]
    OBVIOUS
<1>3. PICK r : r = SpanOf("edge", via, None, 0, sc)
    OBVIOUS
<1>4. PICK y : y = [r EXCEPT !.md = md, !.fields = fields]
    OBVIOUS
<1>5. spans' = Append(spans, y)
    BY <1>1, <1>2, <1>3, <1>4 DEF EdgeCall, Log
<1>6. n \in Nat /\ sc \in ContextType
    BY IndexFacts, EdgeAssumption
<1>7. md \in Metadata
    <2>1. InjectMulti(sc, NoHeaders) \in LayerType
        BY <1>6, NoHeadersLayer, InjectMultiLayer
    <2>. QED
        BY <1>1, <2>1 DEF Metadata
<1>8. fields \in FieldsType
    <2>1. <<n>> \in Seq(Nat)
        BY <1>6
    <2>. QED
        BY <1>2, <2>1 DEF FieldsType
<1>9. r \in SpanType /\ Blank(r, "edge", via, None, 0, sc, n)
    BY <1>3, <1>6, SpanOfFields
<1>10. /\ y \in SpanType /\ y.md = md /\ y.fields = fields
       /\ y.kind = r.kind /\ y.via = r.via /\ y.caller = r.caller /\ y.ctx = r.ctx
       /\ y.noop = r.noop /\ y.bag = r.bag /\ y.asked = r.asked
       /\ y.inContext = r.inContext /\ y.reused = r.reused
    BY <1>4, <1>7, <1>8, <1>9 DEF SpanType
<1>11. ended' = Append(ended, NotEnded) /\ UNCHANGED <<noop, bags, writes>>
    BY DEF EdgeCall, Log, NotEnded
<1>12. EdgeSpan(y, via, sc, n)
    BY <1>1, <1>2, <1>9, <1>10 DEF EdgeSpan, Blank
<1>. QED
    BY <1>5, <1>10, <1>11, <1>12

LEMMA SameBags ==
    ASSUME IInv, UNCHANGED bags
    PROVE  /\ bags' \in Seq(BagType) /\ Len(bags') >= Len(bags)
           /\ \A k \in DOMAIN bags : bags'[k].registry = bags[k].registry
           /\ \A k \in DOMAIN bags' : RegisteredOnly(bags'[k])
BY IndexFacts DEF IInv, Shapes

LEMMA EdgeCallStep ==
    ASSUME IInv, NEW via \in {"http", "grpc"}, NEW sc \in EdgeContexts, EdgeCall(via, sc)
    PROVE  IInv'
<1>1. PICK n : n = Len(spans) + 1
    OBVIOUS
<1>2. PICK y \in SpanType : spans' = Append(spans, y) /\ EdgeSpan(y, via, sc, n)
    BY <1>1, EdgeCallFacts
<1>3. ended' = Append(ended, [code |-> None, reported |-> None]) /\ UNCHANGED <<noop, bags>>
    BY <1>1, EdgeCallFacts DEF NotEnded
<1>4. spans'[n] = y /\ n \in Nat /\ n >= 1
    BY <1>1, <1>2, AppendFacts
<1>5. Called(n)' /\ Bagged(n)' /\ Precedence(n)'
    <2>1. Called(n)'
        BY <1>2, <1>4 DEF EdgeSpan, Called
    <2>2. Bagged(n)'
        BY <1>2, <1>3, <1>4, IndexFacts DEF EdgeSpan, Bagged
    <2>3. Precedence(n)'
        BY <1>2, <1>4 DEF EdgeSpan, Precedence
    <2>. QED
        BY <2>1, <2>2, <2>3
<1>6. Sent(n)'
    <2>1. PICK layer : layer = InjectMulti(sc, NoHeaders)
        OBVIOUS
    <2>2. sc \in ContextType /\ NoHeaders.flags = None /\ NoHeaders.sampled = None
        BY EdgeAssumption DEF NoHeaders
    <2>3. /\ layer \in LayerType
          /\ sc.debug => layer.flags = "1" /\ layer.sampled = None
          /\ ~sc.debug => layer.flags = None
          /\ ~sc.debug /\ sc.sampled # None => layer.sampled = Digit(sc.sampled)
        BY <2>1, <2>2, NoHeadersLayer, InjectMultiLayer
    <2>4. PICK h : h = Seen(via, <<layer>>)
        OBVIOUS
    <2>5. h.flags = layer.flags /\ h.sampled = layer.sampled
        <3>1. <<layer>> \in Metadata /\ Len(<<layer>>) = 1 /\ <<layer>>[1] = layer
            BY <2>3 DEF Metadata
        <3>2. CASE via = "http"
            BY <2>4, <3>1, <3>2 DEF Seen
        <3>3. CASE via = "grpc"
            <4>1. \A key : GetGRPCHeader(<<layer>>, key) = layer[key]
                BY <3>1, LastValue
            <4>. QED
                BY <2>4, <3>3, <4>1 DEF Seen, NoHeaders
        <3>. QED
            BY <3>2, <3>3
    <2>6. None # Garbage /\ \A d : Digit(d) # Garbage
        BY NoneGarbageAssumption DEF Digit
    <2>7. /\ y.ctx = sc /\ y.asked = None /\ Seen(y.via, y.md) = h
        BY <1>2, <2>1, <2>4 DEF EdgeSpan
    <2>8. /\ sc.debug => h.sampled # Garbage
          /\ Decided(sc) => /\ h.sampled # Garbage
                            /\ sc.debug => h.flags = "1"
                            /\ ~sc.debug => h.flags = None /\ h.sampled = Digit(sc.sampled)
        BY <2>3, <2>5, <2>6 DEF Decided
    <2>. QED
        BY <1>4, <2>7, <2>8 DEF Sent
<1>. QED
    BY <1>1, <1>2, <1>3, <1>5, <1>6, SameBags, AppendStep

\* The object of a server has the registered fields of the request.
LEMMA NewBag ==
    ASSUME NEW registry \in SUBSET Keys, NEW headers \in FieldsType,
           NEW bag, bag = AddAll(Object(registry), headers)
    PROVE  /\ bag \in BagType /\ bag.registry = registry
           /\ \A key \in Keys :
                bag.fields[key] = IF key \in registry THEN headers[key] ELSE <<>>
<1>. DEFINE object == Object(registry)
            fields == [key \in Keys |-> Add(object, key, headers[key]).fields[key]]
<1>1. NoFields \in FieldsType /\ \A key \in Keys : NoFields[key] = <<>>
    BY DEF NoFields, FieldsType
<1>2. object \in BagType /\ object.registry = registry /\ object.fields = NoFields
    BY <1>1 DEF Object, BagType
<1>. HIDE DEF object
<1>3. ASSUME NEW key \in Keys
      PROVE  Add(object, key, headers[key]).fields[key] =
                IF key \in registry THEN headers[key] ELSE <<>>
    <2>1. headers[key] \in Seq(Nat)
        BY DEF FieldsType
    <2>2. CASE headers[key] # <<>> /\ key \in registry
        <3>1. Add(object, key, headers[key]) =
                [object EXCEPT !.fields = [object.fields EXCEPT ![key] = @ \o headers[key]]]
            BY <1>2, <2>2 DEF Add
        <3>2. [object.fields EXCEPT ![key] = @ \o headers[key]][key] = <<>> \o headers[key]
            BY <1>1, <1>2 DEF FieldsType
        <3>3. <<>> \o headers[key] = headers[key]
            BY <2>1
        <3>. QED
            BY <1>2, <2>2, <3>1, <3>2, <3>3 DEF BagType
    <2>3. CASE ~(headers[key] # <<>> /\ key \in registry)
        <3>1. Add(object, key, headers[key]) = object
            BY <1>2, <2>3 DEF Add
        <3>. QED
            BY <1>1, <1>2, <2>3, <3>1
    <2>. QED
        BY <2>2, <2>3
<1>4. bag = [object EXCEPT !.fields = fields]
    BY DEF AddAll, object
<1>5. \A key \in Keys : fields[key] = IF key \in registry THEN headers[key] ELSE <<>>
    BY <1>3
<1>6. fields \in FieldsType
    <2>1. \A key \in Keys : (IF key \in registry THEN headers[key] ELSE <<>>) \in Seq(Nat)
        BY DEF FieldsType
    <2>2. \A key \in Keys : Add(object, key, headers[key]).fields[key] \in Seq(Nat)
        BY <1>3, <2>1
    <2>. QED
        BY <2>2 DEF FieldsType
<1>. HIDE DEF fields
<1>. QED
    BY <1>2, <1>4, <1>5, <1>6 DEF BagType

\* What a server's span is made of; h is what its extractor sees.
ServerSpan(y, s, i, verdict, md, n) ==
    /\ y.kind = "server" /\ y.via = Via[s] /\ y.service = s /\ y.caller = i
    /\ y.md = md /\ y.fields = spans[i].fields /\ y.asked = verdict
    /\ y.inContext = n /\ y.reused = 0
    /\ y.whole <=> md = spans[i].md

ServerContext(y, s, verdict, h) ==
    /\ noop[s] => y.read = "asleep" /\ ~y.ctx.debug
    /\ ~noop[s] /\ h.sampled = Garbage => y.read = "error" /\ ~y.ctx.debug
    /\ ~noop[s] /\ h.sampled # Garbage =>
            /\ y.read = "ok"
            /\ y.ctx.debug <=> h.flags = "1"
            /\ h.flags # "1" /\ verdict # None => y.ctx.sampled = verdict
            /\ h.flags # "1" /\ verdict = None /\ h.sampled = "1" => y.ctx.sampled = TRUE
            /\ h.flags # "1" /\ verdict = None /\ h.sampled = "0" => y.ctx.sampled = FALSE

ServerBag(y, s, i, heap) ==
    IF y.read # "error" /\ Registry[s] # None
    THEN /\ y.bag = Len(bags) + 1
         /\ heap = Append(bags, AddAll(Object(Registry[s]), spans[i].fields))
    ELSE y.bag = 0 /\ heap = bags

LEMMA OverruledFacts ==
    ASSUME NEW sc \in ContextType, NEW verdict \in BOOLEAN \cup {None},
           NEW x, x = Overruled(sc, verdict)
    PROVE  /\ x \in ContextType /\ x.debug = sc.debug
           /\ x.sampled = IF verdict # None THEN verdict ELSE sc.sampled
BY DEF Overruled, ContextType

LEMMA VerdictFacts ==
    ASSUME NEW s \in Services, NEW via, NEW verdict \in VerdictsVia(s, via)
    PROVE  verdict \in BOOLEAN \cup {None}
BY ServicesAssumption DEF VerdictsVia

\* From headers to the context of a server's span.
Understood(asleep, h, verdict, result, ctx) ==
    /\ ctx \in ContextType
    /\ result.err = "nil" <=> asleep \/ h.sampled # Garbage
    /\ asleep \/ h.sampled = Garbage => ~ctx.debug
    /\ ~asleep /\ h.sampled # Garbage =>
            /\ ctx.debug <=> h.flags = "1"
            /\ h.flags # "1" /\ verdict # None => ctx.sampled = verdict
            /\ h.flags # "1" /\ verdict = None /\ h.sampled = "1" => ctx.sampled = TRUE
            /\ h.flags # "1" /\ verdict = None /\ h.sampled = "0" => ctx.sampled = FALSE

LEMMA ServedContext ==
    ASSUME NEW t, NEW asleep \in BOOLEAN, NEW h \in LayerType, NEW verdict \in BOOLEAN \cup {None},
           NEW decision \in BOOLEAN, NEW n \in Nat,
           NEW result, result = TracerExtract(asleep, ParseHeaders(h)),
           NEW sc, sc = Parent([result EXCEPT !.ctx = Overruled(@, verdict)]),
           NEW ctx, ctx = StartedContext(t, asleep, "server", sc, decision, n)
    PROVE  Understood(asleep, h, verdict, result, ctx)
<1>1. /\ result.ctx \in ContextType
      /\ asleep => result = Ok(EmptyContext)
      /\ ~asleep /\ h.sampled = Garbage => result = Error
      /\ ~asleep /\ h.sampled # Garbage =>
            /\ result = Ok(result.ctx)
            /\ result.ctx.debug <=> h.flags = "1"
            /\ h.flags # "1" /\ h.sampled = "1" => result.ctx.sampled = TRUE
            /\ h.flags # "1" /\ h.sampled = "0" => result.ctx.sampled = FALSE
    <2>1. CASE asleep
        BY <2>1, EmptyContextFacts DEF TracerExtract, Ok
    <2>2. CASE ~asleep
        BY <2>2, ReadLayer DEF TracerExtract
    <2>. QED
        BY <2>1, <2>2
<1>2. PICK over : over = Overruled(result.ctx, verdict)
    OBVIOUS
<1>3. /\ over \in ContextType /\ over.debug = result.ctx.debug
      /\ over.sampled = IF verdict # None THEN verdict ELSE result.ctx.sampled
    BY <1>1, <1>2, OverruledFacts, SMTT(30)
<1>4. /\ result.err = "nil" => sc = over
      /\ result.err # "nil" => sc = EmptyContext
      /\ result.err = "nil" <=> asleep \/ h.sampled # Garbage
    <2>1. \A x : Ok(x) = [ctx |-> x, err |-> "nil"]
        BY DEF Ok
    <2>2. result = [ctx |-> result.ctx, err |-> result.err]
        BY <1>1, <2>1 DEF Error
    <2>3. [result EXCEPT !.ctx = Overruled(@, verdict)] = [ctx |-> over, err |-> result.err]
        BY <1>2, <2>2
    <2>4. result.err = "nil" <=> asleep \/ h.sampled # Garbage
        BY <1>1, <2>1 DEF Error
    <2>. QED
        BY <2>3, <2>4 DEF Parent
<1>5. sc \in ContextType
    BY <1>3, <1>4, EmptyContextFacts
<1>6. /\ ctx \in ContextType /\ ctx.debug = sc.debug
      /\ Decided(sc) => ctx.sampled = sc.sampled
    BY <1>5, StartedDecision
<1>7. asleep \/ h.sampled = Garbage => ~ctx.debug
    <2>1. asleep => ~result.ctx.debug
        <3>1. Ok(EmptyContext).ctx = EmptyContext
            BY DEF Ok
        <3>. QED
            BY <1>1, <3>1, EmptyContextFacts
    <2>. QED
        BY <1>3, <1>4, <1>6, <2>1, EmptyContextFacts
<1>8. ASSUME ~asleep, h.sampled # Garbage
      PROVE  /\ ctx.debug <=> h.flags = "1"
             /\ h.flags # "1" /\ verdict # None => ctx.sampled = verdict
             /\ h.flags # "1" /\ verdict = None /\ h.sampled = "1" => ctx.sampled = TRUE
             /\ h.flags # "1" /\ verdict = None /\ h.sampled = "0" => ctx.sampled = FALSE
    <2>1. sc = over
        BY <1>4, <1>8
    <2>2. ctx.debug <=> h.flags = "1"
        BY <1>1, <1>3, <1>6, <1>8, <2>1
    <2>3. sc.sampled # None => ctx.sampled = sc.sampled
        BY <1>6 DEF Decided
    <2>4. None \notin BOOLEAN
        BY NoneGarbageAssumption
    <2>. QED
        BY <1>1, <1>3, <1>8, <2>1, <2>2, <2>3, <2>4
<1>. QED
    BY <1>4, <1>6, <1>7, <1>8 DEF Understood

\* The heap after a server's span has been started.
LEMMA ServedBag ==
    ASSUME IInv, NEW s \in Services, NEW fields \in FieldsType, NEW used \in BOOLEAN,
           NEW new, new = IF used /\ KeepsBaggage(s) THEN New(bags, Registry[s])
                          ELSE [heap |-> bags, ref |-> 0],
           NEW heap, heap = IF new.ref = 0 THEN bags
                            ELSE [new.heap EXCEPT ![new.ref] = AddAll(@, fields)]
    PROVE  /\ new.ref \in Nat
           /\ used /\ Registry[s] # None =>
                new.ref = Len(bags) + 1 /\ heap = Append(bags, AddAll(Object(Registry[s]), fields))
           /\ ~used \/ Registry[s] = None => new.ref = 0 /\ heap = bags
<1>1. CASE used /\ Registry[s] # None
    <2>1. PICK len \in Nat : len = Len(bags)
        BY IndexFacts
    <2>2. PICK object : object = Object(Registry[s])
        OBVIOUS
    <2>3. new.ref = len + 1 /\ new.heap = Append(bags, object)
        BY <1>1, <2>1, <2>2 DEF KeepsBaggage, New
    <2>4. bags \in Seq(BagType) /\ object \in BagType
        <3>1. Registry[s] \in SUBSET Keys
            BY <1>1, ServicesAssumption
        <3>2. NoFields \in FieldsType
            BY DEF NoFields, FieldsType
        <3>. QED
            BY <2>2, <3>1, <3>2 DEF Object, BagType, IInv, Shapes
    <2>5. PICK longer : longer = Append(bags, object)
        OBVIOUS
    <2>6. /\ longer \in Seq(BagType) /\ Len(longer) = len + 1 /\ longer[len + 1] = object
          /\ \A k \in 1..len : longer[k] = bags[k]
        BY <2>1, <2>4, <2>5
    <2>7. PICK bag : bag = AddAll(object, fields)
        OBVIOUS
    <2>8. bag \in BagType
        BY <1>1, <2>2, <2>7, NewBag, ServicesAssumption
    <2>9. heap = [longer EXCEPT ![len + 1] = bag]
        <3>1. new.ref # 0
            BY <2>1, <2>3
        <3>. QED
            BY <2>3, <2>5, <2>6, <2>7, <3>1
    <2>10. [longer EXCEPT ![len + 1] = bag] = Append(bags, bag)
        <3>. DEFINE left == [longer EXCEPT ![len + 1] = bag]
                    right == Append(bags, bag)
        <3>1. /\ left \in Seq(BagType) /\ Len(left) = len + 1
              /\ \A k \in 1..(len + 1) : left[k] = IF k = len + 1 THEN bag ELSE longer[k]
            BY <2>6, <2>8, ExceptSeq
        <3>2. /\ right \in Seq(BagType) /\ Len(right) = len + 1 /\ right[len + 1] = bag
              /\ \A k \in 1..len : right[k] = bags[k]
            BY <2>1, <2>4, <2>8
        <3>. HIDE DEF left, right
        <3>3. \A k \in 1..Len(left) : left[k] = right[k]
            BY <2>6, <3>1, <3>2
        <3>4. left = right
            BY <3>1, <3>2, <3>3, SeqEqual
        <3>. QED
            BY <3>4 DEF left, right
    <2>. QED
        BY <1>1, <2>1, <2>2, <2>3, <2>7, <2>9, <2>10
<1>2. CASE ~used \/ Registry[s] = None
    BY <1>2 DEF KeepsBaggage
<1>. QED
    BY <1>1, <1>2

\* What Serve puts into a span.
Filled(r, y, bag, md, fields, asked, whole, read) ==
    /\ y.bag = bag /\ y.md = md /\ y.fields = fields /\ y.asked = asked /\ y.read = read
    /\ y.whole <=> whole
    /\ y.kind = r.kind /\ y.via = r.via /\ y.service = r.service /\ y.caller = r.caller
    /\ y.ctx = r.ctx /\ y.inContext = r.inContext /\ y.reused = r.reused

LEMMA ServeFacts ==
    ASSUME IInv, NEW s \in Services, NEW i \in Requests(s),
           NEW verdict \in VerdictsVia(s, Via[s]), NEW decision \in Tracers[s].sampler,
           NEW md \in Arrivals(spans[i].md), Serve(s, i, verdict, decision, md),
           NEW n, n = Len(spans) + 1
    PROVE  /\ ended' = Append(ended, NotEnded) /\ UNCHANGED <<noop, writes>>
           /\ \E y \in SpanType :
                /\ spans' = Append(spans, y)
                /\ ServerSpan(y, s, i, verdict, md, n)
                /\ ServerContext(y, s, verdict, Seen(Via[s], md))
                /\ ServerBag(y, s, i, bags')
<1>1. PICK h : h = Seen(Via[s], md)
    OBVIOUS
<1>2. PICK result : result = TracerExtract(noop[s], ExtractVia(Via[s], md))
    OBVIOUS
<1>3. PICK sc : sc = Parent([result EXCEPT !.ctx = Overruled(@, verdict)])
    OBVIOUS
<1>4. PICK ctx : ctx = StartedContext(Tracers[s], noop[s], "server", sc, decision, n)
    OBVIOUS
<1>5. PICK silent : silent = IsNoop(Tracers[s], noop[s], ctx)
    OBVIOUS
<1>6. PICK used \in BOOLEAN : used <=> result.err = "nil"
    OBVIOUS
<1>7. PICK read : read = IF noop[s] THEN "asleep" ELSE IF used THEN "ok" ELSE "error"
    OBVIOUS
<1>8. PICK whole \in BOOLEAN : whole = (md = spans[i].md)
    OBVIOUS
<1>9. PICK new : new = IF used /\ KeepsBaggage(s) THEN New(bags, Registry[s])
                       ELSE [heap |-> bags, ref |-> 0]
    OBVIOUS
<1>10. PICK r : r = SpanOf("server", Via[s], s, i, ctx)
    OBVIOUS
<1>11. PICK y : y = [r EXCEPT !.noop = silent, !.bag = new.ref, !.md = md,
                              !.fields = spans[i].fields, !.asked = verdict, !.whole = whole,
                              !.read = read]
    OBVIOUS
<1>12. /\ spans' = Append(spans, y)
       /\ ended' = Append(ended, NotEnded) /\ UNCHANGED <<noop, writes>>
       /\ bags' = IF new.ref = 0 THEN bags
                  ELSE [new.heap EXCEPT ![new.ref] = AddAll(@, spans[i].fields)]
    BY <1>2, <1>3, <1>4, <1>5, <1>6, <1>7, <1>8, <1>9, <1>10, <1>11, ZenonT(60) DEF Serve, Log, NotEnded
<1>13. /\ i \in Index /\ i \in Nat /\ spans[i].md \in Metadata
       /\ spans[i].fields \in FieldsType /\ Via[s] \in {"http", "grpc"} /\ n \in Nat
       /\ noop[s] \in BOOLEAN /\ decision \in BOOLEAN
    BY IndexFacts, ServicesAssumption, TracerFacts, SMTT(30) DEF Requests, SpanType, IInv, Shapes
<1>14. md \in Metadata /\ verdict \in BOOLEAN \cup {None}
    BY <1>13, ArrivalsMetadata, VerdictFacts
<1>15. h \in LayerType /\ ExtractVia(Via[s], md) = ParseHeaders(h)
    BY <1>1, <1>13, <1>14, SeenType, ReadVia
<1>16. Understood(noop[s], h, verdict, result, ctx)
    <2>1. result = TracerExtract(noop[s], ParseHeaders(h))
        BY <1>2, <1>15
    <2>. QED
        BY <1>3, <1>4, <1>13, <1>14, <1>15, <2>1, ServedContext
<1>17. silent \in BOOLEAN /\ read \in {"ok", "asleep", "error"}
    BY <1>5, <1>7, <1>13, TracerFacts DEF IsNoop
<1>18. /\ new.ref \in Nat
       /\ used /\ Registry[s] # None =>
            /\ new.ref = Len(bags) + 1
            /\ bags' = Append(bags, AddAll(Object(Registry[s]), spans[i].fields))
       /\ ~used \/ Registry[s] = None => new.ref = 0 /\ bags' = bags
    BY <1>9, <1>12, <1>13, ServedBag
<1>19. r \in SpanType /\ Blank(r, "server", Via[s], s, i, ctx, n)
    BY <1>10, <1>13, <1>16, SpanOfFields DEF Understood
<1>20. y \in SpanType /\ Filled(r, y, new.ref, md, spans[i].fields, verdict, whole, read)
    <2>1. PICK ref \in Nat : ref = new.ref
        BY <1>18
    <2>2. PICK fields \in FieldsType : fields = spans[i].fields
        BY <1>13
    <2>3. y = [r EXCEPT !.noop = silent, !.bag = ref, !.md = md, !.fields = fields,
                        !.asked = verdict, !.whole = whole, !.read = read]
        BY <1>11, <2>1, <2>2
    <2>4. y \in SpanType /\ Filled(r, y, ref, md, fields, verdict, whole, read)
        BY <1>14, <1>17, <1>19, <2>3, ZenonT(60) DEF SpanType, Filled
    <2>. QED
        BY <2>1, <2>2, <2>4
<1>21. ServerSpan(y, s, i, verdict, md, n)
    BY <1>8, <1>19, <1>20 DEF ServerSpan, Blank, Filled
<1>22. ServerContext(y, s, verdict, h)
    <2>1. y.ctx = ctx /\ y.read = read
        BY <1>19, <1>20 DEF Blank, Filled
    <2>. QED
        BY <1>6, <1>7, <1>16, <2>1 DEF ServerContext, Understood
<1>23. ServerBag(y, s, i, bags')
    <2>1. y.read # "error" <=> used
        BY <1>6, <1>7, <1>16, <1>20 DEF Understood, Filled
    <2>. QED
        BY <1>18, <1>20, <2>1 DEF ServerBag, Filled
<1>. QED
    BY <1>1, <1>12, <1>20, <1>21, <1>22, <1>23

\* The heap has the object that a server's span refers to.
LEMMA ServerBagFacts ==
    ASSUME IInv, NEW s \in Services, NEW i \in Index, NEW y, ServerBag(y, s, i, bags'),
           spans[i].fields \in FieldsType
    PROVE  /\ bags' \in Seq(BagType) /\ Len(bags') >= Len(bags) /\ Len(bags') \in Nat
           /\ \A k \in DOMAIN bags : bags'[k] = bags[k] /\ k \in DOMAIN bags'
           /\ \A k \in DOMAIN bags' : RegisteredOnly(bags'[k])
           /\ y.bag \in 0..Len(bags')
           /\ y.bag = 0 <=> ~(y.read # "error" /\ Registry[s] # None)
           /\ y.bag # 0 =>
                /\ y.bag = Len(bags) + 1 /\ Len(bags') = Len(bags) + 1
                /\ bags'[y.bag].registry = Registry[s]
                /\ \A key \in Keys : bags'[y.bag].fields[key] =
                        IF key \in Registry[s] THEN spans[i].fields[key] ELSE <<>>
<1>1. bags \in Seq(BagType) /\ Len(bags) \in Nat /\ DOMAIN bags = 1..Len(bags)
      /\ \A k \in DOMAIN bags : RegisteredOnly(bags[k])
    BY DEF IInv, Shapes
<1>2. CASE y.read # "error" /\ Registry[s] # None
    <2>1. PICK bag : bag = AddAll(Object(Registry[s]), spans[i].fields)
        OBVIOUS
    <2>2. /\ bag \in BagType /\ bag.registry = Registry[s]
          /\ \A key \in Keys : bag.fields[key] =
                IF key \in Registry[s] THEN spans[i].fields[key] ELSE <<>>
        BY <1>2, <2>1, NewBag, ServicesAssumption
    <2>3. RegisteredOnly(bag)
        BY <2>2 DEF RegisteredOnly
    <2>4. y.bag = Len(bags) + 1 /\ bags' = Append(bags, bag)
        BY <1>2, <2>1 DEF ServerBag
    <2>5. /\ bags' \in Seq(BagType) /\ Len(bags') = Len(bags) + 1 /\ bags'[Len(bags) + 1] = bag
          /\ \A k \in DOMAIN bags : bags'[k] = bags[k]
        BY <1>1, <2>2, <2>4
    <2>. QED
        BY <1>1, <1>2, <2>2, <2>3, <2>4, <2>5
<1>3. CASE ~(y.read # "error" /\ Registry[s] # None)
    BY <1>1, <1>3 DEF ServerBag
<1>. QED
    BY <1>2, <1>3

LEMMA ServeStep ==
    ASSUME IInv, NEW s \in Services, NEW i \in Requests(s),
           NEW verdict \in VerdictsVia(s, Via[s]), NEW decision \in Tracers[s].sampler,
           NEW md \in Arrivals(spans[i].md), Serve(s, i, verdict, decision, md)
    PROVE  IInv'
<1>1. PICK n : n = Len(spans) + 1
    OBVIOUS
<1>2. PICK h : h = Seen(Via[s], md)
    OBVIOUS
<1>3. PICK y \in SpanType :
        /\ spans' = Append(spans, y)
        /\ ServerSpan(y, s, i, verdict, md, n)
        /\ ServerContext(y, s, verdict, h)
        /\ ServerBag(y, s, i, bags')
    BY <1>1, <1>2, ServeFacts
<1>4. ended' = Append(ended, [code |-> None, reported |-> None]) /\ UNCHANGED noop
    BY <1>1, ServeFacts DEF NotEnded
<1>5. PICK up \in SpanType : up = spans[i]
    BY IndexFacts DEF Requests
<1>6. /\ i \in Index /\ i \in Nat /\ i >= 1 /\ i < n /\ n \in Nat
      /\ spans'[n] = y /\ spans'[i] = up
      /\ up.kind \in {"edge", "client"} /\ up.via = Via[s]
      /\ noop[s] \in BOOLEAN /\ verdict \in BOOLEAN \cup {None} /\ None \notin BOOLEAN
    BY <1>1, <1>3, <1>5, AppendFacts, VerdictFacts, NoneGarbageAssumption
    DEF Requests, IInv, Shapes
<1>7. /\ y.kind = "server" /\ y.via = Via[s] /\ y.service = s /\ y.caller = i
      /\ y.md = md /\ y.asked = verdict /\ y.inContext = n /\ y.reused = 0
      /\ y.whole <=> md = up.md
    BY <1>3, <1>5 DEF ServerSpan
<1>8. /\ bags' \in Seq(BagType) /\ Len(bags') >= Len(bags)
      /\ \A k \in DOMAIN bags : bags'[k].registry = bags[k].registry
      /\ \A k \in DOMAIN bags' : RegisteredOnly(bags'[k])
      /\ y.bag \in 0..Len(bags')
      /\ y.bag # 0 => bags'[y.bag].registry = Registry[s]
    BY <1>3, <1>5, <1>6, ServerBagFacts, SMTT(30) DEF SpanType
<1>9. Called(n)'
    <2>1. 0 \in 0..(n - 1) /\ i \in 0..(n - 1)
        BY <1>6
    <2>. QED
        BY <1>6, <1>7, <2>1 DEF Called
<1>10. Bagged(n)'
    BY <1>6, <1>7, <1>8 DEF Bagged
<1>11. Sent(n)'
    <2>1. y.ctx.debug => h.sampled # Garbage
        BY <1>3, <1>6 DEF ServerContext
    <2>. QED
        BY <1>2, <1>6, <1>7, <2>1 DEF Sent
<1>12. Precedence(n)'
    <2>. SUFFICES ASSUME Decided(up.ctx), y.whole, y.read # "asleep", ~Stale(i)
                  PROVE  /\ y.read = "ok"
                         /\ MustCollect(y.ctx) =
                                CASE up.ctx.debug -> TRUE
                                  [] ~up.ctx.debug /\ verdict # None -> verdict
                                  [] ~up.ctx.debug /\ verdict = None /\ up.asked # None -> up.asked
                                  [] OTHER -> MustCollect(up.ctx)
        <3>1. Stale(i)' <=> Stale(i)
            BY <1>5, <1>6 DEF Stale
        <3>. QED
            BY <1>6, <1>7, <3>1 DEF Precedence
    <2>1. /\ h.sampled # Garbage
          /\ up.ctx.debug => h.flags = "1"
          /\ ~up.ctx.debug =>
                /\ h.flags = None
                /\ h.sampled = Digit(IF up.asked # None THEN up.asked ELSE up.ctx.sampled)
        <3>1. Sent(i) /\ h = Seen(up.via, up.md)
            BY <1>2, <1>6, <1>7 DEF IInv
        <3>. QED
            BY <1>5, <1>6, <3>1 DEF Sent
    <2>2. /\ ~noop[s] /\ y.read = "ok"
          /\ y.ctx.debug <=> h.flags = "1"
          /\ h.flags # "1" /\ verdict # None => y.ctx.sampled = verdict
          /\ h.flags # "1" /\ verdict = None /\ h.sampled = "1" => y.ctx.sampled = TRUE
          /\ h.flags # "1" /\ verdict = None /\ h.sampled = "0" => y.ctx.sampled = FALSE
        BY <1>3, <1>6, <2>1 DEF ServerContext
    <2>3. None # "1" /\ up.asked \in BOOLEAN \cup {None}
        BY NoneGarbageAssumption DEF SpanType
    <2>4. CASE up.ctx.debug
        BY <2>1, <2>2, <2>4 DEF MustCollect
    <2>5. CASE ~up.ctx.debug
        <3>1. ~y.ctx.debug /\ up.ctx.sampled \in BOOLEAN
            <4>1. up.ctx \in ContextType
                BY DEF SpanType
            <4>. QED
                BY <2>1, <2>2, <2>3, <2>5, <4>1 DEF Decided, ContextType
        <3>2. CASE verdict # None
            <4>1. y.ctx.sampled = verdict /\ verdict \in BOOLEAN
                BY <1>6, <2>1, <2>2, <2>3, <2>5, <3>2
            <4>. QED
                BY <2>2, <2>5, <3>1, <3>2, <4>1 DEF MustCollect
        <3>3. CASE verdict = None /\ up.asked # None
            <4>1. y.ctx.sampled = up.asked /\ up.asked \in BOOLEAN
                BY <2>1, <2>2, <2>3, <2>5, <3>3 DEF Digit
            <4>. QED
                BY <2>2, <2>5, <3>1, <3>3, <4>1 DEF MustCollect
        <3>4. CASE verdict = None /\ up.asked = None
            <4>1. y.ctx.sampled = up.ctx.sampled
                BY <2>1, <2>2, <2>3, <2>5, <3>1, <3>4 DEF Digit
            <4>. QED
                BY <2>2, <2>5, <3>1, <3>4, <4>1 DEF MustCollect
        <3>. QED
            BY <3>2, <3>3, <3>4
    <2>. QED
        BY <2>4, <2>5
<1>. QED
    BY <1>1, <1>3, <1>4, <1>8, <1>9, <1>10, <1>11, <1>12, AppendStep

\* The headers a client starts from.
BaseMetadata(reused) == IF reused = 0 THEN <<NoHeaders>> ELSE spans[reused].md
BaseFields(reused) == IF reused = 0 THEN NoFields ELSE spans[reused].fields

\* They are of the same middleware, and of the same debug trace or of none.
LEMMA BaseFacts ==
    ASSUME IInv, NEW i \in Handlers, NEW via \in {"http", "grpc"}, NEW reused \in Reusable(i, via),
           NEW n, n = Len(spans) + 1
    PROVE  /\ reused \in 0..(n - 1)
           /\ reused # 0 =>
                /\ reused \in Index /\ spans[reused].via = via
                /\ reused = i \/ (spans[reused].kind = "client" /\ spans[reused].caller = i)
                /\ spans[reused].ctx.debug = spans[i].ctx.debug
           /\ BaseMetadata(reused) \in Metadata /\ BaseFields(reused) \in FieldsType
           /\ spans[i].ctx.debug => Seen(via, BaseMetadata(reused)).sampled # Garbage
<1>1. /\ i \in Index /\ spans[i].kind = "server" /\ Len(spans) \in Nat /\ Index = 1..Len(spans)
      /\ \A j \in Index : spans[j] \in SpanType
    BY IndexFacts DEF Handlers, Index
<1>2. /\ reused = 0 \/ reused \in Index
      /\ reused # 0 => spans[reused].via = via
      /\ reused # 0 => reused = i \/ (spans[reused].kind = "client" /\ spans[reused].caller = i)
    BY <1>1 DEF Reusable
<1>3. reused \in 0..(n - 1)
    BY <1>1, <1>2
<1>4. CASE reused = 0
    <2>1. NoFields \in FieldsType
        BY DEF NoFields, FieldsType
    <2>2. Seen(via, <<NoHeaders>>).sampled = None
        <3>1. Len(<<NoHeaders>>) = 1 /\ <<NoHeaders>>[1] = NoHeaders /\ NoHeaders.sampled = None
            BY DEF NoHeaders
        <3>2. CASE via = "http"
            BY <3>1, <3>2 DEF Seen
        <3>3. CASE via = "grpc"
            <4>1. GetGRPCHeader(<<NoHeaders>>, "sampled") = None
                BY <3>1, NoHeadersLayer, LastValue
            <4>. QED
                BY <3>3, <4>1 DEF Seen, NoHeaders
        <3>. QED
            BY <3>2, <3>3
    <2>. QED
        BY <1>3, <1>4, <2>1, <2>2, NoHeadersLayer, NoneGarbageAssumption DEF BaseMetadata, BaseFields
<1>5. CASE reused # 0
    <2>1. spans[reused].ctx.debug = spans[i].ctx.debug
        BY <1>2, <1>5 DEF IInv, Precedence
    <2>2. spans[reused].md \in Metadata /\ spans[reused].fields \in FieldsType
        BY <1>1, <1>2, <1>5 DEF SpanType
    <2>3. spans[i].ctx.debug => Seen(via, spans[reused].md).sampled # Garbage
        BY <1>2, <1>5, <2>1 DEF IInv, Sent
    <2>. QED
        BY <1>2, <1>3, <1>5, <2>1, <2>2, <2>3 DEF BaseMetadata, BaseFields
<1>. QED
    BY <1>4, <1>5

\* The headers of a request with those of the object ref.
Merged(new, via, ref, fields) ==
    /\ ref = 0 => new = fields
    /\ ref # 0 => \A key \in Keys : new[key] =
            IF via = "http" THEN fields[key] \o bags[ref].fields[key]
            ELSE IF bags[ref].fields[key] = <<>> THEN fields[key] ELSE bags[ref].fields[key]

LEMMA WithBaggageFields ==
    ASSUME IInv, NEW via \in {"http", "grpc"}, NEW ref \in 0..Len(bags),
           NEW fields \in FieldsType, NEW new, new = WithBaggage(via, ref, fields)
    PROVE  new \in FieldsType /\ Merged(new, via, ref, fields)
<1>1. CASE ref = 0
    BY <1>1 DEF WithBaggage, Merged
<1>2. CASE ref # 0
    <2>1. bags[ref].fields \in FieldsType
        BY <1>2, IndexFacts DEF BagType
    <2>2. \A key \in Keys : /\ bags[ref].fields[key] \in Seq(Nat) /\ fields[key] \in Seq(Nat)
                            /\ fields[key] \o bags[ref].fields[key] \in Seq(Nat)
        BY <2>1 DEF FieldsType
    <2>3. CASE via = "http"
        <3>1. new = [key \in Keys |-> fields[key] \o bags[ref].fields[key]]
            BY <1>2, <2>3 DEF WithBaggage, IterateHTTP
        <3>. QED
            BY <1>2, <2>2, <2>3, <3>1 DEF FieldsType, Merged
    <2>4. CASE via = "grpc"
        <3>1. new = [key \in Keys |-> IF bags[ref].fields[key] = <<>> THEN fields[key]
                                      ELSE bags[ref].fields[key]]
            BY <1>2, <2>4 DEF WithBaggage, IterateGRPC
        <3>. QED
            BY <1>2, <2>2, <2>4, <3>1 DEF FieldsType, Merged
    <2>. QED
        BY <2>3, <2>4
<1>. QED
    BY <1>1, <1>2

ClientSpan(y, i, via, verdict, reused, n) ==
    /\ y.kind = "client" /\ y.via = via /\ y.service = spans[i].service /\ y.caller = i
    /\ y.bag = spans[i].bag /\ y.asked = verdict /\ y.inContext = n /\ y.reused = reused
    /\ y.md = InjectVia(via, Overruled(y.ctx, verdict), BaseMetadata(reused))
    /\ y.fields = WithBaggage(via, spans[i].bag, BaseFields(reused))
    /\ y.ctx.debug = spans[i].ctx.debug
    /\ Decided(spans[i].ctx) => y.ctx.sampled = spans[i].ctx.sampled

\* What Call puts into a span.
Requested(r, y, bag, md, fields, asked, context, reused) ==
    /\ y.bag = bag /\ y.md = md /\ y.fields = fields /\ y.asked = asked
    /\ y.inContext = context /\ y.reused = reused
    /\ y.kind = r.kind /\ y.via = r.via /\ y.service = r.service /\ y.caller = r.caller
    /\ y.ctx = r.ctx

LEMMA CallFacts ==
    ASSUME IInv, NEW i \in Handlers, NEW via \in {"http", "grpc"},
           NEW verdict \in VerdictsVia(spans[i].service, via),
           NEW decision \in Tracers[spans[i].service].sampler,
           NEW reused \in Reusable(i, via), Call(i, via, verdict, decision, reused),
           NEW n, n = Len(spans) + 1
    PROVE  /\ ended' = Append(ended, NotEnded) /\ UNCHANGED <<noop, bags, writes>>
           /\ \E y \in SpanType :
                spans' = Append(spans, y) /\ ClientSpan(y, i, via, verdict, reused, n)
<1>1. PICK up \in SpanType : up = spans[i] /\ i \in Index
    BY IndexFacts DEF Handlers
<1>2. PICK s \in Services : s = up.service
    BY <1>1 DEF Handlers, IInv, Called
<1>3. PICK ctx : ctx = StartedContext(Tracers[s], noop[s], "client", up.ctx, decision, n)
    OBVIOUS
<1>4. PICK silent : silent = IsNoop(Tracers[s], noop[s], ctx)
    OBVIOUS
<1>5. PICK r : r = SpanOf("client", via, s, i, ctx)
    OBVIOUS
<1>6. PICK base : base = IF reused = 0 THEN r ELSE spans[reused]
    OBVIOUS
<1>7. PICK md : md = InjectVia(via, Overruled(ctx, verdict), base.md)
    OBVIOUS
<1>8. PICK fields : fields = WithBaggage(via, up.bag, base.fields)
    OBVIOUS
<1>9. PICK y : y = [r EXCEPT !.noop = silent, !.bag = up.bag, !.asked = verdict, !.md = md,
                             !.fields = fields, !.inContext = InContext(i, @), !.reused = reused]
    OBVIOUS
<1>10. /\ spans' = Append(spans, y)
       /\ ended' = Append(ended, NotEnded) /\ UNCHANGED <<noop, bags, writes>>
    BY <1>1, <1>2, <1>3, <1>4, <1>5, <1>6, <1>7, <1>8, <1>9, ZenonT(60) DEF Call, Log, NotEnded
<1>11. /\ n \in Nat /\ i \in Nat /\ noop[s] \in BOOLEAN /\ decision \in BOOLEAN
       /\ up.ctx \in ContextType /\ up.bag \in 0..Len(bags) /\ up.bag \in Nat
       /\ verdict \in BOOLEAN \cup {None}
    BY <1>1, <1>2, IndexFacts, TracerFacts, VerdictFacts, SMTT(30) DEF SpanType, IInv, Shapes, Bagged
<1>12. /\ ctx \in ContextType /\ ctx.debug = up.ctx.debug
       /\ Decided(up.ctx) => ctx.sampled = up.ctx.sampled
    BY <1>3, <1>11, StartedDecision
<1>13. r \in SpanType /\ Blank(r, "client", via, s, i, ctx, n)
    BY <1>5, <1>11, <1>12, SpanOfFields
<1>14. base.md = BaseMetadata(reused) /\ base.fields = BaseFields(reused)
    BY <1>6, <1>13 DEF Blank, BaseMetadata, BaseFields
<1>15. md \in Metadata
    <2>1. PICK old \in Metadata : old = base.md
        BY <1>14, BaseFacts
    <2>2. PICK over \in ContextType : over = Overruled(ctx, verdict)
        BY <1>11, <1>12, OverruledFacts
    <2>3. md = InjectVia(via, over, old)
        BY <1>7, <2>1, <2>2
    <2>. QED
        BY <2>3, InjectViaSeen
<1>16. fields \in FieldsType
    <2>1. PICK old \in FieldsType : old = base.fields
        BY <1>14, BaseFacts
    <2>2. PICK ref \in 0..Len(bags) : ref = up.bag
        BY <1>11
    <2>3. fields = WithBaggage(via, ref, old)
        BY <1>8, <2>1, <2>2
    <2>. QED
        BY <2>3, WithBaggageFields
<1>17. silent \in BOOLEAN
    BY <1>4, <1>11, TracerFacts DEF IsNoop
<1>18. y \in SpanType /\ Requested(r, y, up.bag, md, fields, verdict, n, reused)
    <2>1. PICK ref \in Nat : ref = up.bag
        BY <1>11
    <2>2. PICK context \in Nat : context = n
        BY <1>11
    <2>3. PICK again \in Nat : again = reused
        BY <1>11, BaseFacts
    <2>4. y = [r EXCEPT !.noop = silent, !.bag = ref, !.asked = verdict, !.md = md,
                        !.fields = fields, !.inContext = context, !.reused = again]
        BY <1>9, <1>13, <2>1, <2>2, <2>3 DEF InContext, Blank
    <2>5. y \in SpanType /\ Requested(r, y, ref, md, fields, verdict, context, again)
        BY <1>11, <1>13, <1>15, <1>16, <1>17, <2>4, ZenonT(60) DEF SpanType, Requested
    <2>. QED
        BY <2>1, <2>2, <2>3, <2>5
<1>19. ClientSpan(y, i, via, verdict, reused, n)
    BY <1>1, <1>2, <1>7, <1>8, <1>12, <1>13, <1>14, <1>18 DEF ClientSpan, Blank, Requested
<1>. QED
    BY <1>10, <1>18, <1>19

LEMMA CallStep ==
    ASSUME IInv, NEW i \in Handlers, NEW via \in {"http", "grpc"},
           NEW verdict \in VerdictsVia(spans[i].service, via),
           NEW decision \in Tracers[spans[i].service].sampler,
           NEW reused \in Reusable(i, via), Call(i, via, verdict, decision, reused)
    PROVE  IInv'
<1>1. PICK n : n = Len(spans) + 1
    OBVIOUS
<1>2. PICK y \in SpanType :
        spans' = Append(spans, y) /\ ClientSpan(y, i, via, verdict, reused, n)
    BY <1>1, CallFacts
<1>3. ended' = Append(ended, [code |-> None, reported |-> None]) /\ UNCHANGED <<noop, bags>>
    BY <1>1, CallFacts DEF NotEnded
<1>4. PICK up \in SpanType : up = spans[i] /\ i \in Index /\ up.kind = "server"
    BY IndexFacts DEF Handlers
<1>5. /\ i \in Nat /\ i >= 1 /\ i < n /\ n \in Nat /\ spans'[n] = y /\ spans'[i] = up
      /\ up.service \in Services /\ reused \in 0..(n - 1)
    BY <1>1, <1>2, <1>4, AppendFacts, BaseFacts DEF IInv, Called
<1>6. /\ y.kind = "client" /\ y.via = via /\ y.service = up.service /\ y.caller = i
      /\ y.bag = up.bag /\ y.asked = verdict /\ y.inContext = n /\ y.reused = reused
      /\ y.md = InjectVia(via, Overruled(y.ctx, verdict), BaseMetadata(reused))
      /\ y.ctx.debug = up.ctx.debug
      /\ Decided(up.ctx) => y.ctx.sampled = up.ctx.sampled
    BY <1>2, <1>4 DEF ClientSpan
<1>7. Called(n)'
    <2>1. 0 \in 0..(n - 1) /\ i \in 0..(n - 1) /\ i # 0
        BY <1>5
    <2>. QED
        BY <1>4, <1>5, <1>6, <2>1 DEF Called
<1>8. Bagged(n)'
    <2>1. Bagged(i)
        BY <1>4 DEF IInv
    <2>. QED
        BY <1>3, <1>4, <1>5, <1>6, <2>1 DEF Bagged
<1>9. Sent(n)'
    <2>1. PICK over : over = Overruled(y.ctx, verdict)
        OBVIOUS
    <2>2. y.ctx \in ContextType /\ verdict \in BOOLEAN \cup {None} /\ None \notin BOOLEAN
        BY <1>4, <1>5, VerdictFacts, NoneGarbageAssumption DEF SpanType
    <2>3. /\ over \in ContextType /\ over.debug = y.ctx.debug
          /\ over.sampled = IF verdict # None THEN verdict ELSE y.ctx.sampled
        BY <2>1, <2>2, OverruledFacts
    <2>4. PICK base \in Metadata : base = BaseMetadata(reused)
        BY <1>1, BaseFacts
    <2>5. up.ctx.debug => Seen(via, base).sampled # Garbage
        BY <1>1, <1>4, <2>4, BaseFacts
    <2>6. PICK h : h = Seen(via, y.md)
        OBVIOUS
    <2>7. /\ y.md \in Metadata
          /\ over.debug => h.flags = "1" /\ h.sampled = Seen(via, base).sampled
          /\ ~over.debug /\ over.sampled # None => h.sampled = Digit(over.sampled)
          /\ ~over.debug => h.flags = Seen(via, base).flags
        BY <1>6, <2>1, <2>3, <2>4, <2>6, InjectViaSeen
    <2>8. y.ctx.debug => h.sampled # Garbage
        BY <1>6, <2>3, <2>5, <2>7
    <2>9. ASSUME Decided(y.ctx), ~y.ctx.debug, ~Stale(n)'
          PROVE  /\ h.sampled # Garbage /\ h.flags = None
                 /\ h.sampled = Digit(IF y.asked # None THEN y.asked ELSE y.ctx.sampled)
        <3>1. over.sampled # None
            BY <2>2, <2>3, <2>9 DEF Decided
        <3>2. h.sampled = Digit(over.sampled)
            BY <2>3, <2>7, <2>9, <3>1
        <3>3. Digit(over.sampled) # Garbage
            BY NoneGarbageAssumption DEF Digit
        <3>4. h.flags = None
            <4>1. CASE reused = 0
                <5>1. base = <<NoHeaders>>
                    BY <2>4, <4>1 DEF BaseMetadata
                <5>2. \A k \in DOMAIN base : base[k].flags = None
                    BY <5>1 DEF NoHeaders
                <5>3. Seen(via, base).flags = None
                    BY <5>2, SeenType
                <5>. QED
                    BY <2>3, <2>7, <2>9, <5>3
            <4>2. CASE reused # 0
                <5>1. \A k \in DOMAIN y.md : y.md[k].flags = None
                    BY <1>5, <1>6, <2>9, <4>2 DEF Stale
                <5>. QED
                    BY <2>6, <2>7, <5>1, SeenType
            <4>. QED
                BY <4>1, <4>2
        <3>. QED
            BY <1>6, <2>3, <3>2, <3>3, <3>4
    <2>10. y.ctx.debug => h.flags = "1"
        BY <2>3, <2>7
    <2>. QED
        BY <1>5, <1>6, <2>6, <2>8, <2>9, <2>10 DEF Sent
<1>10. Precedence(n)'
    <2>1. Decided(up.ctx) => MustCollect(y.ctx) = MustCollect(up.ctx)
        BY <1>6, DecisionStays
    <2>. QED
        BY <1>4, <1>5, <1>6, <2>1 DEF Precedence
<1>. QED
    BY <1>1, <1>2, <1>3, <1>7, <1>8, <1>9, <1>10, SameBags, AppendStep

-----------------------------------------------------------------------------
(* The theorems.                                                             *)

LEMMA InitInvariant == Init => IInv
<1>. SUFFICES ASSUME Init PROVE IInv
    OBVIOUS
<1>1. spans = <<>> /\ bags = <<>> /\ ended = <<>> /\ noop = [s \in Services |-> Tracers[s].noop]
    BY DEF Init
<1>2. noop \in [Services -> BOOLEAN]
    BY <1>1, TracerFacts
<1>3. Shapes
    BY <1>1, <1>2 DEF Shapes
<1>4. Index = {} /\ DOMAIN bags = {}
    BY <1>1 DEF Index
<1>. QED
    BY <1>3, <1>4 DEF IInv

LEMMA NextInvariant == IInv /\ [Next]_vars => IInv'
<1>. SUFFICES ASSUME IInv, [Next]_vars PROVE IInv'
    OBVIOUS
<1>1. ASSUME NEW s \in Services, SetNoop(s) PROVE IInv'
    BY <1>1, SetNoopStep
<1>2. ASSUME NEW via \in {"http", "grpc"}, NEW sc \in EdgeContexts, EdgeCall(via, sc) PROVE IInv'
    BY <1>2, EdgeCallStep
<1>3. ASSUME NEW s \in Services, NEW i \in Requests(s), NEW verdict \in VerdictsVia(s, Via[s]),
             NEW decision \in Tracers[s].sampler, NEW md \in Arrivals(spans[i].md),
             Serve(s, i, verdict, decision, md)
      PROVE  IInv'
    BY <1>3, ServeStep
<1>4. ASSUME NEW i \in Index, NEW op \in {"add", "set", "delete"}, NEW key \in Keys,
             Write(i, op, key)
      PROVE  IInv'
    BY <1>4, WriteStep
<1>5. ASSUME NEW i \in Handlers, NEW via \in {"http", "grpc"},
             NEW verdict \in VerdictsVia(spans[i].service, via),
             NEW decision \in Tracers[spans[i].service].sampler, NEW reused \in Reusable(i, via),
             Call(i, via, verdict, decision, reused)
      PROVE  IInv'
    BY <1>5, CallStep
<1>6. ASSUME NEW i \in Index, NEW code \in {"ok", "error"}, End(i, code) PROVE IInv'
    BY <1>6, EndStep
<1>7. CASE UNCHANGED vars
    <2>1. UNCHANGED <<noop, spans, bags, ended>> /\ Index' = Index
        BY <1>7 DEF vars, Index
    <2>2. Shapes' /\ \A k \in DOMAIN bags' : RegisteredOnly(bags'[k])
        BY <2>1 DEF IInv, Shapes
    <2>3. ASSUME NEW i \in Index'
          PROVE  Called(i)' /\ Bagged(i)' /\ Reported(i)' /\ Sent(i)' /\ Precedence(i)'
        <3>1. Len(bags') \in Nat /\ Len(bags') >= Len(bags)
            BY <2>1, IndexFacts
        <3>2. Reported(i)'
            BY <2>1 DEF IInv, Reported
        <3>. QED
            BY <2>1, <3>1, <3>2, OtherSpans
    <2>. QED
        BY <2>2, <2>3 DEF IInv
<1>. QED
    BY <1>1, <1>2, <1>3, <1>4, <1>5, <1>6, <1>7 DEF Next

\* The invariant holds in every reachable state, of handleRPC, TagRPC, ServeHTTP and
\* RoundTrip in any order.
THEOREM Invariance == Spec => []IInv
BY InitInvariant, NextInvariant, PTL DEF Spec

LEMMA InvariantTypes == IInv => TypeOK
<1>. SUFFICES ASSUME IInv PROVE TypeOK
    OBVIOUS
<1>1. noop \in [Services -> BOOLEAN] /\ Len(ended) = Len(spans)
    BY DEF IInv, Shapes
<1>2. ASSUME NEW i \in Index
      PROVE  /\ spans[i].caller \in 0..(i - 1)
             /\ spans[i].bag \in 0..Len(bags)
             /\ spans[i].bag # 0 => bags[spans[i].bag].registry = Registry[spans[i].service]
             /\ spans[i].inContext \in 1..i
             /\ ended[i].code \in {None, "ok", "error"}
             /\ ended[i].reported \in {None, "ok", "error"}
    <2>1. i \in Nat /\ i >= 1 /\ ended[i] \in EndType /\ Called(i) /\ Bagged(i)
        BY IndexFacts DEF IInv
    <2>. QED
        BY <2>1 DEF Called, Bagged, EndType
<1>3. \A k \in DOMAIN bags :
        \A key \in Keys : bags[k].fields[key] # <<>> => key \in bags[k].registry
    BY DEF IInv, RegisteredOnly
<1>. QED
    BY <1>1, <1>2, <1>3 DEF TypeOK

\* Spans refer to spans before them and to baggage of their own service's handler,
\* which holds registered fields only.
THEOREM TypeCorrect == Spec => []TypeOK
BY Invariance, InvariantTypes, PTL

LEMMA InvariantPrecedence == IInv => SamplerPrecedence
<1>. SUFFICES ASSUME IInv, NEW i \in Index, spans[i].caller # 0,
                     Decided(spans[spans[i].caller].ctx)
              PROVE  LET sp == spans[i]
                         up == spans[sp.caller]
                     IN  /\ sp.kind = "client" => MustCollect(sp.ctx) = MustCollect(up.ctx)
                         /\ sp.kind = "server" /\ sp.whole /\ sp.read # "asleep"
                            /\ ~Stale(sp.caller) =>
                              /\ sp.read = "ok"
                              /\ MustCollect(sp.ctx) =
                                CASE up.ctx.debug -> TRUE
                                  [] ~up.ctx.debug /\ sp.asked # None -> sp.asked
                                  [] ~up.ctx.debug /\ sp.asked = None /\ up.asked # None -> up.asked
                                  [] OTHER -> MustCollect(up.ctx)
    BY DEF SamplerPrecedence
<1>1. Precedence(i)
    BY DEF IInv
<1>. QED
    BY <1>1 DEF Precedence

\* Debug above all, then the server's request sampler, the client's, and the decision
\* of the client's span, whatever is reused, retried or damaged on other paths.
THEOREM SamplersPrecede == Spec => []SamplerPrecedence
BY Invariance, InvariantPrecedence, PTL

\* A span is reported when its RPC ends, with its own status, and never before.
THEOREM ReportsAtEnd == Spec => []ReportedAtEnd
<1>1. IInv => ReportedAtEnd
    BY DEF IInv, Reported, ReportedAtEnd
<1>. QED
    BY <1>1, Invariance, PTL

-----------------------------------------------------------------------------
(* Baggage.                                                                  *)

\* Every path starts at the edge.
FromEdge(i) == \E e \in Path[i] : spans[e].kind = "edge"

\* A request has values of its caller's path.
OwnFields(i) ==
    \A key \in Keys : \A k \in DOMAIN spans[i].fields[key] :
        spans[i].fields[key][k] \in
            IF spans[i].kind = "edge" THEN {i} ELSE Path[spans[i].caller]

\* A server has an object, if it read the request and keeps baggage, with values of
\* its path.
OwnBag(i) ==
    spans[i].kind = "server" =>
        /\ spans[i].bag = 0 <=> spans[i].read = "error" \/ Registry[spans[i].service] = None
        /\ spans[i].bag # 0 =>
            \A key \in Keys : \A k \in DOMAIN bags[spans[i].bag].fields[key] :
                bags[spans[i].bag].fields[key][k] \in Path[i]

\* No two servers have the same object.
BagsApart ==
    \A i, j \in Index :
        spans[i].kind = "server" /\ spans[j].kind = "server"
        /\ spans[i].bag = spans[j].bag /\ spans[i].bag # 0 => i = j

Holds(values, e) == \E k \in DOMAIN values : values[k] = e
HoldsOnce(values, e) == \E k \in DOMAIN values : \A l \in DOMAIN values : values[l] = e <=> l = k

\* No request of the path was made from the headers of another.
FromScratch(i) == \A j \in Path[i] : spans[j].via = "http" => spans[j].reused = 0

\* What the edge sent is still there.
Carried(i) ==
    \A key \in Keys, e \in Path[i] :
        spans[e].kind = "edge" /\ Kept(i, key) =>
            /\ Holds(Values(i, key), e)
            /\ FromScratch(i) => HoldsOnce(Values(i, key), e)

BaggageInv ==
    /\ \A i \in Index : FromEdge(i) /\ OwnFields(i) /\ OwnBag(i) /\ Carried(i)
    /\ BagsApart

\* Path is what its recursion says, and goes back in time.
PathRight ==
    \A i \in Index :
        /\ Path[i] = {i} \cup IF spans[i].caller = 0 THEN {} ELSE Path[spans[i].caller]
        /\ i \in Path[i] /\ Path[i] \subseteq 1..i

LEMMA PathEquation == IInv => PathRight
<1>. SUFFICES ASSUME IInv PROVE PathRight
    OBVIOUS
<1>. DEFINE Closed(T) == \A j \in T : spans[j].caller # 0 => spans[j].caller \in T
            Chain(i) == {j \in Index : \A T \in SUBSET Index : i \in T /\ Closed(T) => j \in T}
            chain == [i \in Index |-> Chain(i)]
            Step(f) == [i \in Index |->
                        {i} \cup IF spans[i].caller = 0 THEN {} ELSE f[spans[i].caller]]
<1>1. \A i \in Index :
        /\ i \in Nat /\ i >= 1
        /\ spans[i].caller # 0 =>
            spans[i].caller \in Index /\ spans[i].caller < i /\ spans[i].caller \in Nat
    <2>1. \A i \in Index : spans[i].caller \in 0..(i - 1)
        BY DEF IInv, Called
    <2>. QED
        BY <2>1, IndexFacts DEF Index
<1>2. ASSUME NEW i \in Index, spans[i].caller = 0
      PROVE  Chain(i) = {i}
    <2>1. Closed({i})
        BY <1>2
    <2>. QED
        BY <2>1
<1>3. ASSUME NEW i \in Index, spans[i].caller # 0
      PROVE  Chain(i) = {i} \cup Chain(spans[i].caller)
    <2>1. PICK c \in Index : c = spans[i].caller
        BY <1>1, <1>3
    <2>2. Closed({i} \cup Chain(c))
        <3>1. ASSUME NEW j \in Chain(c), spans[j].caller # 0 PROVE spans[j].caller \in Chain(c)
            BY <1>1, <3>1
        <3>2. c \in Chain(c)
            OBVIOUS
        <3>. HIDE DEF Chain
        <3>. QED
            BY <2>1, <3>1, <3>2
    <2>3. Chain(i) \subseteq {i} \cup Chain(c)
        <3>1. {i} \cup Chain(c) \in SUBSET Index
            OBVIOUS
        <3>2. \A T \in SUBSET Index : i \in T /\ Closed(T) => Chain(i) \subseteq T
            OBVIOUS
        <3>. HIDE DEF Chain, Closed
        <3>. QED
            BY <2>2, <3>1, <3>2
    <2>4. Chain(c) \subseteq Chain(i)
        BY <1>3, <2>1
    <2>5. i \in Chain(i)
        OBVIOUS
    <2>. HIDE DEF Chain
    <2>. QED
        BY <2>1, <2>3, <2>4, <2>5
<1>4. chain = Step(chain)
    <2>. HIDE DEF Chain
    <2>1. \A i \in Index : chain[i] = Chain(i)
        OBVIOUS
    <2>2. \A i \in Index :
            Chain(i) = {i} \cup IF spans[i].caller = 0 THEN {} ELSE chain[spans[i].caller]
        BY <1>1, <1>2, <1>3, <2>1
    <2>3. chain = [i \in Index |-> Chain(i)]
        OBVIOUS
    <2>. HIDE DEF chain
    <2>. QED
        BY <2>2, <2>3
<1>. HIDE DEF chain
<1>5. Path = Step(Path)
    BY <1>4 DEF Path
<1>6. \A i \in Index :
        Path[i] = {i} \cup IF spans[i].caller = 0 THEN {} ELSE Path[spans[i].caller]
    BY <1>5
<1>7. ASSUME NEW bad, bad = {i \in Index : ~(Path[i] \subseteq 1..i)}, bad # {}
      PROVE  FALSE
    <2>1. PICK i \in bad : \A j \in bad : i <= j
        BY <1>1, <1>7, Smallest
    <2>2. i \in Index /\ ~(Path[i] \subseteq 1..i)
        BY <1>7, <2>1
    <2>3. CASE spans[i].caller = 0
        <3>1. Path[i] = {i}
            BY <1>6, <2>2, <2>3
        <3>. QED
            BY <1>1, <2>2, <3>1
    <2>4. CASE spans[i].caller # 0
        <3>1. PICK c \in Index : c = spans[i].caller /\ c < i /\ c \in Nat
            BY <1>1, <2>2, <2>4
        <3>2. c \notin bad
            BY <1>1, <2>1, <2>2, <3>1
        <3>3. Path[c] \subseteq 1..c
            BY <1>7, <3>1, <3>2
        <3>4. Path[i] = {i} \cup Path[c]
            BY <1>6, <2>2, <2>4, <3>1
        <3>. QED
            BY <1>1, <2>2, <3>1, <3>3, <3>4
    <2>. QED
        BY <2>3, <2>4
<1>8. \A i \in Index : Path[i] \subseteq 1..i
    BY <1>7
<1>. QED
    BY <1>6, <1>8 DEF PathRight

\* Spans that stay keep their paths.
LEMMA PathStays ==
    ASSUME IInv, IInv', Index \subseteq Index', \A i \in Index : spans'[i] = spans[i]
    PROVE  PathRight /\ PathRight' /\ \A i \in Index : Path'[i] = Path[i]
<1>1. PathRight /\ PathRight'
    BY PathEquation, PTL
<1>2. \A i \in Index :
        /\ i \in Nat
        /\ spans[i].caller # 0 =>
            spans[i].caller \in Index /\ spans[i].caller < i /\ spans[i].caller \in Nat
    <2>1. \A i \in Index : spans[i].caller \in 0..(i - 1)
        BY DEF IInv, Called
    <2>. QED
        BY <2>1, IndexFacts DEF Index
<1>3. ASSUME NEW bad, bad = {i \in Index : Path'[i] # Path[i]}, bad # {} PROVE FALSE
    <2>1. PICK i \in bad : \A j \in bad : i <= j
        BY <1>2, <1>3, Smallest
    <2>2. i \in Index /\ i \in Index' /\ Path'[i] # Path[i] /\ spans'[i] = spans[i]
        BY <1>3, <2>1
    <2>3. Path[i] = {i} \cup IF spans[i].caller = 0 THEN {} ELSE Path[spans[i].caller]
        BY <1>1, <2>2 DEF PathRight
    <2>4. Path'[i] = {i} \cup IF spans[i].caller = 0 THEN {} ELSE Path'[spans[i].caller]
        BY <1>1, <2>2 DEF PathRight
    <2>5. spans[i].caller # 0 => Path'[spans[i].caller] = Path[spans[i].caller]
        BY <1>2, <1>3, <2>1, <2>2
    <2>. QED
        BY <2>2, <2>3, <2>4, <2>5
<1>. QED
    BY <1>1, <1>3

\* The path of a caller is part of the path.
LEMMA PathOfCaller ==
    ASSUME IInv, PathRight, NEW i \in Index
    PROVE  /\ i \in Path[i] /\ Path[i] \subseteq Index
           /\ spans[i].caller # 0 =>
                /\ spans[i].caller \in Index
                /\ Path[i] = {i} \cup Path[spans[i].caller]
                /\ Path[spans[i].caller] \subseteq Path[i]
                /\ \A key : Kept(i, key) => Kept(spans[i].caller, key)
                /\ FromScratch(i) => FromScratch(spans[i].caller)
           /\ spans[i].caller = 0 => Path[i] = {i}
<1>1. /\ i \in Path[i] /\ Path[i] \subseteq 1..i
      /\ Path[i] = {i} \cup IF spans[i].caller = 0 THEN {} ELSE Path[spans[i].caller]
    BY DEF PathRight
<1>2. i \in 1..Len(spans) /\ Len(spans) \in Nat /\ spans[i].caller \in 0..(i - 1)
    BY IndexFacts DEF IInv, Called, Index
<1>3. Path[i] \subseteq Index /\ (spans[i].caller # 0 => spans[i].caller \in Index)
    BY <1>1, <1>2 DEF Index
<1>4. ASSUME spans[i].caller # 0
      PROVE  /\ \A key : Kept(i, key) => Kept(spans[i].caller, key)
             /\ FromScratch(i) => FromScratch(spans[i].caller)
    <2>1. Path[spans[i].caller] \subseteq Path[i]
        BY <1>1, <1>4
    <2>. QED
        BY <2>1 DEF Kept, FromScratch
<1>. QED
    BY <1>1, <1>3, <1>4

\* A span that stays.
LEMMA StillThere ==
    ASSUME IInv, IInv', BaggageInv, Index \subseteq Index',
           \A i \in Index : spans'[i] = spans[i], writes \subseteq writes',
           NEW i \in Index
    PROVE  /\ PathRight /\ Path'[i] = Path[i] /\ FromEdge(i)' /\ OwnFields(i)'
           /\ \A j \in Path[i] : spans'[j] = spans[j]
           /\ \A key : Kept(i, key)' => Kept(i, key)
           /\ FromScratch(i)' => FromScratch(i)
<1>1. PathRight /\ \A j \in Index : Path'[j] = Path[j]
    BY PathStays
<1>2. FromEdge(i) /\ OwnFields(i)
    BY DEF BaggageInv
<1>3. Path'[i] = Path[i] /\ spans'[i] = spans[i] /\ \A j \in Path[i] : spans'[j] = spans[j]
    BY <1>1, PathOfCaller
<1>4. FromEdge(i)'
    BY <1>2, <1>3 DEF FromEdge
<1>5. OwnFields(i)'
    <2>1. CASE spans[i].kind = "edge"
        BY <1>2, <1>3, <2>1 DEF OwnFields
    <2>2. CASE spans[i].kind # "edge"
        <3>1. spans[i].caller \in Index
            <4>1. spans[i].caller # 0
                BY <2>2 DEF IInv, Called
            <4>. QED
                BY <1>1, <4>1, PathOfCaller
        <3>2. Path'[spans[i].caller] = Path[spans[i].caller]
            BY <1>1, <3>1
        <3>. QED
            BY <1>2, <1>3, <2>2, <3>2 DEF OwnFields
    <2>. QED
        BY <2>1, <2>2
<1>6. \A key : Kept(i, key)' => Kept(i, key)
    BY <1>3 DEF Kept
<1>7. FromScratch(i)' => FromScratch(i)
    BY <1>3 DEF FromScratch
<1>. QED
    BY <1>1, <1>3, <1>4, <1>5, <1>6, <1>7

\* And its object too.
LEMMA StillCarried ==
    ASSUME IInv, IInv', BaggageInv, Index \subseteq Index',
           \A i \in Index : spans'[i] = spans[i], writes \subseteq writes',
           NEW i \in Index,
           spans[i].kind = "server" /\ spans[i].bag # 0 =>
                bags'[spans[i].bag] = bags[spans[i].bag]
    PROVE  FromEdge(i)' /\ OwnFields(i)' /\ OwnBag(i)' /\ Carried(i)'
<1>1. /\ PathRight /\ Path'[i] = Path[i] /\ FromEdge(i)' /\ OwnFields(i)'
      /\ \A j \in Path[i] : spans'[j] = spans[j]
      /\ \A key : Kept(i, key)' => Kept(i, key)
      /\ FromScratch(i)' => FromScratch(i)
    BY StillThere
<1>2. OwnBag(i) /\ Carried(i)
    BY DEF BaggageInv
<1>3. OwnBag(i)'
    BY <1>1, <1>2 DEF OwnBag
<1>4. \A key : Values(i, key)' = Values(i, key)
    BY <1>1 DEF Values
<1>5. Carried(i)'
    BY <1>1, <1>2, <1>4 DEF Carried, Holds, HoldsOnce
<1>. QED
    BY <1>1, <1>3, <1>5

\* The path of a span that is started.
Continued(n, i) ==
    /\ Path'[n] = {n} \cup Path[i] /\ Path[i] \subseteq Index /\ n \notin Index
    /\ \A j \in Path[i] : spans'[j] = spans[j]
    /\ Path'[i] = Path[i]
    /\ \A key : Kept(n, key)' => Kept(i, key)
    /\ FromScratch(n)' => FromScratch(i)

LEMMA StartedPath ==
    ASSUME IInv, IInv', NEW y \in SpanType, NEW n, n = Len(spans) + 1,
           spans' = Append(spans, y), UNCHANGED writes, NEW i, i = y.caller
    PROVE  /\ PathRight /\ Index' = Index \cup {n} /\ n \in Nat /\ n \notin Index /\ spans'[n] = y
           /\ i = 0 => Path'[n] = {n}
           /\ i # 0 => i \in Index /\ Continued(n, i)
<1>1. /\ Index' = Index \cup {n} /\ n \in Nat /\ n >= 1 /\ spans'[n] = y
      /\ \A j \in Index : spans'[j] = spans[j] /\ j < n /\ j \in Nat
      /\ Index = 1..Len(spans) /\ Len(spans) \in Nat
    BY AppendFacts, IndexFacts DEF Index
<1>2. PathRight /\ PathRight' /\ \A j \in Index : Path'[j] = Path[j]
    BY <1>1, PathStays
<1>3. Path'[n] = {n} \cup IF i = 0 THEN {} ELSE Path'[i]
    BY <1>1, <1>2 DEF PathRight
<1>4. i # 0 => i \in Index
    <2>1. i \in 0..(n - 1)
        BY <1>1, ZenonT(60) DEF IInv, Called
    <2>. QED
        BY <1>1, <2>1
<1>5. n \notin Index
    BY <1>1
<1>6. ASSUME i # 0 PROVE Continued(n, i)
    <2>1. Path'[i] = Path[i] /\ Path[i] \subseteq Index
        BY <1>2, <1>4, <1>6, PathOfCaller
    <2>2. Path'[n] = {n} \cup Path[i]
        BY <1>3, <1>6, <2>1
    <2>3. \A j \in Path[i] : spans'[j] = spans[j]
        BY <1>1, <2>1
    <2>4. ASSUME NEW key, Kept(n, key)' PROVE Kept(i, key)
        <3>1. ASSUME NEW j \in Path[i], spans[j].kind = "server"
              PROVE  /\ spans[j].read # "error"
                     /\ Registry[spans[j].service] # None /\ key \in Registry[spans[j].service]
                     /\ \A w \in writes : w.by = j /\ w.key = key => w.op = "add"
            <4>1. j \in Path'[n] /\ spans'[j] = spans[j]
                BY <2>2, <2>3
            <4>. QED
                BY <2>4, <3>1, <4>1 DEF Kept
        <3>. QED
            BY <3>1 DEF Kept
    <2>5. FromScratch(n)' => FromScratch(i)
        BY <2>2, <2>3 DEF FromScratch
    <2>. QED
        BY <1>5, <2>1, <2>2, <2>3, <2>4, <2>5 DEF Continued
<1>. QED
    BY <1>1, <1>2, <1>3, <1>4, <1>5, <1>6

LEMMA StartCarried ==
    ASSUME IInv, IInv', BaggageInv, NEW y \in SpanType, NEW n, n = Len(spans) + 1,
           spans' = Append(spans, y), UNCHANGED writes,
           \A k \in DOMAIN bags : bags'[k] = bags[k],
           y.kind = "server" /\ y.bag # 0 => y.bag = Len(bags) + 1,
           FromEdge(n)', OwnFields(n)', OwnBag(n)', Carried(n)'
    PROVE  BaggageInv'
<1>1. /\ Index' = Index \cup {n} /\ spans'[n] = y
      /\ \A i \in Index : spans'[i] = spans[i]
    BY AppendFacts
<1>2. \A i \in Index : spans[i].bag \in 0..Len(bags)
    BY DEF IInv, Bagged
<1>3. ASSUME NEW i \in Index PROVE FromEdge(i)' /\ OwnFields(i)' /\ OwnBag(i)' /\ Carried(i)'
    <2>1. spans[i].bag # 0 => bags'[spans[i].bag] = bags[spans[i].bag]
        BY <1>2, IndexFacts
    <2>. QED
        BY <1>1, <2>1, StillCarried
<1>4. BagsApart'
    <2>1. BagsApart /\ Len(bags) \in Nat
        BY IndexFacts DEF BaggageInv
    <2>2. ASSUME NEW i \in Index, y.kind = "server", y.bag # 0 PROVE y.bag # spans[i].bag
        BY <1>2, <2>1, <2>2
    <2>3. ASSUME NEW i \in Index', NEW j \in Index', i # j,
                 spans'[i].kind = "server", spans'[j].kind = "server",
                 spans'[i].bag = spans'[j].bag, spans'[i].bag # 0
          PROVE  FALSE
        <3>1. CASE i = n
            BY <1>1, <2>2, <2>3, <3>1
        <3>2. CASE j = n
            BY <1>1, <2>2, <2>3, <3>2
        <3>3. CASE i # n /\ j # n
            BY <1>1, <2>1, <2>3, <3>3 DEF BagsApart
        <3>. QED
            BY <3>1, <3>2, <3>3
    <2>. QED
        BY <2>3 DEF BagsApart
<1>. QED
    BY <1>1, <1>3, <1>4 DEF BaggageInv

LEMMA FieldsOnPath ==
    ASSUME IInv, PathRight, BaggageInv, NEW i \in Index, NEW key \in Keys
    PROVE  /\ \A k \in DOMAIN spans[i].fields[key] : spans[i].fields[key][k] \in Path[i]
           /\ \A k \in DOMAIN Values(i, key) : Values(i, key)[k] \in Path[i]
<1>1. OwnFields(i) /\ OwnBag(i)
    BY DEF BaggageInv
<1>2. \A k \in DOMAIN spans[i].fields[key] : spans[i].fields[key][k] \in Path[i]
    <2>1. CASE spans[i].kind = "edge"
        <3>1. i \in Path[i]
            BY PathOfCaller
        <3>. QED
            BY <1>1, <2>1, <3>1 DEF OwnFields
    <2>2. CASE spans[i].kind # "edge"
        <3>1. Path[spans[i].caller] \subseteq Path[i]
            <4>1. spans[i].caller # 0
                BY <2>2 DEF IInv, Called
            <4>. QED
                BY <4>1, PathOfCaller
        <3>. QED
            BY <1>1, <2>2, <3>1 DEF OwnFields
    <2>. QED
        BY <2>1, <2>2
<1>3. \A k \in DOMAIN Values(i, key) : Values(i, key)[k] \in Path[i]
    BY <1>1, <1>2 DEF Values, OwnBag
<1>. QED
    BY <1>2, <1>3

LEMMA EdgeCallCarried ==
    ASSUME IInv, IInv', BaggageInv, NEW via \in {"http", "grpc"}, NEW sc \in EdgeContexts,
           EdgeCall(via, sc)
    PROVE  BaggageInv'
<1>1. PICK n : n = Len(spans) + 1
    OBVIOUS
<1>2. PICK y \in SpanType : spans' = Append(spans, y) /\ EdgeSpan(y, via, sc, n)
    BY <1>1, EdgeCallFacts
<1>3. UNCHANGED <<bags, writes>>
    BY <1>1, EdgeCallFacts
<1>4. /\ y.kind = "edge" /\ y.caller = 0 /\ \A key \in Keys : y.fields[key] = <<n>>
    BY <1>2 DEF EdgeSpan
<1>5. spans'[n] = y /\ Path'[n] = {n}
    BY <1>1, <1>2, <1>3, <1>4, StartedPath
<1>6. FromEdge(n)' /\ OwnFields(n)' /\ OwnBag(n)'
    <2>1. FromEdge(n)'
        BY <1>4, <1>5 DEF FromEdge
    <2>2. OwnFields(n)'
        BY <1>4, <1>5 DEF OwnFields
    <2>3. OwnBag(n)'
        BY <1>4, <1>5 DEF OwnBag
    <2>. QED
        BY <2>1, <2>2, <2>3
<1>7. Carried(n)'
    <2>1. \A key \in Keys : Values(n, key)' = <<n>>
        BY <1>4, <1>5 DEF Values
    <2>2. Holds(<<n>>, n) /\ HoldsOnce(<<n>>, n)
        BY DEF Holds, HoldsOnce
    <2>. QED
        BY <1>5, <2>1, <2>2 DEF Carried
<1>8. \A k \in DOMAIN bags : bags'[k] = bags[k]
    BY <1>3
<1>. QED
    BY <1>1, <1>2, <1>3, <1>4, <1>6, <1>7, <1>8, StartCarried

LEMMA ServeCarried ==
    ASSUME IInv, IInv', BaggageInv, NEW s \in Services, NEW i \in Requests(s),
           NEW verdict \in VerdictsVia(s, Via[s]), NEW decision \in Tracers[s].sampler,
           NEW md \in Arrivals(spans[i].md), Serve(s, i, verdict, decision, md)
    PROVE  BaggageInv'
<1>1. PICK n : n = Len(spans) + 1
    OBVIOUS
<1>2. PICK y \in SpanType :
        /\ spans' = Append(spans, y)
        /\ ServerSpan(y, s, i, verdict, md, n)
        /\ ServerBag(y, s, i, bags')
    BY <1>1, ServeFacts
<1>3. UNCHANGED writes
    BY <1>1, ServeFacts
<1>4. PICK up \in SpanType : up = spans[i] /\ i \in Index /\ up.kind \in {"edge", "client"}
    BY IndexFacts DEF Requests
<1>5. /\ y.kind = "server" /\ y.service = s /\ y.caller = i /\ y.fields = up.fields
    BY <1>2, <1>4 DEF ServerSpan
<1>6. i # 0 /\ i \in Nat
    BY <1>4, IndexFacts
<1>7. PathRight /\ spans'[n] = y /\ Continued(n, i)
    BY <1>1, <1>2, <1>3, <1>5, <1>6, StartedPath
<1>8. up.fields \in FieldsType /\ spans[i].fields = up.fields
    BY <1>4 DEF SpanType
<1>9. /\ \A k \in DOMAIN bags : bags'[k] = bags[k]
      /\ y.bag = 0 <=> ~(y.read # "error" /\ Registry[s] # None)
      /\ y.bag # 0 =>
            /\ y.bag = Len(bags) + 1
            /\ \A key \in Keys : bags'[y.bag].fields[key] =
                    IF key \in Registry[s] THEN up.fields[key] ELSE <<>>
    BY <1>2, <1>4, <1>8, ServerBagFacts
<1>10. Path'[n] = {n} \cup Path[i] /\ Path'[i] = Path[i] /\ \A j \in Path[i] : spans'[j] = spans[j]
    BY <1>7 DEF Continued
<1>11. \A key \in Keys : \A k \in DOMAIN up.fields[key] : up.fields[key][k] \in Path[i]
    BY <1>4, <1>7, FieldsOnPath
<1>12. FromEdge(n)'
    BY <1>4, <1>10 DEF FromEdge, BaggageInv
<1>13. OwnFields(n)'
    BY <1>5, <1>7, <1>10, <1>11 DEF OwnFields
<1>14. OwnBag(n)'
    <2>1. ASSUME y.bag # 0, NEW key \in Keys, NEW k \in DOMAIN bags'[y.bag].fields[key]
          PROVE  bags'[y.bag].fields[key][k] \in Path'[n]
        BY <1>9, <1>10, <1>11, <2>1
    <2>. QED
        BY <1>5, <1>7, <1>9, <2>1 DEF OwnBag
<1>15. Carried(n)'
    <2>. SUFFICES ASSUME NEW key \in Keys, NEW e \in Path'[n], spans'[e].kind = "edge",
                         Kept(n, key)'
                  PROVE  /\ Holds(Values(n, key)', e)
                         /\ FromScratch(n)' => HoldsOnce(Values(n, key)', e)
        BY DEF Carried, Holds, HoldsOnce
    <2>1. y.read # "error" /\ Registry[s] # None /\ key \in Registry[s]
        <3>1. n \in Path'[n]
            BY <1>10
        <3>. QED
            BY <1>5, <1>7, <3>1 DEF Kept
    <2>2. Values(n, key)' = up.fields[key]
        BY <1>5, <1>7, <1>9, <2>1 DEF Values
    <2>3. Values(i, key) = up.fields[key]
        BY <1>4 DEF Values
    <2>4. e \in Path[i] /\ spans[e].kind = "edge"
        BY <1>5, <1>7, <1>10
    <2>5. Kept(i, key) /\ (FromScratch(n)' => FromScratch(i))
        BY <1>7 DEF Continued
    <2>. QED
        BY <1>4, <2>2, <2>3, <2>4, <2>5 DEF BaggageInv, Carried
<1>. QED
    BY <1>1, <1>2, <1>3, <1>9, <1>12, <1>13, <1>14, <1>15, StartCarried

\* Values that are put together.
Parts(c, a, b) ==
    \A k \in DOMAIN c : (\E l \in DOMAIN a : c[k] = a[l]) \/ (\E l \in DOMAIN b : c[k] = b[l])

LEMMA Joined ==
    ASSUME NEW a \in Seq(Nat), NEW b \in Seq(Nat), NEW c, c = a \o b
    PROVE  /\ Parts(c, a, b)
           /\ \A e : Holds(b, e) => Holds(c, e)
           /\ a = <<>> => c = b
<1>1. /\ Len(a) \in Nat /\ Len(b) \in Nat /\ DOMAIN a = 1..Len(a) /\ DOMAIN b = 1..Len(b)
      /\ DOMAIN c = 1..(Len(a) + Len(b))
      /\ \A k \in 1..Len(a) : c[k] = a[k]
      /\ \A k \in (Len(a) + 1)..(Len(a) + Len(b)) : c[k] = b[k - Len(a)]
    OBVIOUS
<1>2. ASSUME NEW k \in DOMAIN c
      PROVE  (\E l \in DOMAIN a : c[k] = a[l]) \/ (\E l \in DOMAIN b : c[k] = b[l])
    <2>1. CASE k \in 1..Len(a)
        BY <1>1, <2>1
    <2>2. CASE k \notin 1..Len(a)
        <3>1. k \in (Len(a) + 1)..(Len(a) + Len(b)) /\ k - Len(a) \in DOMAIN b
            BY <1>1, <2>2
        <3>. QED
            BY <1>1, <3>1
    <2>. QED
        BY <2>1, <2>2
<1>3. ASSUME NEW e, NEW l \in DOMAIN b, b[l] = e PROVE Holds(c, e)
    <2>1. l + Len(a) \in DOMAIN c /\ l + Len(a) \in (Len(a) + 1)..(Len(a) + Len(b))
          /\ l + Len(a) - Len(a) = l
        BY <1>1
    <2>2. c[l + Len(a)] = e
        BY <1>1, <1>3, <2>1
    <2>. QED
        BY <2>1, <2>2 DEF Holds
<1>4. a = <<>> => c = b
    OBVIOUS
<1>. QED
    BY <1>2, <1>3, <1>4 DEF Holds, Parts

LEMMA Appended ==
    ASSUME NEW a \in Seq(Nat), NEW x \in Nat, NEW e, x # e, NEW c, c = Append(a, x)
    PROVE  (Holds(a, e) => Holds(c, e)) /\ (HoldsOnce(a, e) => HoldsOnce(c, e))
<1>1. /\ DOMAIN a = 1..Len(a) /\ Len(a) \in Nat
      /\ DOMAIN c = 1..(Len(a) + 1) /\ c[Len(a) + 1] = x
      /\ \A k \in 1..Len(a) : c[k] = a[k]
    OBVIOUS
<1>2. DOMAIN c = DOMAIN a \cup {Len(a) + 1} /\ Len(a) + 1 \notin DOMAIN a
    BY <1>1
<1>3. Holds(a, e) => Holds(c, e)
    BY <1>1, <1>2 DEF Holds
<1>4. ASSUME HoldsOnce(a, e) PROVE HoldsOnce(c, e)
    <2>1. PICK k \in DOMAIN a : \A l \in DOMAIN a : a[l] = e <=> l = k
        BY <1>4 DEF HoldsOnce
    <2>2. ASSUME NEW l \in DOMAIN c PROVE c[l] = e <=> l = k
        <3>1. CASE l = Len(a) + 1
            BY <1>1, <1>2, <2>1, <3>1
        <3>2. CASE l # Len(a) + 1
            <4>1. l \in DOMAIN a
                BY <1>2, <3>2
            <4>2. c[l] = a[l]
                BY <1>1, <4>1
            <4>. QED
                BY <2>1, <4>1, <4>2
        <3>. QED
            BY <3>1, <3>2
    <2>3. k \in DOMAIN c
        BY <1>2
    <2>. QED
        BY <2>2, <2>3 DEF HoldsOnce
<1>. QED
    BY <1>3, <1>4

\* What a client sends is of the server's path.
LEMMA SentOnPath ==
    ASSUME IInv, PathRight, BaggageInv, NEW i \in Handlers, NEW via \in {"http", "grpc"},
           NEW reused \in Reusable(i, via), NEW key \in Keys,
           NEW base, base = BaseFields(reused)[key]
    PROVE  /\ base \in Seq(Nat) /\ \A k \in DOMAIN base : base[k] \in Path[i]
           /\ reused = 0 => base = <<>>
<1>1. PICK n : n = Len(spans) + 1
    OBVIOUS
<1>2. /\ reused # 0 =>
            /\ reused \in Index
            /\ reused = i \/ (spans[reused].kind = "client" /\ spans[reused].caller = i)
      /\ BaseFields(reused) \in FieldsType
    BY <1>1, BaseFacts
<1>3. base \in Seq(Nat)
    BY <1>2 DEF FieldsType
<1>4. CASE reused = 0
    <2>1. base = <<>>
        BY <1>4 DEF BaseFields, NoFields
    <2>. QED
        BY <1>3, <2>1
<1>5. CASE reused # 0
    <2>1. base = spans[reused].fields[key]
        BY <1>5 DEF BaseFields
    <2>2. CASE reused = i
        BY <1>2, <1>3, <1>5, <2>1, <2>2, FieldsOnPath
    <2>3. CASE spans[reused].kind = "client" /\ spans[reused].caller = i
        <3>1. OwnFields(reused)
            BY <1>2, <1>5 DEF BaggageInv
        <3>. QED
            BY <1>3, <1>5, <2>1, <2>3, <3>1 DEF OwnFields
    <2>. QED
        BY <1>2, <1>5, <2>2, <2>3
<1>. QED
    BY <1>4, <1>5

LEMMA CallCarried ==
    ASSUME IInv, IInv', BaggageInv, NEW i \in Handlers, NEW via \in {"http", "grpc"},
           NEW verdict \in VerdictsVia(spans[i].service, via),
           NEW decision \in Tracers[spans[i].service].sampler,
           NEW reused \in Reusable(i, via), Call(i, via, verdict, decision, reused)
    PROVE  BaggageInv'
<1>1. PICK n : n = Len(spans) + 1
    OBVIOUS
<1>2. PICK y \in SpanType :
        spans' = Append(spans, y) /\ ClientSpan(y, i, via, verdict, reused, n)
    BY <1>1, CallFacts
<1>3. UNCHANGED <<bags, writes>>
    BY <1>1, CallFacts
<1>4. PICK up \in SpanType : up = spans[i] /\ i \in Index /\ up.kind = "server"
    BY IndexFacts DEF Handlers
<1>5. /\ y.kind = "client" /\ y.via = via /\ y.caller = i /\ y.reused = reused
      /\ y.fields = WithBaggage(via, up.bag, BaseFields(reused))
    BY <1>2, <1>4 DEF ClientSpan
<1>6. i # 0 /\ i \in Nat
    BY <1>4, IndexFacts
<1>7. PathRight /\ spans'[n] = y /\ Continued(n, i)
    BY <1>1, <1>2, <1>3, <1>5, <1>6, StartedPath
<1>8. Path'[n] = {n} \cup Path[i] /\ Path'[i] = Path[i] /\ \A j \in Path[i] : spans'[j] = spans[j]
    BY <1>7 DEF Continued
<1>9. PICK ref \in 0..Len(bags) : ref = up.bag
    BY <1>4 DEF IInv, Bagged
<1>10. PICK base \in FieldsType : base = BaseFields(reused)
    BY <1>1, BaseFacts
<1>11. PICK fields : fields = y.fields
    OBVIOUS
<1>12. /\ ref = 0 => fields = base
       /\ ref # 0 => \A key \in Keys : fields[key] =
                IF via = "http" THEN base[key] \o bags[ref].fields[key]
                ELSE IF bags[ref].fields[key] = <<>> THEN base[key] ELSE bags[ref].fields[key]
    <2>1. fields = WithBaggage(via, ref, base)
        BY <1>5, <1>9, <1>10, <1>11
    <2>2. Merged(fields, via, ref, base)
        BY <2>1, WithBaggageFields
    <2>. QED
        BY <2>2 DEF Merged
<1>13. ASSUME NEW key \in Keys
       PROVE  /\ base[key] \in Seq(Nat) /\ \A k \in DOMAIN base[key] : base[key][k] \in Path[i]
              /\ reused = 0 => base[key] = <<>>
    BY <1>7, <1>10, SentOnPath
<1>14. ASSUME ref # 0, NEW key \in Keys
       PROVE  /\ bags[ref].fields[key] \in Seq(Nat)
              /\ \A k \in DOMAIN bags[ref].fields[key] : bags[ref].fields[key][k] \in Path[i]
    <2>1. bags[ref] \in BagType
        BY <1>9, <1>14, IndexFacts
    <2>2. OwnBag(i)
        BY <1>4 DEF BaggageInv
    <2>. QED
        BY <1>4, <1>9, <1>14, <2>1, <2>2 DEF OwnBag, BagType, FieldsType
<1>15. ASSUME NEW key \in Keys
       PROVE  \A k \in DOMAIN fields[key] : fields[key][k] \in Path[i]
    <2>1. CASE ref = 0
        BY <1>12, <1>13, <2>1
    <2>2. CASE ref # 0 /\ via = "http"
        <3>1. PICK a \in Seq(Nat) : a = base[key]
            BY <1>13
        <3>2. PICK b \in Seq(Nat) : b = bags[ref].fields[key]
            BY <1>14, <2>2
        <3>3. PICK c : c = a \o b
            OBVIOUS
        <3>4. fields[key] = c
            BY <1>12, <2>2, <3>1, <3>2, <3>3
        <3>5. Parts(c, a, b)
            BY <3>3, Joined
        <3>. QED
            BY <1>13, <1>14, <2>2, <3>1, <3>2, <3>4, <3>5 DEF Parts
    <2>3. CASE ref # 0 /\ via # "http"
        BY <1>12, <1>13, <1>14, <2>3
    <2>. QED
        BY <2>1, <2>2, <2>3
<1>16. FromEdge(n)'
    BY <1>4, <1>8 DEF FromEdge, BaggageInv
<1>17. OwnFields(n)'
    BY <1>5, <1>7, <1>8, <1>11, <1>15 DEF OwnFields
<1>18. OwnBag(n)'
    BY <1>5, <1>7 DEF OwnBag
<1>19. Carried(n)'
    <2>. SUFFICES ASSUME NEW key \in Keys, NEW e \in Path'[n], spans'[e].kind = "edge",
                         Kept(n, key)'
                  PROVE  /\ Holds(Values(n, key)', e)
                         /\ FromScratch(n)' => HoldsOnce(Values(n, key)', e)
        BY DEF Carried, Holds, HoldsOnce
    <2>1. Values(n, key)' = fields[key]
        BY <1>5, <1>7, <1>11 DEF Values
    <2>2. e \in Path[i] /\ spans[e].kind = "edge"
        BY <1>5, <1>7, <1>8
    <2>3. Kept(i, key) /\ (FromScratch(n)' => FromScratch(i))
        BY <1>7 DEF Continued
    <2>4. ref # 0
        <3>1. OwnBag(i) /\ i \in Path[i]
            BY <1>4, <1>7, PathOfCaller DEF BaggageInv
        <3>. QED
            BY <1>4, <1>9, <2>3, <3>1 DEF OwnBag, Kept
    <2>5. PICK a \in Seq(Nat) : a = base[key]
        BY <1>13
    <2>6. PICK b \in Seq(Nat) : b = bags[ref].fields[key]
        BY <1>14, <2>4
    <2>7. Holds(b, e) /\ (FromScratch(n)' => HoldsOnce(b, e))
        <3>1. Values(i, key) = b
            BY <1>4, <1>9, <2>4, <2>6 DEF Values
        <3>. QED
            BY <1>4, <2>2, <2>3, <3>1 DEF BaggageInv, Carried
    <2>8. CASE via = "http"
        <3>1. PICK c : c = a \o b
            OBVIOUS
        <3>2. fields[key] = c
            BY <1>12, <2>4, <2>5, <2>6, <2>8, <3>1
        <3>3. Holds(c, e) /\ (a = <<>> => c = b)
            BY <2>7, <3>1, Joined
        <3>4. FromScratch(n)' => reused = 0
            <4>1. n \in Path'[n]
                BY <1>8
            <4>. QED
                BY <1>5, <1>7, <2>8, <4>1 DEF FromScratch
        <3>5. reused = 0 => a = <<>>
            BY <1>13, <2>5
        <3>. QED
            BY <2>1, <2>7, <3>2, <3>3, <3>4, <3>5
    <2>9. CASE via # "http"
        <3>1. b # <<>>
            BY <2>7 DEF Holds
        <3>2. fields[key] = b
            BY <1>12, <2>4, <2>6, <2>9, <3>1
        <3>. QED
            BY <2>1, <2>7, <3>2
    <2>. QED
        BY <2>8, <2>9
<1>20. \A k \in DOMAIN bags : bags'[k] = bags[k]
    BY <1>3
<1>. QED
    BY <1>1, <1>2, <1>3, <1>5, <1>16, <1>17, <1>18, <1>19, <1>20, StartCarried

\* A handler that writes changes its own object only, and Kept tells if it spoils it.
LEMMA WriteCarried ==
    ASSUME IInv, IInv', BaggageInv, NEW i \in Index, NEW op \in {"add", "set", "delete"},
           NEW key \in Keys, Write(i, op, key)
    PROVE  BaggageInv'
<1>1. PICK b : b = spans[i].bag
    OBVIOUS
<1>2. /\ b \in DOMAIN bags /\ UNCHANGED spans
      /\ spans[i].kind = "server"
      /\ \A k \in DOMAIN bags : k # b => bags'[k] = bags[k]
      /\ \A other \in Keys : other # key => bags'[b].fields[other] = bags[b].fields[other]
      /\ op = "add" => bags'[b].fields[key] = Append(bags[b].fields[key], i)
      /\ \A k \in DOMAIN bags'[b].fields[key] :
            \/ bags'[b].fields[key][k] = i
            \/ \E l \in DOMAIN bags[b].fields[key] :
                    bags'[b].fields[key][k] = bags[b].fields[key][l]
      /\ writes' = writes \cup {[by |-> i, op |-> op, key |-> key]}
    <2>1. Wrote(i, op, key, b)
        BY <1>1, WriteFacts
    <2>. QED
        BY <2>1 DEF Wrote
<1>3. Index' = Index /\ b # 0 /\ writes \subseteq writes' /\ \A j \in Index : spans'[j] = spans[j]
    BY <1>2, IndexFacts DEF Index
<1>4. ASSUME NEW j \in Index, j # i
      PROVE  FromEdge(j)' /\ OwnFields(j)' /\ OwnBag(j)' /\ Carried(j)'
    <2>1. ASSUME spans[j].kind = "server", spans[j].bag # 0
          PROVE  bags'[spans[j].bag] = bags[spans[j].bag]
        <3>1. spans[j].bag # b
            BY <1>1, <1>2, <1>4, <2>1 DEF BaggageInv, BagsApart
        <3>2. spans[j].bag \in DOMAIN bags
            BY <2>1, IndexFacts DEF IInv, Bagged
        <3>. QED
            BY <1>2, <3>1, <3>2
    <2>. QED
        BY <1>3, <2>1, StillCarried
<1>5. /\ PathRight /\ Path'[i] = Path[i] /\ FromEdge(i)' /\ OwnFields(i)'
      /\ \A j \in Path[i] : spans'[j] = spans[j]
      /\ \A field : Kept(i, field)' => Kept(i, field)
      /\ FromScratch(i)' => FromScratch(i)
    BY <1>3, StillThere
<1>6. OwnBag(i) /\ Carried(i) /\ i \in Path[i]
    BY <1>5, PathOfCaller DEF BaggageInv
<1>7. OwnBag(i)'
    <2>1. ASSUME NEW other \in Keys, NEW k \in DOMAIN bags'[b].fields[other]
          PROVE  bags'[b].fields[other][k] \in Path[i]
        <3>1. \A l \in DOMAIN bags[b].fields[other] : bags[b].fields[other][l] \in Path[i]
            BY <1>1, <1>2, <1>3, <1>6 DEF OwnBag
        <3>2. CASE other = key
            BY <1>2, <1>6, <2>1, <3>1, <3>2
        <3>3. CASE other # key
            BY <1>2, <2>1, <3>1, <3>3
        <3>. QED
            BY <3>2, <3>3
    <2>. QED
        BY <1>1, <1>2, <1>3, <1>5, <1>6, <2>1 DEF OwnBag
<1>8. Carried(i)'
    <2>. SUFFICES ASSUME NEW other \in Keys, NEW e \in Path[i], spans[e].kind = "edge",
                         Kept(i, other)'
                  PROVE  /\ Holds(bags'[b].fields[other], e)
                         /\ FromScratch(i) => HoldsOnce(bags'[b].fields[other], e)
        BY <1>1, <1>2, <1>3, <1>5 DEF Carried, Values
    <2>1. PICK old \in Seq(Nat) : old = bags[b].fields[other]
        <3>1. bags[b] \in BagType
            BY <1>2, IndexFacts
        <3>. QED
            BY <3>1 DEF BagType, FieldsType
    <2>2. Holds(old, e) /\ (FromScratch(i) => HoldsOnce(old, e))
        <3>1. Values(i, other) = old
            BY <1>1, <1>2, <1>3, <2>1 DEF Values
        <3>2. Kept(i, other)
            BY <1>5
        <3>. QED
            BY <1>6, <3>1, <3>2 DEF Carried
    <2>3. CASE other # key
        BY <1>2, <2>1, <2>2, <2>3
    <2>4. CASE other = key
        <3>1. op = "add"
            <4>1. PICK w : w = [by |-> i, op |-> op, key |-> key]
                OBVIOUS
            <4>2. w \in writes' /\ w.by = i /\ w.op = op /\ w.key = key
                BY <1>2, <4>1
            <4>3. spans'[i].kind = "server" /\ i \in Path'[i]
                BY <1>2, <1>3, <1>5, <1>6
            <4>. QED
                BY <2>4, <4>2, <4>3 DEF Kept
        <3>2. bags'[b].fields[other] = Append(old, i)
            BY <1>2, <2>1, <2>4, <3>1
        <3>3. i # e /\ i \in Nat
            BY <1>2, IndexFacts
        <3>. QED
            BY <2>2, <3>2, <3>3, Appended
    <2>. QED
        BY <2>3, <2>4
<1>9. BagsApart'
    BY <1>2, <1>3 DEF BaggageInv, BagsApart
<1>. QED
    BY <1>3, <1>4, <1>5, <1>7, <1>8, <1>9 DEF BaggageInv

LEMMA OtherCarried ==
    ASSUME IInv, IInv', BaggageInv, UNCHANGED <<spans, bags, writes>>
    PROVE  BaggageInv'
<1>1. Index' = Index /\ \A i \in Index : spans'[i] = spans[i]
    BY DEF Index
<1>2. ASSUME NEW i \in Index PROVE FromEdge(i)' /\ OwnFields(i)' /\ OwnBag(i)' /\ Carried(i)'
    BY <1>1, StillCarried
<1>3. BagsApart'
    BY <1>1 DEF BaggageInv, BagsApart
<1>. QED
    BY <1>1, <1>2, <1>3 DEF BaggageInv

LEMMA InitBaggage == Init => BaggageInv
<1>. SUFFICES ASSUME Init PROVE BaggageInv
    OBVIOUS
<1>1. Index = {}
    BY DEF Init, Index
<1>. QED
    BY <1>1 DEF BaggageInv, BagsApart

LEMMA NextBaggage == IInv /\ IInv' /\ BaggageInv /\ [Next]_vars => BaggageInv'
<1>. SUFFICES ASSUME IInv, IInv', BaggageInv, [Next]_vars PROVE BaggageInv'
    OBVIOUS
<1>1. ASSUME NEW s \in Services, SetNoop(s) PROVE BaggageInv'
    BY <1>1, OtherCarried DEF SetNoop
<1>2. ASSUME NEW via \in {"http", "grpc"}, NEW sc \in EdgeContexts, EdgeCall(via, sc)
      PROVE  BaggageInv'
    BY <1>2, EdgeCallCarried
<1>3. ASSUME NEW s \in Services, NEW i \in Requests(s), NEW verdict \in VerdictsVia(s, Via[s]),
             NEW decision \in Tracers[s].sampler, NEW md \in Arrivals(spans[i].md),
             Serve(s, i, verdict, decision, md)
      PROVE  BaggageInv'
    BY <1>3, ServeCarried
<1>4. ASSUME NEW i \in Index, NEW op \in {"add", "set", "delete"}, NEW key \in Keys,
             Write(i, op, key)
      PROVE  BaggageInv'
    BY <1>4, WriteCarried
<1>5. ASSUME NEW i \in Handlers, NEW via \in {"http", "grpc"},
             NEW verdict \in VerdictsVia(spans[i].service, via),
             NEW decision \in Tracers[spans[i].service].sampler, NEW reused \in Reusable(i, via),
             Call(i, via, verdict, decision, reused)
      PROVE  BaggageInv'
    BY <1>5, CallCarried
<1>6. ASSUME NEW i \in Index, NEW code \in {"ok", "error"}, End(i, code) PROVE BaggageInv'
    BY <1>6, OtherCarried DEF End
<1>7. CASE UNCHANGED vars
    BY <1>7, OtherCarried DEF vars
<1>. QED
    BY <1>1, <1>2, <1>3, <1>4, <1>5, <1>6, <1>7 DEF Next

LEMMA InvariantBaggage == IInv /\ BaggageInv => BaggageFollowsRequests
<1>. SUFFICES ASSUME IInv, BaggageInv PROVE BaggageFollowsRequests
    OBVIOUS
<1>1. PathRight
    BY PathEquation
<1>2. ASSUME NEW i \in Index, NEW key \in Keys
      PROVE  /\ \A k \in DOMAIN Values(i, key) : Values(i, key)[k] \in Path[i]
             /\ Kept(i, key) =>
                LET edge == CHOOSE j \in Path[i] : spans[j].kind = "edge"
                    found == {k \in DOMAIN Values(i, key) : Values(i, key)[k] = edge}
                IN  /\ found # {}
                    /\ (\A j \in Path[i] : spans[j].via = "http" => spans[j].reused = 0) =>
                            Cardinality(found) = 1
    <2>. DEFINE edge == CHOOSE j \in Path[i] : spans[j].kind = "edge"
                found == {k \in DOMAIN Values(i, key) : Values(i, key)[k] = edge}
    <2>1. \A k \in DOMAIN Values(i, key) : Values(i, key)[k] \in Path[i]
        BY <1>1, FieldsOnPath
    <2>2. edge \in Path[i] /\ spans[edge].kind = "edge"
        BY DEF BaggageInv, FromEdge
    <2>. HIDE DEF edge
    <2>3. Kept(i, key) =>
            /\ Holds(Values(i, key), edge)
            /\ FromScratch(i) => HoldsOnce(Values(i, key), edge)
        BY <2>2 DEF BaggageInv, Carried
    <2>4. Kept(i, key) => found # {}
        BY <2>3 DEF Holds
    <2>5. ASSUME Kept(i, key), FromScratch(i) PROVE Cardinality(found) = 1
        <3>1. PICK k : found = {k}
            BY <2>3, <2>5 DEF HoldsOnce
        <3>. HIDE DEF found
        <3>. QED
            BY <3>1, FS_Singleton
    <2>. QED
        BY <2>1, <2>4, <2>5 DEF FromScratch, edge
<1>. QED
    BY <1>2 DEF BaggageFollowsRequests

\* Baggage stays on the path of its request, and reaches every server on it that keeps
\* it, whatever else the services do meanwhile.
THEOREM BaggageFollows == Spec => []BaggageFollowsRequests
<1>1. Init /\ [][Next]_vars /\ []IInv => []BaggageInv
    BY InitBaggage, NextBaggage, PTL
<1>. QED
    BY <1>1, Invariance, InvariantBaggage, PTL DEF Spec
=============================================================================
