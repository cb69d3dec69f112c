-------------------------- MODULE PropagationProofs --------------------------
(* Theorems about Propagation, for any services and options, any styles of  *)
(* injection, any damage, and traces of any size.                           *)
EXTENDS Propagation, TracerProofs

-----------------------------------------------------------------------------
(* The inductive invariant.                                                  *)

Styles == {"multi", "single", "both"}

HeadersType ==
    {NoHeaders} \cup {Inject(sc, style, NoHeaders) : sc \in ContextType, style \in Styles}

SpanType ==
    [service : Services \cup {None}, kind : {"client", "server"}, ctx : ContextType,
     noop : BOOLEAN, caller : Nat, whole : BOOLEAN, headers : HeadersType]

Shapes ==
    /\ noop \in [Services -> BOOLEAN]
    /\ spans \in Seq(SpanType)

\* IDs are those of spans started before; a request has the context of its span.
Numbered(i) ==
    /\ WellFormed(spans[i].ctx)
    /\ spans[i].ctx.trace \in 0..i /\ spans[i].ctx.id \in 0..i
    /\ spans[i].caller \in 0..(i - 1)
    /\ spans[i].kind = "client" =>
            \E style \in Styles : spans[i].headers = Inject(spans[i].ctx, style, NoHeaders)
    /\ \/ spans[i].noop
       \/ spans[i].ctx.id = i
       \/ spans[i].kind = "server" /\ Tracers[spans[i].service].sharedSpans

\* How a span comes after the one that called it.
Descends(i) ==
    LET j == spans[i].caller
    IN  spans[i].caller # 0 =>
            /\ \/ spans[j].ctx.trace # 0 /\ Follows(i, j)
               \/ /\ Restarts(i)
                  /\ \/ ~spans[i].whole
                     \/ spans[j].ctx.trace = 0
                     \/ Unwritable(spans[j].ctx)
            /\ spans[i].whole /\ Decided(spans[j].ctx) =>
                    /\ spans[i].ctx.debug = spans[j].ctx.debug
                    /\ MustCollect(spans[i].ctx) = MustCollect(spans[j].ctx)

\* A collected span of a trace, up to the m-th, bears the ID.
Borne(trace, id, m) ==
    \E j \in 1..m : Collected(j) /\ spans[j].ctx.trace = trace /\ spans[j].ctx.id = id

\* Damage takes nothing out of the middle of a context.
Clean == \A i \in Index : spans[i].whole \/ Restarts(i)

\* What NoHoles says of collected spans holds of every context on the way, those of
\* noopSpans included: it is decided, and its IDs are borne by collected spans.
Linked(i) ==
    LET sc == spans[i].ctx
    IN  sc.trace # 0 =>
            /\ Decided(sc)
            /\ MustCollect(sc) =>
                    /\ Borne(sc.trace, sc.id, i)
                    /\ sc.parent # None => Borne(sc.trace, sc.parent, i - 1)

\* An extraction gives the context of its request, or part of it that cannot
\* mislead.
Faithful(e) ==
    LET up == spans[e.caller].ctx
    IN  /\ e.service \in Services /\ e.caller \in Index /\ e.whole \in BOOLEAN
        /\ Outcome(e.result, up)
        /\ e.whole => \/ e.result = Ok(up)
                      \/ Unwritable(up) /\ e.result = Ok(EmptyContext)

IInv ==
    /\ Shapes
    /\ \A i \in Index : Numbered(i) /\ Descends(i)
    /\ Clean => \A i \in Index : Linked(i)
    /\ \A e \in extracted : Faithful(e)

-----------------------------------------------------------------------------
(* Adding a span.                                                            *)

LEMMA IndexFacts ==
    ASSUME IInv
    PROVE  /\ Len(spans) \in Nat
           /\ \A i \in Index : i \in Nat /\ i >= 1 /\ spans[i] \in SpanType
BY DEF IInv, Shapes, Index

\* The spans before it are what they were.
LEMMA AppendFacts ==
    ASSUME IInv, NEW y \in SpanType, spans' = Append(spans, y)
    PROVE  /\ spans' \in Seq(SpanType) /\ Len(spans') = Len(spans) + 1
           /\ Index' = Index \cup {Len(spans) + 1}
           /\ \A i \in Index : spans'[i] = spans[i] /\ i < Len(spans) + 1 /\ i \in Nat /\ i >= 1
           /\ spans'[Len(spans) + 1] = y
<1>1. spans \in Seq(SpanType) /\ Len(spans) \in Nat
    BY DEF IInv, Shapes
<1>2. spans' \in Seq(SpanType) /\ Len(spans') = Len(spans) + 1
    BY <1>1
<1>3. Index' = Index \cup {Len(spans) + 1}
    BY <1>1, <1>2 DEF Index
<1>. QED
    BY <1>1, <1>2, <1>3 DEF Index

LEMMA EarlierSpans ==
    ASSUME IInv, NEW y \in SpanType, spans' = Append(spans, y), NEW i \in Index
    PROVE  Numbered(i)' /\ Descends(i)' /\ (Linked(i) => Linked(i)')
<1>1. /\ spans'[i] = spans[i] /\ i \in Nat /\ i >= 1
      /\ Numbered(i) /\ Descends(i)
    BY AppendFacts DEF IInv
<1>2. \A j \in 1..i : j \in Index /\ spans'[j] = spans[j]
    BY AppendFacts DEF Index, IInv, Shapes
<1>3. Numbered(i)'
    BY <1>1 DEF Numbered, Tracers
<1>4. Descends(i)'
    <2>1. CASE spans[i].caller = 0
        BY <1>1, <2>1 DEF Descends
    <2>2. CASE spans[i].caller # 0
        <3>1. spans[i].caller \in 1..i
            BY <1>1, <2>2 DEF Numbered
        <3>2. spans'[spans[i].caller] = spans[spans[i].caller]
            BY <1>2, <3>1
        <3>. QED
            BY <1>1, <3>2 DEF Descends, Follows, Restarts
    <2>. QED
        BY <2>1, <2>2
<1>5. Linked(i) => Linked(i)'
    <2>1. \A j \in 1..i : Collected(j) => Collected(j)'
        BY <1>2 DEF Collected
    <2>2. \A trace, id : Borne(trace, id, i) => Borne(trace, id, i)'
        BY <1>2, <2>1 DEF Borne
    <2>3. \A trace, id : Borne(trace, id, i - 1) => Borne(trace, id, i - 1)'
        <3>1. \A j \in 1..(i - 1) : j \in 1..i
            BY <1>1
        <3>. QED
            BY <1>2, <2>1, <3>1 DEF Borne
    <2>. QED
        BY <1>1, <2>2, <2>3 DEF Linked
<1>. QED
    BY <1>3, <1>4, <1>5

\* A step that adds a span keeps the invariant if the span is all right.
LEMMA AppendStep ==
    ASSUME IInv, NEW y \in SpanType, spans' = Append(spans, y),
           NEW n, n = Len(spans) + 1, Numbered(n)', Descends(n)',
           Clean' /\ (\A i \in Index : Linked(i)') => Linked(n)',
           UNCHANGED noop, extracted' \subseteq extracted
    PROVE  IInv'
<1>1. Shapes'
    BY AppendFacts DEF IInv, Shapes
<1>2. \A i \in Index' : Numbered(i)' /\ Descends(i)'
    BY AppendFacts, EarlierSpans
<1>3. Clean' => Clean
    BY AppendFacts DEF Clean, Restarts
<1>4. ASSUME Clean' PROVE \A i \in Index' : Linked(i)'
    <2>1. \A i \in Index : Linked(i)'
        BY <1>3, <1>4, EarlierSpans DEF IInv
    <2>. QED
        BY <1>4, <2>1, AppendFacts
<1>5. ASSUME NEW e \in extracted' PROVE Faithful(e)'
    <2>1. Faithful(e)
        BY DEF IInv
    <2>2. e.caller \in Index /\ spans'[e.caller] = spans[e.caller] /\ e.caller \in Index'
        BY <2>1, AppendFacts DEF Faithful
    <2>. QED
        BY <2>1, <2>2 DEF Faithful
<1>. QED
    BY <1>1, <1>2, <1>4, <1>5 DEF IInv

\* What the caller's context is when a span is started with it.
Comes(sc, up, whole) ==
    /\ sc.trace # 0 =>
            /\ sc.trace = up.trace /\ sc.id = up.id
            /\ sc.parent \in {up.parent, None}
    /\ whole => \/ sc = up
                \/ Unwritable(up) /\ sc = EmptyContext

LEMMA StartStep ==
    ASSUME IInv, NEW n, n = Len(spans) + 1, NEW s \in Services, NEW kind \in {"client", "server"},
           NEW sc, WellFormed(sc), NEW decision \in BOOLEAN,
           NEW caller \in 0..Len(spans), NEW whole \in BOOLEAN,
           caller = 0 => sc = EmptyContext,
           caller # 0 => Comes(sc, spans[caller].ctx, whole),
           NEW h,
           \/ kind = "server" /\ h = NoHeaders
           \/ \E style \in Styles :
                h = Inject(Started(s, kind, sc, decision, caller, whole).ctx, style, NoHeaders),
           Log(Started(s, kind, sc, decision, caller, whole), h),
           UNCHANGED noop, extracted' \subseteq extracted
    PROVE  IInv'
<1>. DEFINE t == Tracers[s]
            asleep == noop[s]
<1>. PICK ctx : ctx = StartedContext(t, asleep, kind, sc, decision, n)
    OBVIOUS
<1>. DEFINE silent == IsNoop(t, asleep, ctx)
            y == [service |-> s, kind |-> kind, ctx |-> ctx, noop |-> silent,
                  caller |-> caller, whole |-> whole, headers |-> h]
            up == spans[caller]
<1>1. n \in Nat \ {0} /\ asleep \in BOOLEAN /\ caller \in Nat /\ caller < n
    BY IndexFacts DEF IInv, Shapes
<1>2. /\ t = NewTracer("reporter", Options[s])
      /\ t.unsampledNoop \in BOOLEAN /\ t.sharedSpans \in BOOLEAN
    BY OptionsAssumption DEF Tracers, TracerType
<1>3. /\ WellFormed(ctx) /\ ctx \in ContextType
      /\ asleep => ctx = sc
      /\ ctx.debug = sc.debug
      /\ Decided(sc) => ctx.sampled = sc.sampled
      /\ ~asleep => Decided(ctx)
      /\ ~asleep /\ sc.trace = 0 => ctx.trace = n /\ ctx.id = n /\ ctx.parent = None
      /\ ~asleep /\ sc.trace # 0 => ctx.trace = sc.trace
      /\ ~asleep /\ sc.trace # 0 /\ Joins(t, kind) => ctx.id = sc.id /\ ctx.parent = sc.parent
      /\ ~asleep /\ sc.trace # 0 /\ ~Joins(t, kind) => ctx.id = n /\ ctx.parent = sc.id
    BY <1>1, StartedFacts DEF WellFormed
<1>4. /\ silent \in BOOLEAN
      /\ asleep => silent
      /\ ~asleep /\ MustCollect(ctx) => ~silent
    BY <1>1, <1>2 DEF IsNoop
<1>5. spans' = Append(spans, y)
    BY DEF Log, Started
<1>6. /\ kind = "client" => \E style \in Styles : h = Inject(ctx, style, NoHeaders)
      /\ h \in HeadersType
    BY <1>3 DEF Started, HeadersType
<1>7. Joins(t, kind) => kind = "server" /\ t.sharedSpans
    BY DEF Joins
<1>8. caller # 0 => /\ caller \in Index /\ Numbered(caller) /\ Descends(caller)
                    /\ Comes(sc, up.ctx, whole) /\ WellFormed(up.ctx)
    BY <1>1 DEF Index, IInv, Numbered
<1>9. /\ sc.trace \in Nat /\ sc.id \in Nat /\ None \notin Nat
      /\ sc.trace = 0 <=> sc.id = 0
      /\ sc.trace = 0 => sc.parent = None
      /\ sc.trace # 0 => caller # 0
    BY NoneGarbageAssumption, EmptyContextFacts DEF WellFormed, ContextType
<1>. HIDE DEF silent, t, asleep
<1>10. /\ y \in SpanType
       /\ y.service = s /\ y.kind = kind /\ y.ctx = ctx /\ y.noop = silent
       /\ y.caller = caller /\ y.whole = whole /\ y.headers = h
    BY <1>1, <1>3, <1>4, <1>6 DEF SpanType
<1>. HIDE DEF y
<1>11. /\ spans'[n] = y /\ n \in Nat \ {0}
       /\ \A i \in Index : spans'[i] = spans[i] /\ i < n /\ i \in Nat /\ i >= 1
    BY <1>1, <1>5, <1>10, AppendFacts
<1>12. caller # 0 => spans'[caller] = up
    BY <1>8, <1>11
<1>13. sc.trace # 0 => up.ctx.trace \in 0..caller /\ up.ctx.id \in 0..caller
    BY <1>8, <1>9 DEF Numbered
<1>14. ctx.trace \in 0..n /\ ctx.id \in 0..n
    BY <1>1, <1>3, <1>8, <1>9, <1>13 DEF Comes
<1>15. Numbered(n)'
    <2>1. silent \/ ctx.id = n \/ (kind = "server" /\ Tracers[s].sharedSpans)
        BY <1>3, <1>4, <1>7, <1>9 DEF t
    <2>2. caller \in 0..(n - 1)
        BY <1>1
    <2>. QED
        BY <1>3, <1>6, <1>10, <1>11, <1>14, <2>1, <2>2 DEF Numbered, Tracers
<1>16. Descends(n)'
    <2>. SUFFICES ASSUME caller # 0
                  PROVE  /\ \/ up.ctx.trace # 0 /\ Follows(n, caller)'
                            \/ /\ Restarts(n)'
                               /\ ~whole \/ up.ctx.trace = 0 \/ Unwritable(up.ctx)
                         /\ whole /\ Decided(up.ctx) =>
                                /\ ctx.debug = up.ctx.debug
                                /\ MustCollect(ctx) = MustCollect(up.ctx)
        BY <1>10, <1>11, <1>12 DEF Descends
    <2>1. Comes(sc, up.ctx, whole)
        BY <1>8
    <2>2. ASSUME sc.trace = 0
          PROVE  Restarts(n)' /\ (~whole \/ up.ctx.trace = 0 \/ Unwritable(up.ctx))
        <3>1. Restarts(n)'
            BY <1>3, <1>9, <1>10, <1>11, <2>2 DEF Restarts
        <3>. QED
            BY <2>1, <2>2, <3>1 DEF Comes
    <2>3. ASSUME sc.trace # 0 PROVE up.ctx.trace # 0 /\ Follows(n, caller)'
        <3>1. whole => sc.parent = up.ctx.parent
            BY <2>1, <2>3, EmptyContextFacts DEF Comes
        <3>2. Follows(n, caller)'
            BY <1>3, <1>4, <1>7, <1>10, <1>11, <1>12, <2>1, <2>3, <3>1 DEF Comes, Follows
        <3>. QED
            BY <2>1, <2>3, <3>2 DEF Comes
    <2>4. ASSUME whole, Decided(up.ctx)
          PROVE  ctx.debug = up.ctx.debug /\ MustCollect(ctx) = MustCollect(up.ctx)
        <3>1. sc = up.ctx
            BY <2>1, <2>4 DEF Comes, Unwritable
        <3>. QED
            BY <1>3, <2>4, <3>1, DecisionStays
    <2>. QED
        BY <2>2, <2>3, <2>4
<1>17. ASSUME Clean', \A i \in Index : Linked(i)' PROVE Linked(n)'
    <2>. SUFFICES ASSUME ctx.trace # 0
                  PROVE  /\ Decided(ctx)
                         /\ MustCollect(ctx) =>
                                /\ Borne(ctx.trace, ctx.id, n)'
                                /\ ctx.parent # None => Borne(ctx.trace, ctx.parent, n - 1)'
        BY <1>10, <1>11 DEF Linked
    <2>1. whole \/ (ctx.trace = n /\ ctx.parent = None)
        BY <1>5, <1>10, <1>11, <1>17, AppendFacts DEF Clean, Restarts
    <2>2. ASSUME ~silent, MustCollect(ctx) PROVE Borne(ctx.trace, ctx.id, n)' /\ Collected(n)'
        <3>1. Collected(n)'
            BY <1>10, <1>11, <2>2 DEF Collected
        <3>. QED
            BY <1>10, <1>11, <3>1 DEF Borne
    <2>3. CASE sc.trace = 0
        BY <1>3, <1>4, <2>2, <2>3
    <2>4. CASE sc.trace # 0
        <3>1. caller # 0 /\ caller \in Index /\ Comes(sc, up.ctx, whole) /\ ctx.trace = sc.trace
            BY <1>3, <1>8, <1>9, <2>4
        <3>2. whole /\ sc = up.ctx
            BY <1>3, <1>11, <1>13, <2>1, <2>4, <3>1, EmptyContextFacts DEF Comes
        <3>3. /\ Decided(sc)
              /\ MustCollect(sc) =>
                    /\ Borne(sc.trace, sc.id, caller)'
                    /\ sc.parent # None => Borne(sc.trace, sc.parent, caller - 1)'
            BY <1>12, <1>17, <2>4, <3>1, <3>2 DEF Linked
        <3>4. Decided(ctx) /\ MustCollect(ctx) = MustCollect(sc)
            BY <1>3, <3>3, DecisionStays
        <3>5. \A trace, id : /\ Borne(trace, id, caller)' => Borne(trace, id, n)' /\ Borne(trace, id, n - 1)'
                             /\ Borne(trace, id, caller - 1)' => Borne(trace, id, n - 1)'
            BY <1>1 DEF Borne
        <3>. QED
            BY <1>3, <1>4, <2>2, <2>4, <3>3, <3>4, <3>5
    <2>. QED
        BY <2>3, <2>4
<1>. QED
    BY <1>5, <1>10, <1>15, <1>16, <1>17, AppendStep

-----------------------------------------------------------------------------
(* What the network makes of headers.                                        *)

IdFieldType == [width : {16, 32}, id : Nat \cup {Garbage}]
FlagFieldType == [width : {1}, flag : {"0", "1", "d", Garbage}]
FieldType == IdFieldType \cup FlagFieldType

LEMMA SingleHeaderType ==
    ASSUME NEW sc, WellFormed(sc)
    PROVE  BuildSingleHeader(sc) \in Seq(FieldType)
<1>. DEFINE one == IdField(TraceWidth, sc.trace)
            two == IdField(16, sc.id)
            field == SamplingField(Flag(sc))
            last == IdField(16, sc.parent)
<1>1. one \in FieldType /\ two \in FieldType /\ (sc.parent # None => last \in FieldType)
    BY DEF IdField, TraceWidth, FieldType, IdFieldType, WellFormed, ContextType
<1>2. field \in FieldType
    BY DEF SamplingField, Flag, FieldType, FlagFieldType
<1>3. \/ BuildSingleHeader(sc) \in {<<>>, <<field>>, <<one, two>>, <<one, two, field>>}
      \/ sc.parent # None /\ BuildSingleHeader(sc) \in {<<one, two, last>>, <<one, two, field, last>>}
    BY SingleHeader DEF WellFormed
<1>. HIDE DEF one, two, field, last
<1>4. /\ <<>> \in Seq(FieldType) /\ <<field>> \in Seq(FieldType)
      /\ <<one, two>> \in Seq(FieldType) /\ <<one, two, field>> \in Seq(FieldType)
    BY <1>1, <1>2
<1>5. ASSUME sc.parent # None
      PROVE  <<one, two, last>> \in Seq(FieldType) /\ <<one, two, field, last>> \in Seq(FieldType)
    BY <1>1, <1>2, <1>5
<1>. QED
    BY <1>3, <1>4, <1>5

\* A field that becomes unreadable leaves the rest of the single header.
LEMMA DamagedField ==
    ASSUME NEW b \in Seq(FieldType), NEW k \in 1..Len(b)
    PROVE  /\ PartOf(b, b)
           /\ b[k].width # 1 => PartOf([b EXCEPT ![k].id = Garbage], b)
           /\ b[k].width = 1 => PartOf([b EXCEPT ![k].flag = Garbage], b)
<1>1. b[k] \in FieldType /\ Len(b) \in Nat /\ b # <<>>
    OBVIOUS
<1>2. ASSUME NEW f \in FieldType, f.width = b[k].width,
             b[k].width # 1 => f.id \in {b[k].id, Garbage},
             b[k].width = 1 => f.flag \in {b[k].flag, Garbage}
      PROVE  PartOf([b EXCEPT ![k] = f], b)
    <2>1. /\ Len([b EXCEPT ![k] = f]) = Len(b)
          /\ \A j \in 1..Len(b) : [b EXCEPT ![k] = f][j] = IF j = k THEN f ELSE b[j]
        BY ExceptSeq
    <2>. QED
        BY <1>1, <1>2, <2>1 DEF PartOf
<1>3. PartOf(b, b)
    BY <1>1 DEF PartOf
<1>4. ASSUME b[k].width # 1 PROVE PartOf([b EXCEPT ![k].id = Garbage], b)
    <2>. DEFINE f == [b[k] EXCEPT !.id = Garbage]
    <2>1. b[k] \in IdFieldType
        BY <1>1, <1>4 DEF FieldType, FlagFieldType
    <2>2. f \in FieldType /\ f.width = b[k].width /\ f.id = Garbage
        BY <2>1 DEF FieldType, IdFieldType
    <2>3. [b EXCEPT ![k].id = Garbage] = [b EXCEPT ![k] = f]
        OBVIOUS
    <2>. HIDE DEF f
    <2>. QED
        BY <1>2, <1>4, <2>2, <2>3
<1>5. ASSUME b[k].width = 1 PROVE PartOf([b EXCEPT ![k].flag = Garbage], b)
    <2>. DEFINE f == [b[k] EXCEPT !.flag = Garbage]
    <2>1. b[k] \in FlagFieldType
        BY <1>1, <1>5 DEF FieldType, IdFieldType
    <2>2. f \in FieldType /\ f.width = b[k].width /\ f.flag = Garbage
        BY <2>1 DEF FieldType, FlagFieldType
    <2>3. [b EXCEPT ![k].flag = Garbage] = [b EXCEPT ![k] = f]
        OBVIOUS
    <2>. HIDE DEF f
    <2>. QED
        BY <1>2, <1>5, <2>2, <2>3
<1>. QED
    BY <1>3, <1>4, <1>5

\* What is injected, and what of it may be lost.
LEMMA InjectedHeaders ==
    ASSUME NEW sc, WellFormed(sc), NEW style \in Styles, NEW w, w = Inject(sc, style, NoHeaders)
    PROVE  /\ w = [traceId |-> w.traceId, spanId |-> w.spanId, parentId |-> w.parentId,
                   sampled |-> w.sampled, flags |-> w.flags, b3 |-> w.b3]
           /\ MultiPartOf(w, sc)
           /\ w.b3 \in {<<>>, BuildSingleHeader(sc)}
<1>. DEFINE b == BuildSingleHeader(sc)
<1>1. \/ w = NoHeaders
      \/ w = InjectMulti(sc, NoHeaders)
      \/ w = [NoHeaders EXCEPT !.b3 = b]
      \/ w = [InjectMulti(sc, NoHeaders) EXCEPT !.b3 = b]
    BY DEF Inject, InjectSingle, Styles
<1>. HIDE DEF b
<1>3. w = [traceId |-> w.traceId, spanId |-> w.spanId, parentId |-> w.parentId,
           sampled |-> w.sampled, flags |-> w.flags, b3 |-> w.b3]
    BY <1>1 DEF InjectMulti, NoHeaders
<1>4. w.b3 \in {<<>>, b} /\ (Written(w, EmptyContext) \/ Written(w, sc))
    BY <1>1, MultiHeaders
<1>5. CASE Written(w, EmptyContext)
    <2>1. w.traceId = None /\ w.spanId = None /\ w.parentId = None
        BY <1>5, EmptyContextFacts DEF Written
    <2>. QED
        BY <1>3, <1>4, <2>1 DEF MultiPartOf, b
<1>6. CASE Written(w, sc)
    <2>1. MultiPartOf(w, sc)
        BY <1>6 DEF MultiPartOf, Written
    <2>. QED
        BY <1>3, <1>4, <2>1 DEF b
<1>. QED
    BY <1>4, <1>5, <1>6

LEMMA ArrivingHeaders ==
    ASSUME NEW sc, WellFormed(sc), NEW style \in Styles,
           NEW h \in Arrivals(Inject(sc, style, NoHeaders))
    PROVE  MultiPartOf(h, sc) /\ (h.b3 = <<>> \/ PartOf(h.b3, BuildSingleHeader(sc)))
<1>. DEFINE w == Inject(sc, style, NoHeaders)
            b == BuildSingleHeader(sc)
<1>1. /\ w = [traceId |-> w.traceId, spanId |-> w.spanId, parentId |-> w.parentId,
              sampled |-> w.sampled, flags |-> w.flags, b3 |-> w.b3]
      /\ MultiPartOf(w, sc) /\ w.b3 \in {<<>>, b}
    BY InjectedHeaders
<1>2. b \in Seq(FieldType) /\ DOMAIN b = 1..Len(b) /\ (b # <<>> => 1 \in 1..Len(b))
    BY SingleHeaderType
<1>3. h \in Arrivals(w)
    OBVIOUS
<1>. HIDE DEF w, b
<1>4. w.b3 = <<>> \/ PartOf(w.b3, b)
    BY <1>1, <1>2, DamagedField
<1>5. CASE h \in {w, NoHeaders}
    <2>1. MultiPartOf(NoHeaders, sc) /\ NoHeaders.b3 = <<>>
        BY DEF MultiPartOf, NoHeaders
    <2>. QED
        BY <1>1, <1>4, <1>5, <2>1 DEF b
<1>6. CASE h \in UNION {Without(w, f) : f \in {"traceId", "spanId", "parentId", "sampled"}}
    <2>1. PICK f \in {"traceId", "spanId", "parentId", "sampled"}, v \in {None, Garbage} :
            h = [w EXCEPT ![f] = v]
        BY <1>6 DEF Without
    <2>2. /\ h.traceId \in {w.traceId, None, Garbage}
          /\ h.spanId \in {w.spanId, None, Garbage}
          /\ h.parentId \in {w.parentId, None, Garbage}
          /\ h.b3 = w.b3
        BY <1>1, <2>1
    <2>3. MultiPartOf(h, sc)
        BY <1>1, <2>2 DEF MultiPartOf
    <2>. QED
        BY <1>4, <2>2, <2>3 DEF b
<1>7. CASE h \in WithoutSingle(w)
    <2>1. ASSUME NEW seq, h = [w EXCEPT !.b3 = seq], seq = <<>> \/ PartOf(seq, b)
          PROVE  MultiPartOf(h, sc) /\ (h.b3 = <<>> \/ PartOf(h.b3, b))
        <3>1. /\ h.traceId = w.traceId /\ h.spanId = w.spanId /\ h.parentId = w.parentId
              /\ h.b3 = seq
            BY <1>1, <2>1
        <3>2. MultiPartOf(h, sc)
            BY <1>1, <3>1 DEF MultiPartOf
        <3>. QED
            BY <2>1, <3>1, <3>2
    <2>2. CASE h = [w EXCEPT !.b3 = <<>>]
        BY <2>1, <2>2 DEF b
    <2>3. ASSUME NEW k \in DOMAIN w.b3, w.b3[k].width # 1, h = [w EXCEPT !.b3[k].id = Garbage]
          PROVE  MultiPartOf(h, sc) /\ (h.b3 = <<>> \/ PartOf(h.b3, b))
        <3>1. w.b3 = b /\ k \in 1..Len(b)
            BY <1>1, <1>2, <2>3
        <3>2. h = [w EXCEPT !.b3 = [b EXCEPT ![k].id = Garbage]]
            BY <2>3, <3>1
        <3>. QED
            BY <1>2, <2>1, <2>3, <3>1, <3>2, DamagedField
    <2>4. ASSUME NEW k \in DOMAIN w.b3, w.b3[k].width = 1, h = [w EXCEPT !.b3[k].flag = Garbage]
          PROVE  MultiPartOf(h, sc) /\ (h.b3 = <<>> \/ PartOf(h.b3, b))
        <3>1. w.b3 = b /\ k \in 1..Len(b)
            BY <1>1, <1>2, <2>4
        <3>2. h = [w EXCEPT !.b3 = [b EXCEPT ![k].flag = Garbage]]
            BY <2>4, <3>1
        <3>. QED
            BY <1>2, <2>1, <2>4, <3>1, <3>2, DamagedField
    <2>. QED
        BY <1>7, <2>2, <2>3, <2>4 DEF WithoutSingle, b
<1>. QED
    BY <1>3, <1>5, <1>6, <1>7 DEF Arrivals

-----------------------------------------------------------------------------
(* The actions.                                                              *)

LEMMA TracerFacts ==
    ASSUME NEW s \in Services
    PROVE  Tracers[s].sampler \subseteq BOOLEAN /\ Style[s] \in Styles
BY OptionsAssumption, StyleAssumption DEF Tracers, TracerType, Styles

\* A step that starts no span keeps the invariant if what it extracts is all right.
LEMMA SameSpans ==
    ASSUME IInv, UNCHANGED spans, noop' \in [Services -> BOOLEAN],
           \A e \in extracted' : Faithful(e)
    PROVE  IInv'
<1>1. Index' = Index
    BY DEF Index
<1>2. Shapes' /\ \A i \in Index' : Numbered(i)' /\ Descends(i)'
    BY <1>1 DEF IInv, Shapes, Numbered, Descends, Follows, Restarts, Tracers
<1>3. Clean' => \A i \in Index' : Linked(i)'
    BY <1>1 DEF IInv, Clean, Restarts, Linked, Borne, Collected
<1>4. \A e \in extracted' : Faithful(e)'
    BY <1>1 DEF Faithful
<1>. QED
    BY <1>2, <1>3, <1>4 DEF IInv

LEMMA SetNoopStep ==
    ASSUME IInv, NEW s \in Services, SetNoop(s)
    PROVE  IInv'
<1>1. noop' \in [Services -> BOOLEAN]
    BY DEF IInv, Shapes, SetNoop
<1>. QED
    BY <1>1, SameSpans DEF SetNoop, IInv

LEMMA CallStep ==
    ASSUME IInv, NEW s \in Services, NEW i, NEW decision \in BOOLEAN, Call(s, i, decision)
    PROVE  IInv'
<1>1. PICK n : n = Len(spans) + 1
    OBVIOUS
<1>2. PICK sc : sc = ParentContext(i)
    OBVIOUS
<1>3. i \in 0..Len(spans) /\ i \in Parents(s) /\ (i # 0 => i \in Index /\ WellFormed(spans[i].ctx))
    BY IndexFacts DEF Call, Parents, Index, IInv, Numbered
<1>4. WellFormed(sc) /\ (i = 0 => sc = EmptyContext) /\ (i # 0 => sc = spans[i].ctx)
    BY <1>2, <1>3, EmptyContextFacts DEF ParentContext
<1>5. i # 0 => Comes(sc, spans[i].ctx, TRUE)
    BY <1>4 DEF Comes
<1>6. PICK h : h = Inject(Started(s, "client", sc, decision, i, TRUE).ctx, Style[s], NoHeaders)
    OBVIOUS
<1>7. \E style \in Styles : h = Inject(Started(s, "client", sc, decision, i, TRUE).ctx, style, NoHeaders)
    BY <1>6, TracerFacts
<1>8. Log(Started(s, "client", sc, decision, i, TRUE), h) /\ UNCHANGED <<noop, extracted>>
    BY <1>2, <1>6 DEF Call
<1>. QED
    BY <1>1, <1>3, <1>4, <1>5, <1>7, <1>8, StartStep

\* What the edge may ask for.
LEMMA EdgeContextFacts ==
    ASSUME NEW sc \in EdgeContexts
    PROVE  WellFormed(sc) /\ sc.trace = 0 /\ sc.id = 0 /\ sc.parent = None
<1>1. CASE sc = EmptyContext
    BY <1>1, EmptyContextFacts
<1>2. CASE sc = [EmptyContext EXCEPT !.debug = TRUE]
    BY <1>2 DEF EmptyContext, WellFormed, ContextType
<1>3. ASSUME NEW d \in BOOLEAN, sc = [EmptyContext EXCEPT !.sampled = d]
      PROVE  WellFormed(sc) /\ sc.trace = 0 /\ sc.id = 0 /\ sc.parent = None
    BY <1>3 DEF EmptyContext, WellFormed, ContextType
<1>. QED
    BY <1>1, <1>2, <1>3 DEF EdgeContexts

LEMMA EdgeCallStep ==
    ASSUME IInv, NEW sc \in EdgeContexts, NEW s \in Services, EdgeCall(sc, Style[s])
    PROVE  IInv'
<1>1. PICK n : n = Len(spans) + 1
    OBVIOUS
<1>2. PICK h : h = Inject(sc, Style[s], NoHeaders)
    OBVIOUS
<1>3. PICK y : y = [service |-> None, kind |-> "client", ctx |-> sc, noop |-> TRUE,
                    caller |-> 0, whole |-> TRUE, headers |-> h]
    OBVIOUS
<1>4. spans' = Append(spans, y) /\ UNCHANGED <<noop, extracted>>
    <2>. DEFINE sp == [service |-> None, kind |-> "client", ctx |-> sc, noop |-> TRUE,
                       caller |-> 0, whole |-> TRUE, headers |-> NoHeaders]
    <2>1. y = [sp EXCEPT !.headers = h]
        <3>1. PICK yes : yes = TRUE
            OBVIOUS
        <3>2. sp = [service |-> None, kind |-> "client", ctx |-> sc, noop |-> yes,
                    caller |-> 0, whole |-> yes, headers |-> NoHeaders]
            BY <3>1
        <3>3. y = [service |-> None, kind |-> "client", ctx |-> sc, noop |-> yes,
                   caller |-> 0, whole |-> yes, headers |-> h]
            BY <1>3, <3>1
        <3>4. [[service |-> None, kind |-> "client", ctx |-> sc, noop |-> yes,
                caller |-> 0, whole |-> yes, headers |-> NoHeaders] EXCEPT !.headers = h] = y
            BY <3>3
        <3>. HIDE DEF sp
        <3>. QED
            BY <3>2, <3>4
    <2>2. Log(sp, h) /\ UNCHANGED <<noop, extracted>>
        BY <1>2 DEF EdgeCall
    <2>. HIDE DEF sp
    <2>. QED
        BY <2>1, <2>2 DEF Log
<1>5. /\ WellFormed(sc) /\ sc \in ContextType /\ sc.trace = 0 /\ sc.id = 0 /\ sc.parent = None
      /\ Style[s] \in Styles
    BY EdgeContextFacts, TracerFacts DEF WellFormed
<1>6. h \in HeadersType
    BY <1>2, <1>5 DEF HeadersType
<1>7. y \in SpanType
    BY <1>3, <1>5, <1>6 DEF SpanType
<1>8. /\ y.kind = "client" /\ y.ctx = sc /\ y.noop = TRUE /\ y.caller = 0 /\ y.headers = h
    BY <1>3
<1>9. spans'[n] = y /\ n \in Nat \ {0}
    BY <1>1, <1>4, <1>7, AppendFacts, IndexFacts
<1>10. Numbered(n)'
    BY <1>2, <1>5, <1>8, <1>9 DEF Numbered
<1>11. Descends(n)'
    BY <1>8, <1>9 DEF Descends
<1>12. Linked(n)'
    BY <1>5, <1>8, <1>9 DEF Linked
<1>. QED
    BY <1>1, <1>4, <1>7, <1>10, <1>11, <1>12, AppendStep

LEMMA ExtractStep ==
    ASSUME IInv, NEW s \in Services, NEW i \in Index, ExtractRequest(s, i)
    PROVE  IInv'
<1>1. PICK h \in Arrivals(spans[i].headers) :
        extracted' = extracted \cup
            {[service |-> s, caller |-> i,
              result |-> TracerExtract(noop[s], Extract(h)),
              whole |-> h = spans[i].headers /\ ~noop[s]]}
    BY DEF ExtractRequest
<1>2. PICK up : up = spans[i].ctx
    OBVIOUS
<1>3. PICK result : result = TracerExtract(noop[s], Extract(h))
    OBVIOUS
<1>4. PICK whole \in BOOLEAN : whole <=> h = spans[i].headers /\ ~noop[s]
    OBVIOUS
<1>5. PICK e : e = [service |-> s, caller |-> i, result |-> result, whole |-> whole]
    OBVIOUS
<1>6. noop[s] \in BOOLEAN /\ UNCHANGED <<noop, spans>> /\ Index' = Index
    BY DEF IInv, Shapes, ExtractRequest, Index
<1>7. extracted' = extracted \cup {e}
    BY <1>1, <1>3, <1>4, <1>5, <1>6
<1>8. PICK style \in Styles : spans[i].headers = Inject(up, style, NoHeaders)
    BY <1>2 DEF IInv, Numbered, ExtractRequest
<1>9. WellFormed(up)
    BY <1>2 DEF IInv, Numbered
<1>10. Outcome(Extract(h), up)
    <2>1. h \in Arrivals(Inject(up, style, NoHeaders))
        BY <1>8
    <2>2. MultiPartOf(h, up) /\ (h.b3 = <<>> \/ PartOf(h.b3, BuildSingleHeader(up)))
        BY <1>9, <2>1, ArrivingHeaders
    <2>. QED
        BY <1>9, <2>2, ExtractOutcome
<1>11. Outcome(result, up)
    BY <1>3, <1>6, <1>10, EmptyContextFacts DEF TracerExtract, Outcome, Ok
<1>12. whole => \/ result = Ok(up)
                \/ Unwritable(up) /\ result = Ok(EmptyContext)
    BY <1>3, <1>4, <1>8, <1>9, ExtractInjected DEF TracerExtract, Styles
<1>13. Faithful(e)
    BY <1>2, <1>5, <1>11, <1>12 DEF Faithful
<1>14. \A x \in extracted' : Faithful(x)
    BY <1>7, <1>13 DEF IInv
<1>15. noop' \in [Services -> BOOLEAN]
    BY <1>6 DEF IInv, Shapes
<1>. QED
    BY <1>6, <1>14, <1>15, SameSpans

LEMMA StartServerStep ==
    ASSUME IInv, NEW e \in extracted, NEW decision \in BOOLEAN, StartServer(e, decision)
    PROVE  IInv'
<1>1. PICK n : n = Len(spans) + 1
    OBVIOUS
<1>2. PICK sc : sc = Parent(e.result)
    OBVIOUS
<1>3. PICK up : up = spans[e.caller].ctx
    OBVIOUS
<1>4. /\ e.service \in Services /\ e.caller \in Index /\ e.whole \in BOOLEAN
      /\ Outcome(e.result, up)
      /\ e.whole => \/ e.result = Ok(up)
                    \/ Unwritable(up) /\ e.result = Ok(EmptyContext)
    BY <1>3 DEF IInv, Faithful
<1>5. e.caller \in 0..Len(spans) /\ e.caller # 0
    BY <1>4, IndexFacts DEF Index
<1>6. WellFormed(sc)
    BY <1>2, <1>4, EmptyContextFacts DEF Parent, Outcome
<1>7. Comes(sc, up, e.whole)
    <2>1. sc.trace # 0 => /\ sc.trace = up.trace /\ sc.id = up.id
                          /\ sc.parent \in {up.parent, None}
        BY <1>2, <1>4, EmptyContextFacts DEF Parent, Outcome
    <2>2. e.whole => \/ sc = up
                     \/ Unwritable(up) /\ sc = EmptyContext
        BY <1>2, <1>4 DEF Parent, Ok
    <2>. QED
        BY <2>1, <2>2 DEF Comes
<1>8. UNCHANGED noop /\ extracted' \subseteq extracted
    BY DEF StartServer
<1>9. CASE ParentPanics(Tracers[e.service], e.result)
    BY <1>8, <1>9, SameSpans DEF StartServer, IInv, Shapes
<1>10. CASE ~ParentPanics(Tracers[e.service], e.result)
    <2>1. Log(Started(e.service, "server", sc, decision, e.caller, e.whole), NoHeaders)
        BY <1>2, <1>10 DEF StartServer
    <2>. QED
        BY <1>1, <1>3, <1>4, <1>5, <1>6, <1>7, <1>8, <2>1, StartStep
<1>. QED
    BY <1>9, <1>10

LEMMA InitInvariant == Init => IInv
<1>. SUFFICES ASSUME Init PROVE IInv
    OBVIOUS
<1>1. spans = <<>> /\ extracted = {} /\ Index = {}
    BY DEF Init, Index
<1>2. noop \in [Services -> BOOLEAN]
    BY OptionsAssumption DEF Init, Tracers, TracerType
<1>. QED
    BY <1>1, <1>2 DEF IInv, Shapes

LEMMA NextInvariant == IInv /\ [Next]_vars => IInv'
<1>. SUFFICES ASSUME IInv, [Next]_vars PROVE IInv'
    OBVIOUS
<1>1. ASSUME NEW s \in Services, SetNoop(s) PROVE IInv'
    BY <1>1, SetNoopStep
<1>2. ASSUME NEW s \in Services, NEW i \in 0..Len(spans), NEW decision \in BOOLEAN,
             Call(s, i, decision)
      PROVE  IInv'
    BY <1>2, CallStep
<1>3. ASSUME NEW sc \in EdgeContexts, NEW s \in Services, EdgeCall(sc, Style[s]) PROVE IInv'
    BY <1>3, EdgeCallStep
<1>4. ASSUME NEW s \in Services, NEW i \in Index, ExtractRequest(s, i) PROVE IInv'
    BY <1>4, ExtractStep
<1>5. ASSUME NEW e \in extracted, NEW decision \in BOOLEAN, StartServer(e, decision)
      PROVE  IInv'
    BY <1>5, StartServerStep
<1>6. CASE UNCHANGED vars
    BY <1>6, SameSpans DEF vars, IInv, Shapes
<1>. QED
    BY <1>1, <1>2, <1>3, <1>4, <1>5, <1>6 DEF Next

-----------------------------------------------------------------------------
(* Theorems.                                                                 *)

\* What the proofs of the others rest on: IDs come from spans that were started, a
\* span follows its caller or restarts, links lead to collected spans, and an
\* extraction gives what was written or nothing that misleads.
THEOREM Invariance == Spec => []IInv
<1>. QED
    BY InitInvariant, NextInvariant, PTL DEF Spec

\* Spans and extractions have their types, and no parser ever panics on headers that
\* Inject wrote and the network damaged.
THEOREM TypeCorrect == Spec => []TypeOK
<1>1. ASSUME IInv PROVE TypeOK
    <2>1. \A i \in Index : spans[i] \in SpanType /\ spans[i].caller \in 0..(i - 1)
        BY <1>1, IndexFacts DEF IInv, Numbered
    <2>2. \A e \in extracted :
            /\ e.service \in Services /\ e.caller \in Index
            /\ e.result.ctx \in ContextType /\ e.result.err \in {"nil", "error"}
        BY <1>1 DEF IInv, Faithful, Outcome, WellFormed
    <2>. QED
        BY <1>1, <2>1, <2>2 DEF TypeOK, SpanType, IInv, Shapes
<1>. QED
    BY <1>1, Invariance, PTL

\* A span follows the one that called it, or starts a trace of its own: whatever is
\* damaged, whichever tracers are switched off.
THEOREM TracesContinue == Spec => []FollowsOrRestarts
<1>1. IInv => FollowsOrRestarts
    BY DEF IInv, Descends, FollowsOrRestarts
<1>. QED
    BY <1>1, Invariance, PTL

\* A decision, once made, is the decision of every span the headers reach whole.
THEOREM DecisionsHold == Spec => []DecisionKept
<1>1. IInv => DecisionKept
    BY DEF IInv, Descends, DecisionKept
<1>. QED
    BY <1>1, Invariance, PTL

\* The parent of a reported span is reported, in a trace of any length through any
\* number of services.
THEOREM NoHolesInTraces == Spec => []NoHoles
<1>1. ASSUME IInv, Clean, NEW i \in Index, Collected(i), spans[i].ctx.parent # None
      PROVE  Borne(spans[i].ctx.trace, spans[i].ctx.parent, i - 1)
    <2>1. WellFormed(spans[i].ctx) /\ Linked(i)
        BY <1>1 DEF IInv, Numbered
    <2>. QED
        BY <1>1, <2>1 DEF WellFormed, Linked, Collected
<1>2. IInv => NoHoles
    BY <1>1 DEF NoHoles, Clean, Borne
<1>. QED
    BY <1>2, Invariance, PTL

\* Two spans of a trace bear one ID only as the two sides of a call whose server
\* shares spans.
THEOREM IdsApart == Spec => []IdsDistinct
<1>1. ASSUME IInv, NEW i \in Index, NEW j \in Index, i < j,
             ~spans[j].noop, spans[i].ctx.id = spans[j].ctx.id
      PROVE  spans[j].kind = "server" /\ Tracers[spans[j].service].sharedSpans
    <2>1. spans[i].ctx.id \in 0..i /\ i \in Nat /\ j \in Nat
        BY <1>1, IndexFacts DEF IInv, Numbered
    <2>2. spans[j].ctx.id # j
        BY <1>1, <2>1
    <2>. QED
        BY <1>1, <2>2 DEF IInv, Numbered
<1>2. IInv => IdsDistinct
    BY <1>1 DEF IdsDistinct
<1>. QED
    BY <1>2, Invariance, PTL
=============================================================================
