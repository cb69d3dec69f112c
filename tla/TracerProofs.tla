---------------------------- MODULE TracerProofs ----------------------------
(* Lemmas about B3 and Tracer, for the theorems about the modules that use  *)
(* them.                                                                    *)
EXTENDS Tracer, SequenceTheorems, TLAPS

-----------------------------------------------------------------------------
(* Contexts, and what an extraction may make of the headers one is written to. *)

\* A context has both IDs or none, a parent only with them, and no decision beside
\* debug.
WellFormed(sc) ==
    /\ sc \in ContextType
    /\ sc.trace = 0 <=> sc.id = 0
    /\ sc.trace = 0 => sc.parent = None
    /\ sc.debug => sc.sampled = None

\* An error, or a context with the IDs of sc or with none.
Outcome(result, sc) ==
    /\ result.err \in {"nil", "error"}
    /\ WellFormed(result.ctx)
    /\ result.ctx.trace # 0 =>
            /\ result.ctx.trace = sc.trace /\ result.ctx.id = sc.id
            /\ result.ctx.parent \in {sc.parent, None}

LEMMA EmptyContextFacts ==
    /\ WellFormed(EmptyContext) /\ EmptyContext \in ContextType
    /\ EmptyContext.trace = 0 /\ EmptyContext.id = 0 /\ EmptyContext.parent = None
    /\ EmptyContext.sampled = None /\ ~EmptyContext.debug
BY DEF EmptyContext, WellFormed, ContextType

LEMMA ContextEqual ==
    ASSUME NEW sc \in ContextType, NEW other \in ContextType,
           sc.trace = other.trace, sc.id = other.id, sc.parent = other.parent,
           sc.sampled = other.sampled, sc.debug = other.debug
    PROVE  sc = other
BY DEF ContextType

LEMMA ErrorOutcome == \A sc : Outcome(Error, sc)
BY EmptyContextFacts DEF Error, Outcome

\* WithSampling on a context that has no decision yet.
LEMMA WithSamplingOutcome ==
    ASSUME NEW x, WellFormed(x), x.sampled = None, ~x.debug, NEW flag
    PROVE  /\ Outcome(WithSampling(x, flag), x)
           /\ flag \in {"0", "1", "d"} =>
                /\ WithSampling(x, flag).ctx.trace = x.trace
                /\ WithSampling(x, flag).ctx.id = x.id
                /\ WithSampling(x, flag).ctx.parent = x.parent
                /\ WithSampling(x, flag).ctx.debug <=> flag = "d"
                /\ flag = "d" => WithSampling(x, flag).ctx.sampled = None
                /\ flag = "1" => WithSampling(x, flag).ctx.sampled = TRUE
                /\ flag = "0" => WithSampling(x, flag).ctx.sampled = FALSE
                /\ WithSampling(x, flag) = Ok(WithSampling(x, flag).ctx)
<1>1. CASE flag = "d"
    <2>. DEFINE y == [x EXCEPT !.debug = TRUE]
    <2>1. WithSampling(x, flag) = Ok(y)
        BY <1>1 DEF WithSampling
    <2>2. /\ y \in ContextType /\ y.trace = x.trace /\ y.id = x.id /\ y.parent = x.parent
          /\ y.debug /\ y.sampled = None
        BY DEF WellFormed, ContextType
    <2>. HIDE DEF y
    <2>. QED
        BY <1>1, <2>1, <2>2 DEF Outcome, WellFormed, Ok
<1>2. CASE flag \in {"0", "1"}
    <2>1. PICK d \in BOOLEAN : (d <=> flag = "1") /\ WithSampling(x, flag) = Ok([x EXCEPT !.sampled = d])
        <3>1. CASE flag = "1"
            BY <3>1 DEF WithSampling
        <3>2. CASE flag = "0"
            BY <3>2 DEF WithSampling
        <3>. QED
            BY <1>2, <3>1, <3>2
    <2>. DEFINE y == [x EXCEPT !.sampled = d]
    <2>2. /\ y \in ContextType /\ y.trace = x.trace /\ y.id = x.id /\ y.parent = x.parent
          /\ ~y.debug /\ y.sampled = d
        BY DEF WellFormed, ContextType
    <2>3. WithSampling(x, flag) = Ok(y)
        BY <2>1
    <2>. HIDE DEF y
    <2>4. (flag = "1" => d = TRUE) /\ (flag = "0" => d = FALSE)
        BY <2>1
    <2>. QED
        BY <1>2, <2>2, <2>3, <2>4 DEF Outcome, WellFormed, Ok
<1>3. CASE flag \notin {"0", "1", "d"}
    <2>1. WithSampling(x, flag) = Error
        BY <1>3 DEF WithSampling
    <2>. QED
        BY <1>3, <2>1, ErrorOutcome
<1>. QED
    BY <1>1, <1>2, <1>3

-----------------------------------------------------------------------------
(* The single header.                                                        *)

\* h is what arrives of header b: of each field, the field itself or Garbage.
PartOf(h, b) ==
    /\ Len(h) = Len(b) /\ Len(b) \in Nat
    /\ b = <<>> => h = <<>>
    /\ \A k \in 1..Len(b) :
        /\ h[k].width = b[k].width
        /\ b[k].width # 1 => h[k].id \in {b[k].id, Garbage}
        /\ b[k].width = 1 => h[k].flag \in {b[k].flag, Garbage}

Flag(sc) == IF sc.debug THEN "d" ELSE IF sc.sampled THEN "1" ELSE "0"

\* The fields, by what sc has.
LEMMA SingleHeader ==
    ASSUME NEW sc, WellFormed(sc)
    PROVE  LET ids == <<IdField(TraceWidth, sc.trace), IdField(16, sc.id)>>
               field == SamplingField(Flag(sc))
               b == BuildSingleHeader(sc)
           IN  /\ sc.trace = 0 /\ ~Decided(sc) => b = <<>>
               /\ sc.trace = 0 /\ Decided(sc) => b = <<field>>
               /\ sc.trace # 0 /\ ~Decided(sc) /\ sc.parent = None => b = ids
               /\ sc.trace # 0 /\ Decided(sc) /\ sc.parent = None =>
                    b = <<ids[1], ids[2], field>>
               /\ sc.trace # 0 /\ ~Decided(sc) /\ sc.parent # None =>
                    b = <<ids[1], ids[2], IdField(16, sc.parent)>>
               /\ sc.trace # 0 /\ Decided(sc) /\ sc.parent # None =>
                    b = <<ids[1], ids[2], field, IdField(16, sc.parent)>>
<1>. DEFINE one == IdField(TraceWidth, sc.trace)
            two == IdField(16, sc.id)
            field == SamplingField(Flag(sc))
            last == IdField(16, sc.parent)
            S == {one, two, field, last}
<1>1. /\ HasIds(sc) <=> sc.trace # 0
      /\ Sampling(sc) = IF Decided(sc) THEN <<field>> ELSE <<>>
    BY DEF HasIds, WellFormed, ContextType, Sampling, Decided, Flag
<1>2. BuildSingleHeader(sc) =
        (IF sc.trace # 0 THEN <<one, two>> ELSE <<>>)
        \o (IF Decided(sc) THEN <<field>> ELSE <<>>)
        \o (IF sc.parent = None THEN <<>> ELSE <<last>>)
    BY <1>1 DEF BuildSingleHeader
<1>3. /\ <<>> \in Seq(S) /\ <<field>> \in Seq(S) /\ <<last>> \in Seq(S) /\ <<one, two>> \in Seq(S)
      /\ <<one, two, field>> \in Seq(S) /\ <<one, two, last>> \in Seq(S)
      /\ <<one, two, field, last>> \in Seq(S)
    OBVIOUS
<1>. HIDE DEF one, two, field, last
<1>4. \A s \in Seq(S) : s \o <<>> = s /\ <<>> \o s = s
    BY ConcatEmptySeq
<1>5. ASSUME NEW s \in Seq(S), NEW f \in S
      PROVE  /\ s \o <<f>> \in Seq(S) /\ Len(s \o <<f>>) = Len(s) + 1
             /\ (s \o <<f>>)[Len(s) + 1] = f
             /\ \A k \in 1..Len(s) : (s \o <<f>>)[k] = s[k]
    <2>1. <<f>> \in Seq(S) /\ Len(<<f>>) = 1 /\ <<f>>[1] = f
        OBVIOUS
    <2>2. Len(s) \in Nat
        OBVIOUS
    <2>. QED
        BY <2>1, <2>2, ConcatProperties
<1>6. ASSUME NEW f \in S PROVE <<one, two>> \o <<f>> = <<one, two, f>>
    <2>1. <<one, two>> \o <<f>> \in Seq(S) /\ <<one, two, f>> \in Seq(S)
        BY <1>3, <1>5
    <2>2. Len(<<one, two>> \o <<f>>) = 3 /\ Len(<<one, two, f>>) = 3
        BY <1>3, <1>5
    <2>3. \A k \in 1..3 : (<<one, two>> \o <<f>>)[k] = <<one, two, f>>[k]
        BY <1>3, <1>5
    <2>. QED
        BY <2>1, <2>2, <2>3, SeqEqual
<1>7. <<one, two, field>> \o <<last>> = <<one, two, field, last>>
    <2>1. <<one, two, field>> \o <<last>> \in Seq(S) /\ <<one, two, field, last>> \in Seq(S)
        BY <1>3, <1>5
    <2>2. Len(<<one, two, field>> \o <<last>>) = 4 /\ Len(<<one, two, field, last>>) = 4
        BY <1>3, <1>5
    <2>3. \A k \in 1..4 :
            (<<one, two, field>> \o <<last>>)[k] = <<one, two, field, last>>[k]
        BY <1>3, <1>5
    <2>. QED
        BY <2>1, <2>2, <2>3, SeqEqual
<1>8. sc.trace = 0 => sc.parent = None
    BY DEF WellFormed
<1>9. field \in S /\ last \in S
    OBVIOUS
<1>. HIDE DEF S
<1>. QED
    BY <1>2, <1>3, <1>4, <1>6, <1>7, <1>8, <1>9 DEF one, two, field, last

\* A context is read from its IDs and the character of its decision.
LEMMA FlagSampling ==
    ASSUME NEW sc, WellFormed(sc),
           NEW y, WellFormed(y), y.trace = sc.trace, y.id = sc.id, y.parent = sc.parent,
           y.sampled = None, ~y.debug
    PROVE  /\ Decided(sc) => WithSampling(y, Flag(sc)) = Ok(sc)
           /\ ~Decided(sc) => y = sc
<1>. DEFINE flag == Flag(sc)
<1>1. sc \in ContextType /\ y \in ContextType /\ sc.debug \in BOOLEAN /\ y.debug = FALSE
    BY DEF WellFormed, ContextType
<1>2. /\ flag \in {"0", "1", "d"}
      /\ flag = "d" <=> sc.debug
      /\ Decided(sc) /\ ~sc.debug =>
            \/ sc.sampled = TRUE /\ flag = "1"
            \/ sc.sampled = FALSE /\ flag = "0"
    BY <1>1 DEF Flag, ContextType, Decided
<1>. HIDE DEF flag
<1>3. CASE Decided(sc)
    <2>. DEFINE result == WithSampling(y, flag)
    <2>0. result.ctx \in ContextType
        BY WithSamplingOutcome DEF Outcome, WellFormed
    <2>1. /\ result.ctx.trace = y.trace /\ result.ctx.id = y.id
          /\ result.ctx.parent = y.parent
          /\ result.ctx.debug <=> flag = "d"
          /\ flag = "d" => result.ctx.sampled = None
          /\ flag = "1" => result.ctx.sampled = TRUE
          /\ flag = "0" => result.ctx.sampled = FALSE
          /\ result = Ok(result.ctx)
        <3>1. result.ctx.trace = y.trace
            BY <1>2, WithSamplingOutcome, ZenonT(60)
        <3>2. result.ctx.id = y.id
            BY <1>2, WithSamplingOutcome, ZenonT(60)
        <3>3. result.ctx.parent = y.parent
            BY <1>2, WithSamplingOutcome, ZenonT(60)
        <3>4. /\ result.ctx.debug <=> flag = "d"
              /\ flag = "d" => result.ctx.sampled = None
              /\ flag = "1" => result.ctx.sampled = TRUE
              /\ flag = "0" => result.ctx.sampled = FALSE
              /\ result = Ok(result.ctx)
            BY <1>2, WithSamplingOutcome
        <3>. QED
            BY <3>1, <3>2, <3>3, <3>4
    <2>. HIDE DEF result
    <2>2. result.ctx.debug \in BOOLEAN
        BY <2>0 DEF ContextType
    <2>3. result.ctx.debug = sc.debug
        BY <1>1, <1>2, <2>1, <2>2
    <2>4. result.ctx.sampled = sc.sampled
        BY <1>2, <1>3, <2>1 DEF WellFormed
    <2>5. result.ctx = sc
        BY <1>1, <2>0, <2>1, <2>3, <2>4, ContextEqual
    <2>. QED
        BY <1>3, <2>1, <2>5 DEF result, flag
<1>4. CASE ~Decided(sc)
    <2>1. sc.sampled = None /\ sc.debug = FALSE
        BY <1>1, <1>4 DEF Decided
    <2>2. y = sc
        BY <1>1, <2>1, ContextEqual
    <2>. QED
        BY <1>4, <2>2
<1>. QED
    BY <1>3, <1>4

\* What comes after a trace ID, by the number of its fields.
LEMMA ParseAfterTraceCases ==
    ASSUME NEW h, NEW x, NEW withId, withId = [x EXCEPT !.id = h[2].id]
    PROVE  /\ ~IsId(h[2], 16) => ParseAfterTrace(h, x) = Error
           /\ Len(h) = 2 /\ IsId(h[2], 16) => ParseAfterTrace(h, x) = Ok(withId)
           /\ Len(h) = 3 /\ IsId(h[2], 16) /\ h[3].width = 1 =>
                ParseAfterTrace(h, x) = WithSampling(withId, h[3].flag)
           /\ Len(h) = 4 /\ ~IsId(h[4], 16) => ParseAfterTrace(h, x) = Error
           /\ Len(h) = 4 /\ IsId(h[2], 16) /\ h[3].width = 1 /\ IsId(h[4], 16) =>
                ParseAfterTrace(h, x) =
                    WithSampling([withId EXCEPT !.parent = h[4].id], h[3].flag)
BY DEF ParseAfterTrace

\* What ParseAfterTrace looks at.
LEMMA ParseAfterTraceOutcome ==
    ASSUME NEW sc, WellFormed(sc), sc.trace # 0,
           NEW h, PartOf(h, BuildSingleHeader(sc)),
           NEW x, x = [EmptyContext EXCEPT !.trace = sc.trace]
    PROVE  /\ Len(h) \in 2..4
           /\ Outcome(ParseAfterTrace(h, x), sc)
           /\ h = BuildSingleHeader(sc) /\ (sc.parent = None \/ Decided(sc)) =>
                ParseAfterTrace(h, x) = Ok(sc)
           /\ h = BuildSingleHeader(sc) /\ sc.parent # None /\ ~Decided(sc) =>
                ParseAfterTrace(h, x) = Error
           /\ Len(h) = 2 => h[2].width = 16
<1>. DEFINE b == BuildSingleHeader(sc)
            flag == Flag(sc)
            withId == [x EXCEPT !.id = sc.id]
            withParent == [withId EXCEPT !.parent = sc.parent]
<1>1. /\ sc.id # Garbage /\ sc.parent # Garbage /\ sc.trace # Garbage
      /\ sc \in ContextType /\ sc.id # 0 /\ sc.id \in Nat
    BY NoneGarbageAssumption DEF WellFormed, ContextType
<1>2. /\ withId \in ContextType /\ withId.trace = sc.trace /\ withId.id = sc.id
      /\ withId.parent = None /\ withId.sampled = None /\ ~withId.debug
    BY <1>1 DEF ContextType, EmptyContext
<1>3. /\ withParent \in ContextType /\ withParent.trace = sc.trace /\ withParent.id = sc.id
      /\ withParent.parent = sc.parent /\ withParent.sampled = None /\ ~withParent.debug
    BY <1>1 DEF ContextType, EmptyContext
<1>4. withId = [x EXCEPT !.id = sc.id] /\ withParent = [withId EXCEPT !.parent = sc.parent]
    OBVIOUS
<1>. HIDE DEF flag, withId, withParent
<1>5. WellFormed(withId) /\ WellFormed(withParent)
    BY <1>1, <1>2, <1>3 DEF WellFormed
<1>6. \A y : WellFormed(y) /\ y.trace = sc.trace /\ y.id = sc.id /\ y.parent \in {sc.parent, None} =>
            /\ Outcome(Ok(y), sc)
            /\ \A result : Outcome(result, y) => Outcome(result, sc)
    BY DEF Outcome, Ok
<1>7. \A y : /\ WellFormed(y) /\ y.trace = sc.trace /\ y.id = sc.id /\ y.parent = sc.parent
             /\ y.sampled = None /\ ~y.debug
             => /\ Decided(sc) => WithSampling(y, flag) = Ok(sc)
                /\ ~Decided(sc) => Ok(y) = Ok(sc)
    BY FlagSampling DEF flag
<1>8. CASE ~Decided(sc) /\ sc.parent = None
    <2>1. b = <<IdField(TraceWidth, sc.trace), IdField(16, sc.id)>>
        BY <1>8, SingleHeader
    <2>2. Len(h) = 2 /\ h[2].width = 16 /\ h[2].id \in {sc.id, Garbage}
        BY <2>1 DEF PartOf, IdField
    <2>3. h = b => h[2].id = sc.id
        BY <2>1 DEF IdField
    <2>4. /\ h[2].id = Garbage => ParseAfterTrace(h, x) = Error
          /\ h[2].id = sc.id => ParseAfterTrace(h, x) = Ok(withId)
        <3>1. IsId(h[2], 16) <=> h[2].id # Garbage
            BY <2>2 DEF IsId
        <3>2. CASE h[2].id = Garbage
            BY <1>1, <2>2, <3>1, <3>2, ParseAfterTraceCases
        <3>3. CASE h[2].id = sc.id
            <4>1. ParseAfterTrace(h, x) = Ok([x EXCEPT !.id = h[2].id])
                BY <1>1, <2>2, <3>1, <3>3, ParseAfterTraceCases
            <4>. QED
                BY <1>1, <1>4, <3>3, <4>1
        <3>. QED
            BY <2>2, <3>2, <3>3
    <2>5. h = b => Ok(withId) = Ok(sc)
        BY <1>2, <1>5, <1>7, <1>8
    <2>. QED
        BY <1>1, <1>2, <1>5, <1>6, <1>8, <2>2, <2>3, <2>4, <2>5, ErrorOutcome
<1>9. CASE Decided(sc) /\ sc.parent = None
    <2>1. b = <<IdField(TraceWidth, sc.trace), IdField(16, sc.id), SamplingField(flag)>>
        BY <1>9, SingleHeader DEF flag
    <2>2. /\ Len(h) = 3 /\ h[2].width = 16 /\ h[2].id \in {sc.id, Garbage}
          /\ h[3].width = 1
        BY <2>1 DEF PartOf, IdField, SamplingField
    <2>3. h = b => h[2].id = sc.id /\ h[3].flag = flag
        BY <2>1 DEF IdField, SamplingField
    <2>4. /\ h[2].id = Garbage => ParseAfterTrace(h, x) = Error
          /\ h[2].id = sc.id => ParseAfterTrace(h, x) = WithSampling(withId, h[3].flag)
        <3>1. IsId(h[2], 16) <=> h[2].id # Garbage
            BY <2>2 DEF IsId
        <3>. QED
            BY <1>1, <1>4, <2>2, <3>1, ParseAfterTraceCases
    <2>5. Outcome(WithSampling(withId, h[3].flag), withId)
        BY <1>2, <1>5, WithSamplingOutcome
    <2>6. WithSampling(withId, flag) = Ok(sc)
        BY <1>2, <1>5, <1>7, <1>9
    <2>. QED
        BY <1>1, <1>2, <1>5, <1>6, <1>9, <2>2, <2>3, <2>4, <2>5, <2>6, ErrorOutcome
<1>10. CASE ~Decided(sc) /\ sc.parent # None
    <2>1. b = <<IdField(TraceWidth, sc.trace), IdField(16, sc.id), IdField(16, sc.parent)>>
        BY <1>10, SingleHeader
    <2>2. Len(h) = 3 /\ h[3].width = 16
        BY <2>1 DEF PartOf, IdField, SamplingField
    <2>4. ParseAfterTrace(h, x) = Error
        BY <2>2 DEF ParseAfterTrace, IsId
    <2>. QED
        BY <1>10, <2>2, <2>4, ErrorOutcome
<1>11. CASE Decided(sc) /\ sc.parent # None
    <2>1. b = <<IdField(TraceWidth, sc.trace), IdField(16, sc.id), SamplingField(flag),
                IdField(16, sc.parent)>>
        BY <1>11, SingleHeader DEF flag
    <2>2. /\ Len(h) = 4 /\ h[2].width = 16 /\ h[2].id \in {sc.id, Garbage}
          /\ h[3].width = 1 /\ h[4].width = 16 /\ h[4].id \in {sc.parent, Garbage}
        BY <2>1 DEF PartOf, IdField, SamplingField
    <2>3. h = b => h[2].id = sc.id /\ h[3].flag = flag /\ h[4].id = sc.parent
        BY <2>1 DEF IdField, SamplingField
    <2>4. /\ h[2].id = Garbage \/ h[4].id = Garbage => ParseAfterTrace(h, x) = Error
          /\ h[2].id = sc.id /\ h[4].id = sc.parent =>
                ParseAfterTrace(h, x) = WithSampling(withParent, h[3].flag)
        <3>1. /\ IsId(h[2], 16) <=> h[2].id # Garbage
              /\ IsId(h[4], 16) <=> h[4].id # Garbage
            BY <2>2 DEF IsId
        <3>. QED
            BY <1>1, <1>4, <2>2, <3>1, ParseAfterTraceCases
    <2>5. Outcome(WithSampling(withParent, h[3].flag), withParent)
        BY <1>3, <1>5, WithSamplingOutcome
    <2>6. WithSampling(withParent, flag) = Ok(sc)
        BY <1>3, <1>5, <1>7, <1>11
    <2>. QED
        BY <1>1, <1>3, <1>5, <1>6, <1>11, <2>2, <2>3, <2>4, <2>5, <2>6, ErrorOutcome
<1>. QED
    BY <1>8, <1>9, <1>10, <1>11

\* The single header never gives a part of a context, and gives all of it but for a
\* parent without a decision.
LEMMA ParseSingleHeaderOutcome ==
    ASSUME NEW sc, WellFormed(sc), NEW h, PartOf(h, BuildSingleHeader(sc)), h # <<>>
    PROVE  /\ Outcome(ParseSingleHeader(h), sc)
           /\ h = BuildSingleHeader(sc) /\ (sc.parent = None \/ Decided(sc)) =>
                ParseSingleHeader(h) = Ok(sc)
           /\ h = BuildSingleHeader(sc) /\ sc.parent # None /\ ~Decided(sc) =>
                ParseSingleHeader(h) = Error
<1>. DEFINE b == BuildSingleHeader(sc)
            flag == Flag(sc)
<1>1. CASE sc.trace = 0 /\ ~Decided(sc)
    BY <1>1, SingleHeader DEF PartOf
<1>2. CASE sc.trace = 0 /\ Decided(sc)
    <2>1. b = <<SamplingField(flag)>>
        BY <1>2, SingleHeader
    <2>2. Len(h) = 1 /\ h[1].width = 1 /\ (h = b => h[1].flag = flag)
        BY <2>1 DEF PartOf, SamplingField
    <2>3. ParseSingleHeader(h) = WithSampling(EmptyContext, h[1].flag)
        BY <2>2 DEF ParseSingleHeader
    <2>4. Outcome(WithSampling(EmptyContext, h[1].flag), EmptyContext)
        BY EmptyContextFacts, WithSamplingOutcome
    <2>5. Outcome(WithSampling(EmptyContext, h[1].flag), sc)
        BY <2>4, EmptyContextFacts DEF Outcome
    <2>6. WithSampling(EmptyContext, flag) = Ok(sc)
        BY <1>2, EmptyContextFacts, FlagSampling DEF WellFormed
    <2>. QED
        BY <1>2, <2>2, <2>3, <2>5, <2>6 DEF WellFormed
<1>3. CASE sc.trace # 0
    <2>. DEFINE x == [EmptyContext EXCEPT !.trace = sc.trace]
    <2>1. /\ Len(h) \in 2..4 /\ (Len(h) = 2 => h[2].width = 16)
          /\ Outcome(ParseAfterTrace(h, x), sc)
          /\ h = b /\ (sc.parent = None \/ Decided(sc)) => ParseAfterTrace(h, x) = Ok(sc)
          /\ h = b /\ sc.parent # None /\ ~Decided(sc) => ParseAfterTrace(h, x) = Error
        BY <1>3, ParseAfterTraceOutcome
    <2>2. /\ Len(b) \in 2..4 /\ b[1] = IdField(TraceWidth, sc.trace)
        BY <1>3, SingleHeader
    <2>3. /\ h[1].width \in {16, 32} /\ h[1].id \in {sc.trace, Garbage}
          /\ h = b => h[1].id = sc.trace
        BY <2>2 DEF PartOf, IdField, TraceWidth
    <2>4. sc.trace # Garbage
        BY NoneGarbageAssumption DEF WellFormed, ContextType
    <2>5. /\ h[1].id = Garbage => ParseSingleHeader(h) = Error
          /\ h[1].id = sc.trace => ParseSingleHeader(h) = ParseAfterTrace(h, x)
        BY <2>1, <2>3, <2>4 DEF ParseSingleHeader, IsId
    <2>. QED
        BY <2>1, <2>3, <2>4, <2>5, ErrorOutcome
<1>. QED
    BY <1>1, <1>2, <1>3

-----------------------------------------------------------------------------
(* The multiple headers.                                                     *)

\* What may arrive of the headers that sc is written to.
MultiPartOf(h, sc) ==
    /\ h.traceId \in {None, Garbage} \/ (sc.trace # 0 /\ h.traceId = sc.trace)
    /\ h.spanId \in {None, Garbage} \/ (sc.trace # 0 /\ h.spanId = sc.id)
    /\ h.parentId \in {None, Garbage} \/ (sc.parent # None /\ h.parentId = sc.parent)

LEMMA EmptyDecided ==
    ASSUME NEW debug \in BOOLEAN, NEW sampled \in BOOLEAN \cup {None},
           NEW x, x = [EmptyContext EXCEPT !.debug = debug, !.sampled = sampled]
    PROVE  x \in ContextType /\ x.debug = debug /\ x.sampled = sampled
<1>1. x \in ContextType
    BY DEF EmptyContext, ContextType
<1>2. x.debug = debug
    BY DEF EmptyContext
<1>3. x.sampled = sampled
    BY DEF EmptyContext
<1>. QED
    BY <1>1, <1>2, <1>3

LEMMA DecisionFacts ==
    ASSUME NEW h
    PROVE  /\ Decision(h) \in ContextType
           /\ Decision(h).debug => Decision(h).sampled = None
           /\ Decision(h).debug <=> h.flags = "1"
           /\ h.flags = "1" \/ h.sampled = None => Decision(h).sampled = None
           /\ h.flags # "1" /\ h.sampled = "1" => Decision(h).sampled = TRUE
           /\ h.flags # "1" /\ h.sampled = "0" => Decision(h).sampled = FALSE
<1>. DEFINE debug == h.flags = "1"
            sampled == IF h.flags = "1" \/ h.sampled = None THEN None ELSE h.sampled = "1"
<1>1. Decision(h) = [EmptyContext EXCEPT !.debug = debug, !.sampled = sampled]
    BY DEF Decision
<1>2. debug \in BOOLEAN /\ sampled \in BOOLEAN \cup {None}
    OBVIOUS
<1>3. h.flags = "1" \/ h.sampled = None => sampled = None
    OBVIOUS
<1>4. h.flags # "1" /\ h.sampled = "1" => sampled = TRUE
    BY NoneGarbageAssumption
<1>5. h.flags # "1" /\ h.sampled = "0" => sampled = FALSE
    BY NoneGarbageAssumption
<1>6. debug <=> h.flags = "1"
    OBVIOUS
<1>. HIDE DEF debug, sampled
<1>7. /\ Decision(h) \in ContextType
      /\ Decision(h).debug = debug /\ Decision(h).sampled = sampled
    BY <1>1, <1>2, EmptyDecided
<1>. QED
    BY <1>1, <1>3, <1>4, <1>5, <1>6, <1>7

LEMMA ParseHeadersOutcome ==
    ASSUME NEW sc, WellFormed(sc), NEW h, MultiPartOf(h, sc)
    PROVE  Outcome(ParseHeaders(h), sc)
<1>. DEFINE x == Decision(h)
            trace == IdOf(h.traceId)
            id == IdOf(h.spanId)
            parent == h.parentId
            ctx == [x EXCEPT !.trace = trace, !.id = id, !.parent = parent]
<1>1. CASE Invalid(h)
    BY <1>1, ErrorOutcome DEF ParseHeaders
<1>2. CASE ~Invalid(h)
    <2>1. ParseHeaders(h) = Ok(ctx)
        BY <1>2 DEF ParseHeaders
    <2>2. /\ sc.trace \in Nat /\ sc.id \in Nat /\ sc.parent \in Nat \cup {None}
          /\ None \notin Nat /\ Garbage \notin Nat
          /\ (sc.trace = 0 <=> sc.id = 0) /\ (sc.trace = 0 => sc.parent = None)
        BY NoneGarbageAssumption DEF WellFormed, ContextType
    <2>3. /\ trace \in Nat /\ id \in Nat /\ parent \in Nat \cup {None}
          /\ trace = 0 <=> id = 0
          /\ trace = 0 => parent = None
          /\ trace # 0 => trace = sc.trace /\ id = sc.id /\ parent \in {sc.parent, None}
        BY <1>2, <2>2 DEF Invalid, IdOf, MultiPartOf
    <2>. HIDE DEF trace, id, parent, x
    <2>4. /\ ctx \in ContextType /\ ctx.trace = trace /\ ctx.id = id /\ ctx.parent = parent
          /\ ctx.sampled = x.sampled /\ ctx.debug = x.debug
        BY <2>3, DecisionFacts DEF ContextType, x
    <2>. HIDE DEF ctx
    <2>5. ctx.debug => ctx.sampled = None
        BY <2>4, DecisionFacts DEF x
    <2>. QED
        BY <2>1, <2>3, <2>4, <2>5 DEF Outcome, WellFormed, Ok
<1>. QED
    BY <1>1, <1>2

\* The multiple headers of h are those of sc alone.
Written(h, sc) ==
    /\ h.flags = IF sc.debug THEN "1" ELSE None
    /\ ~Decided(sc) \/ sc.debug => h.sampled = None
    /\ sc.sampled = TRUE => h.sampled = "1"
    /\ sc.sampled = FALSE => h.sampled = "0"
    /\ h.traceId = IF sc.trace = 0 THEN None ELSE sc.trace
    /\ h.spanId = IF sc.trace = 0 THEN None ELSE sc.id
    /\ h.parentId = sc.parent

LEMMA MultiHeaders ==
    /\ Written(NoHeaders, EmptyContext) /\ NoHeaders.b3 = <<>>
    /\ \A sc : WellFormed(sc) =>
            Written(InjectMulti(sc, NoHeaders), sc) /\ InjectMulti(sc, NoHeaders).b3 = <<>>
    /\ \A b : Written([NoHeaders EXCEPT !.b3 = b], EmptyContext)
              /\ [NoHeaders EXCEPT !.b3 = b].b3 = b
    /\ \A sc, b : WellFormed(sc) =>
            /\ Written([InjectMulti(sc, NoHeaders) EXCEPT !.b3 = b], sc)
            /\ [InjectMulti(sc, NoHeaders) EXCEPT !.b3 = b].b3 = b
<1>1. ASSUME NEW h, NEW b,
             h = [traceId |-> None, spanId |-> None, parentId |-> None, sampled |-> None,
                  flags |-> None, b3 |-> b]
      PROVE  Written(h, EmptyContext) /\ h.b3 = b
    BY <1>1, EmptyContextFacts, NoneGarbageAssumption DEF Written, Decided
<1>2. ASSUME NEW sc, WellFormed(sc), NEW h, NEW b,
             h = [InjectMulti(sc, NoHeaders) EXCEPT !.b3 = b]
      PROVE  Written(h, sc) /\ h.b3 = b
    BY <1>2, NoneGarbageAssumption
       DEF Written, InjectMulti, NoHeaders, HasIds, WellFormed, ContextType, Decided
<1>3. ASSUME NEW sc, WellFormed(sc)
      PROVE  Written(InjectMulti(sc, NoHeaders), sc) /\ InjectMulti(sc, NoHeaders).b3 = <<>>
    BY <1>3, NoneGarbageAssumption
       DEF Written, InjectMulti, NoHeaders, HasIds, WellFormed, ContextType, Decided
<1>4. ASSUME NEW b
      PROVE  [NoHeaders EXCEPT !.b3 = b] =
                [traceId |-> None, spanId |-> None, parentId |-> None, sampled |-> None,
                 flags |-> None, b3 |-> b]
    BY DEF NoHeaders
<1>5. Written(NoHeaders, EmptyContext) /\ NoHeaders.b3 = <<>>
    BY <1>1 DEF NoHeaders
<1>6. \A b : Written([NoHeaders EXCEPT !.b3 = b], EmptyContext)
              /\ [NoHeaders EXCEPT !.b3 = b].b3 = b
    BY <1>1, <1>4
<1>. QED
    BY <1>2, <1>3, <1>5, <1>6, SMTT(30)

LEMMA ParseHeadersWhole ==
    ASSUME NEW sc, WellFormed(sc), NEW h, Written(h, sc)
    PROVE  ParseHeaders(h) = Ok(sc)
<1>. DEFINE x == Decision(h)
            ctx == [x EXCEPT !.trace = sc.trace, !.id = sc.id, !.parent = sc.parent]
<1>0. /\ h.flags = IF sc.debug THEN "1" ELSE None
      /\ ~Decided(sc) \/ sc.debug => h.sampled = None
      /\ sc.sampled = TRUE => h.sampled = "1"
      /\ sc.sampled = FALSE => h.sampled = "0"
      /\ h.traceId = IF sc.trace = 0 THEN None ELSE sc.trace
      /\ h.spanId = IF sc.trace = 0 THEN None ELSE sc.id
      /\ h.parentId = sc.parent
    BY DEF Written
<1>1. /\ sc \in ContextType /\ sc.debug \in BOOLEAN /\ sc.sampled \in BOOLEAN \cup {None}
      /\ sc.trace \in Nat /\ sc.id \in Nat /\ sc.parent \in Nat \cup {None}
      /\ None \notin Nat /\ Garbage \notin Nat /\ None # Garbage
      /\ (sc.trace = 0 <=> sc.id = 0) /\ (sc.trace = 0 => sc.parent = None)
      /\ sc.debug => sc.sampled = None
    BY NoneGarbageAssumption DEF WellFormed, ContextType
<1>2. ~Invalid(h)
    <2>1. h.sampled # Garbage
        BY <1>0, <1>1, NoneGarbageAssumption DEF Decided
    <2>. QED
        BY <1>0, <1>1, <2>1 DEF Invalid
<1>3. IdOf(h.traceId) = sc.trace /\ IdOf(h.spanId) = sc.id
    BY <1>0, <1>1 DEF IdOf
<1>4. ParseHeaders(h) = Ok(ctx)
    BY <1>0, <1>2, <1>3 DEF ParseHeaders
<1>5. x \in ContextType
    BY DecisionFacts
<1>6. x.debug = sc.debug
    <2>1. x.debug \in BOOLEAN /\ (x.debug <=> h.flags = "1")
        BY <1>5, DecisionFacts DEF ContextType
    <2>2. sc.debug <=> h.flags = "1"
        BY <1>0, NoneGarbageAssumption
    <2>. QED
        BY <1>1, <2>1, <2>2
<1>7. x.sampled = sc.sampled
    <2>1. CASE sc.debug
        BY <1>0, <1>1, <2>1, DecisionFacts
    <2>2. CASE ~sc.debug /\ sc.sampled = None
        BY <1>0, <2>2, DecisionFacts DEF Decided
    <2>3. CASE ~sc.debug /\ sc.sampled = TRUE
        <3>1. h.flags # "1" /\ h.sampled = "1"
            BY <1>0, <1>1, <2>3, NoneGarbageAssumption
        <3>. QED
            BY <2>3, <3>1, DecisionFacts
    <2>4. CASE ~sc.debug /\ sc.sampled = FALSE
        <3>1. h.flags # "1" /\ h.sampled = "0"
            BY <1>0, <1>1, <2>4, NoneGarbageAssumption
        <3>. QED
            BY <2>4, <3>1, DecisionFacts
    <2>. QED
        BY <1>1, <2>1, <2>2, <2>3, <2>4
<1>. HIDE DEF x
<1>8. /\ ctx \in ContextType /\ ctx.trace = sc.trace /\ ctx.id = sc.id /\ ctx.parent = sc.parent
      /\ ctx.sampled = x.sampled /\ ctx.debug = x.debug
    BY <1>1, <1>5 DEF ContextType
<1>. HIDE DEF ctx
<1>. QED
    BY <1>1, <1>4, <1>6, <1>7, <1>8, ContextEqual

-----------------------------------------------------------------------------
(* Extract.                                                                  *)

\* Whatever is lost or unreadable, Extract never takes one ID without the other.
LEMMA ExtractOutcome ==
    ASSUME NEW sc, WellFormed(sc), NEW h, MultiPartOf(h, sc),
           h.b3 = <<>> \/ PartOf(h.b3, BuildSingleHeader(sc))
    PROVE  Outcome(Extract(h), sc)
BY ParseHeadersOutcome, ParseSingleHeaderOutcome DEF Extract

\* Whatever context InjectHTTP writes, and in whichever style, ExtractHTTP reads the
\* same context from it; but one with a parent and no decision, which has no single
\* header, may read as none.
THEOREM ExtractInjected ==
    ASSUME NEW sc, WellFormed(sc), NEW style \in {"multi", "single", "both"}
    PROVE  \/ Extract(Inject(sc, style, NoHeaders)) = Ok(sc)
           \/ Unwritable(sc) /\ Extract(Inject(sc, style, NoHeaders)) = Ok(EmptyContext)
<1>. DEFINE h == Inject(sc, style, NoHeaders)
            b == BuildSingleHeader(sc)
<1>1. CASE sc = EmptyContext
    <2>1. h = NoHeaders /\ NoHeaders.b3 = <<>>
        BY <1>1, MultiHeaders DEF Inject
    <2>2. ParseHeaders(NoHeaders) = Ok(EmptyContext)
        BY EmptyContextFacts, MultiHeaders, ParseHeadersWhole
    <2>. QED
        BY <1>1, <2>1, <2>2 DEF Extract
<1>2. CASE sc # EmptyContext /\ style = "multi"
    <2>1. h = InjectMulti(sc, NoHeaders)
        BY <1>2 DEF Inject
    <2>2. h.b3 = <<>> /\ ParseHeaders(h) = Ok(sc)
        BY <2>1, MultiHeaders, ParseHeadersWhole
    <2>. QED
        BY <2>2 DEF Extract
<1>3. CASE sc # EmptyContext /\ style \in {"single", "both"}
    <2>. DEFINE multi == IF style = "single" THEN NoHeaders ELSE InjectMulti(sc, NoHeaders)
    <2>1. h = [multi EXCEPT !.b3 = b]
        BY <1>3 DEF Inject, InjectSingle
    <2>2. h.b3 = b
        BY <1>3, <2>1, MultiHeaders
    <2>3. b # <<>> /\ PartOf(b, b)
        <3>1. sc.trace # 0 \/ Decided(sc)
            BY <1>3, EmptyContextFacts, ContextEqual DEF Decided, WellFormed, ContextType
        <3>. QED
            BY <3>1, SingleHeader DEF PartOf
    <2>4. CASE sc.parent = None \/ Decided(sc)
        BY <2>2, <2>3, <2>4, ParseSingleHeaderOutcome DEF Extract, Ok
    <2>5. CASE Unwritable(sc)
        <3>1. Extract(h) = ParseHeaders(h)
            BY <2>2, <2>3, <2>5, ParseSingleHeaderOutcome DEF Extract, Error, Unwritable
        <3>2. CASE style = "single"
            <4>1. ParseHeaders(h) = Ok(EmptyContext)
                BY <2>1, <3>2, EmptyContextFacts, MultiHeaders, ParseHeadersWhole
            <4>. QED
                BY <2>5, <3>1, <4>1
        <3>3. CASE style = "both"
            BY <2>1, <3>1, <3>3, MultiHeaders, ParseHeadersWhole
        <3>. QED
            BY <1>3, <3>2, <3>3
    <2>. QED
        BY <2>4, <2>5 DEF Unwritable
<1>. QED
    BY <1>1, <1>2, <1>3

-----------------------------------------------------------------------------
(* StartSpan.                                                                *)

\* The IDs and the decision of a span that is started with context sc.
LEMMA StartedFacts ==
    ASSUME NEW t, NEW noop \in BOOLEAN, NEW kind, NEW sc, WellFormed(sc),
           NEW decision \in BOOLEAN, NEW fresh \in Nat \ {0},
           NEW ctx, ctx = StartedContext(t, noop, kind, sc, decision, fresh)
    PROVE  /\ WellFormed(ctx)
           /\ noop => ctx = sc
           /\ ctx.debug = sc.debug
           /\ Decided(sc) => ctx.sampled = sc.sampled
           /\ ~noop => Decided(ctx)
           /\ ~noop /\ sc.trace = 0 => ctx.trace = fresh /\ ctx.id = fresh /\ ctx.parent = None
           /\ ~noop /\ sc.trace # 0 => ctx.trace = sc.trace
           /\ ~noop /\ sc.trace # 0 /\ Joins(t, kind) => ctx.id = sc.id /\ ctx.parent = sc.parent
           /\ ~noop /\ sc.trace # 0 /\ ~Joins(t, kind) => ctx.id = fresh /\ ctx.parent = sc.id
<1>. DEFINE ids == Ids(t, kind, sc, fresh)
<1>1. CASE noop
    BY <1>1 DEF StartedContext
<1>2. CASE ~noop
    <2>1. sc \in ContextType /\ sc.trace \in Nat /\ sc.id \in Nat
          /\ (sc.trace = 0 <=> sc.id = 0) /\ (sc.trace = 0 => sc.parent = None)
          /\ (sc.debug => sc.sampled = None)
        BY DEF WellFormed, ContextType
    <2>2. \/ sc.trace = 0 /\ ids = [sc EXCEPT !.trace = fresh, !.id = fresh]
          \/ sc.trace # 0 /\ Joins(t, kind) /\ ids = sc
          \/ sc.trace # 0 /\ ~Joins(t, kind) /\ ids = [sc EXCEPT !.parent = sc.id, !.id = fresh]
        BY DEF Ids, ChildIds, SpanID
    <2>. HIDE DEF ids
    <2>3. /\ ids \in ContextType /\ ids.debug = sc.debug /\ ids.sampled = sc.sampled
          /\ ids.trace # 0 /\ ids.id # 0
          /\ sc.trace = 0 => ids.trace = fresh /\ ids.id = fresh /\ ids.parent = None
          /\ sc.trace # 0 => ids.trace = sc.trace
          /\ sc.trace # 0 /\ Joins(t, kind) => ids.id = sc.id /\ ids.parent = sc.parent
          /\ sc.trace # 0 /\ ~Joins(t, kind) => ids.id = fresh /\ ids.parent = sc.id
        BY <2>1, <2>2 DEF ContextType
    <2>4. ctx = Sampled(ids, decision)
        BY <1>2 DEF StartedContext, ids
    <2>5. /\ ctx \in ContextType /\ ctx.debug = ids.debug
          /\ ctx.trace = ids.trace /\ ctx.id = ids.id /\ ctx.parent = ids.parent
          /\ Decided(ids) => ctx.sampled = ids.sampled
          /\ ~Decided(ids) => ctx.sampled = decision
        BY <2>3, <2>4 DEF Sampled, ContextType
    <2>6. Decided(ids) <=> Decided(sc)
        BY <2>3 DEF Decided
    <2>7. Decided(ctx)
        BY <2>5, NoneGarbageAssumption DEF Decided
    <2>8. ctx.debug => ctx.sampled = None
        BY <2>1, <2>3, <2>5 DEF Decided
    <2>9. WellFormed(ctx)
        BY <2>3, <2>5, <2>8 DEF WellFormed
    <2>. QED
        BY <1>2, <2>3, <2>5, <2>6, <2>7, <2>9
<1>. QED
    BY <1>1, <1>2

\* The decision alone, of any context: a request sampler's verdict may stand beside
\* debug.
LEMMA StartedDecision ==
    ASSUME NEW t, NEW noop \in BOOLEAN, NEW kind, NEW sc \in ContextType,
           NEW decision \in BOOLEAN, NEW fresh \in Nat,
           NEW ctx, ctx = StartedContext(t, noop, kind, sc, decision, fresh)
    PROVE  /\ ctx \in ContextType
           /\ ctx.debug = sc.debug
           /\ Decided(sc) => ctx.sampled = sc.sampled
           /\ noop => ctx = sc
           /\ ~noop => Decided(ctx)
<1>. DEFINE ids == Ids(t, kind, sc, fresh)
<1>1. CASE noop
    BY <1>1 DEF StartedContext
<1>2. CASE ~noop
    <2>1. \/ ids = [sc EXCEPT !.trace = fresh, !.id = SpanID(fresh, fresh)]
          \/ ids = sc
          \/ ids = [sc EXCEPT !.parent = sc.id, !.id = fresh]
        BY DEF Ids, ChildIds, SpanID
    <2>2. SpanID(fresh, fresh) \in Nat
        BY DEF SpanID
    <2>. HIDE DEF ids
    <2>3. ids \in ContextType /\ ids.debug = sc.debug /\ ids.sampled = sc.sampled
        BY <2>1, <2>2 DEF ContextType
    <2>4. ctx = Sampled(ids, decision)
        BY <1>2 DEF StartedContext, ids
    <2>5. /\ ctx \in ContextType /\ ctx.debug = ids.debug
          /\ Decided(ids) => ctx.sampled = ids.sampled
          /\ ~Decided(ids) => ctx.sampled = decision
        BY <2>3, <2>4 DEF Sampled, ContextType
    <2>6. Decided(ids) <=> Decided(sc)
        BY <2>3 DEF Decided
    <2>7. Decided(ctx)
        BY <2>5, NoneGarbageAssumption DEF Decided
    <2>. QED
        BY <1>2, <2>3, <2>5, <2>6, <2>7
<1>. QED
    BY <1>1, <1>2

\* A decision that is made is kept.
LEMMA DecisionStays ==
    ASSUME NEW sc, NEW ctx, Decided(sc), ctx.debug = sc.debug, ctx.sampled = sc.sampled
    PROVE  Decided(ctx) /\ MustCollect(ctx) = MustCollect(sc)
BY DEF Decided, MustCollect
=============================================================================
