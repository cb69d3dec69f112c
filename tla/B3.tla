--------------------------------- MODULE B3 ---------------------------------
(***************************************************************************)
(* B3 headers, propagation/b3: how a span context is written into the      *)
(* headers of a request and read from them.                                *)
(*                                                                         *)
(* IDs are numbers, 0 the empty one.  Hexadecimal text is left out but for *)
(* its width, by which ParseSingleHeader tells the fields of the single    *)
(* header apart, and for Garbage, text that is no number of its width.     *)
(*                                                                         *)
(* Definitions marked Mutant stand before the one they vary: a slip that   *)
(* the properties must catch.  Nothing else uses them.                     *)
(***************************************************************************)
EXTENDS Naturals, Sequences

CONSTANTS
    None,      \* a nil pointer, a header that is not there
    Garbage,   \* a value that does not parse
    Wide       \* trace IDs are 128 bits

ASSUME WideAssumption == Wide \in BOOLEAN
ASSUME NoneGarbageAssumption ==
    /\ None # Garbage
    /\ {None, Garbage} \cap (Nat \cup BOOLEAN \cup {"0", "1", "d"}) = {}

-----------------------------------------------------------------------------
(* model.SpanContext                                                         *)

EmptyContext ==
    [trace |-> 0, id |-> 0, parent |-> None, sampled |-> None, debug |-> FALSE]

HasIds(sc) == sc.trace # 0 /\ sc.id # 0

ContextType ==
    [trace : Nat, id : Nat, parent : Nat \cup {None}, sampled : BOOLEAN \cup {None},
     debug : BOOLEAN]

Decided(sc) == sc.debug \/ sc.sampled # None

\* The single header has no place for a parent without a decision.
Unwritable(sc) == sc.parent # None /\ ~Decided(sc)

\* What an extraction gives: a context, or an error (sc.Err).
Ok(sc) == [ctx |-> sc, err |-> "nil"]
Error == [ctx |-> EmptyContext, err |-> "error"]
\* A slice expression of the parser is out of range.
Panic == [ctx |-> EmptyContext, err |-> "panic"]

-----------------------------------------------------------------------------
(* The single header, as the fields that "-" joins.                          *)

IdField(width, id) == [width |-> width, id |-> id]
SamplingField(flag) == [width |-> 1, flag |-> flag]

TraceWidth == IF Wide THEN 32 ELSE 16

\* Mutant: a debug span counts as one whose decision is deferred.
SamplingWithoutDebug(sc) ==
    IF sc.sampled = None THEN <<>> ELSE <<SamplingField(IF sc.sampled THEN "1" ELSE "0")>>

Sampling(sc) ==
    IF sc.debug THEN <<SamplingField("d")>>
    ELSE IF sc.sampled = None THEN <<>>
    ELSE <<SamplingField(IF sc.sampled THEN "1" ELSE "0")>>

BuildSingleHeader(sc) ==
    (IF HasIds(sc) THEN <<IdField(TraceWidth, sc.trace), IdField(16, sc.id)>> ELSE <<>>)
    \o Sampling(sc)
    \o (IF sc.parent = None THEN <<>> ELSE <<IdField(16, sc.parent)>>)

\* The switch on the sampling character.
WithSampling(sc, flag) ==
    CASE flag = "d" -> Ok([sc EXCEPT !.debug = TRUE])
      [] flag = "1" -> Ok([sc EXCEPT !.sampled = TRUE])
      [] flag = "0" -> Ok([sc EXCEPT !.sampled = FALSE])
      [] OTHER -> Error

IsId(field, width) == field.width = width /\ field.id # Garbage

\* The header after its trace ID: the code indexes the characters from there on.
ParseAfterTrace(h, sc) ==
    LET withId == [sc EXCEPT !.id = h[2].id]
    IN  CASE ~IsId(h[2], 16) -> Error
          [] IsId(h[2], 16) /\ Len(h) = 2 -> Ok(withId)
          [] IsId(h[2], 16) /\ Len(h) = 3 /\ h[3].width = 1 -> WithSampling(withId, h[3].flag)
          [] IsId(h[2], 16) /\ Len(h) = 4 /\ h[3].width = 1 /\ IsId(h[4], 16) ->
                WithSampling([withId EXCEPT !.parent = h[4].id], h[3].flag)
          [] OTHER -> Error

\* A header that starts with a trace ID, or is a sampling character.  What is
\* too short for the span ID that should follow is told by its length, which
\* for a 128 bit trace ID is only looked at by the slice expression.
ParseSingleHeader(h) ==
    CASE h = <<>> -> Error
      [] Len(h) = 1 /\ h[1].width = 1 -> WithSampling(EmptyContext, h[1].flag)
      [] Len(h) = 1 /\ h[1].width # 1 -> Error
      [] OTHER ->
            IF ~IsId(h[1], 16) /\ ~IsId(h[1], 32) THEN Error
            ELSE IF Len(h) = 2 /\ h[2].width = 1
            THEN IF h[1].width = 32 THEN Panic ELSE Error
            ELSE ParseAfterTrace(h, [EmptyContext EXCEPT !.trace = h[1].id])

-----------------------------------------------------------------------------
(* The headers of a request: the multiple ones, and the single one.          *)

NoHeaders ==
    [traceId |-> None, spanId |-> None, parentId |-> None, sampled |-> None,
     flags |-> None, b3 |-> <<>>]

\* Of the flags only "1" counts; debug stands above the sampled header.  Sampled
\* is "1" or "0" here, which "true" and "false" are read as too.
Decision(h) ==
    [EmptyContext EXCEPT
        !.debug = h.flags = "1",
        !.sampled = IF h.flags = "1" \/ h.sampled = None THEN None ELSE h.sampled = "1"]

\* Mutant: a trace ID without a span ID passes, and the other way round.
InvalidLax(h) ==
    \/ h.sampled = Garbage \/ h.traceId = Garbage \/ h.spanId = Garbage
    \/ h.parentId # None /\ (h.traceId = None \/ h.parentId = Garbage)

\* Mutant: the parent is not parsed.
InvalidButParent(h) ==
    \/ h.sampled = Garbage \/ h.traceId = Garbage \/ h.spanId = Garbage
    \/ (h.traceId = None) # (h.spanId = None)
    \/ h.parentId # None /\ h.traceId = None

Invalid(h) ==
    \/ h.sampled = Garbage \/ h.traceId = Garbage \/ h.spanId = Garbage
    \/ (h.traceId = None) # (h.spanId = None)
    \/ h.parentId # None /\ (h.traceId = None \/ h.parentId = Garbage)

\* The value of an ID header.
IdOf(value) == IF value = None THEN 0 ELSE value

ParseHeaders(h) ==
    IF Invalid(h) THEN Error
    ELSE Ok([Decision(h) EXCEPT !.trace = IdOf(h.traceId), !.id = IdOf(h.spanId),
                                !.parent = h.parentId])

\* ExtractHTTP and Map.Extract: the multiple headers count when the single one is
\* missing or does not parse.
Extract(h) ==
    LET single == ParseSingleHeader(h.b3)
    IN  IF h.b3 # <<>> /\ single.err # "error" THEN single ELSE ParseHeaders(h)

\* Sets the headers sc has values for; the others stay as they are.
InjectMulti(sc, h) ==
    [h EXCEPT
        !.flags = IF sc.debug THEN "1" ELSE @,
        !.sampled = IF sc.debug \/ sc.sampled = None THEN @
                    ELSE IF sc.sampled THEN "1" ELSE "0",
        !.traceId = IF HasIds(sc) THEN sc.trace ELSE @,
        !.spanId = IF HasIds(sc) THEN sc.id ELSE @,
        !.parentId = IF HasIds(sc) /\ sc.parent # None THEN sc.parent ELSE @]

InjectSingle(sc, h) == [h EXCEPT !.b3 = BuildSingleHeader(sc)]

\* InjectHTTP and Map.Inject, with the headers the options ask for.  An empty
\* context is an error and writes nothing.
Inject(sc, style, h) ==
    CASE sc = EmptyContext -> h
      [] sc # EmptyContext /\ style = "multi" -> InjectMulti(sc, h)
      [] sc # EmptyContext /\ style = "single" -> InjectSingle(sc, h)
      [] OTHER -> InjectSingle(sc, InjectMulti(sc, h))

-----------------------------------------------------------------------------
(* gRPC metadata, b3/grpc.go: a key has several values.  Metadata are layers,  *)
(* one for each injection, of the values it appended.                          *)

\* Mutant: the first value.
GetGRPCHeaderFirst(md, key) ==
    LET layers == {k \in DOMAIN md : md[k][key] # None}
    IN  IF layers = {} THEN None ELSE md[CHOOSE k \in layers : \A l \in layers : k <= l][key]

\* The last value of the key.
GetGRPCHeader(md, key) ==
    LET layers == {k \in DOMAIN md : md[k][key] # None}
    IN  IF layers = {} THEN None ELSE md[CHOOSE k \in layers : \A l \in layers : l <= k][key]

\* Only the multiple headers.
ExtractGRPC(md) ==
    ParseHeaders([NoHeaders EXCEPT
        !.traceId = GetGRPCHeader(md, "traceId"),
        !.spanId = GetGRPCHeader(md, "spanId"),
        !.parentId = GetGRPCHeader(md, "parentId"),
        !.sampled = GetGRPCHeader(md, "sampled"),
        !.flags = GetGRPCHeader(md, "flags")])

InjectGRPC(sc, md) ==
    IF sc = EmptyContext THEN md ELSE Append(md, InjectMulti(sc, NoHeaders))
=============================================================================
