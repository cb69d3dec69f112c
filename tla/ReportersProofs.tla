--------------------------- MODULE ReportersProofs ---------------------------
(* Theorems about Reporters and Codecs, for any calls and spans, words of    *)
(* any size and any unit of time.                                            *)
EXTENDS Reporters, FiniteSetTheorems, SequenceTheorems, TLAPS

-----------------------------------------------------------------------------
(* The inductive invariant.                                                  *)

Stages == {"idle", "publish", "error", "input", "returned", "panicked"}

\* What can be delivered: a span, or the message of one that can be encoded.
Deliveries ==
    IF kind = "recorder" THEN {[call |-> c, message |-> span[c]] : c \in Calls}
    ELSE {[call |-> c, message |-> Message(c).value] : c \in {d \in Calls : Message(d).ok}}

Closers ==
    [at : {"no", "conn", "drain", "returned"}, err : BOOLEAN,
     taken : SUBSET Calls, dropped : SUBSET Calls]

Shapes ==
    /\ kind \in Kinds /\ codec \in {"json", "proto"}
    /\ setup \in -1..Steps(kind)
    /\ conn \in {"none", "open", "closing", "closed"}
    /\ channel \in {"none", "open", "closed"}
    /\ pc \in [Calls -> Stages]
    /\ span \in [Calls -> SpanType] /\ \A c \in Calls : span[c] \in SpansOf[c]
    /\ inFlight \subseteq Calls /\ errors \subseteq Calls /\ logged \subseteq Calls
    /\ delivered \in Seq(Deliveries) /\ recorded \in Seq(Calls)
    /\ closer \in Closers

\* What each kind of reporter does not use.
Unused ==
    /\ kind # "kafka" => codec = "json" /\ inFlight = {} /\ errors = {}
    /\ kind # "amqp" => channel = "none"
    /\ kind # "recorder" => recorded = <<>>
    /\ \A c \in Calls :
        /\ pc[c] = "publish" => kind = "amqp" /\ Message(c).ok
        /\ pc[c] = "error" => kind = "amqp"
        /\ pc[c] = "input" \/ c \in inFlight => kind = "kafka" /\ Message(c).ok
        /\ pc[c] = "panicked" => kind = "kafka"
        /\ c \in closer.dropped => kind = "recorder" /\ pc[c] = "returned"

\* How far the client of the broker is, and Close with it.
Order ==
    /\ kind = "amqp" /\ setup \in 1..4 => conn = "open"
    /\ channel = "open" => conn = "open"
    /\ conn = "closing" => kind = "kafka"
    /\ conn = "closed" => inFlight = {}
    /\ closer.at # "no" /\ kind \in {"amqp", "kafka"} => Ready
    /\ closer.at = "no" => closer.taken = {}
    /\ closer.at # "returned" => closer.dropped = {}
    /\ closer.taken # {} => kind = "kafka" /\ (closer.at = "returned" => closer.err)
    /\ closer.at = "conn" => kind = "amqp" /\ channel = "closed"
    /\ closer.at = "drain" => kind = "kafka"
    /\ closer.at = "returned" /\ kind = "kafka" => conn = "closed" /\ errors = {}

\* Where a call has left its span, or the error of it.
Sites == {"delivered", "recorded", "in flight", "errors", "logged", "taken"}

At(c, site) ==
    CASE site = "delivered" -> {k \in DOMAIN delivered : delivered[k].call = c}
      [] site = "recorded" -> {k \in DOMAIN recorded : recorded[k] = c}
      [] site = "in flight" -> {c} \cap inFlight
      [] site = "errors" -> {c} \cap errors
      [] site = "logged" -> {c} \cap logged
      [] site = "taken" -> {c} \cap closer.taken

Nowhere(c) == \A site \in Sites : At(c, site) = {}

Somewhere(c) ==
    \E site \in Sites :
        /\ \E x : At(c, site) = {x}
        /\ \A other \in Sites : other # site => At(c, other) = {}

Placed(c) == IF pc[c] = "returned" /\ ~Vanished(c) THEN Somewhere(c) ELSE Nowhere(c)

IInv ==
    /\ Shapes /\ Unused /\ Order
    /\ \A c \in Calls : Placed(c)

-----------------------------------------------------------------------------
(* Sites.                                                                    *)

\* A call whose span stays where it is.
LEMMA Stays ==
    ASSUME NEW c, Placed(c), UNCHANGED <<kind, codec, span>>,
           c \in closer'.dropped <=> c \in closer.dropped,
           pc'[c] = "returned" <=> pc[c] = "returned",
           \A site \in Sites : At(c, site)' = At(c, site)
    PROVE  Placed(c)'
<1>1. Vanished(c)' <=> Vanished(c)
    BY DEF Vanished, Swallowed, Message
<1>2. (Somewhere(c)' <=> Somewhere(c)) /\ (Nowhere(c)' <=> Nowhere(c))
    BY DEF Somewhere, Nowhere
<1>. QED
    BY <1>1, <1>2 DEF Placed

\* A span that arrives somewhere, as the call returns.
LEMMA Arrives ==
    ASSUME NEW c, Placed(c), UNCHANGED <<kind, codec, span>>, ~Vanished(c),
           c \in closer'.dropped <=> c \in closer.dropped,
           pc[c] # "returned", pc'[c] = "returned",
           NEW to \in Sites, NEW x, At(c, to)' = {x},
           \A site \in Sites \ {to} : At(c, site)' = At(c, site)
    PROVE  Placed(c)'
<1>1. Vanished(c)' <=> Vanished(c)
    BY DEF Vanished, Swallowed, Message
<1>2. Nowhere(c)
    BY DEF Placed
<1>3. Somewhere(c)'
    BY <1>2 DEF Somewhere, Nowhere
<1>. QED
    BY <1>1, <1>3 DEF Placed

\* A span that goes from one site to another.
LEMMA Moves ==
    ASSUME NEW c, Placed(c), UNCHANGED <<kind, codec, span>>, pc'[c] = pc[c],
           c \in closer'.dropped <=> c \in closer.dropped,
           NEW from \in Sites, NEW to \in Sites, from # to, At(c, from) # {},
           NEW x, At(c, to)' = {x}, At(c, from)' = {},
           \A site \in Sites \ {from, to} : At(c, site)' = At(c, site)
    PROVE  Placed(c)'
<1>1. Vanished(c)' <=> Vanished(c)
    BY DEF Vanished, Swallowed, Message
<1>2. pc[c] = "returned" /\ ~Vanished(c) /\ Somewhere(c)
    BY DEF Placed, Nowhere
<1>3. \A other \in Sites : other # from => At(c, other) = {}
    BY <1>2 DEF Somewhere
<1>4. Somewhere(c)'
    BY <1>3 DEF Somewhere
<1>. QED
    BY <1>1, <1>2, <1>4 DEF Placed

\* At most one place.
LEMMA OnePlace ==
    ASSUME NEW c, Placed(c), NEW site \in Sites, At(c, site) # {}
    PROVE  /\ \E x : At(c, site) = {x}
           /\ \A other \in Sites : other # site => At(c, other) = {}
           /\ pc[c] = "returned" /\ ~Vanished(c)
BY DEF Placed, Nowhere, Somewhere

LEMMA SameMessages ==
    ASSUME UNCHANGED <<kind, codec, span>>
    PROVE  Deliveries' = Deliveries /\ \A c : Message(c)' = Message(c)
BY DEF Deliveries, Message

\* The actions change no span, and nothing of the program's set up.
LEMMA Fixed == [Next]_vars => UNCHANGED <<kind, codec, span>>
BY DEF Next, vars, client, callers, SetUp, SetUpFails, SendAMQP, SendKafka, Record, PrintSpan,
       Proceed, Publish, PublishFails, Take, SendPanics, LogError, LogProducerError, Produce,
       ProduceFails, ChannelLost, ShutDown, CloseAMQP, CloseKafka, CloseRecorder, Flush,
       CloseGoesOn, CloseConn, Drained, Drain

LEMMA StillAt ==
    ASSUME NEW c
    PROVE  /\ UNCHANGED delivered => At(c, "delivered")' = At(c, "delivered")
           /\ UNCHANGED recorded => At(c, "recorded")' = At(c, "recorded")
           /\ UNCHANGED inFlight => At(c, "in flight")' = At(c, "in flight")
           /\ UNCHANGED errors => At(c, "errors")' = At(c, "errors")
           /\ UNCHANGED logged => At(c, "logged")' = At(c, "logged")
           /\ closer'.taken = closer.taken => At(c, "taken")' = At(c, "taken")
<1>1. UNCHANGED delivered => At(c, "delivered")' = At(c, "delivered")
    BY DEF At
<1>2. UNCHANGED recorded => At(c, "recorded")' = At(c, "recorded")
    BY DEF At
<1>3. /\ UNCHANGED inFlight => At(c, "in flight")' = At(c, "in flight")
      /\ UNCHANGED errors => At(c, "errors")' = At(c, "errors")
      /\ UNCHANGED logged => At(c, "logged")' = At(c, "logged")
      /\ closer'.taken = closer.taken => At(c, "taken")' = At(c, "taken")
    BY DEF At
<1>. QED
    BY <1>1, <1>2, <1>3

LEMMA QuietStep ==
    ASSUME IInv, UNCHANGED <<kind, codec, span, delivered, recorded, inFlight, errors, logged>>,
           closer'.taken = closer.taken, closer'.dropped = closer.dropped,
           \A c \in Calls : pc'[c] = "returned" <=> pc[c] = "returned"
    PROVE  \A c \in Calls : Placed(c)'
<1>. SUFFICES ASSUME NEW c \in Calls PROVE Placed(c)'
    OBVIOUS
<1>1. \A site \in Sites : At(c, site)' = At(c, site)
    BY StillAt DEF Sites
<1>. QED
    BY <1>1, Stays DEF IInv

-----------------------------------------------------------------------------
(* The steps of NewReporter, Send and Close that move no span.               *)

LEMMA SetUpInvariant == IInv /\ (SetUp \/ SetUpFails) => IInv'
<1>. SUFFICES ASSUME IInv, SetUp \/ SetUpFails PROVE IInv'
    OBVIOUS
<1>. USE DEF IInv
<1>0. /\ UNCHANGED <<kind, codec, pc, span, inFlight, errors, delivered, recorded, logged, closer>>
      /\ setup' \in -1..Steps(kind) /\ ~Ready
      /\ conn' = conn \/ (setup = 0 /\ conn' = "open")
      /\ channel' = channel \/ (kind = "amqp" /\ setup = 1 /\ channel' = "open" /\ conn' = conn)
      /\ setup' = setup + 1 \/ setup' = -1
      /\ setup' = 1 => conn' = "open"
    BY DEF SetUp, SetUpFails, Shapes, Kinds, Steps, Ready, client, callers
<1>1. Deliveries' = Deliveries /\ \A c : Message(c)' = Message(c)
    BY <1>0, SameMessages
<1>2. Shapes'
    BY <1>0, <1>1 DEF Shapes
<1>3. Unused'
    BY <1>0, <1>1 DEF Unused
<1>4. Order'
    <2>1. conn' # "closing" \/ kind = "kafka"
        BY <1>0 DEF Order
    <2>2. closer.at = "no" \/ kind \notin {"amqp", "kafka"}
        BY <1>0 DEF Order
    <2>3. channel' = "open" => conn' = "open"
        BY <1>0 DEF Order
    <2>. QED
        BY <1>0, <2>1, <2>2, <2>3 DEF Order, Shapes, Steps, Kinds
<1>5. \A c \in Calls : Placed(c)'
    BY <1>0, QuietStep
<1>. QED
    BY <1>2, <1>3, <1>4, <1>5

LEMMA QuietSendInvariant ==
    ASSUME IInv, NEW c \in Calls,
           \/ SendAMQP(c) \/ PublishFails(c) \/ SendPanics(c)
           \/ SendKafka(c) /\ Message(c).ok
    PROVE  IInv'
<1>. USE DEF IInv
<1>0. /\ UNCHANGED <<kind, codec, setup, conn, channel, span, inFlight, errors, delivered,
                     recorded, logged, closer>>
      /\ pc[c] # "returned"
      /\ \E stage \in Stages \ {"returned"} :
            /\ pc' = [pc EXCEPT ![c] = stage]
            /\ stage = "publish" => kind = "amqp" /\ Message(c).ok
            /\ stage = "error" => kind = "amqp"
            /\ stage = "input" => kind = "kafka" /\ Message(c).ok
            /\ stage = "panicked" => kind = "kafka"
    BY DEF SendAMQP, PublishFails, SendPanics, SendKafka, Goto, client, callers, Stages, Unused
<1>1. Deliveries' = Deliveries /\ \A d : Message(d)' = Message(d)
    BY <1>0, SameMessages
<1>2. Shapes'
    BY <1>0, <1>1 DEF Shapes
<1>3. Unused'
    BY <1>0, <1>1 DEF Unused, Shapes
<1>4. Order'
    BY <1>0 DEF Order, Ready
<1>5. \A d \in Calls : pc'[d] = "returned" <=> pc[d] = "returned"
    BY <1>0 DEF Shapes
<1>6. \A d \in Calls : Placed(d)'
    BY <1>0, <1>5, QuietStep
<1>. QED
    BY <1>2, <1>3, <1>4, <1>6

-----------------------------------------------------------------------------
(* What arrives where.                                                       *)

LEMMA DeliverAdds ==
    ASSUME IInv, UNCHANGED <<kind, codec, span>>, NEW c, NEW m, Deliver(c, m),
           [call |-> c, message |-> m] \in Deliveries
    PROVE  /\ delivered' \in Seq(Deliveries')
           /\ At(c, "delivered") = {} => \E x : At(c, "delivered")' = {x}
           /\ \A d : d # c => At(d, "delivered")' = At(d, "delivered")
<1>. DEFINE new == [call |-> c, message |-> m]
<1>0. /\ delivered \in Seq(Deliveries) /\ delivered' = Append(delivered, new)
      /\ new.call = c /\ new \in Deliveries
    BY DEF IInv, Shapes, Deliver
<1>1. delivered' \in Seq(Deliveries')
    BY <1>0, SameMessages
<1>2. /\ DOMAIN delivered' = DOMAIN delivered \cup {Len(delivered) + 1}
      /\ Len(delivered) + 1 \notin DOMAIN delivered
      /\ delivered'[Len(delivered) + 1].call = c
      /\ \A k \in DOMAIN delivered : delivered'[k] = delivered[k]
    BY <1>0
<1>3. \A d : d # c => At(d, "delivered")' = At(d, "delivered")
    BY <1>2 DEF At
<1>4. At(c, "delivered") = {} => At(c, "delivered")' = {Len(delivered) + 1}
    BY <1>2 DEF At
<1>. QED
    BY <1>1, <1>3, <1>4

LEMMA RecordAdds ==
    ASSUME IInv, NEW c \in Calls, recorded' = Append(recorded, c)
    PROVE  /\ recorded' \in Seq(Calls)
           /\ At(c, "recorded") = {} => \E x : At(c, "recorded")' = {x}
           /\ \A d : d # c => At(d, "recorded")' = At(d, "recorded")
<1>1. recorded \in Seq(Calls) /\ recorded' \in Seq(Calls)
    BY DEF IInv, Shapes
<1>2. /\ DOMAIN recorded' = DOMAIN recorded \cup {Len(recorded) + 1}
      /\ Len(recorded) + 1 \notin DOMAIN recorded
      /\ recorded'[Len(recorded) + 1] = c
      /\ \A k \in DOMAIN recorded : recorded'[k] = recorded[k]
    BY <1>1
<1>3. \A d : d # c => At(d, "recorded")' = At(d, "recorded")
    BY <1>2 DEF At
<1>4. At(c, "recorded") = {} => At(c, "recorded")' = {Len(recorded) + 1}
    BY <1>2 DEF At
<1>. QED
    BY <1>1, <1>3, <1>4


LEMMA ArriveStep ==
    ASSUME IInv, UNCHANGED <<kind, codec, span>>, NEW c \in Calls, ~Vanished(c),
           closer'.dropped = closer.dropped,
           pc[c] # "returned", pc' = [pc EXCEPT ![c] = "returned"],
           NEW to \in Sites, \E x : At(c, to)' = {x},
           \A site \in Sites \ {to} : At(c, site)' = At(c, site),
           \A d \in Calls \ {c} : \A site \in Sites : At(d, site)' = At(d, site)
    PROVE  \A d \in Calls : Placed(d)'
<1>1. pc'[c] = "returned" /\ \A d \in Calls \ {c} : pc'[d] = pc[d]
    BY DEF IInv, Shapes
<1>2. Placed(c)'
    BY <1>1, Arrives DEF IInv
<1>3. ASSUME NEW d \in Calls \ {c} PROVE Placed(d)'
    BY <1>1, Stays DEF IInv
<1>. QED
    BY <1>2, <1>3

LEMMA MoveStep ==
    ASSUME IInv, UNCHANGED <<kind, codec, span, pc>>, NEW c \in Calls,
           closer'.dropped = closer.dropped,
           NEW from \in Sites, NEW to \in Sites, from # to, At(c, from) # {},
           \E x : At(c, to)' = {x}, At(c, from)' = {},
           \A site \in Sites \ {from, to} : At(c, site)' = At(c, site),
           \A d \in Calls \ {c} : \A site \in Sites : At(d, site)' = At(d, site)
    PROVE  \A d \in Calls : Placed(d)'
<1>1. Placed(c)'
    BY Moves DEF IInv
<1>2. ASSUME NEW d \in Calls \ {c} PROVE Placed(d)'
    BY Stays DEF IInv
<1>. QED
    BY <1>1, <1>2

-----------------------------------------------------------------------------
(* The steps of Send that leave a span somewhere.                            *)

LEMMA PublishInvariant == ASSUME IInv, NEW c \in Calls, Publish(c) PROVE IInv'
<1>. USE DEF IInv
<1>0. /\ UNCHANGED <<kind, codec, setup, conn, channel, span, inFlight, errors, recorded, logged,
                     closer>>
      /\ pc[c] = "publish" /\ pc' = [pc EXCEPT ![c] = "returned"]
      /\ kind = "amqp" /\ Message(c).ok
    BY DEF Publish, Goto, client, Unused
<1>1. PICK m : m = Message(c).value
    OBVIOUS
<1>2. Deliver(c, m) /\ [call |-> c, message |-> m] \in Deliveries
    BY <1>0, <1>1 DEF Publish, Deliveries
<1>3. /\ delivered' \in Seq(Deliveries')
      /\ At(c, "delivered") = {} => \E x : At(c, "delivered")' = {x}
      /\ \A d : d # c => At(d, "delivered")' = At(d, "delivered")
    BY <1>0, <1>2, DeliverAdds
<1>4. Deliveries' = Deliveries /\ \A d : Message(d)' = Message(d)
    BY <1>0, SameMessages
<1>5. Shapes'
    BY <1>0, <1>3 DEF Shapes, Stages
<1>6. Unused' /\ Order'
    BY <1>0, <1>4 DEF Unused, Order, Ready, Shapes
<1>7. \A d \in Calls : Placed(d)'
    <2>1. At(c, "delivered") = {} /\ ~Vanished(c)
        BY <1>0 DEF Placed, Nowhere, Sites, Vanished, Swallowed, Unused
    <2>2. "delivered" \in Sites
        BY DEF Sites
    <2>3. \A site \in Sites \ {"delivered"} : \A d : At(d, site)' = At(d, site)
        BY <1>0, StillAt DEF Sites
    <2>. QED
        BY <1>0, <1>3, <2>1, <2>2, <2>3, ArriveStep
<1>. QED
    BY <1>5, <1>6, <1>7

LEMMA PrintSpanInvariant == ASSUME IInv, NEW c \in Calls, PrintSpan(c) PROVE IInv'
<1>. USE DEF IInv
<1>0. /\ UNCHANGED <<kind, codec, setup, conn, channel, span, inFlight, errors, recorded, logged,
                     closer>>
      /\ pc[c] = "idle" /\ pc' = [pc EXCEPT ![c] = "returned"]
      /\ kind = "log"
    BY DEF PrintSpan, Goto, client
<1>1. Deliveries' = Deliveries /\ \A d : Message(d)' = Message(d)
    BY <1>0, SameMessages
<1>2. Unused' /\ Order'
    BY <1>0, <1>1 DEF Unused, Order, Ready, Shapes
<1>3. CASE Message(c).ok
    <2>1. PICK m : m = Message(c).value
        OBVIOUS
    <2>2. Deliver(c, m) /\ [call |-> c, message |-> m] \in Deliveries
        BY <1>0, <1>3, <2>1 DEF PrintSpan, Deliveries
    <2>3. /\ delivered' \in Seq(Deliveries')
          /\ At(c, "delivered") = {} => \E x : At(c, "delivered")' = {x}
          /\ \A d : d # c => At(d, "delivered")' = At(d, "delivered")
        BY <1>0, <2>2, DeliverAdds
    <2>4. Shapes'
        BY <1>0, <2>3 DEF Shapes, Stages
    <2>5. At(c, "delivered") = {} /\ ~Vanished(c)
        BY <1>0, <1>3 DEF Placed, Nowhere, Sites, Vanished, Swallowed, Unused
    <2>6. "delivered" \in Sites
        BY DEF Sites
    <2>7. \A site \in Sites \ {"delivered"} : \A d : At(d, site)' = At(d, site)
        BY <1>0, StillAt DEF Sites
    <2>8. \A d \in Calls : Placed(d)'
        BY <1>0, <2>3, <2>5, <2>6, <2>7, ArriveStep
    <2>. QED
        BY <1>2, <2>4, <2>8
<1>4. CASE ~Message(c).ok
    <2>1. UNCHANGED delivered
        BY <1>4 DEF PrintSpan
    <2>2. Shapes'
        BY <1>0, <1>1, <2>1 DEF Shapes, Stages
    <2>3. \A site \in Sites : \A d : At(d, site)' = At(d, site)
        BY <1>0, <2>1, StillAt DEF Sites
    <2>4. Placed(c)'
        <3>1. Vanished(c)'
            BY <1>0, <1>1, <1>4 DEF Vanished, Swallowed
        <3>2. Nowhere(c)'
            BY <1>0, <2>3 DEF Placed, Nowhere
        <3>. QED
            BY <3>1, <3>2 DEF Placed
    <2>5. ASSUME NEW d \in Calls \ {c} PROVE Placed(d)'
        <3>1. pc'[d] = pc[d]
            BY <1>0 DEF Shapes
        <3>. QED
            BY <1>0, <2>3, <3>1, Stays
    <2>. QED
        BY <1>2, <2>2, <2>4, <2>5
<1>. QED
    BY <1>3, <1>4

LEMMA RecordInvariant == ASSUME IInv, NEW c \in Calls, Record(c) PROVE IInv'
<1>. USE DEF IInv
<1>0. /\ UNCHANGED <<kind, codec, setup, conn, channel, span, inFlight, errors, delivered, logged,
                     closer>>
      /\ pc[c] = "idle" /\ pc' = [pc EXCEPT ![c] = "returned"]
      /\ kind = "recorder" /\ recorded' = Append(recorded, c)
    BY DEF Record, Goto, client
<1>1. Deliveries' = Deliveries /\ \A d : Message(d)' = Message(d)
    BY <1>0, SameMessages
<1>2. /\ recorded' \in Seq(Calls)
      /\ At(c, "recorded") = {} => \E x : At(c, "recorded")' = {x}
      /\ \A d : d # c => At(d, "recorded")' = At(d, "recorded")
    BY <1>0, RecordAdds
<1>3. Shapes'
    BY <1>0, <1>1, <1>2 DEF Shapes, Stages
<1>4. Unused' /\ Order'
    BY <1>0, <1>1 DEF Unused, Order, Ready, Shapes
<1>5. \A d \in Calls : Placed(d)'
    <2>1. At(c, "recorded") = {} /\ ~Vanished(c)
        BY <1>0 DEF Placed, Nowhere, Sites, Vanished, Swallowed, Unused
    <2>2. "recorded" \in Sites
        BY DEF Sites
    <2>3. \A site \in Sites \ {"recorded"} : \A d : At(d, site)' = At(d, site)
        BY <1>0, StillAt DEF Sites
    <2>. QED
        BY <1>0, <1>2, <2>1, <2>2, <2>3, ArriveStep
<1>. QED
    BY <1>3, <1>4, <1>5

\* The errors that Send logs, and hands to logErrors.
LEMMA LogInvariant ==
    ASSUME IInv, NEW c \in Calls, LogError(c) \/ (SendKafka(c) /\ ~Message(c).ok)
    PROVE  IInv'
<1>. USE DEF IInv
<1>0. /\ UNCHANGED <<kind, codec, setup, conn, channel, span, inFlight, errors, delivered, recorded,
                     closer>>
      /\ pc[c] # "returned" /\ pc' = [pc EXCEPT ![c] = "returned"]
      /\ kind # "log" /\ logged' = logged \cup {c}
    BY DEF LogError, SendKafka, Goto, client, Unused
<1>1. Deliveries' = Deliveries /\ \A d : Message(d)' = Message(d)
    BY <1>0, SameMessages
<1>2. Shapes'
    BY <1>0, <1>1 DEF Shapes, Stages
<1>3. Unused' /\ Order'
    BY <1>0, <1>1 DEF Unused, Order, Ready, Shapes
<1>4. \A d \in Calls : Placed(d)'
    <2>1. ~Vanished(c)
        BY <1>0 DEF Vanished, Swallowed, Unused
    <2>2. At(c, "logged")' = {c} /\ \A d : d # c => At(d, "logged")' = At(d, "logged")
        BY <1>0 DEF At
    <2>3. "logged" \in Sites
        BY DEF Sites
    <2>4. \A site \in Sites \ {"logged"} : \A d : At(d, site)' = At(d, site)
        BY <1>0, StillAt DEF Sites
    <2>. QED
        BY <1>0, <2>1, <2>2, <2>3, <2>4, ArriveStep
<1>. QED
    BY <1>2, <1>3, <1>4

-----------------------------------------------------------------------------
(* The producer, and the brokers.                                            *)

LEMMA TakeInvariant == ASSUME IInv, NEW c \in Calls, Take(c) PROVE IInv'
<1>. USE DEF IInv
<1>0. /\ UNCHANGED <<kind, codec, setup, conn, channel, span, delivered, recorded, logged, closer>>
      /\ pc[c] = "input" /\ pc' = [pc EXCEPT ![c] = "returned"]
      /\ kind = "kafka" /\ Message(c).ok
      /\ \/ conn = "open" /\ inFlight' = inFlight \cup {c} /\ UNCHANGED errors
         \/ conn = "closing" /\ errors' = errors \cup {c} /\ UNCHANGED inFlight
    BY DEF Take, Goto, Unused
<1>1. Deliveries' = Deliveries /\ \A d : Message(d)' = Message(d)
    BY <1>0, SameMessages
<1>2. Shapes'
    BY <1>0, <1>1 DEF Shapes, Stages
<1>3. Unused' /\ Order'
    BY <1>0, <1>1 DEF Unused, Order, Ready, Shapes
<1>4. \A d \in Calls : Placed(d)'
    <2>0. ~Vanished(c)
        BY <1>0 DEF Vanished, Swallowed, Unused
    <2>1. CASE inFlight' = inFlight \cup {c} /\ UNCHANGED errors
        <3>1. At(c, "in flight")' = {c}
            BY <2>1 DEF At
        <3>2. \A d : d # c => At(d, "in flight")' = At(d, "in flight")
            BY <2>1 DEF At
        <3>3. "in flight" \in Sites
            BY DEF Sites
        <3>4. \A site \in Sites \ {"in flight"} : \A d : At(d, site)' = At(d, site)
            BY <1>0, <2>1, StillAt DEF Sites
        <3>. QED
            BY <1>0, <2>0, <3>1, <3>2, <3>3, <3>4, ArriveStep
    <2>2. CASE errors' = errors \cup {c} /\ UNCHANGED inFlight
        <3>1. At(c, "errors")' = {c}
            BY <2>2 DEF At
        <3>2. \A d : d # c => At(d, "errors")' = At(d, "errors")
            BY <2>2 DEF At
        <3>3. "errors" \in Sites
            BY DEF Sites
        <3>4. \A site \in Sites \ {"errors"} : \A d : At(d, site)' = At(d, site)
            BY <1>0, <2>2, StillAt DEF Sites
        <3>. QED
            BY <1>0, <2>0, <3>1, <3>2, <3>3, <3>4, ArriveStep
    <2>. QED
        BY <1>0, <2>1, <2>2
<1>. QED
    BY <1>2, <1>3, <1>4

LEMMA ProduceInvariant == ASSUME IInv, NEW c \in Calls, Produce(c) PROVE IInv'
<1>. USE DEF IInv
<1>0. /\ UNCHANGED <<kind, codec, setup, conn, channel, pc, span, errors, recorded, logged, closer>>
      /\ c \in inFlight /\ inFlight' = inFlight \ {c}
      /\ kind = "kafka" /\ Message(c).ok
    BY DEF Produce, callers, Unused
<1>1. PICK m : m = Message(c).value
    OBVIOUS
<1>2. Deliver(c, m) /\ [call |-> c, message |-> m] \in Deliveries
    BY <1>0, <1>1 DEF Produce, Deliveries
<1>3. /\ delivered' \in Seq(Deliveries')
      /\ At(c, "delivered") = {} => \E x : At(c, "delivered")' = {x}
      /\ \A d : d # c => At(d, "delivered")' = At(d, "delivered")
    BY <1>0, <1>2, DeliverAdds
<1>4. Deliveries' = Deliveries /\ \A d : Message(d)' = Message(d)
    BY <1>0, SameMessages
<1>5. Shapes'
    BY <1>0, <1>3 DEF Shapes
<1>6. Unused' /\ Order'
    BY <1>0, <1>4 DEF Unused, Order, Ready, Shapes
<1>7. \A d \in Calls : Placed(d)'
    <2>1. "delivered" \in Sites /\ "in flight" \in Sites
        BY DEF Sites
    <2>2. At(c, "in flight") # {} /\ At(c, "in flight")' = {}
        BY <1>0 DEF At
    <2>3. At(c, "delivered") = {}
        BY <2>1, <2>2, OnePlace
    <2>4. \A d : d # c => At(d, "in flight")' = At(d, "in flight")
        BY <1>0 DEF At
    <2>5. \A site \in Sites \ {"delivered", "in flight"} : \A d : At(d, site)' = At(d, site)
        BY <1>0, StillAt DEF Sites
    <2>6. \A d \in Calls \ {c} : \A site \in Sites : At(d, site)' = At(d, site)
        BY <1>3, <2>4, <2>5
    <2>7. \A site \in Sites \ {"in flight", "delivered"} : At(c, site)' = At(c, site)
        BY <2>5
    <2>. QED
        BY <1>0, <1>3, <2>1, <2>2, <2>3, <2>6, <2>7, MoveStep
<1>. QED
    BY <1>5, <1>6, <1>7

LEMMA ProduceFailsInvariant == ASSUME IInv, NEW c \in Calls, ProduceFails(c) PROVE IInv'
<1>. USE DEF IInv
<1>0. /\ UNCHANGED <<kind, codec, setup, conn, channel, pc, span, delivered, recorded, logged, closer>>
      /\ c \in inFlight /\ inFlight' = inFlight \ {c} /\ errors' = errors \cup {c}
      /\ kind = "kafka" /\ Message(c).ok
    BY DEF ProduceFails, callers, Unused
<1>1. Deliveries' = Deliveries /\ \A d : Message(d)' = Message(d)
    BY <1>0, SameMessages
<1>2. Shapes'
    BY <1>0, <1>1 DEF Shapes
<1>3. Unused'
    BY <1>0, <1>1 DEF Unused
<1>4. Order'
    <2>1. conn # "closed"
        BY <1>0 DEF Order
    <2>. QED
        BY <1>0, <2>1 DEF Order, Ready
<1>5. \A d \in Calls : Placed(d)'
    <2>1. "errors" \in Sites /\ "in flight" \in Sites
        BY DEF Sites
    <2>2. At(c, "in flight") # {} /\ At(c, "in flight")' = {} /\ At(c, "errors")' = {c}
        BY <1>0 DEF At
    <2>3. \A d : d # c => At(d, "in flight")' = At(d, "in flight")
        BY <1>0 DEF At
    <2>4. \A d : d # c => At(d, "errors")' = At(d, "errors")
        BY <1>0 DEF At
    <2>5. \A site \in Sites \ {"in flight", "errors"} : \A d : At(d, site)' = At(d, site)
        BY <1>0, StillAt DEF Sites
    <2>6. \A d \in Calls \ {c} : \A site \in Sites : At(d, site)' = At(d, site)
        BY <2>3, <2>4, <2>5
    <2>7. \A site \in Sites \ {"in flight", "errors"} : At(c, site)' = At(c, site)
        BY <2>5
    <2>8. \E x : At(c, "errors")' = {x}
        BY <2>2
    <2>. QED
        BY <1>0, <2>1, <2>2, <2>6, <2>7, <2>8, MoveStep
<1>. QED
    BY <1>2, <1>3, <1>4, <1>5

LEMMA LogProducerErrorInvariant == ASSUME IInv, NEW c \in Calls, LogProducerError(c) PROVE IInv'
<1>. USE DEF IInv
<1>0. /\ UNCHANGED <<kind, codec, setup, conn, channel, inFlight, pc, span, delivered, recorded, closer>>
      /\ c \in errors /\ errors' = errors \ {c} /\ logged' = logged \cup {c}
    BY DEF LogProducerError, callers
<1>1. Deliveries' = Deliveries /\ \A d : Message(d)' = Message(d)
    BY <1>0, SameMessages
<1>2. Shapes'
    BY <1>0, <1>1 DEF Shapes
<1>3. Unused'
    BY <1>0, <1>1 DEF Unused
<1>4. Order'
    BY <1>0 DEF Order, Ready
<1>5. \A d \in Calls : Placed(d)'
    <2>1. "errors" \in Sites /\ "logged" \in Sites
        BY DEF Sites
    <2>2. At(c, "errors") # {} /\ At(c, "errors")' = {} /\ At(c, "logged")' = {c}
        BY <1>0 DEF At
    <2>3. \A d : d # c => At(d, "errors")' = At(d, "errors")
        BY <1>0 DEF At
    <2>4. \A d : d # c => At(d, "logged")' = At(d, "logged")
        BY <1>0 DEF At
    <2>5. \A site \in Sites \ {"errors", "logged"} : \A d : At(d, site)' = At(d, site)
        BY <1>0, StillAt DEF Sites
    <2>6. \A d \in Calls \ {c} : \A site \in Sites : At(d, site)' = At(d, site)
        BY <2>3, <2>4, <2>5
    <2>7. \A site \in Sites \ {"errors", "logged"} : At(c, site)' = At(c, site)
        BY <2>5
    <2>8. \E x : At(c, "logged")' = {x}
        BY <2>2
    <2>. QED
        BY <1>0, <2>1, <2>2, <2>6, <2>7, <2>8, MoveStep
<1>. QED
    BY <1>2, <1>3, <1>4, <1>5

LEMMA DrainInvariant == ASSUME IInv, NEW c \in Calls, Drain(c) PROVE IInv'
<1>. USE DEF IInv
<1>0. /\ UNCHANGED <<kind, codec, setup, conn, channel, inFlight, pc, span, delivered, recorded, logged>>
      /\ closer.at = "drain" /\ c \in errors /\ errors' = errors \ {c}
      /\ closer' = [closer EXCEPT !.taken = @ \cup {c}]
    BY DEF Drain, callers
<1>1. Deliveries' = Deliveries /\ \A d : Message(d)' = Message(d)
    BY <1>0, SameMessages
<1>2. /\ closer'.at = "drain" /\ closer'.taken = closer.taken \cup {c}
      /\ closer'.dropped = closer.dropped /\ closer' \in Closers
    BY <1>0 DEF Shapes, Closers
<1>3. Shapes'
    BY <1>0, <1>1, <1>2 DEF Shapes
<1>4. Unused'
    BY <1>0, <1>1, <1>2 DEF Unused
<1>5. Order'
    BY <1>0, <1>2 DEF Order, Ready, Unused
<1>6. \A d \in Calls : Placed(d)'
    <2>1. "errors" \in Sites /\ "taken" \in Sites
        BY DEF Sites
    <2>2. At(c, "errors") # {} /\ At(c, "errors")' = {} /\ At(c, "taken")' = {c}
        BY <1>0, <1>2 DEF At
    <2>3. \A d : d # c => At(d, "errors")' = At(d, "errors")
        BY <1>0 DEF At
    <2>4. \A d : d # c => At(d, "taken")' = At(d, "taken")
        BY <1>2 DEF At
    <2>5. \A site \in Sites \ {"errors", "taken"} : \A d : At(d, site)' = At(d, site)
        BY <1>0, StillAt DEF Sites
    <2>6. \A d \in Calls \ {c} : \A site \in Sites : At(d, site)' = At(d, site)
        BY <2>3, <2>4, <2>5
    <2>7. \A site \in Sites \ {"errors", "taken"} : At(c, site)' = At(c, site)
        BY <2>5
    <2>8. \E x : At(c, "taken")' = {x}
        BY <2>2
    <2>. QED
        BY <1>0, <1>2, <2>1, <2>2, <2>6, <2>7, <2>8, MoveStep
<1>. QED
    BY <1>3, <1>4, <1>5, <1>6

\* A connection that is lost or closed, and a Close that returns.
LEMMA QuietCloseInvariant ==
    ASSUME IInv,
           \/ ChannelLost \/ ShutDown \/ CloseKafka \/ Drained
           \/ \E ok \in BOOLEAN : CloseAMQP(ok) \/ CloseConn(ok)
    PROVE  IInv'
<1>. USE DEF IInv
<1>0. UNCHANGED <<kind, codec, setup, pc, span, inFlight, errors, delivered, recorded, logged>>
    BY DEF ChannelLost, ShutDown, CloseKafka, Drained, CloseAMQP, CloseConn, client, callers
<1>1. Deliveries' = Deliveries /\ \A d : Message(d)' = Message(d)
    BY <1>0, SameMessages
<1>2. /\ closer' \in Closers
      /\ closer'.taken = closer.taken /\ closer'.dropped = closer.dropped
      /\ conn' \in {conn, "closing", "closed"} /\ channel' \in {channel, "closed"}
    BY DEF Shapes, Closers, ChannelLost, ShutDown, CloseKafka, Drained, CloseAMQP, CloseChannel, CloseConn, client
<1>3. Shapes'
    BY <1>0, <1>1, <1>2 DEF Shapes
<1>4. Unused'
    <2>1. kind # "amqp" => UNCHANGED channel
        BY DEF ChannelLost, ShutDown, CloseKafka, Drained, CloseAMQP, CloseConn, client, Unused, Order
    <2>. QED
        BY <1>0, <1>1, <1>2, <2>1 DEF Unused
<1>5. Order'
    <2>1. CASE ChannelLost
        BY <1>0, <2>1 DEF ChannelLost, Order, Ready, Unused, Steps
    <2>2. CASE ShutDown
        BY <1>0, <2>2 DEF ShutDown, Order, Ready, Unused
    <2>3. CASE CloseKafka
        <3>1. closer'.at = "drain" /\ conn' = "closing" /\ channel' = channel
            BY <2>3 DEF CloseKafka, Shapes, Closers
        <3>. QED
            BY <1>0, <1>2, <2>3, <3>1 DEF CloseKafka, Order, Ready, Unused
    <2>4. CASE Drained
        <3>1. closer'.at = "returned" /\ (closer'.err <=> closer.taken # {})
            BY <2>4 DEF Drained, Shapes, Closers
        <3>2. conn' = conn /\ channel' = channel /\ conn = "closed" /\ errors = {}
            BY <2>4 DEF Drained, client
        <3>. QED
            BY <1>0, <1>2, <2>4, <3>1, <3>2 DEF Drained, Order, Ready, Unused
    <2>5. ASSUME NEW ok \in BOOLEAN, CloseAMQP(ok) PROVE Order'
        <3>1. /\ closer'.at \in {"conn", "returned"} /\ conn' = conn
              /\ closer'.at = "conn" => channel' = "closed"
            BY <2>5 DEF CloseAMQP, CloseChannel, Shapes, Closers
        <3>2. kind = "amqp" /\ setup = 5 /\ closer.taken = {} /\ closer.dropped = {}
            BY <2>5 DEF CloseAMQP, Order, Ready, Steps
        <3>. QED
            BY <1>0, <1>2, <3>1, <3>2 DEF Order, Ready, Steps
    <2>6. ASSUME NEW ok \in BOOLEAN, CloseConn(ok) PROVE Order'
        <3>1. /\ kind = "amqp" /\ channel = "closed" /\ setup = 5 /\ inFlight = {}
              /\ channel' = channel /\ conn' \in {conn, "closed"} /\ closer'.at = "returned"
            BY <1>0, <1>2, <2>6 DEF CloseConn, Order, Ready, Unused, Shapes, Closers, Steps
        <3>. QED
            BY <1>0, <1>2, <3>1 DEF Order, Ready, Steps
    <2>. QED
        BY <2>1, <2>2, <2>3, <2>4, <2>5, <2>6
<1>6. \A c \in Calls : Placed(c)'
    BY <1>0, <1>2, QuietStep
<1>. QED
    BY <1>3, <1>4, <1>5, <1>6

-----------------------------------------------------------------------------
(* The recorder.                                                             *)

LEMMA CloseRecorderInvariant == IInv /\ CloseRecorder => IInv'
<1>. SUFFICES ASSUME IInv, CloseRecorder PROVE IInv'
    OBVIOUS
<1>. USE DEF IInv
<1>0. /\ UNCHANGED <<kind, codec, setup, conn, channel, inFlight, errors, pc, span, delivered, logged>>
      /\ kind \in {"recorder", "log"} /\ closer.at = "no"
      /\ closer.taken = {} /\ closer.dropped = {}
      /\ recorded \in Seq(Calls) /\ recorded' = <<>>
    BY DEF CloseRecorder, AfterFlush, client, callers, Order, Shapes
<1>1. Deliveries' = Deliveries /\ \A c : Message(c)' = Message(c)
    BY <1>0, SameMessages
<1>2. /\ closer'.at = "returned" /\ closer'.taken = closer.taken
      /\ closer'.dropped = {recorded[k] : k \in DOMAIN recorded}
      /\ closer' \in Closers
    <2>1. PICK dropped : dropped = {recorded[k] : k \in DOMAIN recorded}
        OBVIOUS
    <2>2. dropped \subseteq Calls
        BY <1>0, <2>1
    <2>3. closer' = [closer EXCEPT !.at = "returned", !.dropped = dropped]
        BY <2>1 DEF CloseRecorder
    <2>. QED
        BY <2>1, <2>2, <2>3 DEF Shapes, Closers
<1>3. Shapes'
    BY <1>0, <1>1, <1>2 DEF Shapes
<1>4. \A c : c \in closer'.dropped <=> At(c, "recorded") # {}
    BY <1>2 DEF At
<1>5. \A c : \A site \in Sites \ {"recorded"} : At(c, site)' = At(c, site)
    BY <1>0, <1>2, StillAt DEF Sites
<1>6. "recorded" \in Sites /\ \A c : At(c, "recorded")' = {}
    BY <1>0 DEF Sites, At
<1>7. Unused'
    <2>1. ASSUME NEW c \in Calls, c \in closer'.dropped
          PROVE  kind = "recorder" /\ pc[c] = "returned"
        <3>1. At(c, "recorded") # {}
            BY <1>4, <2>1
        <3>2. pc[c] = "returned"
            BY <1>6, <3>1, OnePlace
        <3>3. recorded # <<>>
            BY <3>1 DEF At
        <3>. QED
            BY <3>2, <3>3 DEF Unused
    <2>. QED
        BY <1>0, <1>1, <2>1 DEF Unused
<1>8. Order'
    BY <1>0, <1>2 DEF Order, Ready, Unused
<1>9. ASSUME NEW c \in Calls PROVE Placed(c)'
    <2>1. CASE At(c, "recorded") = {}
        <3>1. \A site \in Sites : At(c, site)' = At(c, site)
            BY <1>5, <1>6, <2>1
        <3>2. c \in closer'.dropped <=> c \in closer.dropped
            BY <1>0, <1>4, <2>1
        <3>. QED
            BY <1>0, <3>1, <3>2, Stays
    <2>2. CASE At(c, "recorded") # {}
        <3>1. Vanished(c)'
            BY <1>4, <2>2 DEF Vanished
        <3>2. \A site \in Sites \ {"recorded"} : At(c, site) = {}
            BY <1>6, <2>2, OnePlace
        <3>3. Nowhere(c)'
            BY <1>5, <1>6, <3>2 DEF Nowhere
        <3>. QED
            BY <3>1, <3>3 DEF Placed
    <2>. QED
        BY <2>1, <2>2
<1>. QED
    BY <1>3, <1>7, <1>8, <1>9

LEMMA Concatenated ==
    ASSUME NEW S, NEW s \in Seq(S), NEW t \in Seq(S), NEW u, u = s \o t
    PROVE  /\ DOMAIN u = 1..(Len(s) + Len(t))
           /\ \A i \in 1..(Len(s) + Len(t)) : u[i] = IF i <= Len(s) THEN s[i] ELSE t[i - Len(s)]
OBVIOUS

LEMMA FlushInvariant == IInv /\ Flush => IInv'
<1>. SUFFICES ASSUME IInv, Flush PROVE IInv'
    OBVIOUS
<1>. USE DEF IInv
<1>. DEFINE flushed == [k \in DOMAIN recorded |-> [call |-> recorded[k], message |-> span[recorded[k]]]]
            n == Len(delivered)
<1>0. /\ UNCHANGED <<kind, codec, setup, conn, channel, inFlight, errors, pc, span, logged, closer>>
      /\ kind = "recorder" /\ recorded' = <<>>
      /\ recorded \in Seq(Calls) /\ delivered \in Seq(Deliveries)
      /\ delivered' = delivered \o flushed
    BY DEF Flush, AfterFlush, client, callers, Unused, Shapes
<1>1. Deliveries' = Deliveries /\ \A c : Message(c)' = Message(c)
    BY <1>0, SameMessages
<1>2. /\ flushed \in Seq(Deliveries) /\ Len(flushed) = Len(recorded)
      /\ \A k \in DOMAIN recorded : flushed[k].call = recorded[k]
    <2>1. DOMAIN recorded = 1..Len(recorded) /\ Len(recorded) \in Nat
        BY <1>0
    <2>2. \A k \in DOMAIN recorded : flushed[k] \in Deliveries
        BY <1>0 DEF Deliveries
    <2>. QED
        BY <2>1, <2>2
<1>. HIDE DEF flushed
<1>3. delivered' \in Seq(Deliveries')
    BY <1>0, <1>1, <1>2
<1>4. /\ n \in Nat /\ DOMAIN delivered = 1..n
      /\ \A k \in DOMAIN delivered : k \in DOMAIN delivered' /\ delivered'[k] = delivered[k]
      /\ \A k \in DOMAIN recorded : n + k \in DOMAIN delivered' /\ delivered'[n + k].call = recorded[k]
      /\ \A i \in DOMAIN delivered' :
            i \in DOMAIN delivered \/ \E k \in DOMAIN recorded : i = n + k
    <2>1. /\ n \in Nat /\ DOMAIN delivered = 1..n
          /\ Len(recorded) \in Nat /\ DOMAIN recorded = 1..Len(recorded)
        BY <1>0
    <2>2. /\ DOMAIN delivered' = 1..(n + Len(recorded))
          /\ \A i \in 1..(n + Len(recorded)) :
                delivered'[i] = IF i <= n THEN delivered[i] ELSE flushed[i - n]
        <3>1. PICK f : f = flushed
            OBVIOUS
        <3>2. PICK d : d = delivered
            OBVIOUS
        <3>3. PICK e : e = delivered'
            OBVIOUS
        <3>4. PICK D : D = Deliveries
            OBVIOUS
        <3>5. d \in Seq(D) /\ f \in Seq(D) /\ e = d \o f
            BY <1>0, <1>2, <3>1, <3>2, <3>3, <3>4
        <3>6. /\ DOMAIN e = 1..(Len(d) + Len(f))
              /\ \A i \in 1..(Len(d) + Len(f)) : e[i] = IF i <= Len(d) THEN d[i] ELSE f[i - Len(d)]
            BY <3>5, Concatenated
        <3>. QED
            BY <1>2, <3>1, <3>2, <3>3, <3>6
    <2>3. \A k \in DOMAIN delivered : k \in DOMAIN delivered' /\ delivered'[k] = delivered[k]
        BY <2>1, <2>2
    <2>4. \A k \in DOMAIN recorded : n + k \in DOMAIN delivered' /\ delivered'[n + k] = flushed[k]
        BY <2>1, <2>2
    <2>5. \A i \in DOMAIN delivered' :
            i \in DOMAIN delivered \/ \E k \in DOMAIN recorded : i = n + k
        <3>. SUFFICES ASSUME NEW i \in DOMAIN delivered', i \notin DOMAIN delivered
                      PROVE  \E k \in DOMAIN recorded : i = n + k
            OBVIOUS
        <3>1. i - n \in DOMAIN recorded /\ i = n + (i - n)
            BY <2>1, <2>2
        <3>. QED
            BY <3>1
    <2>. QED
        BY <1>2, <2>1, <2>3, <2>4, <2>5
<1>. HIDE DEF n
<1>5. Shapes'
    BY <1>0, <1>1, <1>3 DEF Shapes
<1>6. Unused' /\ Order'
    BY <1>0, <1>1 DEF Unused, Order, Ready
<1>7. ASSUME NEW c \in Calls PROVE Placed(c)'
    <2>1. "recorded" \in Sites /\ "delivered" \in Sites
        BY DEF Sites
    <2>2. At(c, "recorded")' = {}
        BY <1>0 DEF At
    <2>3. \A site \in Sites \ {"recorded", "delivered"} : At(c, site)' = At(c, site)
        BY <1>0, StillAt DEF Sites
    <2>4. CASE At(c, "recorded") = {}
        <3>1. \A k \in DOMAIN recorded : recorded[k] # c
            BY <2>4 DEF At
        <3>2. At(c, "delivered")' = At(c, "delivered")
            BY <1>4, <3>1 DEF At
        <3>3. \A site \in Sites : At(c, site)' = At(c, site)
            BY <2>2, <2>3, <2>4, <3>2
        <3>. QED
            BY <1>0, <3>3, Stays
    <2>5. CASE At(c, "recorded") # {}
        <3>1. PICK k : At(c, "recorded") = {k}
            BY <2>1, <2>5, OnePlace
        <3>2. At(c, "delivered") = {}
            BY <2>1, <2>5, OnePlace
        <3>3. \A j \in DOMAIN recorded : recorded[j] = c <=> j = k
            BY <3>1 DEF At
        <3>4. k \in DOMAIN recorded /\ recorded[k] = c
            BY <3>1 DEF At
        <3>5. \A j \in DOMAIN delivered : delivered[j].call # c
            BY <3>2 DEF At
        <3>6. PICK x : x = n + k
            OBVIOUS
        <3>7. At(c, "delivered")' = {x}
            BY <1>4, <3>3, <3>4, <3>5, <3>6 DEF At
        <3>. QED
            BY <1>0, <2>1, <2>2, <2>3, <2>5, <3>7, Moves
    <2>. QED
        BY <2>4, <2>5
<1>. QED
    BY <1>5, <1>6, <1>7

-----------------------------------------------------------------------------
(* The theorems.                                                             *)

LEMMA InitInvariant == Init => IInv
<1>. SUFFICES ASSUME Init PROVE IInv
    OBVIOUS
<1>1. Shapes
    <2>1. span \in [Calls -> SpanType]
        BY CallsAssumption DEF Init
    <2>2. closer \in Closers
        BY DEF Init, Closers
    <2>3. setup \in -1..Steps(kind)
        BY DEF Init, Kinds, Steps
    <2>. QED
        BY <2>1, <2>2, <2>3 DEF Init, Shapes, Stages
<1>2. Unused /\ Order
    BY DEF Init, Unused, Order
<1>3. ASSUME NEW c \in Calls PROVE Placed(c)
    <2>1. pc[c] = "idle"
        BY DEF Init
    <2>2. At(c, "delivered") = {} /\ At(c, "recorded") = {} /\ At(c, "in flight") = {}
        BY DEF Init, At
    <2>3. At(c, "errors") = {} /\ At(c, "logged") = {} /\ At(c, "taken") = {}
        BY DEF Init, At
    <2>. QED
        BY <2>1, <2>2, <2>3 DEF Placed, Nowhere, Sites
<1>. QED
    BY <1>1, <1>2, <1>3 DEF IInv

LEMMA NextInvariant == IInv /\ [Next]_vars => IInv'
<1>. SUFFICES ASSUME IInv, [Next]_vars PROVE IInv'
    OBVIOUS
<1>1. CASE SetUp \/ SetUpFails
    BY <1>1, SetUpInvariant
<1>2. ASSUME NEW c \in Calls, SendAMQP(c) \/ SendKafka(c) \/ Record(c) \/ PrintSpan(c)
      PROVE  IInv'
    BY <1>2, QuietSendInvariant, LogInvariant, RecordInvariant, PrintSpanInvariant
<1>3. ASSUME NEW c \in Calls, Proceed(c) PROVE IInv'
    BY <1>3, QuietSendInvariant, PublishInvariant, TakeInvariant DEF Proceed
<1>4. ASSUME NEW c \in Calls, LogError(c) \/ LogProducerError(c) PROVE IInv'
    BY <1>4, LogInvariant, LogProducerErrorInvariant
<1>5. ASSUME NEW c \in Calls, Produce(c) \/ ProduceFails(c) PROVE IInv'
    BY <1>5, ProduceInvariant, ProduceFailsInvariant
<1>6. CASE ChannelLost \/ ShutDown \/ CloseKafka \/ \E ok \in BOOLEAN : CloseAMQP(ok)
    BY <1>6, QuietCloseInvariant
<1>7. CASE CloseGoesOn
    BY <1>7, QuietCloseInvariant, DrainInvariant DEF CloseGoesOn
<1>8. CASE CloseRecorder \/ Flush
    BY <1>8, CloseRecorderInvariant, FlushInvariant
<1>9. CASE UNCHANGED vars
    <2>1. UNCHANGED <<kind, codec, setup, conn, channel, pc, span, inFlight, errors, delivered,
                      recorded, logged, closer>>
        BY <1>9 DEF vars, client, callers
    <2>2. Deliveries' = Deliveries /\ \A c : Message(c)' = Message(c)
        BY <2>1, SameMessages
    <2>3. Shapes' /\ Unused' /\ Order'
        BY <2>1, <2>2 DEF IInv, Shapes, Unused, Order, Ready
    <2>4. \A c \in Calls : Placed(c)'
        BY <2>1, QuietStep
    <2>. QED
        BY <2>3, <2>4 DEF IInv
<1>. QED
    BY <1>1, <1>2, <1>3, <1>4, <1>5, <1>6, <1>7, <1>8, <1>9 DEF Next

\* The inductive invariant holds whatever the reporter and its calls.
THEOREM Invariance == Spec => []IInv
<1>1. Init => IInv
    BY InitInvariant
<1>2. IInv /\ [Next]_vars => IInv'
    BY NextInvariant
<1>. QED
    BY <1>1, <1>2, PTL DEF Spec

\* The types, and what the reporter relies on of its client: a channel within its
\* connection, a producer that is closed when it has settled everything.
THEOREM TypeCorrect == Spec => []TypeOK
<1>1. IInv => TypeOK
    <2>. SUFFICES ASSUME IInv PROVE TypeOK
        OBVIOUS
    <2>1. \A k \in DOMAIN delivered : delivered[k].call \in Calls
        BY DEF IInv, Shapes, Deliveries
    <2>. QED
        BY <2>1 DEF IInv, Shapes, Closers, Order, TypeOK, Stages
<1>. QED
    BY <1>1, Invariance, PTL

LEMMA PlacesAt ==
    ASSUME NEW c
    PROVE  \A place : place \in Places(c) <=>
                \E site \in Sites : \E x \in At(c, site) : place = <<site, x>>
<1>1. /\ At(c, "delivered") = {k \in DOMAIN delivered : delivered[k].call = c}
      /\ At(c, "recorded") = {k \in DOMAIN recorded : recorded[k] = c}
    BY DEF At
<1>2. /\ At(c, "in flight") = {c} \cap inFlight /\ At(c, "errors") = {c} \cap errors
      /\ At(c, "logged") = {c} \cap logged /\ At(c, "taken") = {c} \cap closer.taken
    BY DEF At
<1>3. Places(c) = ({"delivered"} \X At(c, "delivered")) \cup ({"recorded"} \X At(c, "recorded"))
            \cup ({"in flight"} \X At(c, "in flight")) \cup ({"errors"} \X At(c, "errors"))
            \cup ({"logged"} \X At(c, "logged")) \cup ({"taken"} \X At(c, "taken"))
    BY <1>1, <1>2 DEF Places
<1>4. \A site, place : place \in {site} \X At(c, site) <=>
            \E x \in At(c, site) : place = <<site, x>>
    OBVIOUS
<1>5. \A place : place \in Places(c) <=> \E site \in Sites : place \in {site} \X At(c, site)
    BY <1>3 DEF Sites
<1>. QED
    BY <1>4, <1>5

\* A call of Send that has returned has left its span, or the error of it, in exactly
\* one place, whatever fails and whenever Close comes, unless the log reporter could
\* not encode the span or the recorder, and no other, was closed with it.  Close of
\* the Kafka reporter returns when nothing is in flight, and with an error if it got
\* any.
THEOREM NothingGoesMissing == Spec => []NothingSilent
<1>1. IInv => NothingSilent
    <2>. SUFFICES ASSUME IInv PROVE NothingSilent
        OBVIOUS
    <2>1. ASSUME NEW c \in Calls, Nowhere(c) PROVE Cardinality(Places(c)) = 0
        <3>1. Places(c) = {}
            BY <2>1, PlacesAt DEF Nowhere
        <3>. QED
            BY <3>1, FS_EmptySet
    <2>2. ASSUME NEW c \in Calls, Somewhere(c) PROVE Cardinality(Places(c)) = 1
        <3>1. PICK site \in Sites : /\ \E x : At(c, site) = {x}
                                    /\ \A other \in Sites : other # site => At(c, other) = {}
            BY <2>2 DEF Somewhere
        <3>2. PICK x : At(c, site) = {x}
            BY <3>1
        <3>3. Places(c) = {<<site, x>>}
            BY <3>1, <3>2, PlacesAt
        <3>. QED
            BY <3>3, FS_Singleton
    <2>3. closer.at = "returned" =>
            inFlight = {} /\ errors = {} /\ (closer.taken # {} => closer.err)
        BY DEF IInv, Shapes, Unused, Order
    <2>4. closer.dropped # {} => kind = "recorder"
        BY DEF IInv, Shapes, Closers, Unused
    <2>. QED
        BY <2>1, <2>2, <2>3, <2>4 DEF IInv, Placed, NothingSilent
<1>. QED
    BY <1>1, Invariance, PTL

-----------------------------------------------------------------------------
(* The arithmetic of words and microseconds.                                 *)

LEMMA Euclid ==
    ASSUME NEW a \in Int, NEW b \in Nat \ {0}
    PROVE  /\ a \div b \in Int /\ a % b \in 0..(b - 1)
           /\ a = b * (a \div b) + (a % b)
OBVIOUS

LEMMA EuclidUnique ==
    ASSUME NEW b \in Nat \ {0}, NEW q \in Int, NEW p \in Int,
           NEW r \in 0..(b - 1), NEW s \in 0..(b - 1), b * q + r = b * p + s
    PROVE  q = p /\ r = s
<1>1. ASSUME q < p PROVE FALSE
    <2>1. b * (p - q) >= b
        BY <1>1
    <2>. QED
        BY <2>1
<1>2. ASSUME p < q PROVE FALSE
    <2>1. b * (q - p) >= b
        BY <1>2
    <2>. QED
        BY <2>1
<1>. QED
    BY <1>1, <1>2

LEMMA DivMod ==
    ASSUME NEW b \in Nat \ {0}, NEW a \in Int, NEW q \in Int, NEW r \in 0..(b - 1),
           a = b * q + r
    PROVE  a \div b = q /\ a % b = r
BY Euclid, EuclidUnique

\* Half a word and half a microsecond.
LEMMA Halves ==
    /\ Word \div 2 \in Nat /\ Word = 2 * (Word \div 2) /\ MaxSigned = Word \div 2 - 1
    /\ Micro \div 2 \in Nat \ {0} /\ Micro = 2 * (Micro \div 2)
    /\ Word \in Nat \ {0} /\ Micro \in Nat \ {0} /\ Second \in Nat \ {0}
    /\ 2 * Micro <= Second /\ Second < Word \div 2
    /\ \E n \in Nat : Second = Micro * n
<1>1. /\ Word \in Nat \ {0} /\ Micro \in Nat \ {0} /\ Second \in Nat \ {0} /\ 2 \in Nat \ {0}
      /\ Word % 2 = 0 /\ Micro % 2 = 0 /\ Second % Micro = 0
    BY ScaleAssumption
<1>2. ASSUME NEW a \in Nat \ {0}, NEW b \in Nat \ {0}, a % b = 0
      PROVE  a \div b \in Nat \ {0} /\ a = b * (a \div b)
    <2>1. PICK q : q = a \div b
        OBVIOUS
    <2>2. q \in Int /\ a = b * q
        BY <1>2, <2>1, Euclid
    <2>3. ASSUME q <= 0 PROVE FALSE
        <3>1. b * (-q) >= 0
            BY <2>2, <2>3
        <3>. QED
            BY <2>2, <3>1
    <2>. QED
        BY <2>1, <2>2, <2>3
<1>3. Word \div 2 \in Nat /\ Word = 2 * (Word \div 2)
    BY <1>1, <1>2
<1>4. Micro \div 2 \in Nat \ {0} /\ Micro = 2 * (Micro \div 2)
    BY <1>1, <1>2
<1>5. \E n \in Nat : Second = Micro * n
    <2>1. Second \div Micro \in Nat /\ Second = Micro * (Second \div Micro)
        BY <1>1, <1>2
    <2>. QED
        BY <2>1
<1>. QED
    BY <1>1, <1>3, <1>4, <1>5, ScaleAssumption DEF MaxSigned

\* What a word of a number that fits is, whatever wraps.
LEMMA SignedIs ==
    ASSUME NEW x \in Durations, NEW k \in Int
    PROVE  Signed(x + Word * k) = x
<1>1. (x + Word * k) + MaxSigned + 1 = Word * k + (x + MaxSigned + 1)
    BY Halves DEF Durations
<1>2. x + MaxSigned + 1 \in 0..(Word - 1) /\ (x + Word * k) + MaxSigned + 1 \in Int
    BY Halves DEF Durations
<1>3. ((x + Word * k) + MaxSigned + 1) % Word = x + MaxSigned + 1
    BY <1>1, <1>2, DivMod, Halves, ZenonT(60)
<1>. QED
    BY <1>2, <1>3, Halves DEF Signed, Durations

LEMMA SignedSame == ASSUME NEW x \in Durations PROVE Signed(x) = x
<1>1. x + Word * 0 = x
    BY Halves DEF Durations
<1>. QED
    BY <1>1, SignedIs

LEMMA UnsignedIs ==
    ASSUME NEW x \in Durations
    PROVE  /\ x >= 0 => Unsigned(x) = x
           /\ x < 0 => Unsigned(x) = x + Word
<1>1. CASE x >= 0
    <2>1. x = Word * 0 + x /\ x \in 0..(Word - 1)
        BY <1>1, Halves DEF Durations
    <2>. QED
        BY <1>1, <2>1, DivMod, Halves DEF Unsigned
<1>2. CASE x < 0
    <2>1. x = Word * (-1) + (x + Word) /\ x + Word \in 0..(Word - 1) /\ x \in Int /\ -1 \in Int
        BY <1>2, Halves DEF Durations
    <2>2. x % Word = x + Word
        BY <2>1, DivMod, Halves
    <2>. QED
        BY <1>2, <2>2 DEF Unsigned, Durations
<1>. QED
    BY <1>1, <1>2 DEF Durations

\* A count of microseconds is read as the time it stands for, signed or not.
LEMMA FromMicrosIs ==
    ASSUME NEW k \in Int, k * Micro \in Durations
    PROVE  FromMicros(k) = k * Micro /\ FromMicros(Unsigned(k)) = k * Micro
<1>1. FromMicros(k) = k * Micro
    BY SignedSame DEF FromMicros
<1>2. PICK j : j = k \div Word
    OBVIOUS
<1>3. j \in Int /\ k = Word * j + Unsigned(k) /\ Unsigned(k) \in Int
    BY <1>2, Euclid, Halves DEF Unsigned
<1>4. Unsigned(k) * Micro = k * Micro + Word * (-(j * Micro))
    <2>1. Unsigned(k) = k - Word * j
        BY <1>3, Halves
    <2>2. (k - Word * j) * Micro = k * Micro - (Word * j) * Micro
        BY <1>3, Halves
    <2>3. (Word * j) * Micro = Word * (j * Micro)
        BY <1>3, Halves
    <2>4. Word * (-(j * Micro)) = -(Word * (j * Micro))
        BY <1>3, Halves
    <2>. QED
        BY <2>1, <2>2, <2>3, <2>4, <1>3, Halves
<1>5. -(j * Micro) \in Int
    BY <1>3, Halves
<1>. QED
    BY <1>1, <1>4, <1>5, SignedIs DEF FromMicros

\* Division towards zero.
LEMMA QuotientIs ==
    ASSUME NEW x \in Int
    PROVE  /\ Quotient(x, Micro) \in Int
           /\ x >= 0 => /\ 0 <= Quotient(x, Micro) * Micro /\ Quotient(x, Micro) * Micro <= x
                        /\ x < Quotient(x, Micro) * Micro + Micro /\ Quotient(x, Micro) >= 0
           /\ x < 0 => /\ Quotient(x, Micro) * Micro <= 0 /\ x <= Quotient(x, Micro) * Micro
                       /\ Quotient(x, Micro) * Micro - Micro < x /\ Quotient(x, Micro) <= 0
<1>. DEFINE Fits(y, q) == /\ q \in Int /\ q >= 0 /\ q * Micro \in Int
                          /\ 0 <= q * Micro /\ q * Micro <= y /\ y < q * Micro + Micro
<1>1. ASSUME NEW y \in Nat PROVE Fits(y, y \div Micro)
    <2>. DEFINE q == y \div Micro
    <2>1. q \in Int /\ y % Micro \in 0..(Micro - 1) /\ y = Micro * q + (y % Micro)
        BY Euclid, Halves
    <2>. HIDE DEF q
    <2>2. q >= 0
        <3>1. ASSUME q < 0 PROVE FALSE
            <4>1. Micro * (-q) >= Micro
                BY <2>1, <3>1, Halves
            <4>. QED
                BY <2>1, <4>1, Halves
        <3>. QED
            BY <2>1, <3>1
    <2>3. q * Micro = Micro * q /\ q * Micro >= 0
        BY <2>1, <2>2, Halves
    <2>. QED
        BY <2>1, <2>2, <2>3, Halves
<1>2. CASE x >= 0
    BY <1>1, <1>2 DEF Quotient
<1>3. CASE x < 0
    <2>1. -x \in Nat
        BY <1>3
    <2>2. PICK q : q = (-x) \div Micro
        OBVIOUS
    <2>3. Fits(-x, q)
        BY <1>1, <2>1, <2>2
    <2>4. Quotient(x, Micro) = -q /\ (-q) * Micro = -(q * Micro)
        BY <1>3, <2>2, <2>3, Halves DEF Quotient
    <2>. QED
        BY <1>3, <2>3, <2>4, Halves
<1>. QED
    BY <1>2, <1>3

LEMMA QuotientExact == ASSUME NEW k \in Int PROVE Quotient(k * Micro, Micro) = k
<1>1. k * Micro \in Int /\ k * Micro = Micro * k
    BY Halves
<1>2. PICK q : q = Quotient(k * Micro, Micro)
    OBVIOUS
<1>3. q \in Int /\ -Micro < k * Micro - q * Micro /\ k * Micro - q * Micro < Micro
    <2>1. PICK x : x = k * Micro
        OBVIOUS
    <2>2. x \in Int /\ q = Quotient(x, Micro)
        BY <1>1, <1>2, <2>1
    <2>3. q \in Int
        BY <2>2, QuotientIs
    <2>4. PICK y : y = q * Micro
        OBVIOUS
    <2>5. y \in Int
        BY <2>3, <2>4, Halves
    <2>6. /\ x >= 0 => y <= x /\ x < y + Micro
          /\ x < 0 => x <= y /\ y - Micro < x
        BY <2>2, <2>4, QuotientIs
    <2>7. -Micro < x - y /\ x - y < Micro
        BY <2>2, <2>5, <2>6, Halves
    <2>. QED
        BY <2>1, <2>3, <2>4, <2>7
<1>4. ASSUME q < k PROVE FALSE
    <2>1. (k - q) * Micro >= Micro
        BY <1>3, <1>4, Halves
    <2>2. (k - q) * Micro = k * Micro - q * Micro
        BY <1>3, Halves
    <2>. QED
        BY <1>1, <1>3, <2>1, <2>2, Halves
<1>5. ASSUME k < q PROVE FALSE
    <2>1. (q - k) * Micro >= Micro
        BY <1>3, <1>5, Halves
    <2>2. (q - k) * Micro = q * Micro - k * Micro
        BY <1>3, Halves
    <2>. QED
        BY <1>1, <1>3, <2>1, <2>2, Halves
<1>. QED
    BY <1>2, <1>3, <1>4, <1>5

\* Rounding: to a multiple of a microsecond, half of one off at most.
LEMMA RoundedIs ==
    ASSUME NEW t \in Instants \ {NoTime}
    PROVE  /\ t \in Int /\ t \in Durations
           /\ RoundedMicros(t) \in Int /\ RoundedMicros(t) * Micro \in Durations
           /\ t - Micro \div 2 < RoundedMicros(t) * Micro
           /\ RoundedMicros(t) * Micro <= t + Micro \div 2
<1>. DEFINE h == Micro \div 2
<1>1. t \in Int /\ t \in Durations /\ Micro - Word \div 2 <= t /\ t <= MaxSigned - h
    BY Halves DEF Instants, Durations
<1>2. PICK k : k = (t + h) \div Micro
    OBVIOUS
<1>3. PICK r : r = (t + h) % Micro
    OBVIOUS
<1>4. k \in Int /\ r \in 0..(Micro - 1) /\ t + h = Micro * k + r
    BY <1>1, <1>2, <1>3, Euclid, Halves
<1>5. Micro * k = k * Micro /\ k * Micro \in Int
    BY <1>4, Halves
<1>6. t - h < k * Micro /\ k * Micro <= t + h
    BY <1>1, <1>4, <1>5, Halves
<1>7. k * Micro \in Durations
    BY <1>1, <1>5, <1>6, Halves DEF Durations
<1>8. RoundedMicros(t) = Quotient(k * Micro, Micro)
    <2>1. t # NoTime /\ k * Micro # NoTime
        BY <1>5, NilAssumption
    <2>2. Rounded(t) = k * Micro
        BY <1>2, <2>1 DEF Rounded
    <2>. QED
        BY <1>7, <2>1, <2>2, SignedSame DEF RoundedMicros, UnixNano
<1>9. Quotient(k * Micro, Micro) = k
    BY <1>4, <1>5, QuotientExact
<1>. QED
    BY <1>1, <1>4, <1>6, <1>7, <1>8, <1>9

\* Rounding again changes nothing.
LEMMA RoundedMultiple ==
    ASSUME NEW k \in Int, k * Micro \in Durations
    PROVE  RoundedMicros(k * Micro) = k
<1>1. k * Micro \in Int
    BY Halves
<1>2. k * Micro + Micro \div 2 = Micro * k + Micro \div 2 /\ Micro \div 2 \in 0..(Micro - 1)
    BY <1>1, Halves
<1>3. (k * Micro + Micro \div 2) \div Micro = k
    BY <1>1, <1>2, DivMod, Halves
<1>4. k * Micro # NoTime
    BY <1>1, NilAssumption
<1>5. Rounded(k * Micro) = k * Micro
    BY <1>3, <1>4 DEF Rounded
<1>. QED
    BY <1>4, <1>5, SignedSame, QuotientExact DEF RoundedMicros, UnixNano

-----------------------------------------------------------------------------
(* Times, written and read.                                                  *)

LEMMA TimestampJSON ==
    ASSUME NEW t \in Instants, t # NoTime => t \div Second >= 1,
           NEW w, w = IF t = NoTime THEN 0 ELSE RoundedMicros(t),
           NEW u, u = IF w > 0 THEN FromMicros(w) ELSE NoTime
    PROVE  /\ w \in Nat /\ SameTime(t, u)
           /\ u # NoTime => u \div Second >= 1
           /\ w = IF u = NoTime THEN 0 ELSE RoundedMicros(u)
<1>1. CASE t = NoTime
    BY <1>1 DEF SameTime
<1>2. CASE t # NoTime
    <2>1. /\ t \in Int /\ w \in Int /\ w * Micro \in Durations /\ w * Micro \in Int
          /\ t - Micro \div 2 < w * Micro /\ w * Micro <= t + Micro \div 2
        BY <1>2, RoundedIs, Halves
    <2>2. t >= Second
        <3>1. PICK q : q = t \div Second
            OBVIOUS
        <3>2. PICK r : r = t % Second
            OBVIOUS
        <3>3. q \in Int /\ r \in 0..(Second - 1) /\ t = Second * q + r
            BY <2>1, <3>1, <3>2, Euclid, Halves
        <3>4. q >= 1
            BY <1>2, <3>1
        <3>5. Second * q >= Second
            BY <3>3, <3>4, Halves
        <3>. QED
            BY <3>3, <3>5, Halves
    <2>3. w * Micro >= Second
        <3>1. PICK n \in Nat : Second = Micro * n
            BY Halves
        <3>2. ASSUME w < n PROVE FALSE
            <4>1. Micro * (n - w) >= Micro
                BY <2>1, <3>2, Halves
            <4>2. Micro * (n - w) = Micro * n - w * Micro
                BY <2>1, Halves
            <4>. QED
                BY <2>1, <2>2, <3>1, <4>1, <4>2, Halves
        <3>3. Micro * (w - n) >= 0
            BY <2>1, <3>2, Halves
        <3>4. Micro * (w - n) = w * Micro - Micro * n
            BY <2>1, Halves
        <3>. QED
            BY <2>1, <3>1, <3>3, <3>4, Halves
    <2>4. w > 0
        <3>1. ASSUME w <= 0 PROVE FALSE
            <4>1. Micro * (-w) >= 0
                BY <2>1, <3>1, Halves
            <4>2. Micro * (-w) = -(w * Micro)
                BY <2>1, Halves
            <4>. QED
                BY <2>1, <2>3, <4>1, <4>2, Halves
        <3>. QED
            BY <2>1, <3>1
    <2>5. u = w * Micro /\ u # NoTime
        BY <2>1, <2>4, FromMicrosIs, NilAssumption
    <2>6. u \div Second >= 1
        <3>1. PICK q : q = u \div Second
            OBVIOUS
        <3>2. PICK r : r = u % Second
            OBVIOUS
        <3>3. q \in Int /\ r \in 0..(Second - 1) /\ u = Second * q + r
            BY <2>1, <2>5, <3>1, <3>2, Euclid, Halves
        <3>4. ASSUME q <= 0 PROVE FALSE
            <4>1. Second * (-q) >= 0
                BY <3>3, <3>4, Halves
            <4>. QED
                BY <2>1, <2>3, <2>5, <3>3, <4>1, Halves
        <3>. QED
            BY <3>1, <3>3, <3>4
    <2>7. SameTime(t, u)
        BY <1>2, <2>1, <2>5, Halves DEF SameTime
    <2>8. RoundedMicros(u) = w
        BY <2>1, <2>5, RoundedMultiple
    <2>. QED
        BY <2>1, <2>4, <2>5, <2>6, <2>7, <2>8
<1>. QED
    BY <1>1, <1>2

LEMMA AnnotationJSON ==
    ASSUME NEW t \in Instants, NEW w, w = RoundedMicros(t), NEW u, u = FromMicros(w)
    PROVE  /\ w \in Int
           /\ w >= 1 <=> t # NoTime /\ 2 * t >= Micro
           /\ w >= 1 => SameTime(t, u) /\ RoundedMicros(u) = w
<1>1. CASE t = NoTime
    <2>1. w = Quotient(ZeroNanos, Micro) /\ ZeroNanos \in Int /\ ZeroNanos < 0
        BY <1>1, ZeroNanosAssumption DEF RoundedMicros, Rounded, UnixNano
    <2>2. w \in Int /\ w <= 0
        BY <2>1, QuotientIs
    <2>. QED
        BY <1>1, <2>2
<1>2. CASE t # NoTime
    <2>1. /\ t \in Int /\ w \in Int /\ w * Micro \in Durations /\ w * Micro \in Int
          /\ t - Micro \div 2 < w * Micro /\ w * Micro <= t + Micro \div 2
        BY <1>2, RoundedIs, Halves
    <2>2. u = w * Micro /\ u # NoTime
        BY <2>1, FromMicrosIs, NilAssumption
    <2>3. SameTime(t, u)
        BY <1>2, <2>1, <2>2, Halves DEF SameTime
    <2>4. RoundedMicros(u) = w
        BY <2>1, <2>2, RoundedMultiple
    <2>5. ASSUME w >= 1 PROVE w * Micro >= Micro
        <3>1. Micro * (w - 1) >= 0
            BY <2>1, <2>5, Halves
        <3>2. Micro * (w - 1) = w * Micro - Micro
            BY <2>1, Halves
        <3>. QED
            BY <2>1, <3>1, <3>2, Halves
    <2>6. ASSUME w <= 0 PROVE w * Micro <= 0
        <3>1. Micro * (-w) >= 0
            BY <2>1, <2>6, Halves
        <3>2. Micro * (-w) = -(w * Micro)
            BY <2>1, Halves
        <3>. QED
            BY <2>1, <3>1, <3>2, Halves
    <2>7. w >= 1 => 2 * t >= Micro
        BY <2>1, <2>5, Halves
    <2>8. 2 * t >= Micro => w >= 1
        BY <2>1, <2>6, Halves
    <2>. QED
        BY <1>2, <2>1, <2>3, <2>4, <2>7, <2>8
<1>. QED
    BY <1>1, <1>2

LEMMA DurationJSON ==
    ASSUME NEW d \in Durations, d >= 0, NEW w, w = DurationToJSON(d), NEW u, u = FromMicros(w)
    PROVE  /\ w \in Int
           /\ w >= 0 <=> d + Micro \div 2 <= MaxSigned
           /\ w >= 0 => u \in Nat /\ SameTime(d, u) /\ (d > 0 => u >= Micro)
           /\ w >= 0 /\ u + Micro \div 2 <= MaxSigned => DurationToJSON(u) = w
<1>0. d \in Int /\ d <= MaxSigned /\ d # NoTime /\ MaxSigned \in Int
    BY Halves, NilAssumption DEF Durations
<1>1. CASE 0 < d /\ d < Micro
    <2>1. w = 1 /\ 1 * Micro = Micro /\ Micro \in Durations
        BY <1>1, Halves DEF DurationToJSON, Durations
    <2>2. u = Micro /\ u # NoTime
        BY <2>1, FromMicrosIs, NilAssumption, Halves
    <2>3. DurationToJSON(u) = 1
        <3>1. Micro + Micro \div 2 \in Durations
            BY Halves DEF Durations
        <3>2. Micro + Micro \div 2 = Micro * 1 + Micro \div 2 /\ Micro \div 2 \in 0..(Micro - 1)
              /\ Micro + Micro \div 2 \in Int
            BY Halves
        <3>3. (Micro + Micro \div 2) \div Micro = 1
            BY <3>2, DivMod, Halves
        <3>. QED
            BY <2>2, <3>1, <3>2, <3>3, SignedSame, Halves DEF DurationToJSON, Quotient
    <2>. QED
        BY <1>0, <1>1, <2>1, <2>2, <2>3, Halves DEF SameTime
<1>2. CASE ~(0 < d /\ d < Micro) /\ d + Micro \div 2 <= MaxSigned
    <2>1. PICK x : x = d + Micro \div 2
        OBVIOUS
    <2>2. x \in Int /\ x >= 0 /\ x \in Durations
        BY <1>0, <1>2, <2>1, Halves DEF Durations
    <2>3. w = Quotient(x, Micro)
        BY <1>2, <2>1, <2>2, SignedSame DEF DurationToJSON
    <2>4. PICK y : y = w * Micro
        OBVIOUS
    <2>5. w \in Int /\ w >= 0 /\ 0 <= y /\ y <= x /\ x < y + Micro
        BY <2>2, <2>3, <2>4, QuotientIs
    <2>6. y \in Int /\ y \in Durations
        BY <2>2, <2>4, <2>5, Halves DEF Durations
    <2>7. u = y /\ u # NoTime
        BY <2>4, <2>5, <2>6, FromMicrosIs, NilAssumption
    <2>8. SameTime(d, u)
        BY <1>0, <2>1, <2>5, <2>6, <2>7, Halves DEF SameTime
    <2>9. d > 0 => u >= Micro
        <3>1. ASSUME d > 0, w <= 0 PROVE FALSE
            <4>1. y = 0
                BY <2>4, <2>5, <3>1, Halves
            <4>. QED
                BY <1>0, <1>2, <2>1, <2>5, <3>1, <4>1, Halves
        <3>2. ASSUME d > 0 PROVE y >= Micro
            <4>1. Micro * (w - 1) >= 0
                BY <2>5, <3>1, <3>2, Halves
            <4>2. Micro * (w - 1) = y - Micro
                BY <2>4, <2>5, <2>6, Halves
            <4>. QED
                BY <2>6, <4>1, <4>2, Halves
        <3>. QED
            BY <2>7, <3>2
    <2>10. ASSUME u + Micro \div 2 <= MaxSigned PROVE DurationToJSON(u) = w
        <3>1. ~(0 < u /\ u < Micro)
            <4>1. ASSUME 0 < y, w <= 0 PROVE FALSE
                BY <2>4, <2>5, <4>1, Halves
            <4>2. ASSUME 0 < y PROVE y >= Micro
                <5>1. Micro * (w - 1) >= 0
                    BY <2>5, <4>1, <4>2, Halves
                <5>2. Micro * (w - 1) = y - Micro
                    BY <2>4, <2>5, <2>6, Halves
                <5>. QED
                    BY <2>6, <5>1, <5>2, Halves
            <4>. QED
                BY <2>6, <2>7, <4>2, Halves
        <3>2. PICK z : z = u + Micro \div 2
            OBVIOUS
        <3>3. z \in Int /\ z >= 0 /\ z \in Durations
            BY <1>0, <2>5, <2>6, <2>7, <2>10, <3>2, Halves DEF Durations
        <3>4. z = Micro * w + Micro \div 2 /\ Micro \div 2 \in 0..(Micro - 1)
            BY <2>4, <2>5, <2>6, <2>7, <3>2, Halves
        <3>5. z \div Micro = w
            BY <2>5, <3>3, <3>4, DivMod, Halves
        <3>. QED
            BY <3>1, <3>2, <3>3, <3>5, SignedSame DEF DurationToJSON, Quotient
    <2>. QED
        BY <1>2, <2>5, <2>6, <2>7, <2>8, <2>9, <2>10
<1>3. CASE ~(0 < d /\ d < Micro) /\ ~(d + Micro \div 2 <= MaxSigned)
    <2>1. PICK x : x = d + Micro \div 2 - Word
        OBVIOUS
    <2>2. x \in Durations /\ x \in Int /\ x <= -Micro
        BY <1>0, <1>3, <2>1, Halves DEF Durations
    <2>3. d + Micro \div 2 = x + Word * 1
        BY <1>0, <2>1, <2>2, Halves
    <2>4. w = Quotient(x, Micro)
        BY <1>3, <2>2, <2>3, SignedIs DEF DurationToJSON
    <2>5. PICK y : y = w * Micro
        OBVIOUS
    <2>6. w \in Int /\ w <= 0 /\ y - Micro < x
        BY <2>2, <2>4, <2>5, QuotientIs, Halves
    <2>7. w # 0
        BY <2>2, <2>5, <2>6, Halves
    <2>. QED
        BY <1>3, <2>6, <2>7
<1>. QED
    BY <1>1, <1>2, <1>3

\* Protobuf keeps times that are rounded, and cuts off the others.
LEMMA TimestampProto ==
    ASSUME NEW t \in Instants, NEW w, w = SpanTimeToProto(t), NEW u, u = FromMicros(w)
    PROVE  SameTime(IF t = NoTime THEN 0 ELSE t, u) /\ SpanTimeToProto(u) = w
<1>0. FromMicros(0) = 0 /\ RoundedMicros(0) = 0 /\ Unsigned(0) = 0 /\ 0 # NoTime
    <2>1. 0 * Micro = 0 /\ 0 \in Durations
        BY Halves DEF Durations
    <2>. QED
        BY <2>1, FromMicrosIs, RoundedMultiple, UnsignedIs, NilAssumption
<1>1. CASE t = NoTime
    BY <1>0, <1>1, Halves DEF SameTime, SpanTimeToProto
<1>2. CASE t # NoTime
    <2>1. PICK k : k = RoundedMicros(t)
        OBVIOUS
    <2>2. /\ t \in Int /\ k \in Int /\ k * Micro \in Durations /\ k * Micro \in Int
          /\ t - Micro \div 2 < k * Micro /\ k * Micro <= t + Micro \div 2
        BY <1>2, <2>1, RoundedIs, Halves
    <2>3. u = k * Micro /\ u # NoTime /\ w = Unsigned(k)
        BY <1>2, <2>1, <2>2, FromMicrosIs, NilAssumption DEF SpanTimeToProto
    <2>4. SameTime(t, u)
        BY <1>2, <2>2, <2>3, Halves DEF SameTime
    <2>5. SpanTimeToProto(u) = w
        BY <2>2, <2>3, RoundedMultiple DEF SpanTimeToProto
    <2>. QED
        BY <1>2, <2>4, <2>5
<1>. QED
    BY <1>1, <1>2

LEMMA AnnotationProto ==
    ASSUME NEW t \in Instants, NEW w, w = TimeToProto(t), NEW u, u = FromMicros(w)
    PROVE  SameTime(IF t = NoTime THEN 0 ELSE t, u) /\ TimeToProto(u) = w
<1>0. FromMicros(0) = 0 /\ Unsigned(0) = 0 /\ Signed(0) = 0 /\ 0 # NoTime /\ 0 \div Micro = 0
    <2>1. 0 * Micro = 0 /\ 0 \in Durations /\ 0 = Micro * 0 + 0 /\ 0 \in 0..(Micro - 1)
        BY Halves DEF Durations
    <2>2. 0 \div Micro = 0
        BY <2>1, DivMod, Halves
    <2>. QED
        BY <2>1, <2>2, FromMicrosIs, SignedSame, UnsignedIs, NilAssumption
<1>1. CASE t = NoTime
    BY <1>0, <1>1, Halves DEF SameTime, TimeToProto, UnixNano
<1>2. CASE t # NoTime
    <2>1. t \in Durations /\ t \in Int /\ Micro - Word \div 2 <= t /\ t <= MaxSigned
        BY <1>2, Halves DEF Instants, Durations
    <2>2. PICK x : x = Unsigned(t)
        OBVIOUS
    <2>3. /\ x \in Nat /\ x < Word
          /\ x = t \/ (x = t + Word /\ t < 0)
        BY <2>1, <2>2, UnsignedIs, Halves
    <2>4. w = x \div Micro
        BY <1>2, <2>1, <2>2, SignedSame DEF TimeToProto, UnixNano
    <2>5. PICK r : r = x % Micro
        OBVIOUS
    <2>6. w \in Int /\ r \in 0..(Micro - 1) /\ x = Micro * w + r
        BY <2>3, <2>4, <2>5, Euclid, Halves
    <2>7. PICK y : y = t - r
        OBVIOUS
    <2>8. y \in Int /\ y \in Durations /\ y # NoTime
        <3>1. y \in Int /\ -(Word \div 2) <= y /\ y <= MaxSigned
            BY <2>1, <2>6, <2>7, Halves
        <3>. QED
            BY <3>1, NilAssumption DEF Durations
    <2>9. w * Micro = Micro * w /\ Micro * w \in Int
        BY <2>6, Halves
    <2>10. u = y
        <3>1. CASE x = t
            <4>1. w * Micro = y
                BY <2>1, <2>6, <2>7, <2>9, <3>1
            <4>. QED
                BY <2>8, <4>1, SignedSame DEF FromMicros
        <3>2. CASE x = t + Word
            <4>1. w * Micro = y + Word * 1
                BY <2>1, <2>6, <2>7, <2>9, <3>2, Halves
            <4>. QED
                BY <2>8, <4>1, SignedIs DEF FromMicros
        <3>. QED
            BY <2>3, <3>1, <3>2
    <2>11. SameTime(t, u)
        BY <1>2, <2>1, <2>6, <2>7, <2>8, <2>10, Halves DEF SameTime
    <2>12. TimeToProto(u) = w
        <3>1. Unsigned(y) = Micro * w
            <4>1. ASSUME w < 0 PROVE FALSE
                <5>1. Micro * (-w) >= Micro
                    BY <2>6, <4>1, Halves
                <5>2. Micro * (-w) = -(Micro * w)
                    BY <2>6, Halves
                <5>. QED
                    BY <2>3, <2>6, <2>9, <5>1, <5>2, Halves
            <4>2. Micro * w >= 0
                BY <2>6, <4>1, Halves
            <4>3. y = Micro * w \/ y = Micro * w - Word
                <5>1. PICK z : z = Micro * w
                    OBVIOUS
                <5>2. z \in Int /\ x = z + r /\ r \in Int /\ Word \in Int
                    BY <2>6, <2>9, <5>1, Halves
                <5>3. y = z \/ y = z - Word
                    BY <2>1, <2>3, <2>7, <5>2
                <5>. QED
                    BY <5>1, <5>3
            <4>4. y = Micro * w - Word => y < 0
                BY <2>3, <2>6, <2>8, <2>9, Halves
            <4>. QED
                BY <2>8, <2>9, <4>2, <4>3, <4>4, UnsignedIs, Halves
        <3>2. Micro * w = Micro * w + 0 /\ 0 \in 0..(Micro - 1)
            BY <2>9, Halves
        <3>3. (Micro * w) \div Micro = w
            BY <2>6, <2>9, <3>2, DivMod, Halves
        <3>. QED
            BY <2>8, <2>10, <3>1, <3>3, SignedSame DEF TimeToProto, UnixNano
    <2>. QED
        BY <1>2, <2>11, <2>12
<1>. QED
    BY <1>1, <1>2

LEMMA DurationProto ==
    ASSUME NEW d \in Durations, NEW w, w = Unsigned(Quotient(d, Micro)), NEW u, u = FromMicros(w)
    PROVE  SameTime(d, u) /\ Unsigned(Quotient(u, Micro)) = w
<1>1. d \in Int /\ d # NoTime /\ -(Word \div 2) <= d /\ d <= MaxSigned
    BY Halves, NilAssumption DEF Durations
<1>2. PICK k : k = Quotient(d, Micro)
    OBVIOUS
<1>3. PICK y : y = k * Micro
    OBVIOUS
<1>4. /\ k \in Int
      /\ d >= 0 => 0 <= y /\ y <= d /\ d < y + Micro
      /\ d < 0 => y <= 0 /\ d <= y /\ y - Micro < d
    BY <1>1, <1>2, <1>3, QuotientIs
<1>5. y \in Int
    BY <1>3, <1>4, Halves
<1>6. y \in Durations /\ y # NoTime
    BY <1>1, <1>4, <1>5, Halves, NilAssumption DEF Durations
<1>7. u = y
    BY <1>2, <1>3, <1>4, <1>6, FromMicrosIs
<1>8. SameTime(d, u)
    BY <1>1, <1>4, <1>5, <1>6, <1>7, Halves DEF SameTime
<1>9. Quotient(u, Micro) = k
    BY <1>3, <1>4, <1>7, QuotientExact
<1>. QED
    BY <1>2, <1>8, <1>9

-----------------------------------------------------------------------------
(* Spans and messages, field by field.                                       *)

\* A record with the fields of a span.
HasFields(s) ==
    s = [trace |-> s.trace, id |-> s.id, parent |-> s.parent, debug |-> s.debug, kind |-> s.kind,
         name |-> s.name, timestamp |-> s.timestamp, duration |-> s.duration, shared |-> s.shared,
         local |-> s.local, remote |-> s.remote, annotations |-> s.annotations]

\* The message m of the span s, and the span r that is read from m, in JSON.
WrittenJSON(s, m) ==
    /\ HasFields(m)
    /\ m.trace = TraceToHex(s.trace) /\ m.id = s.id /\ m.parent = s.parent
    /\ m.debug = s.debug /\ m.kind = s.kind /\ m.name = ToLower(s.name) /\ m.shared = s.shared
    /\ m.timestamp = IF s.timestamp = NoTime THEN 0 ELSE RoundedMicros(s.timestamp)
    /\ m.duration = DurationToJSON(s.duration)
    /\ m.local = EndpointToJSON(s.local) /\ m.remote = EndpointToJSON(s.remote)
    /\ m.annotations = [k \in DOMAIN s.annotations |-> RoundedMicros(s.annotations[k])]

ReadJSON(m, r) ==
    /\ HasFields(r)
    /\ r.trace = TraceFromHex(m.trace) /\ r.id = m.id /\ r.parent = m.parent
    /\ r.debug = m.debug /\ r.kind = m.kind /\ r.name = m.name /\ r.shared = m.shared
    /\ r.timestamp = IF m.timestamp > 0 THEN FromMicros(m.timestamp) ELSE NoTime
    /\ r.duration = FromMicros(m.duration)
    /\ r.local = IF EmptyEndpoint(m.local) THEN Nil ELSE m.local
    /\ r.remote = IF EmptyEndpoint(m.remote) THEN Nil ELSE m.remote
    /\ r.annotations = [k \in DOMAIN m.annotations |-> FromMicros(m.annotations[k])]

\* The same in protobuf.
WrittenProto(s, m) ==
    /\ HasFields(m)
    /\ m.trace = <<s.trace.high, s.trace.low>> /\ m.id = <<s.id>>
    /\ m.parent = <<IF s.parent = Nil THEN 0 ELSE s.parent>>
    /\ m.debug = s.debug /\ m.kind = KindToProto(s.kind) /\ m.name = s.name /\ m.shared = s.shared
    /\ m.timestamp = SpanTimeToProto(s.timestamp)
    /\ m.duration = Unsigned(Quotient(s.duration, Micro))
    /\ m.local = s.local /\ m.remote = s.remote
    /\ m.annotations = [k \in DOMAIN s.annotations |-> TimeToProto(s.annotations[k])]

ReadProto(m, debugWasSet, r) ==
    /\ HasFields(r)
    /\ r.trace = [high |-> m.trace[1], low |-> m.trace[2]]
    /\ r.id = IdFromProto(m.id) /\ r.parent = IdFromProto(m.parent)
    /\ r.debug = debugWasSet /\ r.kind = m.kind /\ r.name = m.name /\ r.shared = m.shared
    /\ r.timestamp = FromMicros(m.timestamp) /\ r.duration = FromMicros(m.duration)
    /\ r.local = m.local /\ r.remote = m.remote
    /\ r.annotations = [k \in DOMAIN m.annotations |-> FromMicros(m.annotations[k])]

LEMMA SpansHaveFields == ASSUME NEW s \in SpanType PROVE HasFields(s)
BY DEF SpanType, HasFields

LEMMA SameFields ==
    ASSUME NEW m, NEW n, HasFields(m), HasFields(n),
           m.trace = n.trace, m.id = n.id, m.parent = n.parent, m.debug = n.debug, m.kind = n.kind,
           m.name = n.name, m.timestamp = n.timestamp, m.duration = n.duration,
           m.shared = n.shared, m.local = n.local, m.remote = n.remote,
           m.annotations = n.annotations
    PROVE  m = n
BY DEF HasFields

LEMMA MarshalFields ==
    ASSUME NEW s, HasFields(s), Marshalable(s)
    PROVE  \E m : MarshalJSON(s) = Written(m) /\ WrittenJSON(s, m)
<1>1. PICK a : a = TraceToHex(s.trace)
    OBVIOUS
<1>2. PICK b : b = ToLower(s.name)
    OBVIOUS
<1>3. PICK c : c = IF s.timestamp = NoTime THEN 0 ELSE RoundedMicros(s.timestamp)
    OBVIOUS
<1>4. PICK d : d = DurationToJSON(s.duration)
    OBVIOUS
<1>5. PICK e : e = EndpointToJSON(s.local)
    OBVIOUS
<1>6. PICK f : f = EndpointToJSON(s.remote)
    OBVIOUS
<1>7. PICK g : g = [k \in DOMAIN s.annotations |-> RoundedMicros(s.annotations[k])]
    OBVIOUS
<1>8. PICK m : m = [s EXCEPT !.trace = a, !.name = b, !.timestamp = c, !.duration = d,
                             !.local = e, !.remote = f, !.annotations = g]
    OBVIOUS
<1>9. MarshalJSON(s) = Written(m)
    BY <1>1, <1>2, <1>3, <1>4, <1>5, <1>6, <1>7, <1>8 DEF MarshalJSON
<1>10. /\ HasFields(m)
       /\ m.trace = a /\ m.id = s.id /\ m.parent = s.parent /\ m.debug = s.debug
       /\ m.kind = s.kind /\ m.name = b /\ m.shared = s.shared /\ m.timestamp = c
       /\ m.duration = d /\ m.local = e /\ m.remote = f /\ m.annotations = g
    BY <1>8 DEF HasFields
<1>11. WrittenJSON(s, m)
    BY <1>1, <1>2, <1>3, <1>4, <1>5, <1>6, <1>7, <1>10 DEF WrittenJSON
<1>. QED
    BY <1>9, <1>11

LEMMA UnmarshalFields ==
    ASSUME NEW m, HasFields(m), Unmarshalable(m)
    PROVE  \E r : UnmarshalJSON(m) = Written(r) /\ ReadJSON(m, r)
<1>1. PICK a : a = TraceFromHex(m.trace)
    OBVIOUS
<1>2. PICK b : b = IF m.timestamp > 0 THEN FromMicros(m.timestamp) ELSE NoTime
    OBVIOUS
<1>3. PICK c : c = FromMicros(m.duration)
    OBVIOUS
<1>4. PICK d : d = IF EmptyEndpoint(m.local) THEN Nil ELSE m.local
    OBVIOUS
<1>5. PICK e : e = IF EmptyEndpoint(m.remote) THEN Nil ELSE m.remote
    OBVIOUS
<1>6. PICK f : f = [k \in DOMAIN m.annotations |-> FromMicros(m.annotations[k])]
    OBVIOUS
<1>7. PICK r : r = [m EXCEPT !.trace = a, !.timestamp = b, !.duration = c, !.local = d,
                             !.remote = e, !.annotations = f]
    OBVIOUS
<1>8. UnmarshalJSON(m) = Written(r)
    BY <1>1, <1>2, <1>3, <1>4, <1>5, <1>6, <1>7 DEF UnmarshalJSON
<1>9. /\ HasFields(r)
      /\ r.trace = a /\ r.id = m.id /\ r.parent = m.parent /\ r.debug = m.debug
      /\ r.kind = m.kind /\ r.name = m.name /\ r.shared = m.shared /\ r.timestamp = b
      /\ r.duration = c /\ r.local = d /\ r.remote = e /\ r.annotations = f
    BY <1>7 DEF HasFields
<1>10. ReadJSON(m, r)
    BY <1>1, <1>2, <1>3, <1>4, <1>5, <1>6, <1>9 DEF ReadJSON
<1>. QED
    BY <1>8, <1>10

LEMMA ToProtoFields ==
    ASSUME NEW s, HasFields(s)
    PROVE  \E m : SpanToProto(s) = Written(m) /\ WrittenProto(s, m)
<1>1. PICK a : a = <<s.trace.high, s.trace.low>>
    OBVIOUS
<1>2. PICK b : b = <<IF s.parent = Nil THEN 0 ELSE s.parent>>
    OBVIOUS
<1>3. PICK c : c = <<s.id>>
    OBVIOUS
<1>4. PICK d : d = KindToProto(s.kind)
    OBVIOUS
<1>5. PICK e : e = SpanTimeToProto(s.timestamp)
    OBVIOUS
<1>6. PICK f : f = Unsigned(Quotient(s.duration, Micro))
    OBVIOUS
<1>7. PICK g : g = [k \in DOMAIN s.annotations |-> TimeToProto(s.annotations[k])]
    OBVIOUS
<1>8. PICK m : m = [s EXCEPT !.trace = a, !.parent = b, !.id = c, !.kind = d, !.timestamp = e,
                             !.duration = f, !.annotations = g]
    OBVIOUS
<1>9. SpanToProto(s) = Written(m)
    BY <1>1, <1>2, <1>3, <1>4, <1>5, <1>6, <1>7, <1>8 DEF SpanToProto
<1>10. /\ HasFields(m)
       /\ m.trace = a /\ m.id = c /\ m.parent = b /\ m.debug = s.debug
       /\ m.kind = d /\ m.name = s.name /\ m.shared = s.shared /\ m.timestamp = e
       /\ m.duration = f /\ m.local = s.local /\ m.remote = s.remote /\ m.annotations = g
    BY <1>8 DEF HasFields
<1>11. WrittenProto(s, m)
    BY <1>1, <1>2, <1>3, <1>4, <1>5, <1>6, <1>7, <1>10 DEF WrittenProto
<1>. QED
    BY <1>9, <1>11

LEMMA FromProtoFields ==
    ASSUME NEW m, HasFields(m), Len(m.trace) = 2, m.id # <<>>, NEW debugWasSet
    PROVE  \E r : SpanFromProto(m, debugWasSet) = Written(r) /\ ReadProto(m, debugWasSet, r)
<1>1. PICK a : a = [high |-> m.trace[1], low |-> m.trace[2]]
    OBVIOUS
<1>2. PICK b : b = IdFromProto(m.parent)
    OBVIOUS
<1>3. PICK c : c = IdFromProto(m.id)
    OBVIOUS
<1>4. PICK e : e = FromMicros(m.timestamp)
    OBVIOUS
<1>5. PICK f : f = FromMicros(m.duration)
    OBVIOUS
<1>6. PICK g : g = [k \in DOMAIN m.annotations |-> FromMicros(m.annotations[k])]
    OBVIOUS
<1>7. PICK r : r = [m EXCEPT !.trace = a, !.parent = b, !.id = c, !.debug = debugWasSet,
                             !.timestamp = e, !.duration = f, !.annotations = g]
    OBVIOUS
<1>8. SpanFromProto(m, debugWasSet) = Written(r)
    BY <1>1, <1>2, <1>3, <1>4, <1>5, <1>6, <1>7 DEF SpanFromProto
<1>9. /\ HasFields(r)
      /\ r.trace = a /\ r.id = c /\ r.parent = b /\ r.debug = debugWasSet
      /\ r.kind = m.kind /\ r.name = m.name /\ r.shared = m.shared /\ r.timestamp = e
      /\ r.duration = f /\ r.local = m.local /\ r.remote = m.remote /\ r.annotations = g
    BY <1>7 DEF HasFields
<1>10. ReadProto(m, debugWasSet, r)
    BY <1>1, <1>2, <1>3, <1>4, <1>5, <1>6, <1>9 DEF ReadProto
<1>. QED
    BY <1>8, <1>10

-----------------------------------------------------------------------------
(* What is read is what was written, and is written as it was.               *)

LEMMA Lowered ==
    ASSUME NEW name
    PROVE  ToLower(ToLower(name)) = ToLower(name) /\ (ToLower(name) = "" <=> name = "")
BY DEF ToLower

LEMMA EndpointAgain ==
    ASSUME NEW e \in Endpoints, NEW w, w = EndpointToJSON(e),
           NEW f, f = IF EmptyEndpoint(w) THEN Nil ELSE w
    PROVE  SameEndpoint(e, f) /\ EndpointToJSON(f) = w
<1>1. CASE EmptyEndpoint(e)
    <2>1. w = Nil /\ EmptyEndpoint(w) /\ f = Nil
        BY <1>1 DEF EndpointToJSON, EmptyEndpoint
    <2>. QED
        BY <1>1, <2>1 DEF EndpointToJSON, SameEndpoint
<1>2. CASE ~EmptyEndpoint(e)
    <2>1. e \in [name : Names, addr : Nat] /\ e # Nil /\ (e.name # "" \/ e.addr # 0)
        BY <1>2 DEF Endpoints, EmptyEndpoint
    <2>2. PICK name : name = ToLower(e.name)
        OBVIOUS
    <2>3. w = [e EXCEPT !.name = name] /\ name \in Names
        <3>1. w = [e EXCEPT !.name = name]
            BY <1>2, <2>2 DEF EndpointToJSON
        <3>2. name \in Names
            BY <2>1, <2>2, NamesAssumption
        <3>. QED
            BY <3>1, <3>2
    <2>4. w \in [name : Names, addr : Nat] /\ w.name = name /\ w.addr = e.addr
        BY <2>1, <2>3
    <2>5. w # Nil /\ ~EmptyEndpoint(w) /\ f = w
        BY <2>1, <2>2, <2>4, Lowered, NilAssumption DEF EmptyEndpoint
    <2>6. [w EXCEPT !.name = ToLower(w.name)] = w
        BY <2>2, <2>4, Lowered, ZenonT(60)
    <2>7. EndpointToJSON(f) = w
        BY <2>5, <2>6 DEF EndpointToJSON
    <2>8. SameEndpoint(e, f)
        BY <1>2, <2>2, <2>4, <2>5, Lowered DEF SameEndpoint
    <2>. QED
        BY <2>7, <2>8
<1>. QED
    BY <1>1, <1>2

LEMMA EndpointSame == ASSUME NEW e \in Endpoints PROVE SameEndpoint(e, e)
BY DEF SameEndpoint, EmptyEndpoint

LEMMA TraceAgain ==
    ASSUME NEW trace \in [high : Nat, low : Nat]
    PROVE  TraceFromHex(TraceToHex(trace)) = trace
<1>1. trace = [high |-> trace.high, low |-> trace.low]
    OBVIOUS
<1>2. CASE trace.high = 0
    BY <1>1, <1>2 DEF TraceToHex, TraceFromHex
<1>3. CASE trace.high # 0
    BY <1>1, <1>3 DEF TraceToHex, TraceFromHex
<1>. QED
    BY <1>2, <1>3

LEMMA SpanFields ==
    ASSUME NEW s \in SpanType
    PROVE  /\ s.trace \in [high : Nat, low : Nat] /\ s.id \in Nat
           /\ s.parent \in Nat \cup {Nil} /\ s.timestamp \in Instants /\ s.duration \in Durations
           /\ s.local \in Endpoints /\ s.remote \in Endpoints
           /\ s.annotations \in Seq(Instants)
           /\ DOMAIN s.annotations = 1..Len(s.annotations) /\ Len(s.annotations) \in Nat
           /\ \A k \in DOMAIN s.annotations : s.annotations[k] \in Instants
BY DEF SpanType

\* A function on the positions of a sequence is one of the same length.
LEMMA Lengths ==
    ASSUME NEW n \in Nat, NEW f, DOMAIN f = 1..n, NEW g, g = [k \in 1..n |-> f[k]]
    PROVE  Len(g) = n
OBVIOUS

LEMMA ReadableJSON ==
    ASSUME NEW s \in SpanType, Marshalable(s), NEW m, WrittenJSON(s, m)
    PROVE  Unmarshalable(m) <=> Readable(s)
<1>1. m.timestamp >= 0
    BY SpanFields, TimestampJSON DEF WrittenJSON, Marshalable
<1>2. m.duration >= 0 <=> s.duration + Micro \div 2 <= MaxSigned
    BY SpanFields, DurationJSON DEF WrittenJSON, Marshalable
<1>3. m.id >= 1 <=> s.id # 0
    BY SpanFields DEF WrittenJSON
<1>4. /\ DOMAIN m.annotations = DOMAIN s.annotations
      /\ \A k \in DOMAIN s.annotations :
            m.annotations[k] >= 1 <=> s.annotations[k] # NoTime /\ 2 * s.annotations[k] >= Micro
    <2>1. /\ DOMAIN m.annotations = DOMAIN s.annotations
          /\ \A k \in DOMAIN s.annotations : m.annotations[k] = RoundedMicros(s.annotations[k])
        BY DEF WrittenJSON
    <2>. QED
        BY <2>1, SpanFields, AnnotationJSON
<1>. QED
    BY <1>1, <1>2, <1>3, <1>4 DEF Unmarshalable, Readable

LEMMA SameJSON ==
    ASSUME NEW s \in SpanType, Marshalable(s), Readable(s), NEW m, WrittenJSON(s, m),
           NEW r, ReadJSON(m, r)
    PROVE  SameSpan(s, r) /\ (s.duration > 0 => r.duration >= Micro)
<1>1. r.trace = s.trace
    BY SpanFields, TraceAgain DEF WrittenJSON, ReadJSON
<1>2. SameTime(s.timestamp, r.timestamp)
    BY SpanFields, TimestampJSON DEF WrittenJSON, ReadJSON, Marshalable
<1>3. SameTime(s.duration, r.duration) /\ (s.duration > 0 => r.duration >= Micro)
    BY SpanFields, DurationJSON DEF WrittenJSON, ReadJSON, Marshalable, Readable
<1>4. SameEndpoint(s.local, r.local) /\ SameEndpoint(s.remote, r.remote)
    BY SpanFields, EndpointAgain DEF WrittenJSON, ReadJSON
<1>5. /\ Len(r.annotations) = Len(s.annotations)
      /\ \A k \in DOMAIN s.annotations : SameTime(s.annotations[k], r.annotations[k])
    <2>1. /\ DOMAIN r.annotations = DOMAIN s.annotations
          /\ \A k \in DOMAIN s.annotations :
                r.annotations[k] = FromMicros(RoundedMicros(s.annotations[k]))
        BY DEF WrittenJSON, ReadJSON
    <2>2. Len(r.annotations) = Len(s.annotations)
        BY SpanFields DEF WrittenJSON, ReadJSON
    <2>3. ASSUME NEW k \in DOMAIN s.annotations
          PROVE  SameTime(s.annotations[k], r.annotations[k])
        <3>1. s.annotations[k] # NoTime /\ 2 * s.annotations[k] >= Micro
            BY DEF Readable
        <3>. QED
            BY <2>1, <3>1, SpanFields, AnnotationJSON
    <2>. QED
        BY <2>2, <2>3
<1>6. /\ r.id = s.id /\ r.shared = s.shared /\ r.parent = s.parent /\ r.debug = s.debug
      /\ r.kind = s.kind
    BY DEF WrittenJSON, ReadJSON
<1>7. ToLower(r.name) = ToLower(s.name)
    <2>1. r.name = ToLower(s.name)
        BY DEF WrittenJSON, ReadJSON
    <2>. QED
        BY <2>1, Lowered
<1>. QED
    BY <1>1, <1>2, <1>3, <1>4, <1>5, <1>6, <1>7 DEF SameSpan

LEMMA AgainJSON ==
    ASSUME NEW s \in SpanType, Marshalable(s), Readable(s), NEW m, WrittenJSON(s, m),
           NEW r, ReadJSON(m, r), Readable(r)
    PROVE  MarshalJSON(r) = Written(m)
<1>1. Marshalable(r)
    <2>1. r.timestamp # NoTime => r.timestamp \div Second >= 1
        BY SpanFields, TimestampJSON DEF WrittenJSON, ReadJSON, Marshalable
    <2>2. r.duration >= 0
        BY SpanFields, DurationJSON DEF WrittenJSON, ReadJSON, Marshalable, Readable
    <2>. QED
        BY <2>1, <2>2 DEF Marshalable
<1>2. PICK n : MarshalJSON(r) = Written(n) /\ WrittenJSON(r, n)
    BY <1>1, MarshalFields DEF ReadJSON
<1>3. n.trace = m.trace
    BY <1>2, SpanFields, TraceAgain DEF WrittenJSON, ReadJSON
<1>4. n.timestamp = m.timestamp
    BY <1>2, SpanFields, TimestampJSON DEF WrittenJSON, ReadJSON, Marshalable
<1>5. n.duration = m.duration
    <2>1. m.duration = DurationToJSON(s.duration) /\ r.duration = FromMicros(m.duration)
        BY DEF WrittenJSON, ReadJSON
    <2>2. m.duration >= 0 /\ r.duration + Micro \div 2 <= MaxSigned
        BY <2>1, SpanFields, DurationJSON DEF Marshalable, Readable
    <2>3. DurationToJSON(r.duration) = m.duration
        BY <2>1, <2>2, SpanFields, DurationJSON DEF Marshalable
    <2>. QED
        BY <1>2, <2>3 DEF WrittenJSON
<1>6. n.local = m.local /\ n.remote = m.remote
    BY <1>2, SpanFields, EndpointAgain DEF WrittenJSON, ReadJSON
<1>7. n.annotations = m.annotations
    <2>1. /\ DOMAIN s.annotations = DOMAIN r.annotations
          /\ \A k \in DOMAIN s.annotations :
                r.annotations[k] = FromMicros(RoundedMicros(s.annotations[k]))
        BY DEF WrittenJSON, ReadJSON
    <2>2. ASSUME NEW k \in DOMAIN s.annotations
          PROVE  RoundedMicros(r.annotations[k]) = RoundedMicros(s.annotations[k])
        <3>1. s.annotations[k] # NoTime /\ 2 * s.annotations[k] >= Micro
            BY DEF Readable
        <3>. QED
            BY <2>1, <3>1, SpanFields, AnnotationJSON
    <2>. QED
        BY <1>2, <2>1, <2>2 DEF WrittenJSON
<1>8. n.id = m.id /\ n.parent = m.parent /\ n.debug = m.debug /\ n.kind = m.kind /\ n.shared = m.shared
    BY <1>2 DEF WrittenJSON, ReadJSON
<1>9. n.name = m.name
    <2>1. n.name = ToLower(r.name) /\ r.name = m.name /\ m.name = ToLower(s.name)
        BY <1>2 DEF WrittenJSON, ReadJSON
    <2>. QED
        BY <2>1, Lowered
<1>10. n = m
    BY <1>2, <1>3, <1>4, <1>5, <1>6, <1>7, <1>8, <1>9, SameFields DEF WrittenJSON
<1>. QED
    BY <1>2, <1>10

LEMMA SameProto ==
    ASSUME NEW s \in SpanType, NEW m, WrittenProto(s, m), NEW r, ReadProto(m, s.debug, r)
    PROVE  SameSpan(Filled(s), r)
<1>0. PICK f : f = Filled(s)
    OBVIOUS
<1>1. /\ f.trace = s.trace /\ f.id = s.id /\ f.debug = s.debug /\ f.shared = s.shared
      /\ f.name = s.name /\ f.duration = s.duration
      /\ f.local = s.local /\ f.remote = s.remote
      /\ f.parent = IF s.parent = Nil THEN 0 ELSE s.parent
      /\ f.kind = KindToProto(s.kind)
      /\ f.timestamp = IF s.timestamp = NoTime THEN 0 ELSE s.timestamp
      /\ f.annotations = [k \in DOMAIN s.annotations |->
                            IF s.annotations[k] = NoTime THEN 0 ELSE s.annotations[k]]
    BY <1>0 DEF Filled, SpanType
<1>2. r.trace = f.trace
    BY <1>1, SpanFields DEF WrittenProto, ReadProto
<1>3. SameTime(f.timestamp, r.timestamp)
    <2>1. r.timestamp = FromMicros(SpanTimeToProto(s.timestamp)) /\ s.timestamp \in Instants
        BY SpanFields DEF WrittenProto, ReadProto
    <2>. QED
        BY <1>1, <2>1, TimestampProto
<1>4. SameTime(f.duration, r.duration)
    BY <1>1, SpanFields, DurationProto DEF WrittenProto, ReadProto
<1>5. SameEndpoint(f.local, r.local) /\ SameEndpoint(f.remote, r.remote)
    BY <1>1, SpanFields, EndpointSame DEF WrittenProto, ReadProto
<1>6. /\ Len(r.annotations) = Len(f.annotations)
      /\ \A k \in DOMAIN f.annotations : SameTime(f.annotations[k], r.annotations[k])
    <2>1. \A k \in DOMAIN s.annotations :
            r.annotations[k] = FromMicros(TimeToProto(s.annotations[k]))
        BY DEF WrittenProto, ReadProto
    <2>2. Len(r.annotations) = Len(s.annotations)
        BY SpanFields DEF WrittenProto, ReadProto
    <2>3. /\ DOMAIN f.annotations = DOMAIN s.annotations
          /\ Len(f.annotations) = Len(s.annotations)
        BY <1>1, SpanFields
    <2>4. ASSUME NEW k \in DOMAIN s.annotations
          PROVE  SameTime(f.annotations[k], r.annotations[k])
        <3>1. /\ s.annotations[k] \in Instants
              /\ f.annotations[k] = IF s.annotations[k] = NoTime THEN 0 ELSE s.annotations[k]
            BY <1>1, SpanFields
        <3>. QED
            BY <2>1, <3>1, AnnotationProto
    <2>. QED
        BY <2>2, <2>3, <2>4
<1>7. /\ r.shared = f.shared /\ r.debug = f.debug /\ r.name = f.name
      /\ r.kind = f.kind
    BY <1>1 DEF WrittenProto, ReadProto
<1>8. r.id = f.id /\ r.parent = f.parent
    <2>1. \A x : IdFromProto(<<x>>) = x
        BY DEF IdFromProto
    <2>2. /\ r.id = IdFromProto(<<s.id>>)
          /\ r.parent = IdFromProto(<<IF s.parent = Nil THEN 0 ELSE s.parent>>)
        BY DEF WrittenProto, ReadProto
    <2>. QED
        BY <1>1, <2>1, <2>2
<1>. QED
    BY <1>0, <1>2, <1>3, <1>4, <1>5, <1>6, <1>7, <1>8 DEF SameSpan

LEMMA AgainProto ==
    ASSUME NEW s \in SpanType, NEW m, WrittenProto(s, m), NEW r, ReadProto(m, s.debug, r)
    PROVE  SpanToProto(r) = Written(m)
<1>1. PICK n : SpanToProto(r) = Written(n) /\ WrittenProto(r, n)
    BY ToProtoFields DEF ReadProto
<1>2. n.trace = m.trace
    BY <1>1 DEF WrittenProto, ReadProto
<1>3. n.timestamp = m.timestamp
    BY <1>1, SpanFields, TimestampProto DEF WrittenProto, ReadProto
<1>4. n.duration = m.duration
    BY <1>1, SpanFields, DurationProto DEF WrittenProto, ReadProto
<1>5. n.annotations = m.annotations
    <2>1. /\ DOMAIN s.annotations = DOMAIN r.annotations
          /\ \A k \in DOMAIN s.annotations :
                r.annotations[k] = FromMicros(TimeToProto(s.annotations[k]))
        BY DEF WrittenProto, ReadProto
    <2>2. \A k \in DOMAIN s.annotations :
            TimeToProto(r.annotations[k]) = TimeToProto(s.annotations[k])
        BY <2>1, SpanFields, AnnotationProto
    <2>. QED
        BY <1>1, <2>1, <2>2 DEF WrittenProto
<1>6. n.parent = m.parent
    <2>1. PICK p : p = IF s.parent = Nil THEN 0 ELSE s.parent
        OBVIOUS
    <2>2. p \in Nat /\ p # Nil
        BY <2>1, SpanFields, NilAssumption
    <2>3. m.parent = <<p>> /\ r.parent = p
        BY <2>1 DEF WrittenProto, ReadProto, IdFromProto
    <2>. QED
        BY <1>1, <2>2, <2>3 DEF WrittenProto
<1>7. n.id = m.id
    <2>1. \A x : IdFromProto(<<x>>) = x
        BY DEF IdFromProto
    <2>2. n.id = <<r.id>> /\ r.id = IdFromProto(m.id) /\ m.id = <<s.id>>
        BY <1>1 DEF WrittenProto, ReadProto
    <2>. QED
        BY <2>1, <2>2
<1>8. n.kind = m.kind
    <2>1. n.kind = KindToProto(r.kind) /\ r.kind = m.kind /\ m.kind = KindToProto(s.kind)
        BY <1>1 DEF WrittenProto, ReadProto
    <2>. QED
        BY <2>1 DEF KindToProto
<1>9. n.debug = m.debug /\ n.name = m.name /\ n.shared = m.shared /\ n.local = m.local
      /\ n.remote = m.remote
    BY <1>1 DEF WrittenProto, ReadProto
<1>10. n = m
    BY <1>1, <1>2, <1>3, <1>4, <1>5, <1>6, <1>7, <1>8, <1>9, SameFields DEF WrittenProto
<1>. QED
    BY <1>1, <1>10

\* Every span of the model whose JSON is Readable is read back as it was, and JSON is
\* refused of no others; a positive duration stays so.  Protobuf is never refused and
\* gives the span back as Filled.  Writing what was read gives the same message.
THEOREM Reads ==
    ASSUME NEW c \in {"json", "proto"}, NEW s \in SpanType, Serialize(c, s).ok,
           NEW m, m = Serialize(c, s).value, NEW read, read = Parse(c, m, s.debug)
    PROVE  /\ c = "json" =>
                /\ read.ok <=> Readable(s)
                /\ read.ok => /\ SameSpan(s, read.value)
                              /\ s.duration > 0 => read.value.duration >= Micro
           /\ c = "proto" => read.ok /\ SameSpan(Filled(s), read.value)
           /\ read.ok /\ (c = "json" => Readable(read.value)) =>
                Serialize(c, read.value) = Written(m)
<1>0. /\ \A v : Written(v).ok /\ Written(v).value = v
      /\ ~Failed.ok /\ HasFields(s)
    BY SpansHaveFields DEF Written, Failed
<1>1. CASE c = "json"
    <2>1. Marshalable(s) /\ MarshalJSON(s) = Serialize(c, s)
        <3>1. MarshalJSON(s) = Serialize(c, s)
            BY <1>1 DEF Serialize
        <3>2. ~Marshalable(s) => MarshalJSON(s) = Failed
            BY DEF MarshalJSON
        <3>. QED
            BY <1>0, <3>1, <3>2
    <2>2. MarshalJSON(s) = Written(m) /\ WrittenJSON(s, m)
        <3>1. PICK n : MarshalJSON(s) = Written(n) /\ WrittenJSON(s, n)
            BY <1>0, <2>1, MarshalFields
        <3>2. n = m
            BY <1>0, <2>1, <3>1
        <3>. QED
            BY <3>1, <3>2
    <2>3. read = UnmarshalJSON(m)
        BY <1>1 DEF Parse
    <2>4. CASE Readable(s)
        <3>1. Unmarshalable(m)
            BY <2>1, <2>2, <2>4, ReadableJSON
        <3>2. PICK r : UnmarshalJSON(m) = Written(r) /\ ReadJSON(m, r)
            BY <2>2, <3>1, UnmarshalFields DEF WrittenJSON
        <3>3. read.ok /\ read.value = r
            BY <1>0, <2>3, <3>2
        <3>4. SameSpan(s, r) /\ (s.duration > 0 => r.duration >= Micro)
            BY <1>1, <2>1, <2>2, <2>4, <3>2, SameJSON
        <3>5. Readable(r) => Serialize(c, r) = Written(m)
            BY <1>1, <2>1, <2>2, <2>4, <3>2, AgainJSON DEF Serialize
        <3>. QED
            BY <1>1, <2>4, <3>3, <3>4, <3>5
    <2>5. CASE ~Readable(s)
        <3>1. ~Unmarshalable(m)
            BY <2>1, <2>2, <2>5, ReadableJSON
        <3>2. read = Failed
            BY <2>3, <3>1 DEF UnmarshalJSON
        <3>. QED
            BY <1>0, <1>1, <2>5, <3>2
    <2>. QED
        BY <2>4, <2>5
<1>2. CASE c = "proto"
    <2>1. PICK n : SpanToProto(s) = Written(n) /\ WrittenProto(s, n)
        BY <1>0, ToProtoFields
    <2>2. n = m
        BY <1>0, <1>2, <2>1 DEF Serialize
    <2>3. Len(m.trace) = 2 /\ m.id # <<>> /\ HasFields(m)
        <3>1. m.trace = <<s.trace.high, s.trace.low>> /\ m.id = <<s.id>> /\ HasFields(m)
            BY <2>1, <2>2 DEF WrittenProto
        <3>2. \A x, y : Len(<<x, y>>) = 2 /\ <<x>> # <<>>
            OBVIOUS
        <3>. QED
            BY <3>1, <3>2
    <2>4. PICK r : SpanFromProto(m, s.debug) = Written(r) /\ ReadProto(m, s.debug, r)
        BY <2>3, FromProtoFields
    <2>5. read.ok /\ read.value = r
        BY <1>0, <1>2, <2>4 DEF Parse
    <2>6. SameSpan(Filled(s), r)
        BY <2>1, <2>2, <2>4, SameProto
    <2>7. Serialize(c, r) = Written(m)
        BY <1>2, <2>1, <2>2, <2>4, AgainProto DEF Serialize
    <2>. QED
        BY <1>2, <2>5, <2>6, <2>7
<1>. QED
    BY <1>1, <1>2

-----------------------------------------------------------------------------
(* What collectors read.                                                     *)

LEMMA DeliveriesAre ==
    ASSUME IInv, NEW k \in DOMAIN delivered
    PROVE  /\ delivered[k].call \in Calls /\ span[delivered[k].call] \in SpanType
           /\ codec \in {"json", "proto"}
           /\ kind = "recorder" => delivered[k].message = span[delivered[k].call]
           /\ kind # "recorder" =>
                LET written == Serialize(codec, span[delivered[k].call])
                IN  written.ok /\ delivered[k].message = written.value
<1>1. delivered[k] \in Deliveries
    BY DEF IInv, Shapes
<1>. QED
    BY <1>1 DEF IInv, Shapes, Deliveries, Message

\* A collector reads the span that was sent, its times to the microsecond where words
\* wrap and before the epoch too, for spans of all sizes: from JSON as it was, unless
\* it is one that JSON is refused of, and from protobuf as Filled.
THEOREM ReadersGetTheSpan == Spec => []ReadAsWritten
<1>1. IInv => ReadAsWritten
    <2>. SUFFICES ASSUME IInv, NEW k \in DOMAIN delivered
                  PROVE  LET s == span[delivered[k].call]
                             read == Parse(codec, delivered[k].message, s.debug)
                         IN  CASE kind = "recorder" -> delivered[k].message = s
                               [] kind # "recorder" /\ codec = "json" ->
                                    /\ read.ok <=> Readable(s)
                                    /\ read.ok =>
                                        /\ SameSpan(s, read.value)
                                        /\ s.duration > 0 => read.value.duration >= Micro
                               [] OTHER -> read.ok /\ SameSpan(Filled(s), read.value)
        BY DEF ReadAsWritten
    <2>1. PICK s : s = span[delivered[k].call]
        OBVIOUS
    <2>2. PICK m : m = delivered[k].message
        OBVIOUS
    <2>3. PICK read : read = Parse(codec, m, s.debug)
        OBVIOUS
    <2>4. CASE kind = "recorder"
        BY <2>4, DeliveriesAre
    <2>5. CASE kind # "recorder"
        <3>1. /\ s \in SpanType /\ codec \in {"json", "proto"}
              /\ Serialize(codec, s).ok /\ m = Serialize(codec, s).value
            BY <2>1, <2>2, <2>5, DeliveriesAre
        <3>2. /\ codec = "json" =>
                    /\ read.ok <=> Readable(s)
                    /\ read.ok => /\ SameSpan(s, read.value)
                                  /\ s.duration > 0 => read.value.duration >= Micro
              /\ codec = "proto" => read.ok /\ SameSpan(Filled(s), read.value)
            BY <2>3, <3>1, Reads
        <3>. QED
            BY <2>1, <2>2, <2>3, <2>5, <3>1, <3>2
    <2>. QED
        BY <2>4, <2>5
<1>. QED
    BY <1>1, Invariance, PTL

\* Encoding what a collector has read gives the message it got, so that it can pass
\* on a span without changing it.
THEOREM PassedOnUnchanged == Spec => []Rewritten
<1>1. IInv => Rewritten
    <2>. SUFFICES ASSUME IInv, kind # "recorder", NEW k \in DOMAIN delivered
                  PROVE  LET message == delivered[k].message
                             read == Parse(codec, message, span[delivered[k].call].debug)
                         IN  read.ok /\ (codec = "json" => Readable(read.value)) =>
                                Serialize(codec, read.value) = Written(message)
        BY DEF Rewritten
    <2>1. PICK s : s = span[delivered[k].call]
        OBVIOUS
    <2>2. PICK m : m = delivered[k].message
        OBVIOUS
    <2>3. PICK read : read = Parse(codec, m, s.debug)
        OBVIOUS
    <2>4. /\ s \in SpanType /\ codec \in {"json", "proto"}
          /\ Serialize(codec, s).ok /\ m = Serialize(codec, s).value
        BY <2>1, <2>2, DeliveriesAre
    <2>5. read.ok /\ (codec = "json" => Readable(read.value)) =>
                Serialize(codec, read.value) = Written(m)
        BY <2>3, <2>4, Reads
    <2>. QED
        BY <2>1, <2>2, <2>3, <2>5
<1>. QED
    BY <1>1, Invariance, PTL
=============================================================================
