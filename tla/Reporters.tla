------------------------------ MODULE Reporters ------------------------------
(***************************************************************************)
(* The reporters that keep no batch: AMQP, Kafka, the recorder and the log *)
(* reporter, between the goroutines that finish spans and a collector.     *)
(*                                                                         *)
(* A program has one of them; each call of Send has a span of its own.     *)
(* The AMQP client and sarama's AsyncProducer are modelled from what the   *)
(* reporters rely on.                                                      *)
(*                                                                         *)
(* Definitions marked Mutant stand before the one they vary: a slip that   *)
(* the properties must catch.  Nothing else uses them.                     *)
(***************************************************************************)
EXTENDS Codecs, FiniteSets

CONSTANTS
    Calls,   \* calls of Send
    SpansOf  \* the spans each call may have

ASSUME CallsAssumption ==
    IsFiniteSet(Calls) /\ DOMAIN SpansOf = Calls /\ \A c \in Calls : SpansOf[c] \subseteq SpanType

VARIABLES
    kind,       \* which reporter the program has
    codec,      \* its serializer
    setup,      \* how many steps NewReporter has taken, -1 if it gave up
    conn,       \* the AMQP connection, or the Kafka producer
    channel,    \* r.channel of the AMQP reporter
    pc,         \* where each call is
    span,       \* the span of each call
    inFlight,   \* what the Kafka producer has taken and not settled
    errors,     \* the producer's Errors channel
    delivered,  \* what the collector, a caller of Flush or the log has got
    recorded,   \* r.spans of the recorder
    logged,     \* the calls whose errors logErrors or Send have logged
    closer      \* where Close is, whether it returned an error, the producer's errors
                \* that are in it, and the spans it has thrown away

client == <<conn, channel, inFlight, errors>>
callers == <<pc, span>>
vars == <<kind, codec, setup, client, callers, delivered, recorded, logged, closer>>

Kinds == {"amqp", "kafka", "recorder", "log"}

\* The steps of NewReporter that may fail.
Steps(k) == CASE k = "amqp" -> 5 [] k = "kafka" -> 1 [] OTHER -> 0

Init ==
    /\ kind \in Kinds
    /\ codec \in IF kind = "kafka" THEN {"json", "proto"} ELSE {"json"}
    /\ setup = 0
    /\ conn = "none" /\ channel = "none"
    /\ pc = [c \in Calls |-> "idle"]
    /\ span \in [Calls -> UNION {SpansOf[c] : c \in Calls}]
    /\ \A c \in Calls : span[c] \in SpansOf[c]
    /\ inFlight = {} /\ errors = {}
    /\ delivered = <<>> /\ recorded = <<>>
    /\ logged = {}
    /\ closer = [at |-> "no", err |-> FALSE, taken |-> {}, dropped |-> {}]

Ready == setup = Steps(kind)

-----------------------------------------------------------------------------
(* NewReporter: Dial, Channel and three checks, or the producer.             *)

SetUp ==
    /\ setup \in 0..(Steps(kind) - 1)
    /\ setup' = setup + 1
    /\ conn' = IF setup = 0 THEN "open" ELSE conn
    /\ channel' = IF kind = "amqp" /\ setup = 1 THEN "open" ELSE channel
    /\ UNCHANGED <<kind, codec, callers, inFlight, errors, delivered, recorded, logged, closer>>

\* The caller gets an error; what was opened stays open.
SetUpFails ==
    /\ setup \in 0..(Steps(kind) - 1)
    /\ setup' = -1
    /\ UNCHANGED <<kind, codec, client, callers, delivered, recorded, logged, closer>>

-----------------------------------------------------------------------------
(* Send.                                                                     *)

Message(c) == Serialize(codec, span[c])

Goto(c, from, to) == pc[c] = from /\ pc' = [pc EXCEPT ![c] = to]

Deliver(c, message) == delivered' = Append(delivered, [call |-> c, message |-> message])

\* AMQP: the message, or the error to be handed to logErrors.
SendAMQP(c) ==
    /\ kind = "amqp" /\ Ready
    /\ Goto(c, "idle", IF Message(c).ok THEN "publish" ELSE "error")
    /\ UNCHANGED <<kind, codec, setup, client, span, delivered, recorded, logged, closer>>

Publish(c) ==
    /\ channel = "open"
    /\ Goto(c, "publish", "returned")
    /\ Deliver(c, Message(c).value)
    /\ UNCHANGED <<kind, codec, setup, client, span, recorded, logged, closer>>

PublishFails(c) ==
    /\ Goto(c, "publish", "error")
    /\ UNCHANGED <<kind, codec, setup, client, span, delivered, recorded, logged, closer>>

\* Mutant: logErrors logs one error and ends.
LogsOnce == logged = {}

\* range r.e, which nothing closes.
LogsErrors == TRUE

\* The rendezvous of Send and logErrors on r.e.
LogError(c) ==
    /\ LogsErrors
    /\ Goto(c, "error", "returned")
    /\ logged' = logged \cup {c}
    /\ UNCHANGED <<kind, codec, setup, client, span, delivered, recorded, closer>>

\* Kafka: the message is offered to the producer; an error is logged at once.
SendKafka(c) ==
    /\ kind = "kafka" /\ Ready
    /\ Goto(c, "idle", IF Message(c).ok THEN "input" ELSE "returned")
    /\ logged' = IF Message(c).ok THEN logged ELSE logged \cup {c}
    /\ UNCHANGED <<kind, codec, setup, client, span, delivered, recorded, closer>>

Record(c) ==
    /\ kind = "recorder"
    /\ Goto(c, "idle", "returned")
    /\ recorded' = Append(recorded, c)
    /\ UNCHANGED <<kind, codec, setup, client, span, delivered, logged, closer>>

\* The log reporter prints what can be encoded, and nothing of what cannot.
PrintSpan(c) ==
    /\ kind = "log"
    /\ Goto(c, "idle", "returned")
    /\ IF Message(c).ok THEN Deliver(c, Message(c).value) ELSE UNCHANGED delivered
    /\ UNCHANGED <<kind, codec, setup, client, span, recorded, logged, closer>>

-----------------------------------------------------------------------------
(* The clients of the brokers.                                               *)

\* The broker closes the channel, as AMQP does upon an error.
ChannelLost ==
    /\ channel = "open" /\ Ready
    /\ channel' = "closed"
    /\ UNCHANGED <<kind, codec, setup, conn, callers, inFlight, errors, delivered, recorded,
                   logged, closer>>

\* The producer takes a message from its input, and refuses it if it shuts down.
Take(c) ==
    /\ conn \in {"open", "closing"}
    /\ Goto(c, "input", "returned")
    /\ inFlight' = IF conn = "open" THEN inFlight \cup {c} ELSE inFlight
    /\ errors' = IF conn = "closing" THEN errors \cup {c} ELSE errors
    /\ UNCHANGED <<kind, codec, setup, conn, channel, span, delivered, recorded, logged, closer>>

\* A send on a closed channel.
SendPanics(c) ==
    /\ conn = "closed"
    /\ Goto(c, "input", "panicked")
    /\ UNCHANGED <<kind, codec, setup, client, span, delivered, recorded, logged, closer>>

Produce(c) ==
    /\ c \in inFlight
    /\ inFlight' = inFlight \ {c}
    /\ Deliver(c, Message(c).value)
    /\ UNCHANGED <<kind, codec, setup, conn, channel, callers, errors, recorded, logged, closer>>

ProduceFails(c) ==
    /\ c \in inFlight
    /\ inFlight' = inFlight \ {c}
    /\ errors' = errors \cup {c}
    /\ UNCHANGED <<kind, codec, setup, conn, channel, callers, delivered, recorded, logged, closer>>

\* Everything is settled: Input and Errors are closed.
ShutDown ==
    /\ conn = "closing" /\ inFlight = {}
    /\ conn' = "closed"
    /\ UNCHANGED <<kind, codec, setup, channel, callers, inFlight, errors, delivered, recorded,
                   logged, closer>>

\* logErrors of the Kafka reporter ranges over Errors.
LogProducerError(c) ==
    /\ c \in errors
    /\ errors' = errors \ {c}
    /\ logged' = logged \cup {c}
    /\ UNCHANGED <<kind, codec, setup, conn, channel, inFlight, callers, delivered, recorded, closer>>

-----------------------------------------------------------------------------
(* Close, and the recorder's Flush.                                          *)

\* Mutant: the connection first.
CloseConnFirst(ok) ==
    /\ conn' = IF ok THEN "closed" ELSE conn
    /\ closer' = [closer EXCEPT !.at = IF ok THEN "conn" ELSE "returned", !.err = ~ok]
    /\ UNCHANGED channel

\* An error of the channel leaves the connection.
CloseChannel(ok) ==
    /\ channel' = IF ok THEN "closed" ELSE channel
    /\ closer' = [closer EXCEPT !.at = IF ok THEN "conn" ELSE "returned", !.err = ~ok]
    /\ UNCHANGED conn

CloseAMQP(ok) ==
    /\ kind = "amqp" /\ Ready /\ closer.at = "no"
    /\ CloseChannel(ok)
    /\ UNCHANGED <<kind, codec, setup, callers, inFlight, errors, delivered, recorded, logged>>

CloseConn(ok) ==
    /\ closer.at = "conn"
    /\ conn' = IF ok THEN "closed" ELSE conn
    /\ closer' = [closer EXCEPT !.at = "returned", !.err = ~ok]
    /\ UNCHANGED <<kind, codec, setup, channel, callers, inFlight, errors, delivered, recorded,
                   logged>>

\* AsyncClose, and the drain of Errors that competes with logErrors.
CloseKafka ==
    /\ kind = "kafka" /\ Ready /\ closer.at = "no"
    /\ conn' = "closing"
    /\ closer' = [closer EXCEPT !.at = "drain"]
    /\ UNCHANGED <<kind, codec, setup, channel, callers, inFlight, errors, delivered, recorded,
                   logged>>

Drain(c) ==
    /\ closer.at = "drain" /\ c \in errors
    /\ errors' = errors \ {c}
    /\ closer' = [closer EXCEPT !.taken = @ \cup {c}]
    /\ UNCHANGED <<kind, codec, setup, conn, channel, inFlight, callers, delivered, recorded, logged>>

Drained ==
    /\ closer.at = "drain" /\ conn = "closed" /\ errors = {}
    /\ closer' = [closer EXCEPT !.at = "returned", !.err = closer.taken # {}]
    /\ UNCHANGED <<kind, codec, setup, client, callers, delivered, recorded, logged>>

\* Mutant: Flush returns the spans and keeps them.
AfterFlushKept == recorded

\* r.spans after Flush.
AfterFlush == <<>>

Flush ==
    /\ recorded # <<>>
    /\ delivered' = delivered \o
        [k \in DOMAIN recorded |-> [call |-> recorded[k], message |-> span[recorded[k]]]]
    /\ recorded' = AfterFlush
    /\ UNCHANGED <<kind, codec, setup, client, callers, logged, closer>>

\* Close of the recorder flushes, keeps nothing and returns nil; that of the log
\* reporter does nothing.
CloseRecorder ==
    /\ kind \in {"recorder", "log"} /\ closer.at = "no"
    /\ closer' = [closer EXCEPT !.at = "returned",
                                !.dropped = {recorded[k] : k \in DOMAIN recorded}]
    /\ recorded' = AfterFlush
    /\ UNCHANGED <<kind, codec, setup, client, callers, delivered, logged>>

-----------------------------------------------------------------------------

\* What the goroutine of call c can do once it has called Send.
Proceed(c) == PublishFails(c) \/ Publish(c) \/ Take(c) \/ SendPanics(c)

\* What Close can do once it is called.
CloseGoesOn ==
    \/ \E ok \in BOOLEAN : CloseConn(ok)
    \/ Drained
    \/ \E c \in Calls : Drain(c)

Next ==
    \/ SetUp \/ SetUpFails
    \/ \E c \in Calls : SendAMQP(c) \/ SendKafka(c) \/ Record(c) \/ PrintSpan(c)
    \/ \E c \in Calls : Proceed(c)
    \/ \E c \in Calls : LogError(c) \/ LogProducerError(c)
    \/ \E c \in Calls : Produce(c) \/ ProduceFails(c)
    \/ ChannelLost \/ ShutDown
    \/ \E ok \in BOOLEAN : CloseAMQP(ok)
    \/ CloseKafka \/ CloseRecorder \/ Flush
    \/ CloseGoesOn

Spec ==
    /\ Init /\ [][Next]_vars
    /\ WF_vars(\E c \in Calls : LogError(c))
    /\ WF_vars(\E c \in Calls : LogProducerError(c))
    /\ WF_vars(CloseGoesOn)

-----------------------------------------------------------------------------
(* Properties.                                                               *)

\* Types, and who is where: a channel lives within its connection, and the
\* producer is closed when it has settled everything.
TypeOK ==
    /\ kind \in Kinds /\ codec \in {"json", "proto"}
    /\ setup \in -1..Steps(kind)
    /\ conn \in {"none", "open", "closing", "closed"}
    /\ channel \in {"none", "open", "closed"}
    /\ channel = "open" => conn = "open"
    /\ pc \in [Calls -> {"idle", "publish", "error", "input", "returned", "panicked"}]
    /\ \A c \in Calls : span[c] \in SpansOf[c]
    /\ inFlight \subseteq Calls /\ errors \subseteq Calls
    /\ conn = "closed" => inFlight = {}
    /\ \A k \in DOMAIN delivered : delivered[k].call \in Calls
    /\ \A k \in DOMAIN recorded : recorded[k] \in Calls
    /\ logged \subseteq Calls
    /\ closer.at \in {"no", "conn", "drain", "returned"}
    /\ closer.err \in BOOLEAN
    /\ closer.taken \subseteq Calls /\ closer.dropped \subseteq Calls

\* Where a call of Send has left its span, or the error of it.
Places(c) ==
    ({"delivered"} \X {k \in DOMAIN delivered : delivered[k].call = c})
    \cup ({"recorded"} \X {k \in DOMAIN recorded : recorded[k] = c})
    \cup ({"in flight"} \X ({c} \cap inFlight)) \cup ({"errors"} \X ({c} \cap errors))
    \cup ({"logged"} \X ({c} \cap logged)) \cup ({"taken"} \X ({c} \cap closer.taken))

\* The log reporter says nothing of a span it cannot encode.
Swallowed(c) == kind = "log" /\ ~Message(c).ok

\* The two ways a span may vanish without a word.
Vanished(c) == Swallowed(c) \/ c \in closer.dropped

\* Whatever fails and whenever Close comes, a call of Send that has returned has its
\* span delivered, or an error of it logged or in what Close returns, or one of these
\* is still to come, and never two of them.  There are two exceptions: a span that
\* the log reporter cannot encode, and the spans that the recorder, and it alone, has
\* when it is closed, which Close throws away without an error.  When Close returns
\* nothing of the producer is still to come, and errors that only Close got make it
\* return one.
NothingSilent ==
    /\ \A c \in Calls :
        Cardinality(Places(c)) = IF pc[c] = "returned" /\ ~Vanished(c) THEN 1 ELSE 0
    /\ closer.dropped # {} => kind = "recorder"
    /\ closer.at = "returned" =>
        inFlight = {} /\ errors = {} /\ (closer.taken # {} => closer.err)

\* A collector reads the span that was sent, its times to the microsecond also where
\* words wrap and before the epoch; debug is told by the headers of a protobuf
\* message.  JSON reads back every span that is Readable, none that is not, and has
\* a microsecond at least for a duration that is positive.  Protobuf gives all
\* spans back as Filled, not as they were: the zeros that it reads as a parent and
\* a kind, and durations it cuts to nothing, are against its schema (SchemaKept), and
\* a time that is absent is read as the epoch.
ReadAsWritten ==
    \A k \in DOMAIN delivered :
        LET s == span[delivered[k].call]
            read == Parse(codec, delivered[k].message, s.debug)
        IN  CASE kind = "recorder" -> delivered[k].message = s
              [] kind # "recorder" /\ codec = "json" ->
                    /\ read.ok <=> Readable(s)
                    /\ read.ok => /\ SameSpan(s, read.value)
                                  /\ s.duration > 0 => read.value.duration >= Micro
              [] OTHER -> read.ok /\ SameSpan(Filled(s), read.value)

\* A collector that passes a span on passes on what it got: encoding what was read
\* gives the same message, however often.  What JSON has rounded to a span that
\* cannot be read again is excepted.
Rewritten ==
    kind # "recorder" =>
        \A k \in DOMAIN delivered :
            LET message == delivered[k].message
                read == Parse(codec, message, span[delivered[k].call].debug)
            IN  read.ok /\ (codec = "json" => Readable(read.value)) =>
                    Serialize(codec, read.value) = Written(message)

\* The producer takes and settles messages, and the AMQP client's Publish returns.
ClientsAnswer ==
    /\ WF_vars(\E c \in Calls : Proceed(c))
    /\ WF_vars(\E c \in Calls : Produce(c) \/ ProduceFails(c))
    /\ WF_vars(ShutDown)

\* Send and Close end, if the clients of the brokers answer: errors are always
\* taken off, before, during and after Close.  Send on a closed producer ends in a
\* panic.
CallsEnd ==
    ClientsAnswer =>
        /\ \A c \in Calls :
            pc[c] \in {"publish", "error", "input"} ~> pc[c] \in {"returned", "panicked"}
        /\ closer.at \in {"conn", "drain"} ~> closer.at = "returned"

\* The spans that were sent, each with the span that a collector has read of it.
Readings ==
    LET sent(k) == span[delivered[k].call]
        read(k) == Parse(codec, delivered[k].message, sent(k).debug)
    IN  {[sent |-> sent(k), read |-> read(k).value] :
            k \in {j \in DOMAIN delivered : kind # "recorder" /\ read(j).ok}}

\* What the schema says of fields that are not there and of durations: parent_id is
\* absent if the span is the root of a trace, the default value of kind is interpreted
\* as absent, and durations of less than one microsecond are rounded up.  So a
\* collector reads a root without a parent, the span of a local operation without a
\* kind, and a duration wherever there was one.
SchemaKept ==
    \A of \in Readings :
        /\ of.sent.parent = Nil => of.read.parent = Nil
        /\ of.sent.kind = "" => of.read.kind = ""
        /\ of.sent.duration > 0 => of.read.duration > 0
=============================================================================
