------------------------- MODULE HTTPReporterProofs -------------------------
(* Theorems about HTTPReporter, for any spans, sizes and schedules. *)
EXTENDS HTTPReporter, SequenceTheorems, TLAPS

-----------------------------------------------------------------------------
(* Lemmas on the slices of the reporter.                                     *)

\* seq[n:] of a slice in bounds: its length and its elements.
LEMMA FromProperties ==
    ASSUME NEW S, NEW seq \in Seq(S), NEW n \in 0..Len(seq)
    PROVE  /\ From(seq, n) \in Seq(S)
           /\ Len(From(seq, n)) = Len(seq) - n
           /\ \A i \in 1..(Len(seq) - n) : From(seq, n)[i] = seq[n + i]
<1>. n \in Nat /\ n <= Len(seq) /\ Len(seq) \in Nat
    OBVIOUS
<1>1. CASE n < Len(seq)
    BY <1>1, SubSeqProperties DEF From
<1>2. CASE n = Len(seq)
    BY <1>2, SubSeqProperties DEF From
<1>. QED  BY <1>1, <1>2

LEMMA FromShrinks ==
    ASSUME NEW S, NEW seq \in Seq(S), NEW n \in Nat
    PROVE  From(seq, n) \in Seq(S) /\ Len(From(seq, n)) <= Len(seq)
<1>1. CASE n <= Len(seq)
    BY <1>1, FromProperties
<1>2. CASE n > Len(seq)
    BY <1>2, SubSeqEmpty DEF From
<1>. QED  BY <1>1, <1>2

\* append keeps the newest spans, at most maxBacklog of them and, when it sheds,
\* exactly that many.
LEMMA ShedProperties ==
    ASSUME NEW S, NEW seq \in Seq(S)
    PROVE  /\ DisposeCount(Len(seq)) \in 0..Len(seq)
           /\ Shed(seq) \in Seq(S)
           /\ Len(Shed(seq)) = Len(seq) - DisposeCount(Len(seq))
           /\ Len(Shed(seq)) <= MaxBacklog
           /\ DisposeCount(Len(seq)) > 0 => Len(Shed(seq)) = MaxBacklog
           /\ \A i \in 1..Len(Shed(seq)) :
                Shed(seq)[i] = seq[DisposeCount(Len(seq)) + i]
<1>. DEFINE d == DisposeCount(Len(seq))
<1>1. Len(seq) \in Nat
    OBVIOUS
<1>2. /\ d \in 0..Len(seq)
      /\ Len(seq) - d <= MaxBacklog
      /\ d > 0 => Len(seq) - d = MaxBacklog
    BY <1>1, MaxBacklogAssumption DEF DisposeCount
<1>3. Shed(seq) = From(seq, d)
    BY DEF Shed
<1>. HIDE DEF d
<1>4. /\ Shed(seq) \in Seq(S)
      /\ Len(Shed(seq)) = Len(seq) - d
      /\ \A i \in 1..(Len(seq) - d) : Shed(seq)[i] = seq[d + i]
    BY <1>2, <1>3, FromProperties
<1>5. /\ d \in 0..Len(seq)
      /\ Shed(seq) \in Seq(S)
      /\ Len(Shed(seq)) = Len(seq) - d
      /\ Len(Shed(seq)) <= MaxBacklog
      /\ d > 0 => Len(Shed(seq)) = MaxBacklog
      /\ \A i \in 1..Len(Shed(seq)) : Shed(seq)[i] = seq[d + i]
    BY <1>2, <1>4
<1>. QED  BY <1>5 DEF d

-----------------------------------------------------------------------------
(* Types and the bound of the backlog.                                       *)

\* Return leaves its variables in their types.
LEMMA ReturnType ==
    ASSUME TypeOK, NEW err \in {"nil", "error"}, Return(err)
    PROVE  /\ senderPc' \in {"range", "done"}
           /\ final' \in BOOLEAN
           /\ sendBatch' \in Seq(Spans)
           /\ sendErr' \in {"nil", "error"}
           /\ shutdown' \in {"none", "nil", "error"}
BY DEF TypeOK, Return

LEMMA TypeInit == Init => TypeOK
<1>1. <<>> \in Seq(Spans) /\ Len(<<>>) = 0
    OBVIOUS
<1>2. Init => batch \in Seq(Spans) /\ Len(batch) <= MaxBacklog
    BY <1>1, MaxBacklogAssumption DEF Init
<1>3. Init => sendBatch \in Seq(Spans) /\ accepted \in Seq(Spans)
    BY <1>1 DEF Init
<1>4. Init => caller \in [Spans -> {"idle", "sending", "returned"}]
    BY DEF Init
<1>. QED  BY <1>2, <1>3, <1>4 DEF Init, TypeOK

LEMMA TypeStep == TypeOK /\ [Next]_vars => TypeOK'
<1>. SUFFICES ASSUME TypeOK, [Next]_vars PROVE TypeOK'
    OBVIOUS
<1>. USE DEF TypeOK, loopVars, sendC, senderVars, closeVars, history
<1>1. ASSUME NEW s \in Spans, Send(s) PROVE TypeOK'
    BY <1>1 DEF Send
<1>2. CASE Close
    BY <1>2 DEF Close
<1>3. CASE CloseReturns
    BY <1>3 DEF CloseReturns
<1>4. ASSUME NEW s \in Spans, Receive(s) PROVE TypeOK'
    BY <1>4 DEF Receive
<1>5. CASE AppendSpan
    <2>1. PICK s \in loopSpan :
            LET grown == Append(batch, s)
            IN  /\ batch' = Shed(grown)
                /\ accepted' = Append(accepted, s)
                /\ disposed' = disposed \cup
                                {grown[i] : i \in 1..DisposeCount(Len(grown))}
                /\ loopPc' = IF Len(Shed(grown)) >= BatchSize
                             THEN "enqueue" ELSE "select"
        BY <1>5 DEF AppendSpan
    <2>. DEFINE grown == Append(batch, s)
    <2>2. s \in Spans /\ grown \in Seq(Spans)
        OBVIOUS
    <2>3. batch' \in Seq(Spans) /\ Len(batch') <= MaxBacklog
        BY <2>1, <2>2, ShedProperties
    <2>4. disposed' \in SUBSET Spans
        <3>1. DisposeCount(Len(grown)) \in 0..Len(grown)
            BY <2>2, ShedProperties
        <3>2. \A i \in 1..DisposeCount(Len(grown)) : grown[i] \in Spans
            <4>. HIDE DEF grown
            <4>. QED  BY <2>2, <3>1, ElementOfSeq
        <3>. QED  BY <2>1, <3>2
    <2>5. accepted' \in Seq(Spans) /\ loopPc' \in {"enqueue", "select"}
        BY <2>1, <2>2
    <2>6. /\ loopSpan' = {}
          /\ UNCHANGED <<caller, sendC, senderVars, closeVars, answered>>
        BY <1>5 DEF AppendSpan
    <2>. QED  BY <2>3, <2>4, <2>5, <2>6
<1>6. CASE Tick
    BY <1>6 DEF Tick
<1>7. CASE EnqueueSend
    BY <1>7 DEF EnqueueSend, Notify
<1>8. CASE Quit
    BY <1>8 DEF Quit
<1>9. CASE ReceiveToken
    BY <1>9 DEF ReceiveToken
<1>10. CASE ChannelClosed
    BY <1>10 DEF ChannelClosed
<1>11. CASE Snapshot
    BY <1>11, ReturnType DEF Snapshot
<1>12. CASE Build
    BY <1>12, ReturnType DEF Build
<1>13. CASE Answered
    <2>1. Range(sendBatch) \subseteq Spans
        BY ElementOfSeq DEF Range
    <2>. QED  BY <1>13, <2>1 DEF Answered
<1>14. CASE DoFails
    BY <1>14, ReturnType DEF DoFails
<1>15. CASE Remove
    <2>1. Unsent(Len(sendBatch)) \in Seq(Spans)
          /\ Len(Unsent(Len(sendBatch))) <= Len(batch)
        BY FromShrinks DEF Unsent
    <2>. QED  BY <1>15, <2>1, ReturnType, MaxBacklogAssumption DEF Remove
<1>16. CASE UNCHANGED vars
    BY <1>16 DEF vars
<1>. QED
    BY <1>1, <1>2, <1>3, <1>4, <1>5, <1>6, <1>7, <1>8, <1>9, <1>10, <1>11,
       <1>12, <1>13, <1>14, <1>15, <1>16 DEF Next, Loop, SendLoop

-----------------------------------------------------------------------------
(* Control: how the program counters, the channels and Close fit together.   *)

Control ==
    /\ loopPc = "append" => \E s \in Spans : loopSpan = {s}
    /\ loopPc # "append" => loopSpan = {}
    /\ sendClosed <=> loopPc = "done"
    /\ sendClosed => closer # "open"
    /\ final => sendClosed /\ ~wake
    /\ senderPc = "range" => ~final
    /\ senderPc = "done" => final
    /\ InFlight <=> sendBatch # <<>>
    /\ shutdown # "none" \/ closeErr # "none" => senderPc = "done"

LEMMA ControlInit == Init => Control
BY DEF Init, Control, InFlight

\* How sendBatch ends, wherever it does.
LEMMA ReturnControl ==
    ASSUME Control, NEW err, Return(err)
    PROVE  /\ ~InFlight' /\ sendBatch' = <<>> /\ final' = final
           /\ senderPc' = "range" => ~final
           /\ senderPc' = "done" => final
           /\ shutdown' # "none" => senderPc' = "done" \/ shutdown # "none"
BY DEF Control, Return, InFlight

LEMMA ControlStep == TypeOK /\ Control /\ [Next]_vars => Control'
<1>. SUFFICES ASSUME TypeOK, Control, [Next]_vars PROVE Control'
    OBVIOUS
<1>. USE DEF Control, InFlight, loopVars, sendC, senderVars, closeVars, history
<1>1. ASSUME NEW s \in Spans, Send(s) PROVE Control'
    BY <1>1 DEF Send
<1>2. CASE Close
    BY <1>2 DEF Close
<1>3. CASE CloseReturns
    BY <1>3 DEF CloseReturns
<1>4. ASSUME NEW s \in Spans, Receive(s) PROVE Control'
    BY <1>4 DEF Receive
<1>5. CASE AppendSpan
    <2>1. /\ loopPc = "append" /\ loopPc' \in {"enqueue", "select"}
          /\ loopSpan' = {}
          /\ UNCHANGED <<caller, sendC, senderVars, closeVars, answered>>
        BY <1>5 DEF AppendSpan
    <2>. QED  BY <2>1
<1>6. CASE Tick
    BY <1>6 DEF Tick
<1>7. CASE EnqueueSend
    BY <1>7 DEF EnqueueSend, Notify
<1>8. CASE Quit
    BY <1>8 DEF Quit
<1>9. CASE ReceiveToken
    BY <1>9 DEF ReceiveToken
<1>10. CASE ChannelClosed
    BY <1>10 DEF ChannelClosed
<1>11. CASE Snapshot
    BY <1>11, ReturnControl DEF Snapshot
<1>12. CASE Build
    BY <1>12, ReturnControl DEF Build
<1>13. CASE Answered
    BY <1>13 DEF Answered
<1>14. CASE DoFails
    BY <1>14, ReturnControl DEF DoFails
<1>15. CASE Remove
    BY <1>15, ReturnControl DEF Remove
<1>16. CASE UNCHANGED vars
    BY <1>16 DEF vars
<1>. QED
    BY <1>1, <1>2, <1>3, <1>4, <1>5, <1>6, <1>7, <1>8, <1>9, <1>10, <1>11,
       <1>12, <1>13, <1>14, <1>15, <1>16 DEF Next, Loop, SendLoop

-----------------------------------------------------------------------------
(* Retention: the batch and what is being posted are windows of the sequence *)
(* of accepted spans, and the answered spans lie before the batch.           *)

\* How many accepted spans are no longer in the batch.
Start == Len(accepted) - Len(batch)

\* A span is appended once: callers that wait, and the span loop is about to
\* append, are not among the accepted ones.
Fresh ==
    /\ \A s \in Spans : caller[s] # "returned" => s \notin Range(accepted)
    /\ \A s \in loopSpan : caller[s] = "returned" /\ s \notin Range(accepted)
    /\ \A i, j \in 1..Len(accepted) : accepted[i] = accepted[j] => i = j
    /\ answered \subseteq Range(accepted)

BatchWindow ==
    /\ Len(batch) <= Len(accepted)
    /\ \A i \in 1..Len(batch) : batch[i] = accepted[Start + i]

\* What is posted are the spans accepted after the first k.  Shedding moves the
\* batch past some of them, never back.
PostWindow(k) ==
    /\ disposed = {} => k = Start
    /\ \A i \in 1..Len(sendBatch) : sendBatch[i] = accepted[k + i]
    /\ \A i \in (k + 1)..Len(accepted) :
            accepted[i] \in answered => senderPc = "remove" /\ i <= k + Len(sendBatch)
    /\ senderPc = "remove" => Range(sendBatch) \subseteq answered

Retention ==
    /\ Fresh
    /\ BatchWindow
    /\ SliceInBounds
    /\ ~InFlight => \A i \in (Start + 1)..Len(accepted) : accepted[i] \notin answered
    /\ InFlight => \E k \in 0..Start : PostWindow(k)
    /\ disposed = {} => \A i \in 1..Start : accepted[i] \in answered

LEMMA RetentionInit == Init => Retention
<1>1. Len(<<>>) = 0 /\ Range(<<>>) = {}
    BY DEF Range
<1>. QED
    BY <1>1 DEF Init, Retention, Fresh, BatchWindow, SliceInBounds, InFlight, Start

\* What a span appended to accepted changes there.
LEMMA AcceptedGrows ==
    ASSUME TypeOK, NEW s \in Spans, accepted' = Append(accepted, s)
    PROVE  /\ Len(accepted') = Len(accepted) + 1
           /\ \A i \in 1..Len(accepted) : accepted'[i] = accepted[i]
           /\ accepted'[Len(accepted) + 1] = s
           /\ Range(accepted') = Range(accepted) \cup {s}
<1>1. accepted \in Seq(Spans) /\ Len(accepted) \in Nat
    BY DEF TypeOK
<1>2. /\ Len(accepted') = Len(accepted) + 1
      /\ \A i \in 1..Len(accepted) : accepted'[i] = accepted[i]
      /\ accepted'[Len(accepted) + 1] = s
      /\ DOMAIN accepted' = 1..(Len(accepted) + 1)
    BY <1>1
<1>3. Range(accepted') = Range(accepted) \cup {s}
    BY <1>1, <1>2 DEF Range
<1>. QED  BY <1>2, <1>3

\* append keeps Retention: the new span is at the end of both windows, and the
\* batch does not get shorter unless it was longer than maxBacklog, which it
\* never is.
LEMMA RetentionAppend ==
    ASSUME TypeOK, Control, Retention, AppendSpan
    PROVE  Retention'
<1>1. PICK s \in loopSpan :
        LET grown == Append(batch, s)
        IN  /\ batch' = Shed(grown)
            /\ accepted' = Append(accepted, s)
            /\ disposed' = disposed \cup
                            {grown[i] : i \in 1..DisposeCount(Len(grown))}
    BY DEF AppendSpan
<1>2. UNCHANGED <<caller, sendC, senderVars, closeVars, answered>> /\ loopSpan' = {}
    BY DEF AppendSpan
<1>. DEFINE grown == Append(batch, s)
            d == DisposeCount(Len(grown))
            L == Len(accepted)
<1>3. /\ s \in Spans /\ caller[s] = "returned" /\ s \notin Range(accepted)
      /\ s \notin answered
    BY <1>1 DEF TypeOK, Retention, Fresh
<1>4. /\ grown \in Seq(Spans) /\ Len(grown) = Len(batch) + 1
      /\ \A i \in 1..Len(batch) : grown[i] = batch[i]
      /\ grown[Len(batch) + 1] = s
      /\ Len(batch) \in Nat /\ L \in Nat /\ Len(batch) <= MaxBacklog
    BY <1>3 DEF TypeOK
<1>5. /\ Len(accepted') = L + 1
      /\ \A i \in 1..L : accepted'[i] = accepted[i]
      /\ accepted'[L + 1] = s
      /\ Range(accepted') = Range(accepted) \cup {s}
    BY <1>1, <1>3, AcceptedGrows
<1>shed. /\ batch' = Shed(grown)
      /\ disposed' = disposed \cup {grown[i] : i \in 1..d}
    BY <1>1
<1>. HIDE DEF grown
<1>6. /\ d \in 0..Len(grown)
      /\ Len(batch') = Len(batch) + 1 - d
      /\ d > 0 => Len(batch') = MaxBacklog
      /\ \A i \in 1..Len(batch') : batch'[i] = grown[d + i]
    <2>1. /\ d \in 0..Len(grown)
          /\ Len(Shed(grown)) = Len(grown) - d
          /\ d > 0 => Len(Shed(grown)) = MaxBacklog
          /\ \A i \in 1..Len(Shed(grown)) : Shed(grown)[i] = grown[d + i]
        BY <1>4, ShedProperties
    <2>. HIDE DEF d
    <2>. QED  BY <1>shed, <1>4, <2>1
<1>7. d > 0 => disposed' # {}
    <2>. HIDE DEF d
    <2>1. d > 0 => 1 \in 1..d
        BY <1>4, <1>6
    <2>. QED  BY <1>shed, <2>1
<1>. HIDE DEF d
<1>8. d = 0 => disposed' = disposed
    BY <1>shed
<1>9. Len(batch') >= Len(batch) /\ d \in Nat /\ Len(batch') \in Nat
    BY <1>4, <1>6, MaxBacklogAssumption
<1>10. BatchWindow
    BY DEF Retention
<1>11. Start' = Start + d /\ Start \in Nat /\ L = Start + Len(batch)
    BY <1>4, <1>5, <1>6, <1>9, <1>10 DEF Start, BatchWindow
<1>12. Fresh'
    <2>1. Fresh
        BY DEF Retention
    <2>2. \A i \in 1..L : accepted[i] \in Range(accepted)
        BY <1>4 DEF TypeOK, Range
    <2>3. \A i, j \in 1..(L + 1) : accepted'[i] = accepted'[j] => i = j
        BY <1>3, <1>4, <1>5, <2>1, <2>2 DEF Fresh
    <2>. QED  BY <1>2, <1>3, <1>5, <2>1, <2>3 DEF Fresh
<1>13. BatchWindow'
    <2>1. ASSUME NEW i \in 1..Len(batch')
          PROVE  batch'[i] = accepted'[Start' + i]
        <3>1. CASE d + i <= Len(batch)
            BY <1>4, <1>5, <1>6, <1>9, <1>10, <1>11, <3>1, SMTT(30) DEF BatchWindow
        <3>2. CASE d + i = Len(batch) + 1
            BY <1>4, <1>5, <1>6, <1>9, <1>11, <3>2
        <3>. QED  BY <1>4, <1>6, <1>9, <3>1, <3>2
    <2>2. Len(batch') <= Len(accepted')
        BY <1>4, <1>5, <1>6, <1>9, <1>10 DEF BatchWindow
    <2>. QED  BY <2>1, <2>2 DEF BatchWindow
<1>14. SliceInBounds'
    <2>1. sendBatch \in Seq(Spans) /\ Len(sendBatch) \in Nat
        BY DEF TypeOK
    <2>. QED  BY <1>2, <1>4, <1>9, <2>1 DEF Retention, SliceInBounds, InFlight, senderVars
<1>15. ~InFlight' => \A i \in (Start' + 1)..Len(accepted') : accepted'[i] \notin answered'
    BY <1>2, <1>3, <1>4, <1>5, <1>9, <1>11 DEF Retention, InFlight, senderVars
<1>16. ASSUME InFlight' PROVE \E k \in 0..Start' : PostWindow(k)'
    <2>1. PICK k \in 0..Start : PostWindow(k)
        BY <1>2, <1>16 DEF Retention, InFlight, senderVars
    <2>2. k \in 0..Start' /\ k \in Nat
        BY <1>9, <1>11
    <2>3. disposed' = {} => k = Start'
        BY <1>7, <1>8, <1>9, <1>11, <2>1 DEF PostWindow
    <2>4. Len(sendBatch) \in Nat /\ Len(sendBatch) <= Len(batch)
        BY <1>2, <1>16 DEF TypeOK, Retention, SliceInBounds, InFlight, senderVars
    <2>5. \A i \in 1..Len(sendBatch) : sendBatch'[i] = accepted'[k + i]
        BY <1>2, <1>4, <1>5, <1>11, <2>1, <2>2, <2>4, SMTT(30) DEF PostWindow, senderVars
    <2>6. \A i \in (k + 1)..Len(accepted') :
            accepted'[i] \in answered' => senderPc' = "remove" /\ i <= k + Len(sendBatch')
        BY <1>2, <1>3, <1>4, <1>5, <2>1, <2>2 DEF PostWindow, senderVars
    <2>7. senderPc' = "remove" => Range(sendBatch') \subseteq answered'
        BY <1>2, <2>1 DEF PostWindow, senderVars
    <2>8. PostWindow(k)'
        BY <1>2, <2>3, <2>5, <2>6, <2>7 DEF PostWindow, senderVars
    <2>. QED  BY <2>2, <2>8
<1>17. disposed' = {} => \A i \in 1..Start' : accepted'[i] \in answered'
    BY <1>2, <1>4, <1>5, <1>7, <1>8, <1>9, <1>11 DEF Retention
<1>. QED  BY <1>12, <1>13, <1>14, <1>15, <1>16, <1>17 DEF Retention

\* A step that touches neither the spans nor the phase of the post keeps
\* Retention.
LEMMA RetentionFrame ==
    ASSUME Retention, UNCHANGED <<caller, loopSpan, batch, sendBatch, history>>,
           InFlight' <=> InFlight, (senderPc' = "remove") <=> (senderPc = "remove")
    PROVE  Retention'
<1>1. UNCHANGED <<accepted, answered, disposed, Start>>
    BY DEF history, Start
<1>2. Fresh' /\ BatchWindow' /\ SliceInBounds'
    BY <1>1 DEF Retention, Fresh, BatchWindow, SliceInBounds
<1>3. ASSUME NEW k \in 0..Start, PostWindow(k) PROVE PostWindow(k)'
    BY <1>1, <1>3 DEF PostWindow
<1>. QED  BY <1>1, <1>2, <1>3 DEF Retention

\* A post that fails, or a sendBatch with nothing to post, leaves the unanswered
\* spans in the batch.
LEMMA RetentionReturn ==
    ASSUME TypeOK, Retention, NEW err, Return(err), senderPc # "remove",
           UNCHANGED <<caller, loopVars, batch, history>>
    PROVE  Retention'
<1>1. /\ UNCHANGED <<caller, loopSpan, batch, accepted, answered, disposed, Start>>
      /\ Start \in Nat /\ Len(accepted) \in Nat
    BY DEF history, loopVars, Start, TypeOK, Retention, BatchWindow
<1>2. Fresh' /\ BatchWindow'
    BY <1>1 DEF Retention, Fresh, BatchWindow
<1>3. ~InFlight'
    BY DEF Return, InFlight
<1>4. \A i \in (Start + 1)..Len(accepted) : accepted[i] \notin answered
    <2>1. CASE InFlight
        <3>1. PICK k \in 0..Start : PostWindow(k)
            BY <2>1 DEF Retention
        <3>. QED  BY <1>1, <3>1 DEF PostWindow
    <2>. QED  BY <2>1 DEF Retention
<1>. QED  BY <1>1, <1>2, <1>3, <1>4 DEF Retention, SliceInBounds

\* The post is a window that starts with the batch.
LEMMA RetentionSnapshot ==
    ASSUME TypeOK, Control, Retention, Snapshot
    PROVE  Retention'
<1>1. CASE batch = <<>>
    BY <1>1, RetentionReturn DEF Snapshot
<1>2. CASE batch # <<>>
    <2>1. /\ sendBatch' = batch /\ senderPc = "snapshot" /\ senderPc' = "build"
          /\ UNCHANGED <<caller, loopSpan, batch, accepted, answered, disposed, Start>>
          /\ Start \in Nat /\ Len(accepted) \in Nat /\ Len(batch) \in Nat
        BY <1>2 DEF Snapshot, history, loopVars, Start, TypeOK, Retention, BatchWindow
    <2>2. Fresh' /\ BatchWindow' /\ SliceInBounds'
        BY <2>1 DEF Retention, Fresh, BatchWindow, SliceInBounds
    <2>3. \A i \in (Start + 1)..Len(accepted) : accepted[i] \notin answered
        BY <2>1 DEF Retention, InFlight
    <2>4. PostWindow(Start)'
        BY <2>1, <2>3 DEF PostWindow, Retention, BatchWindow
    <2>5. Start \in 0..Start /\ Start' = Start
        BY <2>1
    <2>6. \E k \in 0..Start' : PostWindow(k)'
        BY <2>1, <2>4, <2>5
    <2>. QED  BY <2>1, <2>2, <2>6 DEF Retention, InFlight
<1>. QED  BY <1>1, <1>2

\* Exactly the posted window becomes answered.
LEMMA RetentionAnswered ==
    ASSUME TypeOK, Retention, Answered
    PROVE  Retention'
<1>1. /\ senderPc = "do" /\ senderPc' = "remove"
      /\ answered' = answered \cup Range(sendBatch)
      /\ UNCHANGED <<caller, loopSpan, batch, sendBatch, accepted, disposed, Start>>
      /\ Start \in Nat /\ Len(accepted) \in Nat /\ Len(sendBatch) \in Nat
    BY DEF Answered, loopVars, Start, TypeOK, Retention, BatchWindow
<1>2. PICK k \in 0..Start : PostWindow(k)
    BY <1>1 DEF Retention, InFlight
<1>3. Len(sendBatch) <= Len(batch)
    BY <1>1 DEF Retention, SliceInBounds, InFlight
<1>4. \A x \in Range(sendBatch) :
        \E j \in 1..Len(sendBatch) : x = accepted[k + j] /\ k + j \in 1..Len(accepted)
    BY <1>1, <1>2, <1>3 DEF TypeOK, Range, PostWindow, Start
<1>5. Fresh'
    <2>1. \A i \in 1..Len(accepted) : accepted[i] \in Range(accepted)
        BY <1>1 DEF TypeOK, Range
    <2>2. Range(sendBatch) \subseteq Range(accepted)
        BY <1>4, <2>1
    <2>. QED  BY <1>1, <2>2 DEF Retention, Fresh
<1>6. BatchWindow' /\ SliceInBounds'
    BY <1>1 DEF Retention, BatchWindow, SliceInBounds, InFlight
<1>7. PostWindow(k)'
    <2>1. ASSUME NEW i \in (k + 1)..Len(accepted), accepted[i] \in answered'
          PROVE  i <= k + Len(sendBatch)
        <3>1. accepted[i] \in Range(sendBatch)
            BY <1>1, <1>2, <2>1 DEF PostWindow
        <3>2. PICK j \in 1..Len(sendBatch) :
                accepted[i] = accepted[k + j] /\ k + j \in 1..Len(accepted)
            BY <1>4, <3>1
        <3>3. i = k + j
            BY <1>1, <3>2 DEF Retention, Fresh
        <3>. QED  BY <1>1, <3>3
    <2>. QED  BY <1>1, <1>2, <2>1 DEF PostWindow
<1>8. disposed = {} => \A i \in 1..Start : accepted[i] \in answered'
    BY <1>1 DEF Retention
<1>. QED  BY <1>1, <1>5, <1>6, <1>7, <1>8 DEF Retention, InFlight

\* The batch loses as many spans as were posted; unless spans were shed
\* meanwhile they are those that were posted.
LEMMA RetentionRemove ==
    ASSUME TypeOK, Retention, Remove
    PROVE  Retention'
<1>. DEFINE n == Len(sendBatch)
<1>1. /\ senderPc = "remove" /\ ~InFlight'
      /\ batch' = From(batch, n)
      /\ UNCHANGED <<caller, loopSpan, accepted, answered, disposed>>
      /\ Start \in Nat /\ Len(accepted) \in Nat /\ n \in Nat /\ Len(batch) \in Nat
    BY DEF Remove, Unsent, Return, InFlight, loopVars, history, Start, TypeOK,
           Retention, BatchWindow
<1>2. n <= Len(batch)
    BY <1>1 DEF Retention, SliceInBounds, InFlight
<1>3. /\ Len(batch') = Len(batch) - n
      /\ \A i \in 1..(Len(batch) - n) : batch'[i] = batch[n + i]
    <2>1. batch \in Seq(Spans) /\ n \in 0..Len(batch)
        BY <1>1, <1>2 DEF TypeOK
    <2>. HIDE DEF n
    <2>. QED  BY <1>1, <2>1, FromProperties
<1>4. Start' = Start + n
    BY <1>1, <1>3 DEF Start
<1>5. PICK k \in 0..Start : PostWindow(k)
    BY <1>1 DEF Retention, InFlight
<1>6. Fresh' /\ SliceInBounds'
    BY <1>1 DEF Retention, Fresh, SliceInBounds
<1>7. BatchWindow'
    <2>1. Len(batch') <= Len(accepted')
        BY <1>1, <1>3 DEF Retention, BatchWindow
    <2>2. ASSUME NEW i \in 1..Len(batch') PROVE batch'[i] = accepted'[Start' + i]
        BY <1>1, <1>2, <1>3, <1>4 DEF Retention, BatchWindow
    <2>. QED  BY <2>1, <2>2 DEF BatchWindow
<1>8. \A i \in (Start' + 1)..Len(accepted') : accepted'[i] \notin answered'
    BY <1>1, <1>4, <1>5 DEF PostWindow
<1>9. ASSUME disposed' = {}, NEW i \in 1..Start' PROVE accepted'[i] \in answered'
    <2>1. k = Start
        BY <1>1, <1>5, <1>9 DEF PostWindow
    <2>2. CASE i <= Start
        BY <1>1, <1>9, <2>2 DEF Retention
    <2>3. CASE i > Start
        <3>1. i - k \in 1..n /\ k + (i - k) = i
            BY <1>1, <1>4, <2>1, <2>3
        <3>2. accepted[i] = sendBatch[i - k]
            BY <1>5, <3>1 DEF PostWindow
        <3>3. sendBatch[i - k] \in Range(sendBatch)
            BY <3>1 DEF TypeOK, Range
        <3>. QED  BY <1>1, <1>5, <3>2, <3>3 DEF PostWindow
    <2>. QED  BY <1>1, <2>2, <2>3
<1>. QED  BY <1>1, <1>6, <1>7, <1>8, <1>9 DEF Retention

LEMMA RetentionStep == TypeOK /\ Control /\ Retention /\ [Next]_vars => Retention'
<1>. SUFFICES ASSUME TypeOK, Control, Retention, [Next]_vars PROVE Retention'
    OBVIOUS
<1>. USE DEF InFlight, loopVars, senderVars, sendC, closeVars
<1>1. ASSUME NEW s \in Spans, Send(s) PROVE Retention'
    <2>1. Fresh'
        BY <1>1 DEF Send, TypeOK, Retention, Fresh, history
    <2>2. UNCHANGED <<loopSpan, batch, sendBatch, senderPc, history, Start>>
        BY <1>1 DEF Send, history, Start
    <2>3. BatchWindow' /\ SliceInBounds'
        BY <2>2 DEF Retention, BatchWindow, SliceInBounds, history
    <2>4. \A k \in 0..Start : PostWindow(k) => PostWindow(k)'
        BY <2>2 DEF PostWindow, history
    <2>. QED  BY <2>1, <2>2, <2>3, <2>4 DEF Retention, history
<1>2. CASE Close
    BY <1>2, RetentionFrame DEF Close
<1>3. CASE CloseReturns
    BY <1>3, RetentionFrame DEF CloseReturns
<1>4. ASSUME NEW s \in Spans, Receive(s) PROVE Retention'
    <2>1. Fresh'
        BY <1>4 DEF Receive, TypeOK, Retention, Fresh, history
    <2>2. UNCHANGED <<batch, sendBatch, senderPc, history, Start>>
        BY <1>4 DEF Receive, history, Start
    <2>3. BatchWindow' /\ SliceInBounds'
        BY <2>2 DEF Retention, BatchWindow, SliceInBounds, history
    <2>4. \A k \in 0..Start : PostWindow(k) => PostWindow(k)'
        BY <2>2 DEF PostWindow, history
    <2>. QED  BY <2>1, <2>2, <2>3, <2>4 DEF Retention, history
<1>5. CASE AppendSpan
    BY <1>5, RetentionAppend
<1>6. CASE Tick
    BY <1>6, RetentionFrame DEF Tick
<1>7. CASE EnqueueSend
    BY <1>7, RetentionFrame DEF EnqueueSend
<1>8. CASE Quit
    BY <1>8, RetentionFrame DEF Quit
<1>9. CASE ReceiveToken
    BY <1>9, RetentionFrame DEF ReceiveToken
<1>10. CASE ChannelClosed
    BY <1>10, RetentionFrame DEF ChannelClosed
<1>11. CASE Snapshot
    BY <1>11, RetentionSnapshot
<1>12. CASE Build
    <2>1. CASE Buildable
        BY <1>12, <2>1, RetentionFrame DEF Build
    <2>2. CASE ~Buildable
        BY <1>12, <2>2, RetentionReturn DEF Build
    <2>. QED  BY <2>1, <2>2
<1>13. CASE Answered
    BY <1>13, RetentionAnswered
<1>14. CASE DoFails
    BY <1>14, RetentionReturn DEF DoFails
<1>15. CASE Remove
    BY <1>15, RetentionRemove
<1>16. CASE UNCHANGED vars
    BY <1>16, RetentionFrame DEF vars
<1>. QED
    BY <1>1, <1>2, <1>3, <1>4, <1>5, <1>6, <1>7, <1>8, <1>9, <1>10, <1>11,
       <1>12, <1>13, <1>14, <1>15, <1>16 DEF Next, Loop, SendLoop

-----------------------------------------------------------------------------
(* Wakeups: NoLostWakeup, and the spans a post in flight leaves behind.      *)

Wakeups ==
    /\ NoLostWakeup
    /\ (InFlight /\ loopPc # "enqueue" /\ Len(batch) > Len(sendBatch)
          /\ Len(batch) - Len(sendBatch) >= BatchSize) => wake \/ sendClosed

LEMMA WakeupsInit == Init => Wakeups
BY DEF Init, Wakeups, NoLostWakeup, InFlight

\* A step that leaves the batch, the posted spans and the phase of the post
\* alone, and neither takes the token nor leaves enqueueSend, loses no wakeup.
LEMMA WakeupsFrame ==
    ASSUME Wakeups, UNCHANGED <<batch, sendBatch>>, InFlight' <=> InFlight,
           senderPc' = "range" => senderPc = "range" /\ sendErr' = sendErr,
           loopPc' # "enqueue" => loopPc # "enqueue" \/ wake',
           wake => wake', sendClosed => sendClosed'
    PROVE  Wakeups'
BY DEF Wakeups, NoLostWakeup

LEMMA WakeupsStep == TypeOK /\ Retention /\ Wakeups /\ [Next]_vars => Wakeups'
<1>. SUFFICES ASSUME TypeOK, Retention, Wakeups, [Next]_vars PROVE Wakeups'
    OBVIOUS
<1>. USE DEF InFlight, loopVars, senderVars, sendC, closeVars
<1>0. Len(batch) \in Nat /\ Len(sendBatch) \in Nat
    BY DEF TypeOK
<1>1. ASSUME NEW s \in Spans, Send(s) PROVE Wakeups'
    BY <1>1, WakeupsFrame DEF Send
<1>2. CASE Close
    BY <1>2, WakeupsFrame DEF Close
<1>3. CASE CloseReturns
    BY <1>3, WakeupsFrame DEF CloseReturns
<1>4. ASSUME NEW s \in Spans, Receive(s) PROVE Wakeups'
    BY <1>4, WakeupsFrame DEF Receive
<1>5. CASE AppendSpan
    \* Below batchSize neither part asks for a token; from there on loop is
    \* about to enqueue one.
    <2>1. PICK s \in loopSpan :
            LET grown == Append(batch, s)
            IN  /\ batch' = Shed(grown)
                /\ loopPc' = IF Len(Shed(grown)) >= BatchSize
                             THEN "enqueue" ELSE "select"
        BY <1>5 DEF AppendSpan
    <2>2. loopPc' # "enqueue" => ~(Len(batch') >= BatchSize)
        BY <2>1
    <2>3. UNCHANGED <<sendC, senderVars>>
        BY <1>5 DEF AppendSpan
    <2>4. Len(batch') \in Nat
        <3>1. s \in Spans /\ Append(batch, s) \in Seq(Spans)
            BY <2>1 DEF TypeOK
        <3>2. Shed(Append(batch, s)) \in Seq(Spans)
            BY <3>1, ShedProperties
        <3>. QED  BY <2>1, <3>2
    <2>. QED  BY <1>0, <2>2, <2>3, <2>4, BatchSizeAssumption DEF Wakeups, NoLostWakeup
<1>6. CASE Tick
    BY <1>6 DEF Tick, Wakeups, NoLostWakeup
<1>7. CASE EnqueueSend
    BY <1>7, WakeupsFrame DEF EnqueueSend, Notify
<1>8. CASE Quit
    BY <1>8, WakeupsFrame DEF Quit
<1>9. CASE ReceiveToken
    BY <1>9 DEF ReceiveToken, Wakeups, NoLostWakeup
<1>10. CASE ChannelClosed
    BY <1>10 DEF ChannelClosed, Wakeups, NoLostWakeup
<1>11. CASE Snapshot
    BY <1>0, <1>11 DEF Snapshot, Return, Wakeups, NoLostWakeup
<1>12. CASE Build
    BY <1>12 DEF Build, Return, Wakeups, NoLostWakeup
<1>13. CASE Answered
    BY <1>13, WakeupsFrame DEF Answered
<1>14. CASE DoFails
    BY <1>14 DEF DoFails, Return, Wakeups, NoLostWakeup
<1>15. CASE Remove
    \* What the post leaves behind was appended during it.
    <2>1. Len(sendBatch) <= Len(batch)
        BY <1>15 DEF Remove, Retention, SliceInBounds
    <2>2. Len(batch') = Len(batch) - Len(sendBatch)
        <3>1. batch \in Seq(Spans) /\ Len(sendBatch) \in 0..Len(batch)
            BY <1>0, <2>1 DEF TypeOK
        <3>. QED  BY <1>15, <3>1, FromProperties DEF Remove, Unsent
    <2>3. batch' # <<>> => Len(batch') # 0
        <3>1. batch' \in Seq(Spans)
            BY <1>0, <1>15, FromShrinks DEF Remove, Unsent, TypeOK
        <3>. QED  BY <3>1, EmptySeq
    <2>. QED
        BY <1>0, <1>15, <2>1, <2>2, <2>3 DEF Remove, Return, Wakeups, NoLostWakeup
<1>16. CASE UNCHANGED vars
    BY <1>16, WakeupsFrame DEF vars
<1>. QED
    BY <1>1, <1>2, <1>3, <1>4, <1>5, <1>6, <1>7, <1>8, <1>9, <1>10, <1>11,
       <1>12, <1>13, <1>14, <1>15, <1>16 DEF Next, Loop, SendLoop

-----------------------------------------------------------------------------
(* Flushing: the last post takes the whole batch.                            *)

Flushing ==
    /\ \A s \in Spans : caller[s] = "returned" => s \in Range(accepted) \/ s \in loopSpan
    /\ final /\ InFlight => Len(sendBatch) = Len(batch)
    /\ shutdown = "nil" \/ closeErr = "nil" => batch = <<>>

LEMMA FlushingInit == Init => Flushing
BY DEF Init, Flushing

\* A step of one goroutine that leaves spans, batch and posts alone.
LEMMA FlushingFrame ==
    ASSUME Flushing, UNCHANGED <<caller, loopSpan, batch, accepted, sendBatch>>,
           final' /\ InFlight' => final /\ InFlight,
           shutdown' = "nil" \/ closeErr' = "nil" => shutdown = "nil" \/ closeErr = "nil"
    PROVE  Flushing'
BY DEF Flushing

LEMMA FlushingStep == TypeOK /\ Control /\ Flushing /\ [Next]_vars => Flushing'
<1>. SUFFICES ASSUME TypeOK, Control, Flushing, [Next]_vars PROVE Flushing'
    OBVIOUS
<1>. USE DEF InFlight, loopVars, senderVars, sendC, closeVars, history
<1>1. ASSUME NEW s \in Spans, Send(s) PROVE Flushing'
    BY <1>1 DEF Send, Flushing, TypeOK
<1>2. CASE Close
    BY <1>2, FlushingFrame DEF Close
<1>3. CASE CloseReturns
    BY <1>3, FlushingFrame DEF CloseReturns
<1>4. ASSUME NEW s \in Spans, Receive(s) PROVE Flushing'
    BY <1>4 DEF Receive, Flushing, TypeOK, Control
<1>5. CASE AppendSpan
    \* loop still runs: the last post has not begun.
    <2>1. PICK s \in loopSpan : accepted' = Append(accepted, s)
        BY <1>5 DEF AppendSpan
    <2>2. loopSpan = {s} /\ loopSpan' = {} /\ s \in Spans
        BY <1>5, <2>1 DEF AppendSpan, Control, TypeOK
    <2>3. Range(accepted') = Range(accepted) \cup {s}
        BY <2>1, <2>2, AcceptedGrows
    <2>4. ~final /\ shutdown = "none" /\ closeErr = "none"
        BY <1>5 DEF AppendSpan, Control
    <2>5. UNCHANGED <<caller, sendC, senderVars, closeVars>>
        BY <1>5 DEF AppendSpan
    <2>. QED  BY <2>2, <2>3, <2>4, <2>5 DEF Flushing
<1>6. CASE Tick
    BY <1>6, FlushingFrame DEF Tick
<1>7. CASE EnqueueSend
    BY <1>7, FlushingFrame DEF EnqueueSend
<1>8. CASE Quit
    BY <1>8, FlushingFrame DEF Quit
<1>9. CASE ReceiveToken
    BY <1>9, FlushingFrame DEF ReceiveToken
<1>10. CASE ChannelClosed
    BY <1>10, FlushingFrame DEF ChannelClosed
<1>11. CASE Snapshot
    BY <1>11 DEF Snapshot, Return, Flushing
<1>12. CASE Build
    BY <1>12 DEF Build, Return, Flushing
<1>13. CASE Answered
    BY <1>13, FlushingFrame DEF Answered
<1>14. CASE DoFails
    BY <1>14 DEF DoFails, Return, Flushing
<1>15. CASE Remove
    <2>1. final => batch' = <<>>
        <3>1. final => Len(sendBatch) = Len(batch)
            BY <1>15 DEF Remove, Flushing
        <3>2. From(batch, Len(batch)) = <<>>
            BY SubSeqEmpty DEF From, TypeOK
        <3>. QED  BY <1>15, <3>1, <3>2 DEF Remove, Unsent
    <2>2. shutdown # "nil" /\ closeErr # "nil"
        BY <1>15 DEF Remove, Control
    <2>. QED  BY <1>15, <2>1, <2>2 DEF Remove, Return, Flushing
<1>16. CASE UNCHANGED vars
    BY <1>16, FlushingFrame DEF vars
<1>. QED
    BY <1>1, <1>2, <1>3, <1>4, <1>5, <1>6, <1>7, <1>8, <1>9, <1>10, <1>11,
       <1>12, <1>13, <1>14, <1>15, <1>16 DEF Next, Loop, SendLoop

-----------------------------------------------------------------------------
(* The theorems.                                                             *)

IInv == TypeOK /\ Control /\ Retention /\ Wakeups /\ Flushing

\* Types are kept and the batch never exceeds maxBacklog, whatever callers,
\* loop and sendLoop do (append's shedding).
THEOREM TypeCorrect == Spec => []TypeOK
<1>. QED  BY TypeInit, TypeStep, PTL DEF Spec

\* The inductive invariant.
THEOREM Invariance == Spec => []IInv
<1>1. Init => IInv
    BY TypeInit, ControlInit, RetentionInit, WakeupsInit, FlushingInit DEF IInv
<1>2. IInv /\ [Next]_vars => IInv'
    BY TypeStep, ControlStep, RetentionStep, WakeupsStep, FlushingStep DEF IInv
<1>. QED  BY <1>1, <1>2, PTL DEF Spec

\* The slice expression that removes the posted spans is in bounds, however
\* much loop appended and shed during the post.
THEOREM SliceSafety == Spec => []SliceInBounds
<1>1. IInv => SliceInBounds
    BY DEF IInv, Retention
<1>. QED  BY <1>1, Invariance, PTL

\* The batch is the newest accepted spans in order.
THEOREM RetentionOrder == Spec => []RetainedIsNewest
<1>1. IInv => RetainedIsNewest
    <2>. SUFFICES ASSUME IInv PROVE RetainedIsNewest
        OBVIOUS
    <2>1. /\ batch \in Seq(Spans) /\ accepted \in Seq(Spans)
          /\ Len(batch) \in Nat /\ Len(accepted) \in Nat
          /\ BatchWindow
        BY DEF IInv, TypeOK, Retention
    <2>. DEFINE newest == SubSeq(accepted, Start + 1, Len(accepted))
    <2>2. /\ Start \in Nat /\ Len(accepted) - Start = Len(batch)
        BY <2>1 DEF BatchWindow, Start
    <2>3. newest = From(accepted, Start)
        BY DEF From
    <2>4. Start \in 0..Len(accepted)
        BY <2>1, <2>2
    <2>5. /\ newest \in Seq(Spans) /\ Len(newest) = Len(batch)
          /\ \A i \in 1..Len(batch) : newest[i] = accepted[Start + i]
        BY <2>1, <2>2, <2>3, <2>4, FromProperties
    <2>. HIDE DEF newest
    <2>6. batch = newest
        BY <2>1, <2>5, SeqEqual DEF BatchWindow
    <2>. QED  BY <2>1, <2>6 DEF newest, Start, BatchWindow, RetainedIsNewest
<1>. QED  BY <1>1, Invariance, PTL

LEMMA ResendFree == IInv => NeverResent
<1>. SUFFICES ASSUME IInv, senderPc \in {"build", "do"},
                     NEW x \in answered, x \in Range(sendBatch)
              PROVE  FALSE
    BY DEF NeverResent
<1>1. PICK k \in 0..Start : PostWindow(k)
    BY DEF IInv, Retention, InFlight
<1>2. PICK j \in 1..Len(sendBatch) : x = sendBatch[j]
    BY DEF IInv, TypeOK, Range
<1>3. /\ Len(sendBatch) <= Len(batch) /\ Len(batch) <= Len(accepted)
      /\ Len(sendBatch) \in Nat /\ Len(batch) \in Nat /\ Len(accepted) \in Nat
    BY DEF IInv, TypeOK, Retention, SliceInBounds, BatchWindow, InFlight
<1>4. k + j \in (k + 1)..Len(accepted)
    BY <1>3 DEF Start
<1>. QED  BY <1>1, <1>2, <1>4 DEF PostWindow

\* A span the collector has answered for is not posted again.
THEOREM AtMostOnceAnswered == Spec => []NeverResent
<1>. QED  BY ResendFree, Invariance, PTL

\* Without shedding no accepted span leaves the batch unanswered.
THEOREM NothingLost == Spec => []UnansweredRetained
<1>1. IInv => UnansweredRetained
    <2>. SUFFICES ASSUME IInv, disposed = {}, NEW x \in Range(accepted)
                  PROVE  x \in Range(batch) \cup answered
        BY DEF UnansweredRetained
    <2>1. PICK i \in 1..Len(accepted) : x = accepted[i]
        BY DEF IInv, TypeOK, Range
    <2>2. Len(accepted) \in Nat /\ Len(batch) \in Nat /\ BatchWindow
        BY DEF IInv, TypeOK, Retention
    <2>3. CASE i <= Start
        BY <2>1, <2>2, <2>3 DEF IInv, Retention, Start, BatchWindow
    <2>4. CASE i > Start
        <3>1. i - Start \in 1..Len(batch) /\ Start + (i - Start) = i
            BY <2>2, <2>4 DEF Start, BatchWindow
        <3>2. batch[i - Start] = x
            BY <2>1, <2>2, <3>1 DEF BatchWindow
        <3>. QED  BY <3>1, <3>2 DEF IInv, TypeOK, Range
    <2>. QED  BY <2>2, <2>3, <2>4 DEF Start, BatchWindow
<1>. QED  BY <1>1, Invariance, PTL

\* The dropped tokens of enqueueSend never leave a full batch unattended.
THEOREM WakeupsKept == Spec => []NoLostWakeup
<1>1. IInv => NoLostWakeup
    BY DEF IInv, Wakeups
<1>. QED  BY <1>1, Invariance, PTL

\* A Close that reports no error has flushed the batch.
THEOREM CloseIsFlush == Spec => []CloseFlushes
<1>1. IInv => CloseFlushes
    <2>. SUFFICES ASSUME IInv, closeErr = "nil" PROVE CloseFlushes
        BY DEF CloseFlushes
    <2>1. batch = <<>> /\ loopSpan = {}
        BY DEF IInv, Flushing, Control
    <2>2. Start = Len(accepted)
        BY <2>1 DEF IInv, TypeOK, Start
    <2>3. ASSUME disposed = {}, NEW s \in Spans, caller[s] = "returned"
          PROVE  s \in answered
        <3>1. s \in Range(accepted)
            BY <2>1, <2>3 DEF IInv, Flushing
        <3>2. PICK i \in 1..Len(accepted) : s = accepted[i]
            BY <3>1 DEF IInv, TypeOK, Range
        <3>. QED  BY <2>2, <2>3, <3>2 DEF IInv, Retention
    <2>. QED  BY <2>1, <2>3 DEF CloseFlushes
<1>. QED  BY <1>1, Invariance, PTL

-----------------------------------------------------------------------------
(* Refinement: HTTPReporter implements SpanQueue.                            *)

\* The spans the queue has delivered.
Delivered == IF senderPc = "remove" THEN answered \ Range(sendBatch) ELSE answered

LEMMA QueueStutter ==
    ASSUME UNCHANGED <<batch, accepted, disposed>>, Delivered' = Delivered,
           (loopPc' = "done") <=> (loopPc = "done")
    PROVE  UNCHANGED Queue!queueVars
BY DEF Queue!queueVars, Delivered

\* append is Put: with a backlog that is full, one span is shed.
LEMMA AppendIsPut ==
    ASSUME IInv, AppendSpan
    PROVE  \E s \in Spans : Queue!Put(s)
<1>1. PICK s \in loopSpan :
        LET grown == Append(batch, s)
        IN  /\ batch' = Shed(grown)
            /\ accepted' = Append(accepted, s)
            /\ disposed' = disposed \cup
                            {grown[i] : i \in 1..DisposeCount(Len(grown))}
    BY DEF AppendSpan
<1>. DEFINE grown == Append(batch, s)
            d == DisposeCount(Len(grown))
<1>2. s \in Spans /\ s \notin Range(accepted)
    BY <1>1 DEF IInv, TypeOK, Retention, Fresh
<1>3. /\ loopPc = "append" /\ loopPc' # "done"
      /\ UNCHANGED <<answered, senderPc, sendBatch>>
    BY DEF AppendSpan, senderVars
<1>4. Range(accepted') = Range(accepted) \cup {s}
    BY <1>1, <1>2, AcceptedGrows DEF IInv
<1>5. /\ grown \in Seq(Spans) /\ Len(grown) = Len(batch) + 1
      /\ Len(batch) \in Nat /\ Len(batch) <= MaxBacklog /\ MaxBacklog \in Nat
    BY <1>2, MaxBacklogAssumption DEF IInv, TypeOK
<1>6. CASE Len(batch) < MaxBacklog
    <2>1. d = 0
        BY <1>5, <1>6 DEF DisposeCount
    <2>2. batch' = grown
        <3>1. Shed(grown) = SubSeq(grown, 1, Len(grown))
            BY <2>1 DEF Shed, From
        <3>2. SubSeq(grown, 1, Len(grown)) = grown
            <4>. HIDE DEF grown
            <4>. QED  BY <1>5, SubSeqFull
        <3>. QED  BY <1>1, <3>1, <3>2
    <2>3. disposed' = disposed
        BY <1>1, <2>1
    <2>. QED  BY <1>2, <1>3, <1>4, <1>6, <2>2, <2>3 DEF Queue!Put
<1>7. CASE Len(batch) = MaxBacklog
    <2>1. d = 1
        BY <1>5, <1>7 DEF DisposeCount
    <2>2. batch' = Tail(grown)
        <3>1. Shed(grown) = SubSeq(grown, 2, Len(grown))
            BY <2>1 DEF Shed, From
        <3>2. SubSeq(grown, 2, Len(grown)) = Tail(grown)
            <4>. HIDE DEF grown
            <4>. QED  BY <1>5, TailIsSubSeq
        <3>. QED  BY <1>1, <3>1, <3>2
    <2>3. disposed' = disposed \cup {grown[1]}
        BY <1>1, <2>1
    <2>. QED  BY <1>2, <1>3, <1>4, <1>7, <2>2, <2>3 DEF Queue!Put
<1>. QED  BY <1>5, <1>6, <1>7

\* The removal is Deliver: what was posted was put and never delivered before,
\* and it is the front of the batch unless something was shed.
LEMMA RemoveIsDeliver ==
    ASSUME IInv, Remove
    PROVE  \E n \in 1..MaxBacklog : Queue!Deliver(n)
<1>. DEFINE n == Len(sendBatch)
<1>1. /\ senderPc = "remove" /\ senderPc' # "remove"
      /\ batch' = SubSeq(batch, n + 1, Len(batch))
      /\ UNCHANGED <<loopPc, accepted, answered, disposed>>
    BY DEF Remove, Return, Unsent, From, loopVars, history
<1>2. /\ sendBatch \in Seq(Spans) /\ batch \in Seq(Spans)
      /\ n \in Nat /\ Len(batch) \in Nat /\ Len(accepted) \in Nat
      /\ Len(batch) <= MaxBacklog /\ MaxBacklog \in Nat
    BY MaxBacklogAssumption DEF IInv, TypeOK
<1>3. n \in 1..Len(batch) /\ n \in 1..MaxBacklog
    <2>1. sendBatch # <<>> /\ n <= Len(batch)
        BY <1>1 DEF IInv, Control, Retention, SliceInBounds, InFlight
    <2>2. n # 0
        BY <1>2, <2>1, EmptySeq
    <2>. QED  BY <1>2, <2>1, <2>2
<1>4. PICK k \in 0..Start : PostWindow(k)
    BY <1>1 DEF IInv, Retention, InFlight
<1>5. Range(sendBatch) \subseteq answered /\ answered \subseteq Range(accepted)
    BY <1>1, <1>4 DEF PostWindow, IInv, Retention, Fresh
<1>6. sendBatch \in Injection(1..n, Range(accepted) \ (answered \ Range(sendBatch)))
    <2>1. DOMAIN sendBatch = 1..n /\ \A i \in 1..n : sendBatch[i] \in Range(sendBatch)
        BY <1>2 DEF Range
    <2>2. sendBatch \in [1..n -> Range(accepted) \ (answered \ Range(sendBatch))]
        BY <1>2, <1>5, <2>1
    <2>3. ASSUME NEW i \in 1..n, NEW j \in 1..n, sendBatch[i] = sendBatch[j]
          PROVE  i = j
        <3>1. k + i \in 1..Len(accepted) /\ k + j \in 1..Len(accepted)
            BY <1>2, <1>3 DEF Start
        <3>2. accepted[k + i] = accepted[k + j]
            BY <1>4, <2>3 DEF PostWindow
        <3>3. k + i = k + j
            BY <3>1, <3>2 DEF IInv, Retention, Fresh
        <3>. QED  BY <1>2, <3>3
    <2>. QED  BY <2>2, <2>3 DEF Injection, IsInjective
<1>7. disposed = {} => sendBatch = SubSeq(batch, 1, n)
    <2>. SUFFICES ASSUME disposed = {} PROVE sendBatch = SubSeq(batch, 1, n)
        OBVIOUS
    <2>1. \A i \in 1..n : sendBatch[i] = batch[i]
        BY <1>2, <1>3, <1>4 DEF PostWindow, IInv, Retention, BatchWindow
    <2>2. /\ SubSeq(batch, 1, n) \in Seq(Spans) /\ Len(SubSeq(batch, 1, n)) = n
          /\ \A i \in 1..n : SubSeq(batch, 1, n)[i] = batch[i]
        <3>1. \A i \in 1..n : batch[i] \in Spans
            BY <1>2, <1>3, ElementOfSeq
        <3>. HIDE DEF n
        <3>. QED  BY <1>2, <1>3, <3>1, SubSeqProperties
    <2>. QED  BY <1>2, <2>1, <2>2, SeqEqual
<1>8. answered = (answered \ Range(sendBatch)) \cup Range(sendBatch)
    BY <1>5
<1>9. sendBatch \in Queue!Batches(n)
    BY <1>1, <1>6 DEF Queue!Batches, Queue!Injection, Queue!IsInjective,
                      Injection, IsInjective
<1>10. Queue!Range(sendBatch) = Range(sendBatch)
    BY DEF Queue!Range, Range
<1>11. Queue!Deliver(n)
    BY <1>1, <1>3, <1>7, <1>8, <1>9, <1>10 DEF Queue!Deliver
<1>. QED  BY <1>3, <1>11

LEMMA QuitIsStop ==
    ASSUME Quit PROVE Queue!Stop
BY DEF Quit, Queue!Stop, senderVars, history

\* The HTTP reporter is a bounded queue that sheds its oldest spans, delivers
\* each span at most once and, as long as nothing was shed, in order and
\* without loss.
THEOREM Refinement == Spec => ImplementsQueue
<1>1. Init => Queue!Init
    <2>1. Range(<<>>) = {}
        BY DEF Range
    <2>. QED  BY <2>1 DEF Init, Queue!Init
<1>2. IInv /\ [Next]_vars => [Queue!QueueNext]_(Queue!queueVars)
    <2>. SUFFICES ASSUME IInv, [Next]_vars
                  PROVE  Queue!QueueNext \/ UNCHANGED Queue!queueVars
        OBVIOUS
    <2>. USE DEF Delivered, loopVars, senderVars, sendC, closeVars, history
    <2>1. ASSUME NEW s \in Spans, Send(s) PROVE UNCHANGED Queue!queueVars
        BY <2>1, QueueStutter DEF Send
    <2>2. CASE Close
        BY <2>2, QueueStutter DEF Close
    <2>3. CASE CloseReturns
        BY <2>3, QueueStutter DEF CloseReturns
    <2>4. ASSUME NEW s \in Spans, Receive(s) PROVE UNCHANGED Queue!queueVars
        BY <2>4, QueueStutter DEF Receive
    <2>5. CASE AppendSpan
        BY <2>5, AppendIsPut DEF Queue!QueueNext
    <2>6. CASE Tick
        BY <2>6, QueueStutter DEF Tick
    <2>7. CASE EnqueueSend
        BY <2>7, QueueStutter DEF EnqueueSend
    <2>8. CASE Quit
        BY <2>8, QuitIsStop DEF Queue!QueueNext
    <2>9. CASE ReceiveToken
        BY <2>9, QueueStutter DEF ReceiveToken
    <2>10. CASE ChannelClosed
        BY <2>10, QueueStutter DEF ChannelClosed
    <2>11. CASE Snapshot
        BY <2>11, QueueStutter DEF Snapshot, Return
    <2>12. CASE Build
        BY <2>12, QueueStutter DEF Build, Return
    <2>13. CASE Answered
        <3>1. answered \cap Range(sendBatch) = {}
            BY <2>13, ResendFree DEF Answered, NeverResent
        <3>2. Delivered' = Delivered
            BY <2>13, <3>1 DEF Answered
        <3>. QED  BY <2>13, <3>2, QueueStutter DEF Answered
    <2>14. CASE DoFails
        BY <2>14, QueueStutter DEF DoFails, Return
    <2>15. CASE Remove
        BY <2>15, RemoveIsDeliver DEF Queue!QueueNext
    <2>16. CASE UNCHANGED vars
        BY <2>16, QueueStutter DEF vars
    <2>. QED
        BY <2>1, <2>2, <2>3, <2>4, <2>5, <2>6, <2>7, <2>8, <2>9, <2>10, <2>11,
           <2>12, <2>13, <2>14, <2>15, <2>16 DEF Next, Loop, SendLoop
<1>. QED  BY <1>1, <1>2, Invariance, PTL DEF Spec, ImplementsQueue, Queue!QueueSpec
=============================================================================
