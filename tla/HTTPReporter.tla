---------------------------- MODULE HTTPReporter ----------------------------
(***************************************************************************)
(* The HTTP reporter, reporter/http/http.go.                               *)
(*                                                                         *)
(* Goroutines that finish spans call Send, which blocks on the unbuffered  *)
(* channel spanC.  The goroutine `loop' takes spans from it, appends them  *)
(* to the batch and wakes the goroutine `sendLoop' through sendC, a        *)
(* channel that holds one token.  sendLoop posts the batch to the Zipkin   *)
(* collector while loop goes on appending, and cuts what it sent off the   *)
(* front of the batch when the collector has answered.  Close asks loop to *)
(* stop and waits for the result of one last post.                         *)
(*                                                                         *)
(* A span stands for one call of Send.  Each step below is a section of    *)
(* the code that no other goroutine can see the middle of: a critical      *)
(* section of batchMtx, a channel operation, or a local computation.       *)
(*                                                                         *)
(* Definitions marked Mutant stand before the one they vary: a slip that   *)
(* the properties must catch.  Nothing else uses them.                     *)
(***************************************************************************)
EXTENDS Integers, Sequences, Functions

CONSTANTS
    Spans,       \* the calls of Send, each with its span
    Malformed,   \* the spans Serialize rejects
    BatchSize,   \* r.batchSize, any int
    MaxBacklog,  \* r.maxBacklog
    ValidURL     \* http.NewRequest accepts r.url

ASSUME MalformedAssumption == Malformed \subseteq Spans
ASSUME BatchSizeAssumption == BatchSize \in Int
\* A negative maxBacklog makes the slice expression of append panic.
ASSUME MaxBacklogAssumption == MaxBacklog \in Nat
ASSUME ValidURLAssumption == ValidURL \in BOOLEAN

VARIABLES
    caller,      \* where each call of Send is
    loopPc,      \* where loop is
    loopSpan,    \* the span loop has received and not appended: one or none
    wake,        \* a token is buffered in sendC
    sendClosed,  \* loop has closed sendC
    batch,       \* r.batch
    senderPc,    \* where sendLoop is
    final,       \* sendLoop is past its range loop
    sendBatch,   \* the local of sendBatch; empty outside of it
    sendErr,     \* what the last sendBatch to return returned
    shutdown,    \* what is buffered in r.shutdown
    closer,      \* where the call of Close is; it closes quit as it starts
    closeErr     \* what Close returned

\* History, which no guard reads: the spans append took in their order, those
\* in a post the collector has answered, and those append has shed.
VARIABLES accepted, answered, disposed

loopVars == <<loopPc, loopSpan>>
sendC == <<wake, sendClosed>>
senderVars == <<senderPc, final, sendBatch, sendErr, shutdown>>
closeVars == <<closer, closeErr>>
history == <<accepted, answered, disposed>>
vars == <<caller, loopVars, sendC, batch, senderVars, closeVars, history>>

InFlight == senderPc \in {"build", "do", "remove"}

-----------------------------------------------------------------------------
(* NewReporter: empty batch and channels, both goroutines started.           *)

Init ==
    /\ caller = [s \in Spans |-> "idle"]
    /\ loopPc = "select" /\ loopSpan = {}
    /\ wake = FALSE /\ sendClosed = FALSE
    /\ batch = <<>>
    /\ senderPc = "range" /\ final = FALSE
    /\ sendBatch = <<>> /\ sendErr = "nil" /\ shutdown = "none"
    /\ closer = "open" /\ closeErr = "none"
    /\ accepted = <<>> /\ answered = {} /\ disposed = {}

-----------------------------------------------------------------------------
(* Callers.                                                                  *)

\* Send reaches `r.spanC <- &s' and blocks until loop receives.
Send(s) ==
    /\ caller[s] = "idle"
    /\ caller' = [caller EXCEPT ![s] = "sending"]
    /\ UNCHANGED <<loopVars, sendC, batch, senderVars, closeVars, history>>

\* Close closes quit and blocks on shutdown.  It is called once: closing quit
\* again panics.
Close ==
    /\ closer = "open"
    /\ closer' = "waiting"
    /\ UNCHANGED <<caller, loopVars, sendC, batch, senderVars, closeErr, history>>

CloseReturns ==
    /\ closer = "waiting"
    /\ shutdown # "none"
    /\ closer' = "closed"
    /\ closeErr' = shutdown
    /\ shutdown' = "none"
    /\ UNCHANGED <<caller, loopVars, sendC, batch, senderPc, final, sendBatch,
                   sendErr, history>>

-----------------------------------------------------------------------------
(* loop.  Its select takes any case that is ready.                           *)

\* case span := <-r.spanC: the rendezvous also lets Send return.
Receive(s) ==
    /\ loopPc = "select"
    /\ caller[s] = "sending"
    /\ caller' = [caller EXCEPT ![s] = "returned"]
    /\ loopPc' = "append"
    /\ loopSpan' = {s}
    /\ UNCHANGED <<sendC, batch, senderVars, closeVars, history>>

\* Mutant: an off-by-one.
DisposeCountLate(n) == IF n > MaxBacklog + 1 THEN n - MaxBacklog ELSE 0

\* Mutant: the whole backlog goes.
DisposeCountAll(n) == IF n > MaxBacklog THEN n ELSE 0

\* How many spans of n are beyond the backlog.
DisposeCount(n) == IF n > MaxBacklog THEN n - MaxBacklog ELSE 0

\* seq[n:]
From(seq, n) == SubSeq(seq, n + 1, Len(seq))

\* Mutant: the newest spans go.
ShedNewest(grown) == SubSeq(grown, 1, Len(grown) - DisposeCount(Len(grown)))

\* r.batch = r.batch[dispose:]
Shed(grown) == From(grown, DisposeCount(Len(grown)))

\* append, in one critical section; loop then compares the new size.
AppendSpan ==
    /\ loopPc = "append"
    /\ \E s \in loopSpan :
        LET grown == Append(batch, s)
        IN  /\ batch' = Shed(grown)
            /\ accepted' = Append(accepted, s)
            /\ disposed' = disposed \cup
                            {grown[i] : i \in 1..DisposeCount(Len(grown))}
            /\ loopPc' = IF Len(Shed(grown)) >= BatchSize THEN "enqueue" ELSE "select"
    /\ loopSpan' = {}
    /\ UNCHANGED <<caller, sendC, senderVars, closeVars, answered>>

\* Mutant: each tick postpones nextSend, so that none finds it past.
TickPostpones == loopPc = "select" /\ UNCHANGED vars

\* case <-tickerChan with nextSend past.  The clock is left out: a tick that
\* comes too early changes nothing, and any tick may be late enough.
Tick ==
    /\ loopPc = "select"
    /\ loopPc' = "enqueue"
    /\ UNCHANGED <<caller, loopSpan, sendC, batch, senderVars, closeVars, history>>

\* Mutant: sendC has no buffer, so that a busy sendLoop misses the token.
NotifyUnbuffered == wake' = (wake \/ senderPc = "range")

\* Mutant: the send on sendC blocks.
NotifyBlocking == ~wake /\ wake' = TRUE

\* The non-blocking send on sendC: the token is dropped when one is pending.
Notify == wake' = TRUE

EnqueueSend ==
    /\ loopPc = "enqueue"
    /\ Notify
    /\ loopPc' = "select"
    /\ UNCHANGED <<caller, loopSpan, sendClosed, batch, senderVars, closeVars, history>>

\* Mutant: loop returns without closing sendC.
QuitKeepsSendC ==
    /\ loopPc = "select"
    /\ closer # "open"
    /\ loopPc' = "done"
    /\ UNCHANGED <<caller, loopSpan, sendC, batch, senderVars, closeVars, history>>

\* case <-r.quit
Quit ==
    /\ loopPc = "select"
    /\ closer # "open"
    /\ sendClosed' = TRUE
    /\ loopPc' = "done"
    /\ UNCHANGED <<caller, loopSpan, wake, batch, senderVars, closeVars, history>>

-----------------------------------------------------------------------------
(* sendLoop.                                                                 *)

\* for range r.sendC: one iteration per token.
ReceiveToken ==
    /\ senderPc = "range"
    /\ wake
    /\ wake' = FALSE
    /\ senderPc' = "snapshot"
    /\ UNCHANGED <<caller, loopVars, sendClosed, batch, final, sendBatch,
                   sendErr, shutdown, closeVars, history>>

\* Mutant: no sendBatch after the range.
ChannelClosedUnflushed ==
    /\ senderPc = "range" /\ sendClosed /\ ~wake
    /\ final' = TRUE
    /\ senderPc' = "done"
    /\ shutdown' = "nil"
    /\ UNCHANGED <<caller, loopVars, sendC, batch, sendBatch, sendErr, closeVars,
                   history>>

\* The range ends when sendC is closed and drained; the last sendBatch follows.
ChannelClosed ==
    /\ senderPc = "range"
    /\ sendClosed
    /\ ~wake
    /\ final' = TRUE
    /\ senderPc' = "snapshot"
    /\ UNCHANGED <<caller, loopVars, sendC, batch, sendBatch, sendErr, shutdown,
                   closeVars, history>>

\* sendBatch returns err: to the loop, or to `r.shutdown <-' for the last one.
Return(err) ==
    /\ sendErr' = err
    /\ sendBatch' = <<>>
    /\ senderPc' = IF final THEN "done" ELSE "range"
    /\ shutdown' = IF final THEN err ELSE shutdown
    /\ UNCHANGED final

\* sendBatch := r.batch[:] under the lock; an empty batch sends nothing.
Snapshot ==
    /\ senderPc = "snapshot"
    /\ \/ /\ batch = <<>>
          /\ Return("nil")
       \/ /\ batch # <<>>
          /\ sendBatch' = batch
          /\ senderPc' = "build"
          /\ UNCHANGED <<final, sendErr, shutdown>>
    /\ UNCHANGED <<caller, loopVars, sendC, batch, closeVars, history>>

Buildable == Range(sendBatch) \cap Malformed = {} /\ ValidURL

\* Serialize and http.NewRequest; an error of either leaves the batch alone.
Build ==
    /\ senderPc = "build"
    /\ \/ /\ Buildable
          /\ senderPc' = "do"
          /\ UNCHANGED <<final, sendBatch, sendErr, shutdown>>
       \/ /\ ~Buildable
          /\ Return("error")
    /\ UNCHANGED <<caller, loopVars, sendC, batch, closeVars, history>>

\* client.Do returns a response.  Its status is only logged, so that a refused
\* batch counts as sent.
Answered ==
    /\ senderPc = "do"
    /\ answered' = answered \cup Range(sendBatch)
    /\ senderPc' = "remove"
    /\ UNCHANGED <<caller, loopVars, sendC, batch, final, sendBatch, sendErr,
                   shutdown, closeVars, accepted, disposed>>

\* client.Do fails, or reqTimeout expires: the batch stays for the next token.
DoFails ==
    /\ senderPc = "do"
    /\ Return("error")
    /\ UNCHANGED <<caller, loopVars, sendC, batch, closeVars, history>>

\* Mutant: an off-by-one.
UnsentAndLast(n) == From(batch, n - 1)

\* Mutant: the batch is cleared, with what loop appended meanwhile.
UnsentForgotten(n) == <<>>

\* What sendBatch retains of r.batch once n spans have been sent.
Unsent(n) == From(batch, n)

\* r.batch = r.batch[len(sendBatch):] under the lock.
Remove ==
    /\ senderPc = "remove"
    /\ batch' = Unsent(Len(sendBatch))
    /\ Return("nil")
    /\ UNCHANGED <<caller, loopVars, sendC, closeVars, history>>

-----------------------------------------------------------------------------

Loop == (\E s \in Spans : Receive(s)) \/ AppendSpan \/ Tick \/ EnqueueSend \/ Quit

SendLoop == \/ ReceiveToken \/ ChannelClosed \/ Snapshot \/ Build
            \/ Answered \/ DoFails \/ Remove

Next == (\E s \in Spans : Send(s)) \/ Close \/ CloseReturns \/ Loop \/ SendLoop

Spec == Init /\ [][Next]_vars

-----------------------------------------------------------------------------
(* Fairness.  Goroutines that can run do run.  loop comes back to its select *)
(* again and again; Go picks one of its ready cases at random and serves the *)
(* senders blocked on a channel in their order, so a case that stays ready   *)
(* is taken at last: strong fairness of each case, and of each sender.  The  *)
(* ticker never stops.  Nothing is assumed of callers, nor of the collector. *)

LoopFairness ==
    /\ \A s \in Spans : SF_vars(Receive(s))
    /\ SF_vars(Tick)
    /\ SF_vars(Quit)
    /\ WF_vars(AppendSpan)
    /\ WF_vars(EnqueueSend)

\* All of sendLoop but the wait for client.Do.
SendLoopFairness ==
    /\ WF_vars(ReceiveToken)
    /\ WF_vars(ChannelClosed)
    /\ WF_vars(Snapshot)
    /\ WF_vars(Build)
    /\ WF_vars(Remove)
    /\ WF_vars(CloseReturns)

\* reqTimeout bounds client.Do.
DoReturns == WF_vars(Answered \/ DoFails)

\* A collector that is reachable time and again.
CollectorAnswers == SF_vars(Answered)

FairSpec == Spec /\ LoopFairness /\ SendLoopFairness

-----------------------------------------------------------------------------
(* Properties.                                                               *)

\* Every variable has its type, and the batch never outgrows maxBacklog.
TypeOK ==
    /\ caller \in [Spans -> {"idle", "sending", "returned"}]
    /\ loopPc \in {"select", "append", "enqueue", "done"}
    /\ loopSpan \in SUBSET Spans
    /\ wake \in BOOLEAN /\ sendClosed \in BOOLEAN
    /\ batch \in Seq(Spans) /\ Len(batch) <= MaxBacklog
    /\ senderPc \in {"range", "snapshot", "build", "do", "remove", "done"}
    /\ final \in BOOLEAN
    /\ sendBatch \in Seq(Spans)
    /\ sendErr \in {"nil", "error"}
    /\ shutdown \in {"none", "nil", "error"}
    /\ closer \in {"open", "waiting", "closed"}
    /\ closeErr \in {"none", "nil", "error"}
    /\ accepted \in Seq(Spans)
    /\ answered \in SUBSET Spans
    /\ disposed \in SUBSET Spans

\* While a post is in flight loop may shed spans from the front of the batch,
\* yet the batch never gets shorter than what is being sent: the slice
\* expression of sendBatch, which runs later under the lock, cannot panic.
SliceInBounds == InFlight => Len(sendBatch) <= Len(batch)

\* What is retained is always the newest accepted spans in the order loop took
\* them: shedding and removing both cut the front, whatever their interleaving.
RetainedIsNewest ==
    /\ Len(batch) <= Len(accepted)
    /\ batch = SubSeq(accepted, Len(accepted) - Len(batch) + 1, Len(accepted))

\* A span the collector has answered for is never posted again: neither
\* appends, nor shedding, nor a failed post in between put it back.
NeverResent ==
    senderPc \in {"build", "do"} => answered \cap Range(sendBatch) = {}

\* As long as nothing had to be shed, every accepted span is retained until
\* the collector has answered for it; failed posts lose nothing.
UnansweredRetained ==
    disposed = {} => Range(accepted) \subseteq Range(batch) \cup answered

\* loop drops its token when one is pending (enqueueSend's default case), and
\* sendLoop may be about to snapshot or to remove at that moment.  No wakeup is
\* lost by it: a full batch with an idle sendLoop has a token pending, unless
\* the last post failed, after which the next append or tick retries.
NoLostWakeup ==
    (senderPc = "range" /\ loopPc # "enqueue" /\ batch # <<>> /\ Len(batch) >= BatchSize)
        => wake \/ sendClosed \/ sendErr = "error"

\* Close that returns nil has left nothing behind: the batch is empty and, if
\* nothing was shed, each span whose Send returned has been answered for.
CloseFlushes ==
    closeErr = "nil" =>
        /\ batch = <<>>
        /\ disposed = {} => {s \in Spans : caller[s] = "returned"} \subseteq answered

\* A blocked Send returns, or Close has been called: whatever the collector
\* does, were it never to answer a post, it does not block the traced program.
SendReturns ==
    \A s \in Spans : caller[s] = "sending" ~> (caller[s] = "returned" \/ closer # "open")

\* If every post ends, Close returns, whatever loop and sendLoop are in the
\* middle of when it is called.
CloseTerminates == DoReturns => ((closer = "waiting") ~> (closer = "closed"))

\* With a collector that answers time and again, a retained span does not stay
\* in the batch for ever, unless a span that does not serialize is stuck there
\* with it or the last post is over.
SpansLeave ==
    DoReturns /\ CollectorAnswers =>
        \A s \in Spans :
            s \in Range(batch) ~> \/ s \notin Range(batch)
                                  \/ Range(batch) \cap Malformed # {}
                                  \/ senderPc = "done"

\* The reporter implements the bounded queue of SpanQueue.  A delivery happens
\* there in one step, the removal of the batch; between the answer and the
\* removal the reporter has delivered what the queue has not.
Queue == INSTANCE SpanQueue WITH
    Capacity <- MaxBacklog,
    queue <- batch,
    put <- Range(accepted),
    delivered <- IF senderPc = "remove" THEN answered \ Range(sendBatch) ELSE answered,
    shed <- disposed,
    open <- loopPc # "done"

ImplementsQueue == Queue!QueueSpec

\* What the comment in sendBatch says: the spans removed from the batch are
\* those that were sent (or those append disposed of).
OnlySentSpansRemoved == Range(accepted) \subseteq Range(batch) \cup answered \cup disposed
=============================================================================
