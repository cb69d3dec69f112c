-------------------------------- MODULE Span --------------------------------
(***************************************************************************)
(* The life of spans: tracer.go starts them, span_implementation.go lets   *)
(* any number of goroutines change, finish and flush them at once.         *)
(*                                                                         *)
(* A call is one call of a Span method by some goroutine.  Methods that    *)
(* change the span's data do so under the write lock of s.mtx; Finish and  *)
(* Flush hold its read lock while the reporter's Send, which may block,    *)
(* runs.  The lock is sync.RWMutex: its state follows from where the calls *)
(* are.  The duration and the error a call writes are the call itself, so  *)
(* that values tell who wrote them.                                        *)
(*                                                                         *)
(* Definitions marked Mutant stand before the one they vary: a slip that   *)
(* the properties must catch.  Nothing else uses them.                     *)
(***************************************************************************)
EXTENDS Naturals, FiniteSets

CONSTANTS
    Spans,          \* the spans a tracer may start
    Calls,          \* the calls of their methods
    None,           \* no value
    UnsampledNoop   \* t.unsampledNoop

ASSUME NoneAssumption == None \notin Calls \cup Spans
ASSUME UnsampledNoopAssumption == UnsampledNoop \in BOOLEAN

\* Finish stands for FinishedWithDuration too.  TagError is Tag with the error
\* key; the other writers (SetName, SetRemoteEndpoint, Annotate, Tag with any
\* other key) only differ in data that no property is about.
Methods == {"Write", "TagError", "Finish", "Flush"}

VARIABLES
    noop,            \* t.noop
    kind,            \* of each span: unstarted, noopSpan or spanImpl
    sampled,         \* of each span: Debug is set, or Sampled is true
    flushOnFinish,   \* s.flushOnFinish
    mustCollect,     \* s.mustCollect
    duration,        \* s.Duration
    error,           \* s.Tags["error"]
    method,          \* of each call
    target,          \* of each call: its span
    pc,              \* where each call is
    copy,            \* the Duration in the copy of s.SpanModel a call sends
    reported         \* the calls whose Send has returned

options == <<kind, sampled, flushOnFinish>>
data == <<mustCollect, duration, error>>
calls == <<method, target>>
reports == <<copy, reported>>
vars == <<noop, options, data, calls, pc, reports>>

Init ==
    /\ noop \in BOOLEAN
    /\ kind = [s \in Spans |-> "unstarted"]
    /\ sampled = [s \in Spans |-> FALSE]
    /\ flushOnFinish = [s \in Spans |-> TRUE]
    /\ mustCollect = [s \in Spans |-> FALSE]
    /\ duration = [s \in Spans |-> None]
    /\ error = [s \in Spans |-> None]
    /\ method = [c \in Calls |-> "none"]
    /\ target = [c \in Calls |-> None]
    /\ pc = [c \in Calls |-> "idle"]
    /\ copy = [c \in Calls |-> None]
    /\ reported = {}

-----------------------------------------------------------------------------
(* The tracer.                                                               *)

SetNoop ==
    /\ noop' = ~noop
    /\ UNCHANGED <<options, data, calls, pc, reports>>

\* Mutant: the sampling decision is ignored.
MustCollectAll(decision) == TRUE

\* A debug span, or one whose decision is to sample.
MustCollect(decision) == decision

\* StartSpan.  The decision is that of Debug, the parent or the sampler; f is
\* the option FlushOnFinish.  The methods of a noopSpan, which the tracer
\* returns while switched off, or for an unsampled span if so configured, use
\* none of what is recorded for it here.
StartSpan(s, decision, f) ==
    /\ kind[s] = "unstarted"
    /\ kind' = [kind EXCEPT ![s] =
                    IF noop \/ (UnsampledNoop /\ ~MustCollect(decision))
                    THEN "noopSpan" ELSE "spanImpl"]
    /\ sampled' = [sampled EXCEPT ![s] = decision]
    /\ flushOnFinish' = [flushOnFinish EXCEPT ![s] = f]
    /\ mustCollect' = [mustCollect EXCEPT ![s] = MustCollect(decision)]
    /\ UNCHANGED <<noop, duration, error, calls, pc, reports>>

-----------------------------------------------------------------------------
(* sync.RWMutex, of which each span has one.                                 *)

On(s) == {c \in Calls : target[c] = s}

\* Mutant: Tag holds the lock while it looks for an error, and not until it writes.
WriterLooks(s) == {c \in On(s) : pc[c] = "write"}

\* The calls that hold the read lock, and the one that has announced itself as
\* the writer: it waits for the readers, and new readers wait for it.
Readers(s) == {c \in On(s) : pc[c] \in {"copy", "send"}}
Writer(s) == {c \in On(s) : pc[c] \in {"write", "tag"}}

Lock(c) ==
    /\ pc[c] = "lock"
    /\ Writer(target[c]) = {}
    /\ pc' = [pc EXCEPT ![c] = "write"]
    /\ UNCHANGED <<noop, options, data, calls, reports>>

\* A reader that finds a writer announced gets the lock when the writer unlocks.
RLock(c) ==
    /\ pc[c] = "rlock"
    /\ pc' = [pc EXCEPT ![c] = IF Writer(target[c]) = {} THEN "copy" ELSE "rwait"]
    /\ UNCHANGED <<noop, options, data, calls, reports>>

\* c unlocks and returns; the readers that wait get the lock before any writer.
Unlock(c) ==
    pc' = [x \in Calls |->
            IF x = c THEN "returned"
            ELSE IF pc[x] = "rwait" /\ target[x] = target[c] THEN "copy"
            ELSE pc[x]]

-----------------------------------------------------------------------------
(* The methods of a span.                                                    *)

FirstStep(m) == CASE m = "Finish" -> "cas" [] m = "Flush" -> "check" [] OTHER -> "lock"

\* A call on a started span; those of a noopSpan do nothing.
Invoke(c, m, s) ==
    /\ pc[c] = "idle"
    /\ kind[s] # "unstarted"
    /\ method' = [method EXCEPT ![c] = m]
    /\ target' = [target EXCEPT ![c] = s]
    /\ pc' = [pc EXCEPT ![c] = IF kind[s] = "noopSpan" THEN "returned" ELSE FirstStep(m)]
    /\ UNCHANGED <<noop, options, data, reports>>

ErrorFound(c) == method[c] = "TagError" /\ error[target[c]] # None

\* Mutant: Tag returns with the lock when the error is set.
WriteKeepsLock(c) ==
    /\ pc[c] = "write"
    /\ Readers(target[c]) = {}
    /\ IF ErrorFound(c) THEN UNCHANGED pc
       ELSE IF method[c] = "TagError" THEN pc' = [pc EXCEPT ![c] = "tag"]
       ELSE Unlock(c)
    /\ UNCHANGED <<noop, options, data, calls, reports>>

\* The critical section of the writers, with its Unlock on every path; Tag looks for
\* an error that is there, and leaves it.
Write(c) ==
    /\ pc[c] = "write"
    /\ Readers(target[c]) = {}
    /\ IF method[c] = "TagError" /\ ~ErrorFound(c) THEN pc' = [pc EXCEPT ![c] = "tag"]
       ELSE Unlock(c)
    /\ UNCHANGED <<noop, options, data, calls, reports>>

\* Tag has found no error, and sets its own.
SetTag(c) ==
    /\ pc[c] = "tag"
    /\ error' = [error EXCEPT ![target[c]] = c]
    /\ Unlock(c)
    /\ UNCHANGED <<noop, options, mustCollect, duration, calls, reports>>

\* Mutant: mustCollect is loaded and not cleared.
LoadMustCollect(c) ==
    /\ pc[c] = "cas"
    /\ pc' = [pc EXCEPT ![c] = IF mustCollect[target[c]] THEN "stamp" ELSE "returned"]
    /\ UNCHANGED <<noop, options, data, calls, reports>>

\* Mutant: the duration is written before the compare-and-swap is known to win.
StampAndSwap(c) ==
    /\ pc[c] = "cas"
    /\ mustCollect' = [mustCollect EXCEPT ![target[c]] = FALSE]
    /\ duration' = [duration EXCEPT ![target[c]] = c]
    /\ pc' = [pc EXCEPT ![c] = IF mustCollect[target[c]] THEN "stamp" ELSE "returned"]
    /\ UNCHANGED <<noop, options, error, calls, reports>>

\* atomic.CompareAndSwapInt32(&s.mustCollect, 1, 0): one Finish wins.
CompareAndSwap(c) ==
    /\ pc[c] = "cas"
    /\ mustCollect' = [mustCollect EXCEPT ![target[c]] = FALSE]
    /\ pc' = [pc EXCEPT ![c] = IF mustCollect[target[c]] THEN "stamp" ELSE "returned"]
    /\ UNCHANGED <<noop, options, duration, error, calls, reports>>

\* s.Duration is written with no lock.
Stamp(c) ==
    /\ pc[c] = "stamp"
    /\ duration' = [duration EXCEPT ![target[c]] = c]
    /\ pc' = [pc EXCEPT ![c] = IF flushOnFinish[target[c]] THEN "rlock" ELSE "returned"]
    /\ UNCHANGED <<noop, options, mustCollect, error, calls, reports>>

\* Flush sends a debug or sampled span only.
Check(c) ==
    /\ pc[c] = "check"
    /\ pc' = [pc EXCEPT ![c] = IF sampled[target[c]] THEN "rlock" ELSE "returned"]
    /\ UNCHANGED <<noop, options, data, calls, reports>>

\* The argument of Send is a copy of s.SpanModel.  The copy shares the Tags map
\* of the span: what the reporter will read of the error is `error' itself.
Copy(c) ==
    /\ pc[c] = "copy"
    /\ copy' = [copy EXCEPT ![c] = duration[target[c]]]
    /\ pc' = [pc EXCEPT ![c] = "send"]
    /\ UNCHANGED <<noop, options, data, calls, reported>>

\* Mutant: the read lock is not released.
SendKeepsLock(c) ==
    /\ pc[c] = "send"
    /\ reported' = reported \cup {c}
    /\ UNCHANGED <<noop, options, data, calls, pc, copy>>

\* The reporter takes the span: Send returns, and the read lock is released.
SendReturns(c) ==
    /\ pc[c] = "send"
    /\ reported' = reported \cup {c}
    /\ pc' = [pc EXCEPT ![c] = "returned"]
    /\ UNCHANGED <<noop, options, data, calls, copy>>

Step(c) == \/ Lock(c) \/ RLock(c) \/ Write(c) \/ SetTag(c) \/ CompareAndSwap(c)
           \/ Stamp(c) \/ Check(c) \/ Copy(c)

Next ==
    \/ SetNoop
    \/ \E s \in Spans, decision, f \in BOOLEAN : StartSpan(s, decision, f)
    \/ \E c \in Calls :
        \/ \E m \in Methods, s \in Spans : Invoke(c, m, s)
        \/ Step(c) \/ SendReturns(c)

Spec == Init /\ [][Next]_vars

\* A goroutine that can run does, and a mutex starves no waiter.  Nobody has to
\* call anything, and the reporter need not take what it is sent.
Fairness == \A c \in Calls : WF_vars(Step(c)) /\ SF_vars(Lock(c))

FairSpec == Spec /\ Fairness

\* The reporter takes what it is sent.
ReporterTakes == \A c \in Calls : WF_vars(SendReturns(c))

-----------------------------------------------------------------------------
(* Properties.                                                               *)

\* Types; and a call whose Send has returned holds no lock any more.
TypeOK ==
    /\ noop \in BOOLEAN
    /\ kind \in [Spans -> {"unstarted", "noopSpan", "spanImpl"}]
    /\ sampled \in [Spans -> BOOLEAN]
    /\ flushOnFinish \in [Spans -> BOOLEAN]
    /\ mustCollect \in [Spans -> BOOLEAN]
    /\ duration \in [Spans -> Calls \cup {None}]
    /\ error \in [Spans -> Calls \cup {None}]
    /\ method \in [Calls -> Methods \cup {"none"}]
    /\ target \in [Calls -> Spans \cup {None}]
    /\ pc \in [Calls -> {"idle", "lock", "rlock", "rwait", "write", "tag", "cas",
                         "stamp", "check", "copy", "send", "returned"}]
    /\ copy \in [Calls -> Calls \cup {None}]
    /\ reported \in SUBSET {c \in Calls : pc[c] = "returned"}

\* The calls of Finish that have won the compare-and-swap and may still report,
\* and those that have reported.
Finishing(s) == {c \in On(s) : /\ method[c] = "Finish"
                               /\ pc[c] \in {"stamp", "rlock", "rwait", "copy", "send"}}
FinishReports(s) == {c \in On(s) : method[c] = "Finish" /\ c \in reported}

\* However many goroutines finish a span, at once or again, it is reported by
\* exactly one Finish once it is finished, and by none if it is to be flushed
\* by hand or is not sampled.
FinishedOnce ==
    \A s \in Spans :
        /\ Cardinality(Finishing(s) \cup FinishReports(s)) <= 1
        /\ kind[s] = "spanImpl" /\ sampled[s] /\ flushOnFinish[s] =>
            (mustCollect[s] <=> Finishing(s) \cup FinishReports(s) = {})
        /\ ~sampled[s] \/ ~flushOnFinish[s] => FinishReports(s) = {}

\* Flush may race with Finish, which writes the duration with no lock, and the
\* loser of two calls of Finish has a duration of its own: still all reports of
\* a span that carry a duration carry the winner's, and Finish's own does.
DurationsAgree ==
    \A c, d \in reported :
        /\ method[c] = "Finish" => copy[c] = c
        /\ target[c] = target[d] => copy[c] = None \/ copy[d] \in {None, copy[c]}

\* Only a debug or sampled span that was started with the tracer switched on is
\* reported, by Finish or by Flush.
UnsampledSilent ==
    \A c \in reported : sampled[target[c]] /\ kind[target[c]] = "spanImpl"

\* Of the errors goroutines tag a span with at once the first is kept for ever,
\* and so is the error of a span the reporter has taken and serializes later: no
\* goroutine gets in between another's look for an error and its setting one.
FirstErrorKept ==
    [][\A s \in Spans : error[s] # None => error'[s] = error[s]]_vars

\* Every call returns, as long as the reporter takes what it is sent: readers and
\* writers of the lock wait for each other in no circle and for no lost unlock.
CallsReturn ==
    ReporterTakes => \A c \in Calls : pc[c] # "idle" ~> pc[c] = "returned"
=============================================================================
