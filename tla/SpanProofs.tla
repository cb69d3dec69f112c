----------------------------- MODULE SpanProofs -----------------------------
(* Theorems about Span, for any spans and any number of concurrent calls. *)
EXTENDS Span, FiniteSetTheorems, TLAPS

-----------------------------------------------------------------------------
(* The inductive invariant.                                                  *)

\* A call of Finish that has won the compare-and-swap and may still report, or
\* has reported.
Won(c) ==
    /\ method[c] = "Finish"
    /\ pc[c] \in {"stamp", "rlock", "rwait", "copy", "send"} \/ c \in reported

\* Where a call is tells its method and what is known of its span.
Places ==
    \A c \in Calls :
        /\ pc[c] # "idle" => target[c] \in Spans /\ kind[target[c]] # "unstarted"
        /\ pc[c] \in {"cas", "stamp"} => method[c] = "Finish"
        /\ pc[c] = "check" => method[c] = "Flush"
        /\ pc[c] \in {"stamp", "rlock", "rwait", "copy", "send"} \/ c \in reported =>
                method[c] \in {"Finish", "Flush"} /\ sampled[target[c]]
        /\ pc[c] \notin {"idle", "returned"} \/ c \in reported =>
                kind[target[c]] = "spanImpl"

\* A span has data only once it is started, and is to be collected if sampled.
Started ==
    \A s \in Spans :
        /\ mustCollect[s] => sampled[s]
        /\ kind[s] = "unstarted" => duration[s] = None

\* The compare-and-swap has one winner, and no one else writes the duration.
Winner ==
    /\ \A c, d \in Calls : Won(c) /\ Won(d) /\ target[c] = target[d] => c = d
    /\ \A c \in Calls : Won(c) =>
            /\ ~mustCollect[target[c]]
            /\ pc[c] = "stamp" => duration[target[c]] = None
            /\ pc[c] # "stamp" => duration[target[c]] = c /\ flushOnFinish[target[c]]
            /\ pc[c] = "send" \/ c \in reported => copy[c] = c
    /\ \A s \in Spans :
            /\ duration[s] # None => ~mustCollect[s]
            /\ kind[s] = "spanImpl" /\ sampled[s] /\ flushOnFinish[s] /\ ~mustCollect[s]
                => \E c \in Calls : Won(c) /\ target[c] = s

\* A duration that is set stays, so that the copies agree with the span.
Copies ==
    \A c \in Calls :
        copy[c] # None => pc[c] # "idle" /\ copy[c] = duration[target[c]]

Writing(c) == pc[c] \in {"write", "tag"}

\* The write lock is exclusive, so that an error not found is still not there when
\* Tag sets its own.
Exclusive ==
    /\ \A c, d \in Calls : Writing(c) /\ Writing(d) /\ target[c] = target[d] => c = d
    /\ \A c \in Calls : pc[c] = "tag" => error[target[c]] = None

IInv == TypeOK /\ Places /\ Started /\ Winner /\ Copies /\ Exclusive

LEMMA InitInvariant == Init => IInv
BY NoneAssumption
DEF Init, IInv, TypeOK, Places, Started, Winner, Copies, Exclusive, Writing, Won

LEMMA TypeStep == IInv /\ [Next]_vars => TypeOK'
<1>. SUFFICES ASSUME IInv, [Next]_vars PROVE TypeOK'
    OBVIOUS
<1>. USE DEF IInv, TypeOK, Places, Methods, options, data, calls, reports
<1>1. CASE SetNoop
    BY <1>1 DEF SetNoop
<1>2. ASSUME NEW s \in Spans, NEW decision \in BOOLEAN, NEW f \in BOOLEAN,
             StartSpan(s, decision, f)
      PROVE  TypeOK'
    BY <1>2 DEF StartSpan, MustCollect
<1>3. ASSUME NEW c \in Calls, NEW m \in Methods, NEW s \in Spans, Invoke(c, m, s)
      PROVE  TypeOK'
    BY <1>3 DEF Invoke, FirstStep
<1>4. ASSUME NEW c \in Calls, Lock(c) PROVE TypeOK'
    BY <1>4 DEF Lock
<1>5. ASSUME NEW c \in Calls, RLock(c) PROVE TypeOK'
    BY <1>5 DEF RLock
<1>6. ASSUME NEW c \in Calls, Write(c) \/ SetTag(c) PROVE TypeOK'
    BY <1>6 DEF Write, SetTag, Unlock
<1>7. ASSUME NEW c \in Calls, CompareAndSwap(c) PROVE TypeOK'
    BY <1>7 DEF CompareAndSwap
<1>8. ASSUME NEW c \in Calls, Stamp(c) PROVE TypeOK'
    BY <1>8 DEF Stamp
<1>9. ASSUME NEW c \in Calls, Check(c) PROVE TypeOK'
    BY <1>9 DEF Check
<1>10. ASSUME NEW c \in Calls, Copy(c) PROVE TypeOK'
    BY <1>10 DEF Copy
<1>11. ASSUME NEW c \in Calls, SendReturns(c) PROVE TypeOK'
    BY <1>11 DEF SendReturns
<1>12. CASE UNCHANGED vars
    BY <1>12 DEF vars
<1>. QED
    BY <1>1, <1>2, <1>3, <1>4, <1>5, <1>6, <1>7, <1>8, <1>9, <1>10, <1>11, <1>12
    DEF Next, Step

LEMMA PlacesStep == IInv /\ [Next]_vars => Places' /\ Started'
<1>. SUFFICES ASSUME IInv, [Next]_vars PROVE Places' /\ Started'
    OBVIOUS
<1>. USE DEF IInv, TypeOK, Places, Started, Methods, options, data, calls, reports
<1>1. CASE SetNoop
    BY <1>1 DEF SetNoop
<1>2. ASSUME NEW s \in Spans, NEW decision \in BOOLEAN, NEW f \in BOOLEAN,
             StartSpan(s, decision, f)
      PROVE  Places' /\ Started'
    BY <1>2 DEF StartSpan, MustCollect
<1>3. ASSUME NEW c \in Calls, NEW m \in Methods, NEW s \in Spans, Invoke(c, m, s)
      PROVE  Places' /\ Started'
    BY <1>3 DEF Invoke, FirstStep
<1>4. ASSUME NEW c \in Calls, Lock(c) PROVE Places' /\ Started'
    BY <1>4 DEF Lock
<1>5. ASSUME NEW c \in Calls, RLock(c) PROVE Places' /\ Started'
    BY <1>5 DEF RLock
<1>6. ASSUME NEW c \in Calls, Write(c) \/ SetTag(c) PROVE Places' /\ Started'
    BY <1>6 DEF Write, SetTag, Unlock
<1>7. ASSUME NEW c \in Calls, CompareAndSwap(c) PROVE Places' /\ Started'
    BY <1>7 DEF CompareAndSwap
<1>8. ASSUME NEW c \in Calls, Stamp(c) PROVE Places' /\ Started'
    BY <1>8 DEF Stamp
<1>9. ASSUME NEW c \in Calls, Check(c) PROVE Places' /\ Started'
    BY <1>9 DEF Check
<1>10. ASSUME NEW c \in Calls, Copy(c) PROVE Places' /\ Started'
    BY <1>10 DEF Copy
<1>11. ASSUME NEW c \in Calls, SendReturns(c) PROVE Places' /\ Started'
    BY <1>11 DEF SendReturns
<1>12. CASE UNCHANGED vars
    BY <1>12 DEF vars
<1>. QED
    BY <1>1, <1>2, <1>3, <1>4, <1>5, <1>6, <1>7, <1>8, <1>9, <1>10, <1>11, <1>12
    DEF Next, Step

\* A step that neither begins nor ends a Finish's claim, nor touches the data it
\* rests on, keeps the winner.
LEMMA SameWinner ==
    ASSUME IInv, UNCHANGED <<mustCollect, duration, sampled, kind, flushOnFinish>>,
           \A c \in Calls : Won(c)' <=> Won(c),
           \A c \in Calls : Won(c) =>
                /\ target'[c] = target[c]
                /\ pc[c] = "stamp" <=> pc'[c] = "stamp"
                /\ pc'[c] = "send" \/ c \in reported' => copy'[c] = c
    PROVE  Winner'
BY DEF IInv, Winner

LEMMA WinnerStep == IInv /\ [Next]_vars => Winner'
<1>. SUFFICES ASSUME IInv, [Next]_vars PROVE Winner'
    OBVIOUS
<1>. USE DEF IInv, TypeOK, Places, Started, Methods, options, data, calls, reports
<1>1. CASE SetNoop
    BY <1>1 DEF SetNoop, Winner, Won
<1>2. ASSUME NEW s \in Spans, NEW decision \in BOOLEAN, NEW f \in BOOLEAN,
             StartSpan(s, decision, f)
      PROVE  Winner'
    <2>1. \A c \in Calls : Won(c)' <=> Won(c)
        BY <1>2 DEF StartSpan, Won
    <2>2. \A c \in Calls : Won(c) => target[c] \in Spans /\ target[c] # s
        BY <1>2 DEF StartSpan, Won
    <2>. QED
        BY <1>2, <2>1, <2>2 DEF StartSpan, MustCollect, Winner
<1>3. ASSUME NEW c \in Calls, NEW m \in Methods, NEW s \in Spans, Invoke(c, m, s)
      PROVE  Winner'
    <2>1. \A d \in Calls : Won(d)' <=> Won(d)
        BY <1>3 DEF Invoke, FirstStep, Won
    <2>2. \A d \in Calls : Won(d) => d # c
        BY <1>3 DEF Invoke, Won
    <2>. QED
        BY <1>3, <2>1, <2>2, SameWinner DEF Invoke, Winner
<1>4. ASSUME NEW c \in Calls, Lock(c) PROVE Winner'
    BY <1>4, SameWinner DEF Lock, Winner, Won
<1>5. ASSUME NEW c \in Calls, RLock(c) PROVE Winner'
    BY <1>5, SameWinner DEF RLock, Winner, Won
<1>6. ASSUME NEW c \in Calls, Write(c) \/ SetTag(c) PROVE Winner'
    BY <1>6, SameWinner DEF Write, SetTag, Unlock, Winner, Won
<1>7. ASSUME NEW c \in Calls, CompareAndSwap(c) PROVE Winner'
    <2>. DEFINE s == target[c]
    <2>1. /\ s \in Spans /\ kind[s] = "spanImpl" /\ method[c] = "Finish" /\ ~Won(c)
          /\ c \notin reported
        BY <1>7 DEF CompareAndSwap, Won
    <2>2. \A d \in Calls : d # c => (Won(d)' <=> Won(d))
        BY <1>7 DEF CompareAndSwap, Won
    <2>3. Won(c)' <=> mustCollect[s]
        BY <1>7, <2>1 DEF CompareAndSwap, Won
    <2>4. \A d \in Calls : Won(d) /\ target[d] = s => ~mustCollect[s]
        BY DEF Winner
    <2>5. mustCollect[s] => duration[s] = None
        BY <2>1 DEF Winner
    <2>. QED
        BY <1>7, <2>1, <2>2, <2>3, <2>4, <2>5 DEF CompareAndSwap, Winner
<1>8. ASSUME NEW c \in Calls, Stamp(c) PROVE Winner'
    <2>. DEFINE s == target[c]
    <2>1. s \in Spans /\ Won(c) /\ ~mustCollect[s] /\ c \notin reported
        BY <1>8 DEF Stamp, Won, Winner
    <2>2. \A d \in Calls : d # c => (Won(d)' <=> Won(d)) /\ (Won(d) => target[d] # s)
        BY <1>8, <2>1 DEF Stamp, Won, Winner
    <2>3. Won(c)' <=> flushOnFinish[s]
        BY <1>8, <2>1 DEF Stamp, Won
    <2>4. /\ duration' = [duration EXCEPT ![s] = c]
          /\ pc'[c] # "stamp" /\ pc'[c] # "send" /\ \A d \in Calls \ {c} : pc'[d] = pc[d]
        BY <1>8 DEF Stamp
    <2>5. UNCHANGED <<mustCollect, sampled, kind, flushOnFinish, target, copy, reported>>
        BY <1>8 DEF Stamp
    <2>6. \A x, d \in Calls : Won(x)' /\ Won(d)' /\ target'[x] = target'[d] => x = d
        BY <2>1, <2>2, <2>5 DEF Winner
    <2>7. \A d \in Calls : Won(d)' =>
            /\ ~mustCollect'[target'[d]]
            /\ pc'[d] = "stamp" => duration'[target'[d]] = None
            /\ pc'[d] # "stamp" => duration'[target'[d]] = d /\ flushOnFinish'[target'[d]]
            /\ pc'[d] = "send" \/ d \in reported' => copy'[d] = d
        BY <2>1, <2>2, <2>3, <2>4, <2>5 DEF Winner, Won
    <2>8. \A t \in Spans :
            /\ duration'[t] # None => ~mustCollect'[t]
            /\ kind'[t] = "spanImpl" /\ sampled'[t] /\ flushOnFinish'[t] /\ ~mustCollect'[t]
                => \E d \in Calls : Won(d)' /\ target'[d] = t
        BY <2>1, <2>2, <2>3, <2>4, <2>5 DEF Winner
    <2>. QED
        BY <2>6, <2>7, <2>8 DEF Winner
<1>9. ASSUME NEW c \in Calls, Check(c) PROVE Winner'
    BY <1>9, SameWinner DEF Check, Winner, Won
<1>10. ASSUME NEW c \in Calls, Copy(c) PROVE Winner'
    BY <1>10, SameWinner DEF Copy, Winner, Won
<1>11. ASSUME NEW c \in Calls, SendReturns(c) PROVE Winner'
    BY <1>11, SameWinner DEF SendReturns, Winner, Won
<1>12. CASE UNCHANGED vars
    BY <1>12 DEF vars, Winner, Won
<1>. QED
    BY <1>1, <1>2, <1>3, <1>4, <1>5, <1>6, <1>7, <1>8, <1>9, <1>10, <1>11, <1>12
    DEF Next, Step

LEMMA CopiesStep == IInv /\ [Next]_vars => Copies'
<1>. SUFFICES ASSUME IInv, [Next]_vars PROVE Copies'
    OBVIOUS
<1>. USE DEF IInv, TypeOK, Places, Copies, Methods, options, data, calls, reports
<1>1. ASSUME UNCHANGED <<duration, target, copy>>,
             \A c \in Calls : pc[c] # "idle" => pc'[c] # "idle"
      PROVE  Copies'
    BY <1>1
<1>2. ASSUME NEW c \in Calls, NEW m \in Methods, NEW s \in Spans, Invoke(c, m, s)
      PROVE  Copies'
    BY <1>2 DEF Invoke, FirstStep
<1>3. ASSUME NEW c \in Calls, Stamp(c) PROVE Copies'
    <2>1. target[c] \in Spans /\ duration[target[c]] = None
        BY <1>3 DEF Stamp, Winner, Won
    <2>. QED  BY <1>3, <2>1 DEF Stamp
<1>4. ASSUME NEW c \in Calls, Copy(c) PROVE Copies'
    BY <1>4 DEF Copy
<1>5. CASE UNCHANGED vars
    BY <1>5 DEF vars
<1>6. CASE SetNoop \/ \E s \in Spans, decision, f \in BOOLEAN : StartSpan(s, decision, f)
    BY <1>1, <1>6 DEF SetNoop, StartSpan
<1>7. ASSUME NEW c \in Calls,
             \/ Lock(c) \/ RLock(c) \/ Write(c) \/ SetTag(c) \/ CompareAndSwap(c)
             \/ Check(c) \/ SendReturns(c)
      PROVE  Copies'
    BY <1>1, <1>7
       DEF Lock, RLock, Write, SetTag, Unlock, CompareAndSwap, Check, SendReturns
<1>. QED
    BY <1>2, <1>3, <1>4, <1>5, <1>6, <1>7 DEF Next, Step

LEMMA ExclusiveStep == IInv /\ [Next]_vars => Exclusive'
<1>. SUFFICES ASSUME IInv, [Next]_vars PROVE Exclusive'
    OBVIOUS
<1>. USE DEF IInv, TypeOK, Places, Exclusive, Writing, options, data, calls, reports
\* Whoever writes after such a step wrote before it, on the same span.
<1>1. ASSUME UNCHANGED error,
             \A c \in Calls : Writing(c)' => pc'[c] = pc[c] /\ target'[c] = target[c]
      PROVE  Exclusive'
    BY <1>1
<1>2. CASE SetNoop \/ \E s \in Spans, decision, f \in BOOLEAN : StartSpan(s, decision, f)
    BY <1>1, <1>2 DEF SetNoop, StartSpan
<1>3. ASSUME NEW c \in Calls, NEW m \in Methods, NEW s \in Spans, Invoke(c, m, s)
      PROVE  Exclusive'
    BY <1>1, <1>3 DEF Invoke, FirstStep
<1>4. ASSUME NEW c \in Calls, Lock(c) PROVE Exclusive'
    <2>1. \A d \in Calls : Writing(d) => target[d] # target[c]
        BY <1>4 DEF Lock, Writer, On
    <2>. QED
        BY <1>4, <2>1 DEF Lock
<1>5. ASSUME NEW c \in Calls, Write(c) PROVE Exclusive'
    <2>1. CASE method[c] = "TagError" /\ ~ErrorFound(c)
        BY <1>5, <2>1 DEF Write, ErrorFound
    <2>2. CASE ~(method[c] = "TagError" /\ ~ErrorFound(c))
        BY <1>1, <1>5, <2>2 DEF Write, Unlock
    <2>. QED
        BY <2>1, <2>2
<1>6. ASSUME NEW c \in Calls, SetTag(c) PROVE Exclusive'
    <2>1. \A d \in Calls \ {c} : Writing(d) => target[d] # target[c]
        BY <1>6 DEF SetTag
    <2>. QED
        BY <1>6, <2>1 DEF SetTag, Unlock
<1>7. ASSUME NEW c \in Calls,
             \/ RLock(c) \/ CompareAndSwap(c) \/ Stamp(c) \/ Check(c) \/ Copy(c)
             \/ SendReturns(c)
      PROVE  Exclusive'
    BY <1>1, <1>7 DEF RLock, CompareAndSwap, Stamp, Check, Copy, SendReturns
<1>8. CASE UNCHANGED vars
    BY <1>1, <1>8 DEF vars
<1>. QED
    BY <1>2, <1>3, <1>4, <1>5, <1>6, <1>7, <1>8 DEF Next, Step

\* The inductive invariant holds of every behaviour.
THEOREM Invariance == Spec => []IInv
<1>1. Init => IInv
    BY InitInvariant
<1>2. IInv /\ [Next]_vars => IInv'
    BY TypeStep, PlacesStep, WinnerStep, CopiesStep, ExclusiveStep DEF IInv
<1>. QED
    BY <1>1, <1>2, PTL DEF Spec

-----------------------------------------------------------------------------
(* What follows from it.                                                     *)

\* Every variable has its type, and a call whose Send has returned holds no lock.
THEOREM TypeCorrect == Spec => []TypeOK
<1>1. IInv => TypeOK
    BY DEF IInv
<1>. QED
    BY <1>1, Invariance, PTL

\* A span has at most one Finish that reports it, whatever calls run at once.
LEMMA OneFinish == IInv => FinishedOnce
<1>. SUFFICES ASSUME IInv, NEW s \in Spans
              PROVE  /\ Cardinality(Finishing(s) \cup FinishReports(s)) <= 1
                     /\ kind[s] = "spanImpl" /\ sampled[s] /\ flushOnFinish[s] =>
                         (mustCollect[s] <=> Finishing(s) \cup FinishReports(s) = {})
                     /\ ~sampled[s] \/ ~flushOnFinish[s] => FinishReports(s) = {}
    BY DEF FinishedOnce
<1>. DEFINE W == Finishing(s) \cup FinishReports(s)
<1>1. W = {c \in Calls : Won(c) /\ target[c] = s}
    BY DEF Finishing, FinishReports, On, Won
<1>2. Cardinality(W) <= 1
    <2>1. \A c, d \in W : c = d
        BY <1>1 DEF IInv, Winner
    <2>2. CASE W = {}
        BY <2>2, FS_EmptySet
    <2>3. ASSUME NEW c \in W PROVE Cardinality(W) <= 1
        <3>1. W = {c}
            BY <2>1, <2>3
        <3>2. Cardinality({c}) = 1
            BY FS_Singleton
        <3>. QED  BY <3>1, <3>2
    <2>. QED  BY <2>2, <2>3
<1>3. kind[s] = "spanImpl" /\ sampled[s] /\ flushOnFinish[s] => (mustCollect[s] <=> W = {})
    BY <1>1 DEF IInv, Winner
<1>4. ~sampled[s] \/ ~flushOnFinish[s] => FinishReports(s) = {}
    BY DEF IInv, TypeOK, Places, Winner, Won, FinishReports, On
<1>. QED
    BY <1>2, <1>3, <1>4

\* However many goroutines finish a span, exactly one Finish reports it.
THEOREM ReportedOnce == Spec => []FinishedOnce
BY Invariance, OneFinish, PTL

\* The reports of a span that carry a duration carry the same one.
THEOREM OneDuration == Spec => []DurationsAgree
<1>1. IInv => DurationsAgree
    BY DEF IInv, TypeOK, Places, Winner, Won, Copies, DurationsAgree
<1>. QED
    BY <1>1, Invariance, PTL

\* What is reported was sampled and started with the tracer switched on.
THEOREM SilentUnlessSampled == Spec => []UnsampledSilent
<1>1. IInv => UnsampledSilent
    BY DEF IInv, TypeOK, Places, UnsampledSilent
<1>. QED
    BY <1>1, Invariance, PTL

\* No interleaving of calls of Tag replaces the first error of a span.
THEOREM ErrorKept == Spec => FirstErrorKept
<1>. DEFINE Kept == \A s \in Spans : error[s] # None => error'[s] = error[s]
<1>1. IInv /\ [Next]_vars => Kept
    <2>. SUFFICES ASSUME IInv, [Next]_vars PROVE Kept
        OBVIOUS
    <2>1. ASSUME NEW c \in Calls, SetTag(c) PROVE Kept
        BY <2>1 DEF SetTag, IInv, TypeOK, Places, Exclusive
    <2>2. CASE UNCHANGED error
        BY <2>2
    <2>3. \/ UNCHANGED error
          \/ \E c \in Calls : SetTag(c)
        BY DEF Next, Step, vars, options, data, calls, reports, SetNoop, StartSpan, Invoke,
            Lock, RLock, Write, CompareAndSwap, Stamp, Check, Copy, SendReturns
    <2>. QED  BY <2>1, <2>2, <2>3
<1>2. IInv /\ [Next]_vars => [Kept]_vars
    BY <1>1
<1>. QED
    BY <1>2, Invariance, PTL DEF Spec, FirstErrorKept
=============================================================================
