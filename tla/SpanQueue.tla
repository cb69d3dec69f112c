------------------------------ MODULE SpanQueue ------------------------------
(***************************************************************************)
(* What a reporter that buffers promises, without goroutines, channels or  *)
(* locks: a queue of spans, bounded by shedding its oldest, from which     *)
(* batches are delivered.  A span is put once and delivered at most once.  *)
(* HTTPReporter implements it.                                             *)
(*                                                                         *)
(* A delivery removes as many spans from the front as it delivers.  They   *)
(* are those very spans as long as none was shed; after that they may be   *)
(* others, which is as much as the reporter's code guarantees.             *)
(***************************************************************************)
EXTENDS Integers, Sequences, Functions

CONSTANTS Spans, Capacity

VARIABLES queue, put, delivered, shed, open

queueVars == <<queue, put, delivered, shed, open>>

Init ==
    /\ queue = <<>> /\ put = {} /\ delivered = {} /\ shed = {}
    /\ open = TRUE

\* The oldest span makes room in a queue that is full.
Put(s) ==
    /\ open
    /\ s \notin put
    /\ put' = put \cup {s}
    /\ \/ /\ Len(queue) < Capacity
          /\ queue' = Append(queue, s)
          /\ UNCHANGED shed
       \/ /\ Len(queue) = Capacity
          /\ queue' = Tail(Append(queue, s))
          /\ shed' = shed \cup {Append(queue, s)[1]}
    /\ UNCHANGED <<delivered, open>>

\* A batch of spans that were put and never delivered.
Batches(n) == Injection(1..n, put \ delivered)

Deliver(n) ==
    /\ n \in 1..Len(queue)
    /\ \E out \in Batches(n) :
        /\ shed = {} => out = SubSeq(queue, 1, n)
        /\ delivered' = delivered \cup Range(out)
    /\ queue' = SubSeq(queue, n + 1, Len(queue))
    /\ UNCHANGED <<put, shed, open>>

Stop ==
    /\ open
    /\ open' = FALSE
    /\ UNCHANGED <<queue, put, delivered, shed>>

QueueNext == \/ \E s \in Spans : Put(s)
             \/ \E n \in 1..Capacity : Deliver(n)
             \/ Stop

QueueSpec == Init /\ [][QueueNext]_queueVars
=============================================================================
