----------------------------- MODULE MCReporters -----------------------------
(* Reporters on small instances. *)
EXTENDS Reporters, TLC

CONSTANTS c1, c2

\* Words of 10 bits, microseconds of 10 ns, seconds of 3 microseconds.
MCZeroNanos == -437

Base ==
    [trace |-> [high |-> 0, low |-> 7], id |-> 7, parent |-> Nil, debug |-> FALSE,
     kind |-> "CLIENT", name |-> "Get", timestamp |-> 47, duration |-> 25,
     shared |-> FALSE, local |-> [name |-> "Get", addr |-> 1], remote |-> Nil,
     annotations |-> <<52>>]

\* One field off at a time, to either side of where the code changes its mind.
Variants ==
    {Base}
    \cup {[Base EXCEPT !.duration = d] : d \in {-15, -1, 0, 1, 9, 10, 14, 15, 501, 506, 509}}
    \cup {[Base EXCEPT !.timestamp = t] : t \in {NoTime, -36, -1, 0, 29, 30, 34, 35, 504}}
    \cup {[Base EXCEPT !.annotations = a] :
            a \in {<<>>, <<NoTime>>, <<-36>>, <<-4>>, <<4>>, <<5>>, <<52, 55>>}}
    \cup {[Base EXCEPT !.id = 0], [Base EXCEPT !.parent = 3], [Base EXCEPT !.parent = 0],
          [Base EXCEPT !.trace.high = 5], [Base EXCEPT !.debug = TRUE],
          [Base EXCEPT !.shared = TRUE], [Base EXCEPT !.kind = ""], [Base EXCEPT !.local = Nil],
          [Base EXCEPT !.remote = [name |-> "", addr |-> 0]],
          [Base EXCEPT !.remote = [name |-> "", addr |-> 1]]}

\* One call with any of them, one with a span that is fine or not to be marshalled.
MCSpansOf == (c1 :> Variants) @@ (c2 :> {Base, [Base EXCEPT !.duration = -1]})

\* The span of a root and local operation that took next to no time.
MCSpansWithout ==
    [c \in Calls |-> {[Base EXCEPT !.parent = Nil, !.kind = "", !.duration = 1]}]
=============================================================================
