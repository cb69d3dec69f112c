------------------------------ MODULE Samplers ------------------------------
(***************************************************************************)
(* The samplers, sample.go: one of them, and the goroutines that start     *)
(* root spans and ask it.                                                  *)
(*                                                                         *)
(* The counting sampler shares a bit set and an index under a mutex; the   *)
(* others only look at the ID.  Rates are counted in Parts, so that halves *)
(* can be rounded; the bit set has Size bits instead of 100, and IDs have  *)
(* Bits bits instead of 64.                                                *)
(*                                                                         *)
(* Definitions marked Mutant stand before the one they vary: a slip that   *)
(* the properties must catch.  Nothing else uses them.                     *)
(***************************************************************************)
EXTENDS Integers, Sequences, FiniteSets

CONSTANTS
    Goroutines,
    Size,      \* the bits of the counting sampler's bit set
    Parts,     \* a rate of Parts is all
    Bits,      \* the bits of an ID
    Salts,     \* the salts a boundary sampler may have
    Mods,      \* the moduli of a modulo sampler
    NoOne,     \* nobody has the mutex
    MaxAsked   \* a bound on the questions

ASSUME SizeAssumption == Size \in Nat \ {0} /\ Parts \in Nat \ {0} /\ Bits \in Nat \ {0}
ASSUME NoOneAssumption == NoOne \notin Goroutines
ASSUME MaxAskedAssumption == MaxAsked \in Nat
ASSUME SaltsAssumption == Salts \subseteq Int
ASSUME ModsAssumption == Mods \subseteq Nat

VARIABLES
    sampler,    \* the kind of sampler, its rate, and its salt or modulus
    decisions,  \* the bit set of the counting sampler
    chosen,     \* where randomBitSet has put its ones
    filled,     \* the bits that randomBitSet has been through
    index,      \* i, the next decision
    mtx,        \* who has the mutex
    pc,         \* where each goroutine is in the counting sampler
    asked       \* the answers, in the order in which they were found

vars == <<sampler, decisions, chosen, filled, index, mtx, pc, asked>>

\* The powers of two: 1 << n.
Power[n \in 0..Bits] == IF n = 0 THEN 1 ELSE 2 * Power[n - 1]

Ids == 0..(Power[Bits] - 1)

-----------------------------------------------------------------------------
(* The samplers that only look at the ID.                                    *)

\* The exclusive or of two words, bit by bit.
Xor(a, b) ==
    LET low[n \in 0..Bits] ==
            IF n = 0 THEN 0
            ELSE low[n - 1]
                 + Power[n - 1] * ((a \div Power[n - 1] + b \div Power[n - 1]) % 2)
    IN  low[Bits]

\* The proportion of the upper Bits - 1 bits.
Boundary(rate) == (rate * Power[Bits - 1]) \div Parts

\* Mutant: the boundary itself is sampled too.
UpToBoundary(rate, salt, id) == Xor(id, salt % Power[Bits]) \div 2 <= Boundary(rate)

\* A negative salt is converted to a word.
BelowBoundary(rate, salt, id) == Xor(id, salt % Power[Bits]) \div 2 < Boundary(rate)

\* NewModuloSampler: everything for a modulus below 2.
Divides(mod, id) == mod < 2 \/ id % mod = 0

SampledById(s, id) ==
    CASE s.kind = "always" -> TRUE
      [] s.kind = "never" -> FALSE
      [] s.kind = "boundary" -> BelowBoundary(s.rate, s.with, id)
      [] s.kind = "modulo" -> Divides(s.with, id)

\* The extreme rates make NeverSample or AlwaysSample of either kind; a rate that is
\* too small or too large makes none.
New(kind, rate, least) ==
    CASE rate = 0 -> {"never"}
      [] rate = Parts -> {"always"}
      [] rate # 0 /\ rate # Parts /\ (rate * least < Parts \/ rate > Parts) -> {}
      [] OTHER -> {kind}

NewBoundarySampler(rate) == New("boundary", rate, 10000)
NewCountingSampler(rate) == New("counting", rate, Size)

\* int(rate*100 + 0.5)
OutOf(rate) == (2 * rate * Size + Parts) \div (2 * Parts)

Samplers ==
    (UNION {[kind : NewBoundarySampler(rate), rate : {rate}, with : Salts] : rate \in 0..Parts})
    \cup (UNION {[kind : NewCountingSampler(rate), rate : {rate}, with : {0}] : rate \in 0..Parts})
    \cup [kind : {"modulo"}, rate : {0}, with : Mods]

-----------------------------------------------------------------------------
(* The counting sampler.                                                     *)

Positions == 0..(Size - 1)

Counting == sampler.kind = "counting"

\* cardinality, how many ones there shall be.
Ones == IF Counting THEN OutOf(sampler.rate) ELSE 0

\* randomBitSet begins with the ones in front.
Init ==
    /\ sampler \in Samplers
    /\ decisions = [k \in Positions |-> k < Ones]
    /\ chosen = [k \in 0..(Ones - 1) |-> k]
    /\ filled = IF Counting THEN Ones ELSE Size
    /\ index = 0
    /\ mtx = NoOne
    /\ pc = [g \in Goroutines |-> "out"]
    /\ asked = <<>>

\* A round of its loop, with what rnd.Intn(i + 1) gives: bit i may take the place of
\* one of those chosen.
Reserve(j) ==
    /\ filled < Size /\ j <= filled
    /\ IF j < Ones
       THEN /\ decisions' = [decisions EXCEPT ![chosen[j]] = FALSE, ![filled] = TRUE]
            /\ chosen' = [chosen EXCEPT ![j] = filled]
       ELSE UNCHANGED <<decisions, chosen>>
    /\ filled' = filled + 1
    /\ UNCHANGED <<sampler, index, mtx, pc, asked>>

Goto(g, from, to) == pc[g] = from /\ pc' = [pc EXCEPT ![g] = to]

\* Mutant: there is no mutex.
AlwaysFree == TRUE

Free == mtx = NoOne

Lock(g) ==
    /\ Counting /\ filled = Size
    /\ Len(asked) < MaxAsked
    /\ Free
    /\ Goto(g, "out", "locked")
    /\ mtx' = g
    /\ UNCHANGED <<sampler, decisions, chosen, filled, index, asked>>

\* result := decisions[i]
Decide(g) ==
    /\ Goto(g, "locked", "decided")
    /\ asked' = Append(asked, decisions[index])
    /\ UNCHANGED <<sampler, decisions, chosen, filled, index, mtx>>

\* Mutant: one too far.
WrappedLate(i) == IF i > Size THEN 0 ELSE i

Wrapped(i) == IF i = Size THEN 0 ELSE i

Advance(g) ==
    /\ Goto(g, "decided", "advanced")
    /\ index' = Wrapped(index + 1)
    /\ UNCHANGED <<sampler, decisions, chosen, filled, mtx, asked>>

Unlock(g) ==
    /\ Goto(g, "advanced", "out")
    /\ mtx' = NoOne
    /\ UNCHANGED <<sampler, decisions, chosen, filled, index, asked>>

\* The others answer at once.
Ask(id) ==
    /\ ~Counting /\ Len(asked) < MaxAsked
    /\ asked' = Append(asked, SampledById(sampler, id))
    /\ UNCHANGED <<sampler, decisions, chosen, filled, index, mtx, pc>>

Next ==
    \/ \E j \in Positions : Reserve(j)
    \/ \E g \in Goroutines : Lock(g) \/ Decide(g) \/ Advance(g) \/ Unlock(g)
    \/ \E id \in Ids : Ask(id)

Spec == Init /\ [][Next]_vars

-----------------------------------------------------------------------------
(* Properties.                                                               *)

\* Types; while the bit set is made its ones are where they were chosen to be, at
\* as many places as there shall be.
TypeOK ==
    /\ decisions \in [Positions -> BOOLEAN]
    /\ chosen \in [0..(Ones - 1) -> Positions]
    /\ filled \in 0..Size
    /\ index \in Positions
    /\ mtx \in Goroutines \cup {NoOne}
    /\ pc \in [Goroutines -> {"out", "locked", "decided", "advanced"}]
    /\ asked \in Seq(BOOLEAN)
    /\ Counting => \A k \in Positions : decisions[k] <=> \E j \in DOMAIN chosen : chosen[j] = k
    /\ \A j, l \in DOMAIN chosen : chosen[j] = chosen[l] => j = l

\* Any Size answers of the counting sampler in a row have exactly as many ones as the
\* rate says, rounded, wherever they begin and whichever goroutines got them.
WindowExact ==
    Counting =>
        /\ 2 * Ones * Parts - 2 * sampler.rate * Size \in (1 - Parts)..Parts
        /\ \A k \in 0..(Len(asked) - Size) :
            Cardinality({n \in (k + 1)..(k + Size) : asked[n]}) = Ones

\* The IDs a sampler takes.
Taken(s, ids) == {id \in ids : SampledById(s, id)}

\* Of all IDs the boundary sampler takes the share of its rate, to one pair of IDs,
\* whatever the salt; and a service with a higher rate and the same salt takes them
\* all too, so that traces do not break at services with different rates.
BoundaryExact ==
    sampler.kind = "boundary" =>
        LET taken == Taken(sampler, Ids)
        IN  /\ Cardinality(taken) * Parts <= sampler.rate * Power[Bits]
            /\ sampler.rate * Power[Bits] < (Cardinality(taken) + 2) * Parts
            /\ \A higher \in sampler.rate..(Parts - 1) :
                taken \subseteq Taken([sampler EXCEPT !.rate = higher], Ids)

\* The low words the ID generators make: Int63 leaves the highest bit 0.
GeneratedIds == 0..(Power[Bits - 1] - 1)

\* What the comment of NewBoundarySampler says of random trace IDs: the share of the
\* rate is sampled of those that the generators make.
GeneratedAtRate ==
    sampler.kind = "boundary" =>
        LET taken == Cardinality(Taken(sampler, GeneratedIds))
        IN  (taken - 2) * Parts < sampler.rate * Power[Bits - 1]
            /\ sampler.rate * Power[Bits - 1] < (taken + 2) * Parts
=============================================================================
