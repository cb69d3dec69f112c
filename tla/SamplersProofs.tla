--------------------------- MODULE SamplersProofs ---------------------------
(* Theorems about Samplers, for a bit set of any size, words of any length,    *)
(* any rate and salt, any draws of randomBitSet and any number of goroutines.  *)
EXTENDS Samplers, FiniteSetTheorems, WellFoundedInduction, TLAPS

-----------------------------------------------------------------------------
(* The inductive invariant.                                                  *)

\* Where the sampler is in the bit set, m answers ago.
Back(p, m) == IF m <= p THEN p - m ELSE p - m + Size

\* The position of the next answer; index lags behind it once it is found.
Cursor == IF \E g \in Goroutines : pc[g] = "decided" THEN Wrapped(index + 1) ELSE index

\* The sampler is one that the constructors make.
Made == sampler \in Samplers

\* The ones that are chosen are among the bits that randomBitSet has been through,
\* and nobody asks before it is done.
Filling ==
    /\ Counting => \A j \in DOMAIN chosen : chosen[j] < filled
    /\ filled < Size => Counting /\ asked = <<>> /\ \A g \in Goroutines : pc[g] = "out"

\* Whoever is inside has the mutex, so that only one is.
Exclusive == \A g \in Goroutines : pc[g] # "out" => mtx = g

\* The last answers are what lies behind the cursor.
Answers ==
    Counting =>
        \A m \in 1..Size :
            m <= Len(asked) => asked[Len(asked) + 1 - m] = decisions[Back(Cursor, m)]

\* What was answered before the last Size answers is told by the windows themselves.
Windows ==
    Counting =>
        \A k \in 0..(Len(asked) - Size) :
            Cardinality({n \in (k + 1)..(k + Size) : asked[n]}) = Ones

IInv == TypeOK /\ Made /\ Filling /\ Exclusive /\ Answers /\ Windows

-----------------------------------------------------------------------------
(* Natural numbers and recursive functions on them.                          *)

\* Every set of natural numbers has a least: whatever holds of no least number that
\* lacks it holds of all.
LEMMA Smallest ==
    ASSUME NEW T, T \subseteq Nat, T # {}
    PROVE  \E n \in T : \A m \in T : n <= m
<1>. DEFINE R == {ss \in Nat \X Nat : ss[1] < ss[2]}
<1>1. IsWellFoundedOn(R, Nat)
    BY NatLessThanWellFounded DEF OpToRel
<1>2. \A m, n \in Nat : m < n => <<m, n>> \in R
    OBVIOUS
<1>. HIDE DEF R
<1>3. PICK n \in T : \A m \in T : ~ (<<m, n>> \in R)
    BY <1>1, WFMin
<1>4. ASSUME NEW m \in T PROVE n <= m
    <2>1. m \in Nat /\ n \in Nat
        OBVIOUS
    <2>2. ~ (m < n)
        BY <1>2, <1>3, <2>1
    <2>. QED
        BY <2>1, <2>2
<1>. QED
    BY <1>4

\* f begins with first and goes on as step says.
Follows(f, len, S, first, step) ==
    /\ f \in [0..len -> S] /\ f[0] = first
    /\ \A n \in 1..len : f[n] = step[<<n, f[n - 1]>>]

\* A recursive definition on 0..len has a function that satisfies it.
LEMMA Recursion ==
    ASSUME NEW len \in Nat, NEW S, NEW first \in S, NEW step \in [(1..len) \X S -> S]
    PROVE  \E f : Follows(f, len, S, first, step)
<1>. DEFINE Upto(k, f) == Follows(f, k, S, first, step)
            Bad == {k \in 0..len : ~ \E f : Upto(k, f)}
<1>1. Bad = {}
    <2>. USE DEF Follows
    <2>. SUFFICES ASSUME Bad # {} PROVE FALSE
        OBVIOUS
    <2>0. Bad \subseteq Nat
        OBVIOUS
    <2>1. PICK k \in Bad : \A m \in Bad : k <= m
        <3>. HIDE DEF Bad
        <3>. QED
            BY <2>0, Smallest
    <2>2. k \in 0..len /\ ~ \E f : Upto(k, f)
        OBVIOUS
    <2>3. CASE k = 0
        <3>1. Upto(0, [n \in 0..0 |-> first])
            OBVIOUS
        <3>. QED
            BY <2>2, <2>3, <3>1
    <2>4. CASE k # 0
        <3>0. k - 1 \notin Bad
            <4>. HIDE DEF Bad
            <4>. QED
                BY <2>1, <2>2, <2>4
        <3>1. k - 1 \in 0..len /\ k - 1 \notin Bad
            BY <3>0, <2>2, <2>4
        <3>2. PICK f : Upto(k - 1, f)
            BY <3>1
        <3>3. PICK last : last = step[<<k, f[k - 1]>>]
            OBVIOUS
        <3>4. last \in S
            BY <2>2, <2>4, <3>2, <3>3
        <3>5. PICK g : g = [n \in 0..k |-> IF n = k THEN last ELSE f[n]]
            OBVIOUS
        <3>6. g \in [0..k -> S] /\ g[0] = first
            BY <2>2, <2>4, <3>2, <3>4, <3>5
        <3>7. ASSUME NEW n \in 1..k PROVE g[n] = step[<<n, g[n - 1]>>]
            <4>1. g[n - 1] = f[n - 1]
                BY <2>2, <3>5
            <4>2. CASE n = k
                <5>1. g[n] = last
                    BY <2>2, <3>5, <4>2
                <5>. QED
                    BY <5>1, <4>1, <4>2, <3>3
            <4>3. CASE n # k
                <5>1. n \in 1..(k - 1) /\ g[n] = f[n]
                    BY <2>2, <3>5, <4>3
                <5>2. f[n] = step[<<n, f[n - 1]>>]
                    BY <5>1, <3>2
                <5>. QED
                    BY <5>1, <5>2, <4>1
            <4>. QED
                BY <4>2, <4>3
        <3>8. Upto(k, g)
            BY <3>6, <3>7
        <3>. QED
            BY <2>2, <3>6, <3>8
    <2>. QED
        BY <2>3, <2>4
<1>2. len \in 0..len
    OBVIOUS
<1>3. \E f : Upto(len, f)
    BY <1>1, <1>2
<1>. QED
    BY <1>3

-----------------------------------------------------------------------------
(* Arithmetic.                                                               *)

\* A number is told by its quotient and its remainder.
LEMMA Euclid ==
    ASSUME NEW a \in Int, NEW b \in Nat \ {0}
    PROVE  /\ a \div b \in Int /\ a % b \in 0..(b - 1)
           /\ a = b * (a \div b) + (a % b)
OBVIOUS

LEMMA EuclidUnique ==
    ASSUME NEW b \in Nat \ {0}, NEW q \in Int, NEW p \in Int,
           NEW r \in 0..(b - 1), NEW s \in 0..(b - 1), b * q + r = b * p + s
    PROVE  q = p /\ r = s
<1>1. ASSUME q < p PROVE FALSE
    <2>1. b * (p - q) >= b
        BY <1>1
    <2>. QED
        BY <2>1
<1>2. ASSUME p < q PROVE FALSE
    <2>1. b * (q - p) >= b
        BY <1>2
    <2>. QED
        BY <2>1
<1>. QED
    BY <1>1, <1>2

LEMMA DivMod ==
    ASSUME NEW b \in Nat \ {0}, NEW a \in Int, NEW q \in Int, NEW r \in 0..(b - 1),
           a = b * q + r
    PROVE  a \div b = q /\ a % b = r
BY Euclid, EuclidUnique

\* One more bit of a number.
LEMMA OneMoreBit ==
    ASSUME NEW a \in Int, NEW p \in Nat \ {0}
    PROVE  a % (2 * p) = p * ((a \div p) % 2) + (a % p)
<1>1. PICK q, r : q = a \div p /\ r = a % p
    OBVIOUS
<1>2. PICK h, t : h = q \div 2 /\ t = q % 2
    OBVIOUS
<1>3. q \in Int /\ r \in 0..(p - 1) /\ a = p * q + r
    BY <1>1, Euclid
<1>4. h \in Int /\ t \in 0..1 /\ q = 2 * h + t
    BY <1>2, <1>3
<1>5. 2 * p \in Nat \ {0} /\ p * t \in {0, p}
    BY <1>4
<1>6. p * t + r \in 0..(2 * p - 1)
    BY <1>3, <1>5
<1>7. a = (2 * p) * h + (p * t + r)
    <2>1. p * q = p * (2 * h) + p * t
        BY <1>4
    <2>2. p * (2 * h) = (2 * p) * h
        BY <1>4
    <2>. QED
        BY <1>3, <1>4, <1>5, <2>1, <2>2
<1>8. a % (2 * p) = p * t + r
    BY <1>4, <1>5, <1>6, <1>7, DivMod
<1>. QED
    BY <1>1, <1>2, <1>8

\* The sum with the same number tells whether a number is even.
LEMMA SameParity ==
    ASSUME NEW a \in Int, NEW b \in Int, NEW c \in Int, (a + c) % 2 = (b + c) % 2
    PROVE  a % 2 = b % 2
OBVIOUS

\* The number of ones is the rate of all bits, rounded, and not more than all.
LEMMA OnesRounded ==
    ASSUME NEW rate \in 0..Parts
    PROVE  /\ OutOf(rate) \in 0..Size
           /\ 2 * OutOf(rate) * Parts - 2 * rate * Size \in (1 - Parts)..Parts
<1>. DEFINE n == 2 * rate * Size + Parts
            d == 2 * Parts
            q == n \div d
<1>1. rate * Size \in Nat /\ rate * Size <= Parts * Size /\ Parts * Size \in Nat
    BY SizeAssumption
<1>2. n \in Nat /\ d \in Nat \ {0} /\ n <= d * Size + Parts
    BY <1>1, SizeAssumption
<1>3. q \in Int /\ d * q <= n /\ n < d * q + d
    <2>. HIDE DEF n, d
    <2>. QED
        BY <1>2
<1>4. q >= 0
    <2>. SUFFICES ASSUME q <= -1 PROVE FALSE
        BY <1>3
    <2>1. d * q <= -d
        BY <1>2, <1>3
    <2>. QED
        BY <2>1, <1>2, <1>3
<1>5. q <= Size
    <2>. SUFFICES ASSUME q >= Size + 1 PROVE FALSE
        BY <1>3, SizeAssumption
    <2>1. d * q >= d * Size + d
        BY <1>2, <1>3, SizeAssumption
    <2>. QED
        BY <2>1, <1>2, <1>3, SizeAssumption
<1>6. OutOf(rate) = q
    BY DEF OutOf
<1>7. 2 * q * Parts = d * q
    BY <1>3, SizeAssumption
<1>. QED
    BY <1>1, <1>3, <1>4, <1>5, <1>6, <1>7, SizeAssumption

\* Going back from p by 1 to Size answers passes every position once.
LEMMA BackBijection ==
    ASSUME NEW p \in Positions
    PROVE  /\ \A m \in 1..Size : Back(p, m) \in Positions
           /\ \A m, l \in 1..Size : Back(p, m) = Back(p, l) => m = l
           /\ \A k \in Positions : \E m \in 1..Size : Back(p, m) = k
<1>1. \A m \in 1..Size : Back(p, m) \in Positions
    BY SizeAssumption DEF Back, Positions
<1>2. \A m, l \in 1..Size : Back(p, m) = Back(p, l) => m = l
    BY SizeAssumption DEF Back, Positions
<1>3. ASSUME NEW k \in Positions PROVE \E m \in 1..Size : Back(p, m) = k
    <2>1. CASE k < p
        <3>1. p - k \in 1..Size /\ Back(p, p - k) = k
            BY <2>1, SizeAssumption DEF Back, Positions
        <3>. QED
            BY <3>1
    <2>2. CASE k >= p
        <3>1. p - k + Size \in 1..Size /\ Back(p, p - k + Size) = k
            BY <2>2, SizeAssumption DEF Back, Positions
        <3>. QED
            BY <3>1
    <2>. QED
        BY <2>1, <2>2, SizeAssumption DEF Positions
<1>. QED
    BY <1>1, <1>2, <1>3

\* One answer moves the cursor on, so that what lay m behind it lies m + 1 behind.
LEMMA BackAgain ==
    ASSUME NEW p \in Positions
    PROVE  /\ Wrapped(p + 1) \in Positions
           /\ Back(Wrapped(p + 1), 1) = p
           /\ \A m \in 2..Size : Back(Wrapped(p + 1), m) = Back(p, m - 1)
BY SizeAssumption DEF Back, Wrapped, Positions

-----------------------------------------------------------------------------
(* Counting.                                                                 *)

\* A window whose answers are the bits behind p, the last one first, has as many ones
\* as the bit set.
LEMMA WindowCounted ==
    ASSUME NEW bits \in [Positions -> BOOLEAN], NEW p \in Positions,
           NEW answers \in Seq(BOOLEAN), Len(answers) >= Size,
           IsFiniteSet({k \in Positions : bits[k]}),
           \A m \in 1..Size : answers[Len(answers) + 1 - m] = bits[Back(p, m)]
    PROVE  Cardinality({n \in (Len(answers) - Size + 1)..Len(answers) : answers[n]})
             = Cardinality({k \in Positions : bits[k]})
<1>. DEFINE W == {n \in (Len(answers) - Size + 1)..Len(answers) : answers[n]}
            T == {k \in Positions : bits[k]}
            f == [n \in W |-> Back(p, Len(answers) + 1 - n)]
            m(n) == Len(answers) + 1 - n
<1>0. Len(answers) \in Nat /\ Size \in Nat \ {0}
    BY SizeAssumption
<1>1. \A n \in (Len(answers) - Size + 1)..Len(answers) :
            m(n) \in 1..Size /\ Len(answers) + 1 - m(n) = n
    BY <1>0
<1>2. \A n \in W : f[n] \in T
    <2>. TAKE n \in W
    <2>1. m(n) \in 1..Size /\ Len(answers) + 1 - m(n) = n /\ answers[n]
        BY <1>1
    <2>2. answers[n] = bits[Back(p, m(n))] /\ Back(p, m(n)) \in Positions
        BY <2>1, BackBijection
    <2>. QED
        BY <2>1, <2>2
<1>3. \A n, l \in W : f[n] = f[l] => n = l
    <2>. SUFFICES ASSUME NEW n \in W, NEW l \in W, f[n] = f[l] PROVE n = l
        OBVIOUS
    <2>1. m(n) \in 1..Size /\ m(l) \in 1..Size /\ Back(p, m(n)) = Back(p, m(l))
        BY <1>1
    <2>2. m(n) = m(l)
        BY <2>1, BackBijection
    <2>. QED
        BY <2>2, <1>0
<1>4. \A k \in T : \E n \in W : f[n] = k
    <2>. TAKE k \in T
    <2>1. PICK j \in 1..Size : Back(p, j) = k
        BY BackBijection
    <2>2. Len(answers) + 1 - j \in (Len(answers) - Size + 1)..Len(answers)
          /\ m(Len(answers) + 1 - j) = j
        BY <1>0
    <2>3. answers[Len(answers) + 1 - j]
        BY <2>1
    <2>4. Len(answers) + 1 - j \in W
        BY <2>2, <2>3
    <2>5. f[Len(answers) + 1 - j] = k
        BY <2>1, <2>2, <2>4
    <2>. QED
        BY <2>4, <2>5
<1>5. f \in Bijection(W, T)
    BY <1>2, <1>3, <1>4 DEF Bijection, Injection, Surjection, IsInjective
<1>6. IsFiniteSet(W)
    <2>1. IsFiniteSet((Len(answers) - Size + 1)..Len(answers))
        BY <1>0, FS_Interval
    <2>. QED
        BY <2>1, FS_Subset
<1>. QED
    BY <1>5, <1>6, FS_Bijection DEF ExistsBijection

-----------------------------------------------------------------------------
(* The boundary sampler.                                                     *)

\* The powers of two.
LEMMA PowerIs ==
    /\ Power \in [0..Bits -> Nat \ {0}]
    /\ Power[0] = 1
    /\ \A n \in 1..Bits : Power[n] = 2 * Power[n - 1]
<1>. DEFINE step == [p \in (1..Bits) \X (Nat \ {0}) |-> 2 * p[2]]
<1>1. step \in [(1..Bits) \X (Nat \ {0}) -> Nat \ {0}]
    OBVIOUS
<1>. HIDE DEF step
<1>2. PICK S : S = Nat \ {0}
    OBVIOUS
<1>3. Bits \in Nat /\ 1 \in S /\ step \in [(1..Bits) \X S -> S]
    BY <1>1, <1>2, SizeAssumption
<1>4. PICK f : Follows(f, Bits, S, 1, step)
    BY <1>3, Recursion
<1>5. ASSUME NEW n \in 1..Bits PROVE f[n] = 2 * f[n - 1]
    <2>1. n - 1 \in 0..Bits /\ f[n - 1] \in Nat \ {0}
        BY <1>2, <1>4, SizeAssumption DEF Follows
    <2>2. <<n, f[n - 1]>> \in (1..Bits) \X (Nat \ {0})
        BY <2>1
    <2>3. step[<<n, f[n - 1]>>] = 2 * f[n - 1]
        BY <2>2 DEF step
    <2>. QED
        BY <1>4, <2>3 DEF Follows
<1>6. f = [n \in 0..Bits |-> IF n = 0 THEN 1 ELSE 2 * f[n - 1]]
    BY <1>4, <1>5, SizeAssumption DEF Follows
<1>7. Power = [n \in 0..Bits |-> IF n = 0 THEN 1 ELSE 2 * Power[n - 1]]
    BY <1>6 DEF Power
<1>8. Power[0] = 1 /\ \A n \in 1..Bits : Power[n] = 2 * Power[n - 1]
    BY <1>7, SizeAssumption
<1>9. \A n \in 0..Bits : Power[n] \in Nat \ {0}
    <2>. DEFINE Bad == {n \in 0..Bits : Power[n] \notin Nat \ {0}}
    <2>. SUFFICES ASSUME Bad # {} PROVE FALSE
        OBVIOUS
    <2>0. Bad \subseteq Nat
        OBVIOUS
    <2>. HIDE DEF Bad
    <2>1. PICK n \in Bad : \A m \in Bad : n <= m
        BY <2>0, Smallest
    <2>2. n \in 0..Bits /\ n # 0
        BY <1>8, <2>1 DEF Bad
    <2>3. n \in 1..Bits /\ n - 1 \notin Bad
        BY <2>0, <2>1, <2>2
    <2>4. Power[n - 1] \in Nat \ {0}
        BY <2>2, <2>3, SizeAssumption DEF Bad
    <2>. QED
        BY <1>8, <2>1, <2>3, <2>4 DEF Bad
<1>. QED
    BY <1>7, <1>8, <1>9

\* Bit n of the exclusive or.
Bit(a, b, n) == (a \div Power[n] + b \div Power[n]) % 2

\* Its lower bits.
XorLow(a, b) ==
    LET low[n \in 0..Bits] ==
            IF n = 0 THEN 0
            ELSE low[n - 1]
                 + Power[n - 1] * ((a \div Power[n - 1] + b \div Power[n - 1]) % 2)
    IN  low

\* Their last is the exclusive or.
LEMMA XorIs ==
    ASSUME NEW a \in Nat, NEW b \in Nat
    PROVE  Xor(a, b) = XorLow(a, b)[Bits]
BY DEF Xor, XorLow

\* A bit is one.
LEMMA BitIs ==
    ASSUME NEW a \in Int, NEW b \in Int, NEW n \in 0..Bits
    PROVE  Bit(a, b, n) \in {0, 1}
<1>1. Power[n] \in Nat \ {0}
    BY PowerIs
<1>2. PICK q, r : q = a \div Power[n] /\ r = b \div Power[n]
    OBVIOUS
<1>3. q \in Int /\ r \in Int
    BY <1>1, <1>2, Euclid
<1>4. (q + r) % 2 \in {0, 1}
    BY <1>3
<1>. QED
    BY <1>2, <1>4 DEF Bit

\* Each bit adds its power of two to the bits below it.
LEMMA LowIs ==
    ASSUME NEW a \in Int, NEW b \in Int
    PROVE  /\ XorLow(a, b) \in [0..Bits -> Int]
           /\ XorLow(a, b)[0] = 0
           /\ \A n \in 1..Bits :
                XorLow(a, b)[n] = XorLow(a, b)[n - 1] + Power[n - 1] * Bit(a, b, n - 1)
<1>. DEFINE step == [p \in (1..Bits) \X Int |-> p[2] + Power[p[1] - 1] * Bit(a, b, p[1] - 1)]
<1>0. \A n \in 1..Bits : n - 1 \in 0..Bits
    BY SizeAssumption
<1>1. step \in [(1..Bits) \X Int -> Int]
    <2>1. \A p \in (1..Bits) \X Int : p[2] + Power[p[1] - 1] * Bit(a, b, p[1] - 1) \in Int
        BY <1>0, BitIs, PowerIs
    <2>. QED
        BY <2>1
<1>2. \A n \in 1..Bits, x \in Int : step[<<n, x>>] = x + Power[n - 1] * Bit(a, b, n - 1)
    OBVIOUS
<1>. HIDE DEF step
<1>3. PICK f : Follows(f, Bits, Int, 0, step)
    <2>1. Bits \in Nat /\ 0 \in Int
        BY SizeAssumption
    <2>. QED
        BY <1>1, <2>1, Recursion
<1>4. ASSUME NEW n \in 1..Bits PROVE f[n] = f[n - 1] + Power[n - 1] * Bit(a, b, n - 1)
    BY <1>0, <1>2, <1>3 DEF Follows
<1>5. f = [n \in 0..Bits |-> IF n = 0 THEN 0 ELSE f[n - 1] + Power[n - 1] * Bit(a, b, n - 1)]
    BY <1>3, <1>4, SizeAssumption DEF Follows
<1>6. PICK low : low = XorLow(a, b)
    OBVIOUS
<1>7. low = [n \in 0..Bits |-> IF n = 0 THEN 0 ELSE low[n - 1] + Power[n - 1] * Bit(a, b, n - 1)]
    BY <1>5, <1>6 DEF XorLow, Bit
<1>8. low[0] = 0 /\ \A n \in 1..Bits : low[n] = low[n - 1] + Power[n - 1] * Bit(a, b, n - 1)
    <2>. HIDE DEF Bit
    <2>. QED
        BY <1>7, SizeAssumption
<1>9. \A n \in 0..Bits : low[n] \in Int
    <2>. DEFINE Bad == {n \in 0..Bits : low[n] \notin Int}
    <2>. SUFFICES ASSUME Bad # {} PROVE FALSE
        OBVIOUS
    <2>0. Bad \subseteq Nat
        OBVIOUS
    <2>. HIDE DEF Bad
    <2>1. PICK n \in Bad : \A m \in Bad : n <= m
        BY <2>0, Smallest
    <2>2. n \in 0..Bits /\ n # 0
        BY <1>8, <2>1 DEF Bad
    <2>3. n \in 1..Bits /\ n - 1 \notin Bad
        BY <2>0, <2>1, <2>2
    <2>4. low[n - 1] \in Int
        BY <2>2, <2>3, SizeAssumption DEF Bad
    <2>5. Power[n - 1] * Bit(a, b, n - 1) \in Int
        <3>1. n - 1 \in 0..Bits
            BY <1>0, <2>3
        <3>2. Power[n - 1] \in Int /\ Bit(a, b, n - 1) \in Int
            BY <3>1, BitIs, PowerIs
        <3>. QED
            BY <3>2
    <2>. QED
        BY <1>8, <2>1, <2>3, <2>4, <2>5 DEF Bad
<1>. QED
    BY <1>6, <1>7, <1>8, <1>9

\* The lower bits stay below the next power of two.
LEMMA LowInRange ==
    ASSUME NEW a \in Int, NEW b \in Int
    PROVE  \A n \in 0..Bits : XorLow(a, b)[n] \in 0..(Power[n] - 1)
<1>. DEFINE low == XorLow(a, b)
            Bad == {n \in 0..Bits : low[n] \notin 0..(Power[n] - 1)}
<1>. SUFFICES ASSUME Bad # {} PROVE FALSE
    OBVIOUS
<1>0. Bad \subseteq Nat
    OBVIOUS
<1>. HIDE DEF Bad
<1>1. PICK n \in Bad : \A m \in Bad : n <= m
    BY <1>0, Smallest
<1>2. n \in 0..Bits /\ n # 0
    <2>1. n \in 0..Bits /\ low[n] \notin 0..(Power[n] - 1)
        BY <1>1 DEF Bad
    <2>2. low[0] = 0 /\ Power[0] = 1
        BY LowIs, PowerIs
    <2>. QED
        BY <2>1, <2>2
<1>3. n \in 1..Bits /\ n - 1 \notin Bad
    BY <1>0, <1>1, <1>2
<1>4. n - 1 \in 0..Bits /\ low[n - 1] \in 0..(Power[n - 1] - 1)
    BY <1>2, <1>3, SizeAssumption DEF Bad
<1>5. Power[n - 1] * Bit(a, b, n - 1) \in {0, Power[n - 1]}
    BY <1>4, BitIs, PowerIs
<1>6. low[n] = low[n - 1] + Power[n - 1] * Bit(a, b, n - 1) /\ Power[n] = 2 * Power[n - 1]
    BY <1>3, LowIs, PowerIs
<1>7. Power[n - 1] \in Nat \ {0}
    BY <1>4, PowerIs
<1>8. low[n] \in 0..(Power[n] - 1)
    <2>. HIDE DEF low
    <2>. QED
        BY <1>4, <1>5, <1>6, <1>7
<1>. QED
    BY <1>1, <1>8 DEF Bad

\* Words whose exclusive ors with the same word agree in the lower bits agree there.
LEMMA LowDetermines ==
    ASSUME NEW a \in Int, NEW b \in Int, NEW w \in Int
    PROVE  \A n \in 0..Bits :
             XorLow(a, w)[n] = XorLow(b, w)[n] => a % Power[n] = b % Power[n]
<1>. DEFINE Bad == {n \in 0..Bits :
                ~ (XorLow(a, w)[n] = XorLow(b, w)[n] => a % Power[n] = b % Power[n])}
<1>. SUFFICES ASSUME Bad # {} PROVE FALSE
    OBVIOUS
<1>0. Bad \subseteq Nat
    OBVIOUS
<1>. HIDE DEF Bad
<1>1. PICK n \in Bad : \A m \in Bad : n <= m
    BY <1>0, Smallest
<1>2. n \in 0..Bits /\ XorLow(a, w)[n] = XorLow(b, w)[n] /\ a % Power[n] # b % Power[n]
    BY <1>1 DEF Bad
<1>3. n # 0
    <2>1. a % 1 = 0 /\ b % 1 = 0
        OBVIOUS
    <2>. QED
        BY <1>2, <2>1, PowerIs
<1>4. n \in 1..Bits /\ n - 1 \in 0..Bits /\ n - 1 \notin Bad
    BY <1>0, <1>1, <1>2, <1>3, SizeAssumption
<1>5. PICK p : p = Power[n - 1]
    OBVIOUS
<1>6. p \in Nat \ {0} /\ Power[n] = 2 * p
    BY <1>4, <1>5, PowerIs
<1>7. PICK la, lb, ba, bb :
        /\ la = XorLow(a, w)[n - 1] /\ lb = XorLow(b, w)[n - 1]
        /\ ba = Bit(a, w, n - 1) /\ bb = Bit(b, w, n - 1)
    OBVIOUS
<1>8. la \in 0..(p - 1) /\ lb \in 0..(p - 1) /\ ba \in {0, 1} /\ bb \in {0, 1}
    BY <1>4, <1>5, <1>7, LowInRange, BitIs
<1>9. p * ba + la = p * bb + lb
    <2>1. la + p * ba = lb + p * bb
        BY <1>2, <1>4, <1>5, <1>7, LowIs
    <2>2. p * ba \in Int /\ p * bb \in Int
        BY <1>6, <1>8
    <2>. QED
        BY <1>8, <2>1, <2>2
<1>10. la = lb /\ ba = bb
    BY <1>6, <1>8, <1>9, EuclidUnique
<1>11. a % p = b % p
    BY <1>4, <1>5, <1>7, <1>10 DEF Bad
<1>12. (a \div p) % 2 = (b \div p) % 2
    <2>1. PICK qa, qb, qw : qa = a \div p /\ qb = b \div p /\ qw = w \div p
        OBVIOUS
    <2>2. qa \in Int /\ qb \in Int /\ qw \in Int
        BY <2>1, <1>6, Euclid
    <2>3. (qa + qw) % 2 = (qb + qw) % 2
        BY <2>1, <1>5, <1>7, <1>10 DEF Bit
    <2>4. qa % 2 = qb % 2
        BY <2>2, <2>3, SameParity
    <2>. QED
        BY <2>1, <2>4
<1>13. a % (2 * p) = b % (2 * p)
    <2>1. PICK t, r : t = (a \div p) % 2 /\ r = a % p
        OBVIOUS
    <2>2. a % (2 * p) = p * t + r
        BY <1>6, <2>1, OneMoreBit
    <2>3. b % (2 * p) = p * t + r
        BY <1>6, <1>11, <1>12, <2>1, OneMoreBit
    <2>. QED
        BY <2>2, <2>3
<1>. QED
    BY <1>2, <1>6, <1>13

\* There are finitely many IDs.
LEMMA IdsFinite == IsFiniteSet(Ids)
<1>1. PICK n : n = Power[Bits] - 1
    OBVIOUS
<1>2. n \in Int /\ 0 \in Int
    BY <1>1, PowerIs, SizeAssumption
<1>3. IsFiniteSet(0..n)
    BY <1>2, FS_Interval
<1>. QED
    BY <1>1, <1>3 DEF Ids

\* The exclusive or with a word exchanges the words.
LEMMA XorBijection ==
    ASSUME NEW w \in Ids
    PROVE  /\ \A a \in Ids : Xor(a, w) \in Ids
           /\ \A a, b \in Ids : Xor(a, w) = Xor(b, w) => a = b
           /\ \A k \in Ids : \E a \in Ids : Xor(a, w) = k
<1>0. /\ Bits \in 0..Bits /\ Power[Bits] \in Nat \ {0}
      /\ Ids \subseteq Nat /\ Ids = 0..(Power[Bits] - 1)
    BY PowerIs, SizeAssumption DEF Ids
<1>1. ASSUME NEW a \in Ids PROVE Xor(a, w) \in Ids
    <2>1. a \in Nat /\ w \in Nat /\ a \in Int /\ w \in Int
        BY <1>0
    <2>2. Xor(a, w) = XorLow(a, w)[Bits]
        BY <2>1, XorIs
    <2>3. XorLow(a, w)[Bits] \in 0..(Power[Bits] - 1)
        BY <1>0, <2>1, LowInRange
    <2>. QED
        BY <1>0, <2>2, <2>3
<1>2. ASSUME NEW a \in Ids, NEW b \in Ids, Xor(a, w) = Xor(b, w) PROVE a = b
    <2>1. a \in Int /\ b \in Int /\ w \in Int
        BY <1>0
    <2>2. XorLow(a, w)[Bits] = XorLow(b, w)[Bits]
        BY <1>0, <1>2, XorIs
    <2>3. a % Power[Bits] = b % Power[Bits]
        BY <1>0, <2>1, <2>2, LowDetermines
    <2>4. PICK p : p = Power[Bits]
        OBVIOUS
    <2>5. p \in Nat \ {0} /\ a \in 0..(p - 1) /\ b \in 0..(p - 1)
        BY <1>0, <2>4
    <2>6. a = p * 0 + a /\ b = p * 0 + b
        BY <2>5
    <2>7. a % p = a /\ b % p = b
        BY <2>5, <2>6, DivMod
    <2>. QED
        BY <2>3, <2>4, <2>7
<1>3. PICK f : f = [a \in Ids |-> Xor(a, w)]
    OBVIOUS
<1>4. f \in Injection(Ids, Ids)
    BY <1>1, <1>2, <1>3 DEF Injection, IsInjective
<1>5. IsFiniteSet(Ids)
    BY IdsFinite
<1>6. f \in Surjection(Ids, Ids)
    BY <1>4, <1>5, FS_Injection
<1>7. \A k \in Ids : \E a \in Ids : Xor(a, w) = k
    BY <1>3, <1>6 DEF Surjection
<1>. QED
    BY <1>1, <1>2, <1>7

\* The word of a salt is an ID, and the boundary at most half their number.
LEMMA SaltAndBoundary ==
    ASSUME NEW rate \in 0..Parts, NEW salt \in Int
    PROVE  /\ salt % Power[Bits] \in Ids
           /\ Power[Bits] \in Nat \ {0} /\ Power[Bits] = 2 * Power[Bits - 1]
           /\ Boundary(rate) \in Nat /\ 2 * Boundary(rate) <= Power[Bits]
           /\ Parts * Boundary(rate) <= rate * Power[Bits - 1]
           /\ rate * Power[Bits - 1] < Parts * (Boundary(rate) + 1)
<1>1. PICK half : half = Power[Bits - 1]
    OBVIOUS
<1>2. half \in Nat \ {0} /\ Power[Bits] = 2 * half /\ Power[Bits] \in Nat \ {0}
    BY <1>1, PowerIs, SizeAssumption
<1>3. salt % Power[Bits] \in Ids
    BY <1>2, Euclid DEF Ids
<1>4. PICK n, q : n = rate * half /\ q = n \div Parts
    OBVIOUS
<1>5. n \in Nat /\ n <= Parts * half
    BY <1>2, <1>4, SizeAssumption
<1>6. q \in Int /\ Parts * q <= n /\ n < Parts * (q + 1)
    <2>1. PICK r : r = n % Parts
        OBVIOUS
    <2>2. q \in Int /\ r \in 0..(Parts - 1) /\ n = Parts * q + r
        <3>1. n \in Int /\ Parts \in Nat \ {0}
            BY <1>5, SizeAssumption
        <3>. QED
            BY <1>4, <2>1, <3>1, Euclid
    <2>3. Parts * (q + 1) = Parts * q + Parts
        BY <2>2, SizeAssumption
    <2>. QED
        BY <2>2, <2>3, SizeAssumption
<1>7. q >= 0
    <2>. SUFFICES ASSUME q + 1 <= 0 PROVE FALSE
        BY <1>6
    <2>1. Parts * (q + 1) <= 0
        <3>1. Parts * (-(q + 1)) >= 0
            BY <1>6, SizeAssumption
        <3>. QED
            BY <3>1, <1>6, SizeAssumption
    <2>2. Parts * (q + 1) \in Int
        BY <1>6, SizeAssumption
    <2>. QED
        BY <2>1, <2>2, <1>5, <1>6
<1>8. q <= half
    <2>. SUFFICES ASSUME q >= half + 1 PROVE FALSE
        BY <1>2, <1>6
    <2>1. Parts * q >= Parts * half + Parts
        BY <1>2, <1>6, SizeAssumption
    <2>. QED
        BY <2>1, <1>2, <1>5, <1>6, SizeAssumption
<1>9. Boundary(rate) = q
    BY <1>1, <1>4 DEF Boundary
<1>. QED
    BY <1>1, <1>2, <1>3, <1>4, <1>6, <1>7, <1>8, <1>9

\* As many IDs are below the boundary as there are words below twice the boundary.
LEMMA BelowCounted ==
    ASSUME NEW rate \in 0..Parts, NEW salt \in Int
    PROVE  Cardinality({id \in Ids : BelowBoundary(rate, salt, id)}) = 2 * Boundary(rate)
<1>. DEFINE B == Boundary(rate)
            w == salt % Power[Bits]
            T == {id \in Ids : BelowBoundary(rate, salt, id)}
            f == [id \in T |-> Xor(id, w)]
<1>0. /\ w \in Ids /\ B \in Nat /\ 2 * B <= Power[Bits] /\ Power[Bits] \in Nat
      /\ Ids = 0..(Power[Bits] - 1)
    BY SaltAndBoundary DEF Ids
<1>. HIDE DEF B
<1>1. \A n \in Nat : n \div 2 < B <=> n < 2 * B
    BY <1>0
<1>2. \A id \in Ids : id \in T <=> Xor(id, w) \in 0..(2 * B - 1)
    <2>. TAKE id \in Ids
    <2>1. id \in T <=> Xor(id, w) \div 2 < B
        BY DEF BelowBoundary, B
    <2>2. Xor(id, w) \in Nat
        BY <1>0, XorBijection
    <2>. QED
        BY <1>0, <1>1, <2>1, <2>2
<1>. HIDE DEF w
<1>3. \A id \in T : id \in Ids
    OBVIOUS
<1>. HIDE DEF T
<1>4. \A id \in T : f[id] \in 0..(2 * B - 1)
    BY <1>2, <1>3
<1>5. \A a, b \in T : f[a] = f[b] => a = b
    BY <1>0, <1>3, XorBijection
<1>6. \A k \in 0..(2 * B - 1) : \E id \in T : f[id] = k
    <2>. TAKE k \in 0..(2 * B - 1)
    <2>1. k \in Ids
        BY <1>0
    <2>2. PICK id \in Ids : Xor(id, w) = k
        BY <1>0, <2>1, XorBijection
    <2>3. id \in T
        BY <1>2, <2>2
    <2>. QED
        BY <2>2, <2>3
<1>7. f \in Bijection(T, 0..(2 * B - 1))
    BY <1>4, <1>5, <1>6 DEF Bijection, Injection, Surjection, IsInjective
<1>8. IsFiniteSet(T)
    BY IdsFinite, FS_Subset DEF T
<1>9. Cardinality(0..(2 * B - 1)) = Cardinality(T)
    BY <1>7, <1>8, FS_Bijection DEF ExistsBijection
<1>10. Cardinality(0..(2 * B - 1)) = 2 * B
    BY <1>0, FS_Interval
<1>. QED
    BY <1>9, <1>10 DEF T, B

\* A higher rate has no lower boundary.
LEMMA BoundaryGrows ==
    ASSUME NEW rate \in 0..Parts, NEW higher \in 0..Parts, rate <= higher
    PROVE  Boundary(rate) <= Boundary(higher)
<1>1. PICK p, b, c : p = Power[Bits - 1] /\ b = Boundary(rate) /\ c = Boundary(higher)
    OBVIOUS
<1>2. p \in Nat /\ b \in Nat /\ c \in Nat /\ Parts * b <= rate * p /\ higher * p < Parts * (c + 1)
    <2>1. p \in Nat
        BY <1>1, PowerIs, SizeAssumption
    <2>2. 0 \in Int
        OBVIOUS
    <2>. QED
        BY <1>1, <2>1, <2>2, SaltAndBoundary
<1>3. rate * p <= higher * p
    BY <1>2, SizeAssumption
<1>. SUFFICES ASSUME b >= c + 1 PROVE FALSE
    BY <1>1, <1>2
<1>4. Parts * b >= Parts * (c + 1)
    BY <1>2, SizeAssumption
<1>5. rate * p \in Int /\ higher * p \in Int /\ Parts * b \in Int /\ Parts * (c + 1) \in Int
    BY <1>2, SizeAssumption
<1>. QED
    BY <1>2, <1>3, <1>4, <1>5

\* A boundary sampler has a rate and a salt.
LEMMA BoundarySampler ==
    ASSUME NEW s \in Samplers, s.kind = "boundary"
    PROVE  /\ s.rate \in 0..Parts /\ s.with \in Int
           /\ \E kind : s = [kind |-> kind, rate |-> s.rate, with |-> s.with]
BY SizeAssumption, SaltsAssumption DEF Samplers, NewBoundarySampler, NewCountingSampler, New

\* A boundary sampler takes twice its boundary.
LEMMA BoundaryShare ==
    ASSUME NEW s \in Samplers, s.kind = "boundary"
    PROVE  /\ Cardinality(Taken(s, Ids)) * Parts <= s.rate * Power[Bits]
           /\ s.rate * Power[Bits] < (Cardinality(Taken(s, Ids)) + 2) * Parts
           /\ \A higher \in s.rate..(Parts - 1) :
                Taken(s, Ids) \subseteq Taken([s EXCEPT !.rate = higher], Ids)
<1>0. s.rate \in 0..Parts /\ s.with \in Int
    BY BoundarySampler
<1>1. PICK rate, salt : rate = s.rate /\ salt = s.with
    OBVIOUS
<1>2. rate \in 0..Parts /\ salt \in Int
    BY <1>0, <1>1
<1>3. \A id \in Ids : SampledById(s, id) <=> BelowBoundary(rate, salt, id)
    BY <1>1 DEF SampledById
<1>4. Taken(s, Ids) = {id \in Ids : BelowBoundary(rate, salt, id)}
    BY <1>3 DEF Taken
<1>5. PICK n, b, p, half :
        /\ n = Cardinality(Taken(s, Ids)) /\ b = Boundary(rate)
        /\ p = Power[Bits] /\ half = Power[Bits - 1]
    OBVIOUS
<1>6. n = 2 * b
    BY <1>2, <1>4, <1>5, BelowCounted
<1>7. /\ p = 2 * half /\ p \in Nat /\ half \in Nat /\ b \in Nat
      /\ Parts * b <= rate * half /\ rate * half < Parts * (b + 1)
    <2>1. half \in Nat
        BY <1>5, PowerIs, SizeAssumption
    <2>. QED
        BY <1>2, <1>5, <2>1, SaltAndBoundary
<1>8. n * Parts <= rate * p /\ rate * p < (n + 2) * Parts
    <2>1. n * Parts = 2 * (Parts * b) /\ (n + 2) * Parts = 2 * (Parts * (b + 1))
        BY <1>6, <1>7, SizeAssumption
    <2>2. rate * p = 2 * (rate * half)
        BY <1>2, <1>7, SizeAssumption
    <2>3. Parts * b \in Int /\ Parts * (b + 1) \in Int /\ rate * half \in Int
        BY <1>2, <1>7, SizeAssumption
    <2>. QED
        BY <1>7, <2>1, <2>2, <2>3
<1>9. ASSUME NEW higher \in s.rate..(Parts - 1), NEW id \in Taken(s, Ids)
      PROVE  id \in Taken([s EXCEPT !.rate = higher], Ids)
    <2>1. PICK t : t = [s EXCEPT !.rate = higher]
        OBVIOUS
    <2>2. t.kind = "boundary" /\ t.rate = higher /\ t.with = salt
        BY <1>1, <2>1, BoundarySampler
    <2>3. id \in Ids /\ BelowBoundary(rate, salt, id)
        BY <1>4, <1>9
    <2>4. higher \in 0..Parts /\ rate <= higher
        BY <1>1, <1>2, <1>9, SizeAssumption
    <2>5. Boundary(rate) <= Boundary(higher) /\ Boundary(rate) \in Nat /\ Boundary(higher) \in Nat
        BY <1>2, <2>4, BoundaryGrows, SaltAndBoundary
    <2>6. Xor(id, salt % Power[Bits]) \in Nat
        <3>1. salt % Power[Bits] \in Ids
            BY <1>2, SaltAndBoundary
        <3>2. Xor(id, salt % Power[Bits]) \in Ids
            BY <2>3, <3>1, XorBijection
        <3>. QED
            BY <3>2 DEF Ids
    <2>7. BelowBoundary(higher, salt, id)
        BY <2>3, <2>5, <2>6 DEF BelowBoundary
    <2>8. SampledById(t, id)
        BY <2>2, <2>7 DEF SampledById
    <2>. QED
        BY <2>1, <2>3, <2>8 DEF Taken
<1>. QED
    BY <1>1, <1>5, <1>8, <1>9

-----------------------------------------------------------------------------
(* The invariant holds and stays.                                            *)

\* Every sampler has a rate and is of a kind.
LEMMA SamplerType ==
    ASSUME NEW s \in Samplers
    PROVE  /\ s.rate \in 0..Parts
           /\ s.kind \in {"always", "never", "boundary", "counting", "modulo"}
BY SizeAssumption DEF Samplers, NewBoundarySampler, NewCountingSampler, New

LEMMA OnesInRange == Made => Ones \in 0..Size
<1>1. Made => OutOf(sampler.rate) \in 0..Size
    BY OnesRounded, SamplerType DEF Made
<1>. QED
    BY <1>1, SizeAssumption DEF Ones

\* A sampler that looks at the ID answers with yes or no.
LEMMA AnswerType ==
    ASSUME ~Counting, Made, NEW id
    PROVE  SampledById(sampler, id) \in BOOLEAN
<1>1. sampler.kind \in {"always", "never", "boundary", "modulo"}
    BY SamplerType DEF Counting, Made
<1>2. BelowBoundary(sampler.rate, sampler.with, id) \in BOOLEAN
    BY DEF BelowBoundary
<1>3. Divides(sampler.with, id) \in BOOLEAN
    BY DEF Divides
<1>. QED
    BY <1>1, <1>2, <1>3 DEF SampledById

LEMMA InitInvariant == Init => IInv
<1>. SUFFICES ASSUME Init PROVE IInv
    OBVIOUS
<1>1. Made
    BY DEF Init, Made
<1>2. Ones \in 0..Size /\ Size \in Nat \ {0}
    BY <1>1, OnesInRange, SizeAssumption
<1>3. TypeOK
    <2>1. decisions \in [Positions -> BOOLEAN] /\ chosen \in [0..(Ones - 1) -> Positions]
        BY <1>2 DEF Init, Positions
    <2>2. ASSUME NEW k \in Positions
          PROVE  decisions[k] <=> \E j \in DOMAIN chosen : chosen[j] = k
        <3>1. decisions[k] <=> k < Ones
            BY DEF Init
        <3>2. k < Ones <=> k \in 0..(Ones - 1)
            BY <1>2 DEF Positions
        <3>3. chosen = [j \in 0..(Ones - 1) |-> j]
            BY DEF Init
        <3>. QED
            BY <3>1, <3>2, <3>3
    <2>3. \A j, l \in DOMAIN chosen : chosen[j] = chosen[l] => j = l
        BY <1>2 DEF Init
    <2>4. filled \in 0..Size /\ index \in Positions
        BY <1>2 DEF Init, Positions
    <2>5. asked \in Seq(BOOLEAN)
        BY DEF Init
    <2>. QED
        BY <2>1, <2>2, <2>3, <2>4, <2>5 DEF Init, TypeOK
<1>4. Filling
    BY <1>2 DEF Init, Filling
<1>5. Exclusive
    BY DEF Init, Exclusive
<1>6. Answers /\ Windows
    BY <1>2 DEF Init, Answers, Windows
<1>. QED
    BY <1>1, <1>3, <1>4, <1>5, <1>6 DEF IInv

\* A sampler keeps its kind and rate.
LEMMA SamplerStep == [Next]_vars => sampler' = sampler
BY DEF Next, Reserve, Lock, Decide, Advance, Unlock, Ask, vars

\* A round of randomBitSet moves a one to a bit that had none, or nothing.
LEMMA ReserveStep ==
    ASSUME IInv, NEW j \in Positions, Reserve(j)
    PROVE  TypeOK' /\ Filling'
<1>. USE DEF IInv, TypeOK
<1>0. Counting' = Counting /\ Ones' = Ones
    BY DEF Reserve, Counting, Ones
<1>1. filled \in Positions /\ filled' \in 0..Size
    BY SizeAssumption DEF Reserve, Positions
<1>2. CASE j < Ones
    <2>1. j \in DOMAIN chosen
        BY <1>2, OnesInRange DEF Positions
    <2>2. Counting
        BY <1>2 DEF Ones, Positions
    <2>3. /\ decisions' = [decisions EXCEPT ![chosen[j]] = FALSE, ![filled] = TRUE]
          /\ chosen' = [chosen EXCEPT ![j] = filled]
        BY <1>2 DEF Reserve
    <2>4. chosen[j] # filled /\ \A l \in DOMAIN chosen : chosen[l] # filled
        BY <2>1, <2>2, SizeAssumption DEF Filling, Positions
    <2>5. chosen' \in [0..(Ones - 1) -> Positions] /\ decisions' \in [Positions -> BOOLEAN]
        BY <2>1, <2>3, <1>1
    <2>6. \A k, l \in DOMAIN chosen' : chosen'[k] = chosen'[l] => k = l
        BY <2>1, <2>3, <2>4
    <2>7. ASSUME NEW k \in Positions
          PROVE  decisions'[k] <=> \E l \in DOMAIN chosen' : chosen'[l] = k
        <3>1. CASE k = filled
            BY <3>1, <2>1, <2>3, <1>1
        <3>2. CASE k = chosen[j]
            BY <3>2, <2>1, <2>3, <2>4
        <3>3. CASE k # filled /\ k # chosen[j]
            <4>1. decisions'[k] = decisions[k]
                BY <3>3, <2>3
            <4>2. (\E l \in DOMAIN chosen : chosen[l] = k)
                    <=> \E l \in DOMAIN chosen' : chosen'[l] = k
                BY <3>3, <2>1, <2>3
            <4>. QED
                BY <4>1, <4>2, <2>2
        <3>. QED
            BY <3>1, <3>2, <3>3
    <2>8. TypeOK'
        BY <2>5, <2>6, <2>7, <1>0, <1>1 DEF Reserve
    <2>9. \A l \in DOMAIN chosen' : chosen'[l] < filled'
        BY <2>1, <2>2, <2>3, <1>1, SizeAssumption DEF Reserve, Filling, Positions
    <2>. QED
        BY <2>8, <2>9, <1>0, <1>1, SizeAssumption DEF Reserve, Filling, Positions
<1>3. CASE ~(j < Ones)
    <2>1. UNCHANGED <<decisions, chosen>>
        BY <1>3 DEF Reserve
    <2>2. TypeOK'
        BY <2>1, <1>0, <1>1 DEF Reserve
    <2>3. Counting => \A l \in DOMAIN chosen : chosen[l] < filled'
        BY <1>1, SizeAssumption DEF Reserve, Filling, Positions
    <2>. QED
        BY <2>1, <2>2, <2>3, <1>0, <1>1 DEF Reserve, Filling, Positions
<1>. QED
    BY <1>2, <1>3

LEMMA TypeStep == IInv /\ [Next]_vars => TypeOK'
<1>. SUFFICES ASSUME IInv, [Next]_vars PROVE TypeOK'
    OBVIOUS
<1>0. Counting' = Counting /\ Ones' = Ones
    BY SamplerStep DEF Counting, Ones
<1>. USE DEF IInv, TypeOK, Goto
<1>1. ASSUME NEW j \in Positions, Reserve(j) PROVE TypeOK'
    BY <1>1, ReserveStep
<1>2. ASSUME NEW g \in Goroutines, Lock(g) PROVE TypeOK'
    BY <1>2, <1>0 DEF Lock
<1>3. ASSUME NEW g \in Goroutines, Decide(g) PROVE TypeOK'
    <2>1. decisions[index] \in BOOLEAN
        OBVIOUS
    <2>2. asked' \in Seq(BOOLEAN)
        BY <2>1, <1>3 DEF Decide
    <2>. QED
        BY <2>2, <1>3, <1>0 DEF Decide
<1>4. ASSUME NEW g \in Goroutines, Advance(g) PROVE TypeOK'
    BY <1>4, <1>0, BackAgain DEF Advance
<1>5. ASSUME NEW g \in Goroutines, Unlock(g) PROVE TypeOK'
    BY <1>5, <1>0 DEF Unlock
<1>6. ASSUME NEW id \in Ids, Ask(id) PROVE TypeOK'
    <2>1. SampledById(sampler, id) \in BOOLEAN
        BY <1>6, AnswerType DEF Ask
    <2>2. asked' \in Seq(BOOLEAN)
        BY <2>1, <1>6 DEF Ask
    <2>. QED
        BY <2>2, <1>6, <1>0 DEF Ask
<1>7. CASE UNCHANGED vars
    BY <1>7, <1>0 DEF vars
<1>. QED
    BY <1>1, <1>2, <1>3, <1>4, <1>5, <1>6, <1>7 DEF Next

LEMMA ExclusiveStep == IInv /\ [Next]_vars => Filling' /\ Exclusive'
<1>. SUFFICES ASSUME IInv, [Next]_vars PROVE Filling' /\ Exclusive'
    OBVIOUS
<1>0. Counting' = Counting /\ Ones' = Ones
    BY SamplerStep DEF Counting, Ones
<1>. USE NoOneAssumption, SizeAssumption DEF IInv, TypeOK, Filling, Exclusive, Goto
<1>1. ASSUME NEW j \in Positions, Reserve(j) PROVE Filling' /\ Exclusive'
    BY <1>1, ReserveStep DEF Reserve
<1>2. ASSUME NEW g \in Goroutines, Lock(g) PROVE Filling' /\ Exclusive'
    BY <1>2, <1>0 DEF Lock, Free
<1>3. ASSUME NEW g \in Goroutines, Decide(g) PROVE Filling' /\ Exclusive'
    BY <1>3, <1>0 DEF Decide
<1>4. ASSUME NEW g \in Goroutines, Advance(g) PROVE Filling' /\ Exclusive'
    BY <1>4, <1>0 DEF Advance
<1>5. ASSUME NEW g \in Goroutines, Unlock(g) PROVE Filling' /\ Exclusive'
    BY <1>5, <1>0 DEF Unlock
<1>6. ASSUME NEW id \in Ids, Ask(id) PROVE Filling' /\ Exclusive'
    BY <1>6, <1>0 DEF Ask
<1>7. CASE UNCHANGED vars
    BY <1>7, <1>0 DEF vars
<1>. QED
    BY <1>1, <1>2, <1>3, <1>4, <1>5, <1>6, <1>7 DEF Next

\* Only finding an answer moves the cursor, and by one.
LEMMA CursorStep ==
    ASSUME IInv
    PROVE  /\ Cursor \in Positions
           /\ \A g \in Goroutines : Lock(g) \/ Advance(g) \/ Unlock(g) => Cursor' = Cursor
           /\ \A g \in Goroutines : Decide(g) =>
                Cursor = index /\ Cursor' = Wrapped(index + 1)
<1>. USE DEF IInv, TypeOK, Exclusive, Goto, Cursor
<1>1. Cursor \in Positions
    BY BackAgain
<1>2. ASSUME NEW g \in Goroutines, Lock(g) PROVE Cursor' = Cursor
    <2>1. \A h \in Goroutines : pc'[h] = "decided" <=> pc[h] = "decided"
        BY <1>2 DEF Lock
    <2>. QED
        BY <2>1, <1>2 DEF Lock
<1>3. ASSUME NEW g \in Goroutines, Advance(g) PROVE Cursor' = Cursor
    <2>1. pc[g] = "decided" /\ \A h \in Goroutines : h # g => pc[h] = "out"
        BY <1>3 DEF Advance
    <2>2. \A h \in Goroutines : pc'[h] # "decided"
        BY <2>1, <1>3 DEF Advance
    <2>. QED
        BY <2>1, <2>2, <1>3 DEF Advance
<1>4. ASSUME NEW g \in Goroutines, Unlock(g) PROVE Cursor' = Cursor
    <2>1. \A h \in Goroutines : pc'[h] = "decided" <=> pc[h] = "decided"
        BY <1>4 DEF Unlock
    <2>. QED
        BY <2>1, <1>4 DEF Unlock
<1>5. ASSUME NEW g \in Goroutines, Decide(g)
      PROVE  Cursor = index /\ Cursor' = Wrapped(index + 1)
    <2>1. pc[g] = "locked" /\ \A h \in Goroutines : h # g => pc[h] = "out"
        BY <1>5 DEF Decide
    <2>2. pc'[g] = "decided" /\ index' = index
        BY <1>5 DEF Decide
    <2>. QED
        BY <2>1, <2>2
<1>. QED
    BY <1>1, <1>2, <1>3, <1>4, <1>5

\* An answer of the counting sampler takes the place before all the earlier ones.
LEMMA DecideAnswers ==
    ASSUME IInv, NEW g \in Goroutines, Decide(g)
    PROVE  Answers'
<1>. SUFFICES ASSUME Counting, NEW m \in 1..Size, m <= Len(asked')
              PROVE  asked'[Len(asked') + 1 - m] = decisions[Back(Cursor', m)]
    BY DEF Answers, Decide, Counting
<1>1. asked' = Append(asked, decisions[index]) /\ asked \in Seq(BOOLEAN) /\ index \in Positions
    BY DEF Decide, IInv, TypeOK
<1>2. Cursor = index /\ Cursor' = Wrapped(index + 1)
    BY CursorStep
<1>3. Len(asked') = Len(asked) + 1 /\ Len(asked) \in Nat
    BY <1>1
<1>4. CASE m = 1
    <2>1. asked'[Len(asked') + 1 - m] = decisions[index]
        BY <1>1, <1>3, <1>4
    <2>. QED
        BY <2>1, <1>1, <1>2, <1>4, BackAgain
<1>5. CASE m # 1
    <2>1. m \in 2..Size /\ m - 1 \in 1..Size /\ m - 1 <= Len(asked)
        BY <1>3, <1>5, SizeAssumption
    <2>2. asked'[Len(asked') + 1 - m] = asked[Len(asked) + 1 - (m - 1)]
        BY <1>1, <1>3, <2>1
    <2>3. asked[Len(asked) + 1 - (m - 1)] = decisions[Back(index, m - 1)]
        BY <1>2, <2>1 DEF IInv, Answers
    <2>4. Back(Cursor', m) = Back(index, m - 1)
        BY <1>1, <1>2, <2>1, BackAgain
    <2>. QED
        BY <2>2, <2>3, <2>4
<1>. QED
    BY <1>4, <1>5

\* The bit set has as many ones as there are chosen places.
LEMMA OnesCounted ==
    ASSUME IInv, Counting
    PROVE  /\ IsFiniteSet({k \in Positions : decisions[k]})
           /\ Cardinality({k \in Positions : decisions[k]}) = Ones
<1>. DEFINE T == {k \in Positions : decisions[k]}
<1>0. Ones \in Nat
    BY OnesInRange, SizeAssumption DEF IInv
<1>1. chosen \in Bijection(0..(Ones - 1), T)
    BY DEF Bijection, Injection, Surjection, IsInjective, IInv, TypeOK
<1>2. ExistsBijection(0..(Ones - 1), T)
    BY <1>1 DEF ExistsBijection
<1>3. IsFiniteSet(0..(Ones - 1)) /\ Cardinality(0..(Ones - 1)) = Ones
    BY <1>0, FS_Interval
<1>. QED
    BY <1>2, <1>3, FS_Bijection

\* It completes one more window, which has a one for each of the bit set's.
LEMMA DecideWindows ==
    ASSUME IInv, NEW g \in Goroutines, Decide(g)
    PROVE  Windows'
<1>0. Counting' = Counting /\ Ones' = Ones /\ decisions' = decisions
    BY DEF Decide, Counting, Ones
<1>. SUFFICES ASSUME Counting, NEW k \in 0..(Len(asked') - Size)
              PROVE  Cardinality({n \in (k + 1)..(k + Size) : asked'[n]}) = Ones
    BY <1>0 DEF Windows
<1>1. asked' = Append(asked, decisions[index]) /\ asked \in Seq(BOOLEAN)
      /\ decisions[index] \in BOOLEAN
    BY DEF Decide, IInv, TypeOK
<1>2. Len(asked') = Len(asked) + 1 /\ Len(asked) \in Nat /\ asked' \in Seq(BOOLEAN)
    BY <1>1
<1>3. CASE k <= Len(asked) - Size
    <2>1. \A n \in (k + 1)..(k + Size) : asked'[n] = asked[n]
        BY <1>1, <1>2, <1>3, SizeAssumption
    <2>2. {n \in (k + 1)..(k + Size) : asked'[n]} = {n \in (k + 1)..(k + Size) : asked[n]}
        BY <2>1
    <2>3. k \in 0..(Len(asked) - Size)
        BY <1>2, <1>3, SizeAssumption
    <2>. QED
        BY <2>2, <2>3 DEF IInv, Windows
<1>4. CASE k > Len(asked) - Size
    <2>1. k = Len(asked') - Size /\ k + Size = Len(asked') /\ Len(asked') >= Size
        BY <1>2, <1>4, SizeAssumption
    <2>2. \A m \in 1..Size : asked'[Len(asked') + 1 - m] = decisions[Back(Cursor', m)]
        <3>1. Answers' /\ Counting'
            BY DecideAnswers, <1>0
        <3>2. \A m \in 1..Size : m <= Len(asked') =>
                asked'[Len(asked') + 1 - m] = decisions'[Back(Cursor', m)]
            BY <3>1 DEF Answers, Back
        <3>. TAKE m \in 1..Size
        <3>3. m <= Len(asked')
            BY <1>2, <2>1, SizeAssumption
        <3>. QED
            BY <3>2, <3>3, <1>0
    <2>3. Cursor' \in Positions
        BY CursorStep, BackAgain DEF IInv, TypeOK
    <2>4. Ones \in Nat /\ decisions \in [Positions -> BOOLEAN]
        BY OnesInRange DEF IInv, TypeOK
    <2>5. /\ IsFiniteSet({p \in Positions : decisions[p]})
          /\ Cardinality({p \in Positions : decisions[p]}) = Ones
        BY OnesCounted
    <2>6. Cardinality({n \in (Len(asked') - Size + 1)..Len(asked') : asked'[n]})
            = Cardinality({p \in Positions : decisions[p]})
        BY <1>2, <2>1, <2>2, <2>3, <2>4, <2>5, WindowCounted
    <2>. QED
        BY <2>1, <2>5, <2>6
<1>. QED
    BY <1>2, <1>3, <1>4, SizeAssumption

LEMMA AnswersStep == IInv /\ [Next]_vars => Answers' /\ Windows'
<1>. SUFFICES ASSUME IInv, [Next]_vars PROVE Answers' /\ Windows'
    OBVIOUS
<1>0. Counting' = Counting /\ Ones' = Ones
    BY SamplerStep DEF Counting, Ones
<1>1. ASSUME NEW j \in Positions, Reserve(j) PROVE Answers' /\ Windows'
    <2>1. Len(asked') = 0
        BY <1>1 DEF Reserve, IInv, Filling
    <2>. QED
        BY <2>1, SizeAssumption DEF Answers, Windows
<1>2. ASSUME NEW g \in Goroutines, Lock(g) \/ Advance(g) \/ Unlock(g)
      PROVE  Answers' /\ Windows'
    <2>1. Cursor' = Cursor /\ asked' = asked /\ decisions' = decisions
        BY <1>2, CursorStep DEF Lock, Advance, Unlock
    <2>. QED
        BY <2>1, <1>0 DEF IInv, Answers, Windows
<1>3. ASSUME NEW g \in Goroutines, Decide(g) PROVE Answers' /\ Windows'
    BY <1>3, DecideAnswers, DecideWindows
<1>4. ASSUME NEW id \in Ids, Ask(id) PROVE Answers' /\ Windows'
    BY <1>4, <1>0 DEF Ask, Answers, Windows
<1>5. CASE UNCHANGED vars
    <2>1. Cursor' = Cursor
        BY <1>5 DEF vars, Cursor
    <2>. QED
        BY <2>1, <1>0, <1>5 DEF vars, IInv, Answers, Windows
<1>. QED
    BY <1>1, <1>2, <1>3, <1>4, <1>5 DEF Next

\* The inductive invariant: the draws of randomBitSet, the mutex, and the answers
\* that lie behind the cursor.
THEOREM Invariance == Spec => []IInv
<1>1. IInv /\ [Next]_vars => IInv'
    <2>1. [Next]_vars /\ Made => Made'
        BY SamplerStep DEF Made
    <2>. QED
        BY <2>1, TypeStep, ExclusiveStep, AnswersStep DEF IInv
<1>. QED
    BY InitInvariant, <1>1, PTL DEF Spec

\* Types of the samplers' state: randomBitSet keeps as many ones as the rate says, at
\* places of their own, whatever it draws, and the index never leaves the bit set.
THEOREM TypeCorrect == Spec => []TypeOK
<1>1. IInv => TypeOK
    BY DEF IInv
<1>. QED
    BY Invariance, <1>1, PTL

\* Any Size answers of the counting sampler in a row have as many ones as the rate
\* says, rounded, whichever goroutines ask and wherever the index wraps.
THEOREM WindowsExact == Spec => []WindowExact
<1>1. IInv => WindowExact
    <2>. SUFFICES ASSUME IInv, Counting PROVE WindowExact
        BY DEF WindowExact
    <2>1. 2 * Ones * Parts - 2 * sampler.rate * Size \in (1 - Parts)..Parts
        BY OnesRounded, SamplerType DEF IInv, Made, Ones
    <2>. QED
        BY <2>1 DEF IInv, Windows, WindowExact
<1>. QED
    BY Invariance, <1>1, PTL

\* Whatever the salt, the boundary sampler takes the share of its rate of all IDs, to
\* one pair of them, and takes what every sampler of a lower rate takes.
THEOREM SharesExact == Spec => []BoundaryExact
<1>1. IInv => BoundaryExact
    BY BoundaryShare DEF IInv, Made, BoundaryExact
<1>. QED
    BY Invariance, <1>1, PTL
=============================================================================
