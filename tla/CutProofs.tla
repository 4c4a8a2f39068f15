------------------------------ MODULE CutProofs ------------------------------
(***************************************************************************)
(* A cut counts every pixel it reads once, and keeps the pixels it counts. *)
(***************************************************************************)
EXTENDS Cut, FiniteSetTheorems, WellFoundedInduction, TLAPS

(***************************************************************************)
(* Numbers and recursive functions.                                        *)
(***************************************************************************)
\* A set of numbers has a least one.
LEMMA LeastOfNats ==
  ASSUME NEW S \in SUBSET Nat, S # {}
  PROVE  \E x \in S : \A y \in S : x <= y
<1>1. PICK x \in S : \A y \in S : ~ (<<y, x>> \in OpToRel(<, Nat))
  BY WFMin, NatLessThanWellFounded
<1>2. \A y \in S : ~ (y < x)
  BY <1>1 DEF OpToRel
<1> QED
  BY <1>2

\* That is its Min.
LEMMA MinOfNats ==
  ASSUME NEW S \in SUBSET Nat, S # {}
  PROVE  Min(S) \in S /\ \A y \in S : Min(S) <= y
BY LeastOfNats DEF Min

\* A finite set of numbers has a greatest one, its Max.
LEMMA MaxOfNats ==
  ASSUME NEW S \in SUBSET Nat, S # {}, NEW n \in Nat, \A x \in S : x <= n
  PROVE  Max(S) \in S /\ \A y \in S : Max(S) >= y
<1> DEFINE T == {m \in 0..n : n - m \in S}
<1>1. T \in SUBSET Nat
  OBVIOUS
<1>2. \A x \in S : x \in Nat /\ n - x \in 0..n /\ n - (n - x) = x
  OBVIOUS
<1>3. \A x \in S : n - x \in T
  BY <1>2
<1>4. PICK t \in T : \A y \in T : t <= y
  BY <1>1, <1>3, LeastOfNats
<1>5. n - t \in S /\ \A y \in S : n - t >= y
  BY <1>2, <1>3, <1>4
<1> QED
  BY <1>5 DEF Max

\* f is what the steps make of a, one for each k; they stay in S.
IsStep(step, n, S) == step \in [S \X (1..n) -> S]
Iterates(f, n, S, a, step) ==
  f \in [0..n -> S] /\ f[0] = a /\ \A k \in 1..n : f[k] = step[<<f[k - 1], k>>]

\* A function that follows a step from a start exists.
LEMMA RecursionExists ==
  ASSUME NEW n \in Nat, NEW S, NEW a \in S, NEW step, IsStep(step, n, S)
  PROVE  \E f : Iterates(f, n, S, a, step)
<1> DEFINE Is(f, m) == Iterates(f, m, S, a, step)
           N == {m \in 0..n : ~ \E f : Is(f, m)}
<1> USE DEF Iterates, IsStep
<1>1. SUFFICES N = {}
  OBVIOUS
<1>2. SUFFICES ASSUME N # {} PROVE FALSE
  OBVIOUS
<1>3. PICK m \in N : \A l \in N : m <= l
  <2>1. N \in SUBSET Nat
    OBVIOUS
  <2> QED
    BY <1>2, <2>1, LeastOfNats
<1>4. m \in 0..n /\ m \in Nat /\ ~ \E f : Is(f, m)
  BY <1>3
<1>5. CASE m = 0
  <2>1. Is([k \in 0..0 |-> a], 0)
    OBVIOUS
  <2> QED
    BY <1>4, <1>5, <2>1
<1>6. CASE m # 0
  <2>1. m - 1 \in 0..n /\ m - 1 \notin N
    <3>1. m - 1 \in 0..n /\ ~(m <= m - 1)
      BY <1>4, <1>6
    <3> QED
      BY <1>3, <3>1
  <2>2. PICK f : Is(f, m - 1)
    BY <2>1
  <2>3. f[m - 1] \in S /\ <<f[m - 1], m>> \in S \X (1..n)
    BY <1>4, <1>6, <2>2
  <2> DEFINE g == [k \in 0..m |-> IF k = m THEN step[<<f[m - 1], m>>] ELSE f[k]]
  <2>4. g \in [0..m -> S] /\ g[0] = a /\ \A k \in 0..(m - 1) : g[k] = f[k]
    BY <1>4, <1>6, <2>2, <2>3
  <2>5. g[m] = step[<<g[m - 1], m>>]
    <3>1. m \in 0..m /\ m - 1 \in 0..(m - 1)
      BY <1>4, <1>6
    <3>2. g[m] = step[<<f[m - 1], m>>]
      BY <3>1
    <3> HIDE DEF g
    <3> QED
      BY <2>4, <3>1, <3>2
  <2>6. ASSUME NEW k \in 1..m, k # m
        PROVE  g[k] = step[<<g[k - 1], k>>]
    <3>1. k \in 1..(m - 1) /\ k - 1 \in 0..(m - 1) /\ k \in 0..(m - 1)
      BY <1>4, <2>6
    <3> QED
      BY <2>2, <2>4, <3>1
  <2> HIDE DEF g
  <2>7. Is(g, m)
    BY <2>4, <2>5, <2>6
  <2> QED
    BY <1>4, <2>7
<1> QED
  BY <1>5, <1>6

\* f and g begin alike and are made by the same steps.
Alike(f, g, n) == f[0] = g[0] /\ \A k \in 1..n : f[k - 1] = g[k - 1] => f[k] = g[k]

\* There is but one.
LEMMA RecursionUnique ==
  ASSUME NEW n \in Nat, NEW f, NEW g, Alike(f, g, n)
  PROVE  \A k \in 0..n : f[k] = g[k]
<1> DEFINE N == {k \in 0..n : f[k] # g[k]}
<1>1. SUFFICES ASSUME N # {} PROVE FALSE
  OBVIOUS
<1>2. PICK k \in N : \A l \in N : k <= l
  <2>1. N \in SUBSET Nat
    OBVIOUS
  <2> QED
    BY <1>1, <2>1, LeastOfNats
<1>3. k \in 1..n /\ k - 1 \in 0..n /\ ~(k <= k - 1)
  BY <1>2 DEF Alike
<1> QED
  BY <1>2, <1>3 DEF Alike

(***************************************************************************)
(* Sums.                                                                   *)
(***************************************************************************)
\* What adds up the numbers f[1], f[2], ..., f[n].
AddsUp(g, f, n) == g[0] = 0 /\ \A k \in 1..n : f[k] \in Nat /\ g[k] = g[k - 1] + f[k]

\* A function that adds up is the sum.
LEMMA SumToIs ==
  ASSUME NEW n \in Nat, NEW f, NEW g, AddsUp(g, f, n)
  PROVE  SumTo(f, n) = g[n] /\ g[n] \in Nat
<1> DEFINE step == [x \in Nat \X (1..n) |-> x[1] + f[x[2]]]
           Sums(h) == h = [k \in 0..n |-> IF k = 0 THEN 0 ELSE h[k - 1] + f[k]]
           c == CHOOSE h : Sums(h)
<1>1. IsStep(step, n, Nat)
  BY DEF IsStep, AddsUp
<1>2. PICK h : Iterates(h, n, Nat, 0, step)
  <2> HIDE DEF step
  <2> QED
    BY <1>1, RecursionExists
<1>3. \A k \in 1..n : h[k] = h[k - 1] + f[k]
  <2> TAKE k \in 1..n
  <2>1. k - 1 \in 0..n /\ h[k - 1] \in Nat /\ <<h[k - 1], k>> \in Nat \X (1..n)
    BY <1>2 DEF Iterates
  <2> QED
    BY <1>2, <2>1 DEF Iterates
<1>4. Sums(h)
  <2>1. \A k \in 0..n : h[k] = IF k = 0 THEN 0 ELSE h[k - 1] + f[k]
    BY <1>2, <1>3 DEF Iterates
  <2>2. h = [k \in 0..n |-> h[k]]
    BY <1>2 DEF Iterates
  <2> QED
    BY <2>1, <2>2
<1>5. Sums(c)
  BY <1>4
<1>6. SumTo(f, n) = c[n]
  BY DEF SumTo
<1> HIDE DEF c, step
<1>7. c[0] = 0 /\ \A k \in 1..n : c[k] = c[k - 1] + f[k]
  <2>1. \A k \in 0..n : c[k] = IF k = 0 THEN 0 ELSE c[k - 1] + f[k]
    BY <1>5
  <2> QED
    BY <2>1
<1> HIDE DEF Sums
<1>8. c[n] = h[n] /\ g[n] = h[n]
  <2>1. Alike(c, h, n)
    BY <1>2, <1>3, <1>7 DEF Iterates, Alike
  <2>2. Alike(g, h, n)
    BY <1>2, <1>3 DEF Iterates, Alike, AddsUp
  <2>3. \A k \in 0..n : c[k] = h[k]
    BY <2>1, RecursionUnique
  <2>4. \A k \in 0..n : g[k] = h[k]
    BY <2>2, RecursionUnique
  <2> QED
    BY <2>3, <2>4
<1> QED
  BY <1>2, <1>6, <1>8 DEF Iterates

\* A sum begins at zero and grows by one term.
LEMMA SumToFacts ==
  ASSUME NEW m \in Nat, NEW f, \A k \in 1..m : f[k] \in Nat
  PROVE  /\ SumTo(f, 0) = 0
         /\ \A n \in 0..m : SumTo(f, n) \in Nat
         /\ \A n \in 1..m : SumTo(f, n) = SumTo(f, n - 1) + f[n]
<1> DEFINE step == [x \in Nat \X (1..m) |-> x[1] + f[x[2]]]
<1>1. IsStep(step, m, Nat)
  BY DEF IsStep
<1>2. PICK g : Iterates(g, m, Nat, 0, step)
  <2> HIDE DEF step
  <2> QED
    BY <1>1, RecursionExists
<1>3. \A k \in 1..m : g[k] = g[k - 1] + f[k]
  <2> TAKE k \in 1..m
  <2>1. k - 1 \in 0..m /\ g[k - 1] \in Nat /\ <<g[k - 1], k>> \in Nat \X (1..m)
    BY <1>2 DEF Iterates
  <2> QED
    BY <1>2, <2>1 DEF Iterates
<1> HIDE DEF step
<1>4. \A n \in 0..m : SumTo(f, n) = g[n]
  <2> TAKE n \in 0..m
  <2>1. n \in Nat /\ \A k \in 1..n : k \in 1..m
    OBVIOUS
  <2>2. AddsUp(g, f, n)
    BY <1>2, <1>3, <2>1 DEF Iterates, AddsUp
  <2> QED
    BY <2>1, <2>2, SumToIs
<1>5. \A n \in 1..m : n \in 0..m /\ n - 1 \in 0..m
  OBVIOUS
<1> QED
  BY <1>2, <1>3, <1>4, <1>5 DEF Iterates

(***************************************************************************)
(* The pixels of blocks.  A cut may leave a block of no pixels, so that    *)
(* these facts are about parts rather than blocks.                         *)
(***************************************************************************)
Part == [pos : Nat, size : Nat]

\* UpTo adds up the sizes.
LEMMA SumFacts ==
  ASSUME NEW bs \in Seq(Part)
  PROVE  /\ UpTo(bs, 0) = 0 /\ Len(bs) \in Nat /\ SizeOf(bs) \in Nat
         /\ \A k \in 0..Len(bs) : UpTo(bs, k) \in Nat
         /\ \A k \in 1..Len(bs) :
              UpTo(bs, k) = UpTo(bs, k - 1) + bs[k].size /\ bs[k] \in Part
<1> DEFINE f == [j \in DOMAIN bs |-> bs[j].size]
<1>1. Len(bs) \in Nat /\ DOMAIN bs = 1..Len(bs) /\ \A k \in 1..Len(bs) : bs[k] \in Part
  OBVIOUS
<1>2. \A k \in 1..Len(bs) : f[k] = bs[k].size /\ f[k] \in Nat
  BY <1>1 DEF Part
<1>3. \A k : UpTo(bs, k) = SumTo(f, k)
  BY DEF UpTo
<1> HIDE DEF f
<1>4. /\ SumTo(f, 0) = 0 /\ \A n \in 0..Len(bs) : SumTo(f, n) \in Nat
      /\ \A n \in 1..Len(bs) : SumTo(f, n) = SumTo(f, n - 1) + f[n]
  BY <1>1, <1>2, SumToFacts
<1> QED
  BY <1>1, <1>2, <1>3, <1>4 DEF SizeOf

\* The sum of sizes grows by the size of a block.
LEMMA PartFacts ==
  ASSUME NEW bs \in Seq(Part), NEW k \in 1..Len(bs)
  PROVE  /\ UpTo(bs, k - 1) \in Nat /\ UpTo(bs, k) \in Nat /\ k \in Nat
         /\ UpTo(bs, k) = UpTo(bs, k - 1) + bs[k].size
         /\ bs[k].size \in Nat /\ bs[k].pos \in Nat
<1>1. k \in 0..Len(bs) /\ k - 1 \in 0..Len(bs) /\ k \in Nat
  BY SumFacts
<1> QED
  BY <1>1, SumFacts DEF Part

\* They are what any function is that adds them up.
LEMMA SumUnique ==
  ASSUME NEW bs \in Seq(Part), NEW g, g[0] = 0,
         \A k \in 1..Len(bs) : g[k] = g[k - 1] + bs[k].size
  PROVE  \A k \in 0..Len(bs) : UpTo(bs, k) = g[k]
<1> DEFINE S == {k \in 0..Len(bs) : UpTo(bs, k) # g[k]}
<1>1. SUFFICES ASSUME S # {} PROVE FALSE
  OBVIOUS
<1>2. PICK k \in S : \A m \in S : k <= m
  <2>1. S \in SUBSET Nat
    BY SumFacts
  <2> QED
    BY <1>1, <2>1, LeastOfNats
<1>3. k # 0 /\ k \in 1..Len(bs) /\ k - 1 \in 0..Len(bs) /\ k - 1 \notin S
  BY <1>2, SumFacts
<1> QED
  BY <1>2, <1>3, SumFacts

\* It never falls.
LEMMA SumGrows ==
  ASSUME NEW bs \in Seq(Part), NEW j \in 0..Len(bs), NEW k \in 0..Len(bs), j <= k
  PROVE  UpTo(bs, j) <= UpTo(bs, k)
<1> DEFINE S == {m \in 0..Len(bs) : j <= m /\ ~(UpTo(bs, j) <= UpTo(bs, m))}
<1>1. SUFFICES ASSUME S # {} PROVE FALSE
  OBVIOUS
<1>2. PICK m \in S : \A l \in S : m <= l
  <2>1. S \in SUBSET Nat
    BY SumFacts
  <2> QED
    BY <1>1, <2>1, LeastOfNats
<1>3. m # j
  BY <1>2, SumFacts
<1>4. m \in 1..Len(bs) /\ m - 1 \in 0..Len(bs) /\ m - 1 \notin S /\ j <= m - 1
  BY <1>2, <1>3, SumFacts
<1>5. UpTo(bs, m) = UpTo(bs, m - 1) + bs[m].size /\ bs[m].size \in Nat
  BY <1>4, SumFacts DEF Part
<1>6. UpTo(bs, j) \in Nat /\ UpTo(bs, m - 1) \in Nat
  BY <1>4, SumFacts
<1>7. UpTo(bs, j) <= UpTo(bs, m - 1) /\ ~(UpTo(bs, j) <= UpTo(bs, m))
  BY <1>2, <1>4
<1> QED
  BY <1>5, <1>6, <1>7

\* Every place below the size is in one block.
LEMMA BlockFacts ==
  ASSUME NEW bs \in Seq(Part), NEW j \in 1..SizeOf(bs)
  PROVE  LET k == BlockAt(bs, j)
         IN  k \in 1..Len(bs) /\ UpTo(bs, k - 1) < j /\ j <= UpTo(bs, k)
<1> DEFINE S == {k \in 0..Len(bs) : j <= UpTo(bs, k)}
<1>1. Len(bs) \in S
  BY SumFacts DEF SizeOf
<1>2. PICK k \in S : \A m \in S : k <= m
  <2>1. S \in SUBSET Nat
    BY SumFacts
  <2> QED
    BY <1>1, <2>1, LeastOfNats
<1>3. k # 0 /\ k \in 1..Len(bs) /\ k - 1 \in 0..Len(bs) /\ k - 1 \notin S
  BY <1>2, SumFacts
<1>4. UpTo(bs, k - 1) < j /\ j <= UpTo(bs, k) /\ DOMAIN bs = 1..Len(bs)
  BY <1>2, <1>3, SumFacts
<1> QED
  BY <1>3, <1>4 DEF BlockAt

\* Place i of block k holds the i-th pixel of that block.
LEMMA PositionFacts ==
  ASSUME NEW bs \in Seq(Part)
  PROVE  /\ PixelsOf(bs) \in Seq(Nat) /\ Len(PixelsOf(bs)) = SizeOf(bs)
         /\ \A k \in 1..Len(bs) : \A i \in 1..bs[k].size :
              /\ UpTo(bs, k - 1) + i \in 1..SizeOf(bs)
              /\ PixelsOf(bs)[UpTo(bs, k - 1) + i] = bs[k].pos + i - 1
<1>1. ASSUME NEW j \in 1..SizeOf(bs)
      PROVE  LET k == BlockAt(bs, j) IN bs[k].pos + j - 1 - UpTo(bs, k - 1) \in Nat
  <2> DEFINE k == BlockAt(bs, j)
  <2>1. k \in 1..Len(bs) /\ UpTo(bs, k - 1) < j /\ j \in Nat
    BY <1>1, BlockFacts, SumFacts
  <2> HIDE DEF k
  <2>2. UpTo(bs, k - 1) \in Nat /\ bs[k].pos \in Nat
    BY <2>1, SumFacts DEF Part
  <2> QED
    BY <2>1, <2>2 DEF k
<1>2. PixelsOf(bs) \in [1..SizeOf(bs) -> Nat]
  BY <1>1 DEF PixelsOf
<1>3. PixelsOf(bs) \in Seq(Nat) /\ Len(PixelsOf(bs)) = SizeOf(bs)
  BY <1>2, SumFacts
<1>4. ASSUME NEW k \in 1..Len(bs), NEW i \in 1..bs[k].size
      PROVE  /\ UpTo(bs, k - 1) + i \in 1..SizeOf(bs)
             /\ PixelsOf(bs)[UpTo(bs, k - 1) + i] = bs[k].pos + i - 1
  <2> DEFINE j == UpTo(bs, k - 1) + i
             l == BlockAt(bs, j)
  <2>1. /\ UpTo(bs, k) = UpTo(bs, k - 1) + bs[k].size /\ bs[k].size \in Nat /\ bs[k].pos \in Nat
        /\ UpTo(bs, k - 1) \in Nat /\ k - 1 \in 0..Len(bs) /\ k \in 0..Len(bs)
    <3>1. Len(bs) \in Nat
      BY SumFacts
    <3>2. k - 1 \in 0..Len(bs) /\ k \in 0..Len(bs)
      BY <3>1
    <3>3. UpTo(bs, k - 1) \in Nat /\ UpTo(bs, k) = UpTo(bs, k - 1) + bs[k].size /\ bs[k] \in Part
      BY <3>2, SumFacts
    <3> QED
      BY <3>2, <3>3 DEF Part
  <2>2. UpTo(bs, k) <= SizeOf(bs)
    BY <2>1, SumGrows, SumFacts DEF SizeOf
  <2>3. j \in 1..SizeOf(bs) /\ UpTo(bs, k - 1) < j /\ j <= UpTo(bs, k)
    BY <2>1, <2>2, SumFacts
  <2>4. l \in 1..Len(bs) /\ UpTo(bs, l - 1) < j /\ j <= UpTo(bs, l)
    BY <2>3, BlockFacts
  <2> HIDE DEF l, j
  <2>5. l = k
    <3>1. /\ l - 1 \in 0..Len(bs) /\ l \in 0..Len(bs) /\ l \in Nat /\ k \in Nat /\ j \in Nat
          /\ UpTo(bs, l) \in Nat /\ UpTo(bs, l - 1) \in Nat
      BY <2>3, <2>4, SumFacts
    <3>2. ~(l < k)
      <4> SUFFICES ASSUME l < k PROVE FALSE
        OBVIOUS
      <4>1. UpTo(bs, l) <= UpTo(bs, k - 1)
        BY <2>1, <3>1, SumGrows
      <4> QED
        BY <2>1, <2>3, <2>4, <3>1, <4>1
    <3>3. ~(k < l)
      <4> SUFFICES ASSUME k < l PROVE FALSE
        OBVIOUS
      <4>1. UpTo(bs, k) <= UpTo(bs, l - 1)
        BY <2>1, <3>1, SumGrows
      <4> QED
        BY <2>1, <2>3, <2>4, <3>1, <4>1
    <3> QED
      BY <3>1, <3>2, <3>3
  <2>6. PixelsOf(bs)[j] = bs[l].pos + j - 1 - UpTo(bs, l - 1)
    BY <2>3 DEF PixelsOf, l
  <2> QED
    BY <2>1, <2>3, <2>5, <2>6 DEF j
<1> QED
  BY <1>3, <1>4

\* Blocks are parts that have pixels.
LEMMA BlocksAreParts ==
  ASSUME NEW bs \in Seq(Block)
  PROVE  /\ bs \in Seq(Part) /\ Len(bs) \in Nat
         /\ \A k \in 1..Len(bs) : /\ bs[k] \in Block /\ bs[k].pos \in Nat \ {0}
                                  /\ bs[k].size \in Nat \ {0}
         /\ SizeOf(bs) = 0 <=> bs = << >>
<1>1. Len(bs) \in Nat /\ \A k \in 1..Len(bs) : bs[k] \in Block
  OBVIOUS
<1>2. \A b \in Block : b \in Part /\ b.pos \in Nat \ {0} /\ b.size \in Nat \ {0}
  BY DEF Block, Part
<1>3. bs \in Seq(Part)
  BY <1>2
<1>4. bs = << >> => SizeOf(bs) = 0
  BY <1>3, SumFacts DEF SizeOf
<1>5. bs # << >> => SizeOf(bs) # 0
  <2> SUFFICES ASSUME bs # << >> PROVE SizeOf(bs) # 0
    OBVIOUS
  <2>1. Len(bs) \in 1..Len(bs) /\ Len(bs) - 1 \in 0..Len(bs)
    BY <1>1
  <2>2. SizeOf(bs) = UpTo(bs, Len(bs) - 1) + bs[Len(bs)].size /\ UpTo(bs, Len(bs) - 1) \in Nat
    BY <1>3, <2>1, SumFacts DEF SizeOf
  <2>3. bs[Len(bs)].size \in Nat \ {0}
    BY <1>1, <1>2, <2>1
  <2> QED
    BY <2>2, <2>3
<1> QED
  BY <1>1, <1>2, <1>3, <1>4, <1>5


\* What holds of 0, and of k when it holds of k - 1, holds up to n.
IsStepwise(T, n) == 0 \in T /\ \A k \in 1..n : k - 1 \in T => k \in T

\* A set that has zero, and a number with the one before it.
LEMMA Stepwise ==
  ASSUME NEW n \in Nat, NEW T, IsStepwise(T, n)
  PROVE  \A k \in 0..n : k \in T
<1> DEFINE N == {k \in 0..n : k \notin T}
<1>1. SUFFICES ASSUME N # {} PROVE FALSE
  OBVIOUS
<1>2. PICK k \in N : \A l \in N : k <= l
  <2>1. N \in SUBSET Nat
    OBVIOUS
  <2> QED
    BY <1>1, <2>1, LeastOfNats
<1>3. k \in 1..n /\ k - 1 \in 0..n /\ ~(k <= k - 1)
  BY <1>2 DEF IsStepwise
<1> QED
  BY <1>2, <1>3 DEF IsStepwise

(***************************************************************************)
(* Blocks in ascending order.                                              *)
(***************************************************************************)
\* No block reaches position n; all begin there or behind.
Below(bs, n) == \A k \in 1..Len(bs) : bs[k].pos + bs[k].size <= n
Above(bs, n) == \A k \in 1..Len(bs) : n <= bs[k].pos

\* A block of a sequence of blocks.
LEMMA BlockType ==
  ASSUME NEW bs \in Seq(Block), NEW k \in 1..Len(bs)
  PROVE  /\ bs[k] \in Block /\ bs[k].pos \in Nat \ {0} /\ bs[k].size \in Nat \ {0}
         /\ k \in Nat /\ Len(bs) \in Nat /\ k \in DOMAIN bs
<1>1. bs[k] \in Block /\ Len(bs) \in Nat /\ DOMAIN bs = 1..Len(bs)
  OBVIOUS
<1> QED
  BY <1>1 DEF Block

\* A block is behind every block in front of it.
LEMMA AscendingFar ==
  ASSUME NEW bs \in Seq(Block), Ascending(bs)
  PROVE  \A k, l \in 1..Len(bs) : k < l => bs[k].pos + bs[k].size <= bs[l].pos
<1> TAKE k \in 1..Len(bs)
<1> DEFINE T == {l \in 0..Len(bs) : k < l => bs[k].pos + bs[k].size <= bs[l].pos}
<1>1. k \in Nat /\ Len(bs) \in Nat /\ 0 \in T
  BY BlockType
<1>2. ASSUME NEW l \in 1..Len(bs), l - 1 \in T, k < l
      PROVE  bs[k].pos + bs[k].size <= bs[l].pos
  <2>1. l - 1 \in 1..Len(bs) /\ l - 1 \in 1..(Len(bs) - 1) /\ l - 1 + 1 = l
    BY <1>1, <1>2
  <2>2. bs[l - 1].pos + bs[l - 1].size <= bs[l].pos
    BY <2>1 DEF Ascending
  <2>3. /\ bs[k].pos \in Nat /\ bs[k].size \in Nat /\ bs[l].pos \in Nat
        /\ bs[l - 1].pos \in Nat /\ bs[l - 1].size \in Nat
    BY <2>1, BlockType
  <2>4. k = l - 1 \/ k < l - 1
    BY <1>1, <1>2
  <2>5. k < l - 1 => bs[k].pos + bs[k].size <= bs[l - 1].pos
    BY <1>2
  <2> HIDE DEF T
  <2> QED
    BY <2>2, <2>3, <2>4, <2>5
<1>3. IsStepwise(T, Len(bs))
  BY <1>1, <1>2 DEF IsStepwise
<1>4. \A l \in 0..Len(bs) : l \in T
  <2> HIDE DEF T
  <2> QED
    BY <1>1, <1>3, Stepwise
<1> QED
  BY <1>4

\* A position is in one of the blocks.
LEMMA PositionIn ==
  ASSUME NEW bs \in Seq(Block), NEW x
  PROVE  x \in Positions(bs) <=>
           \E k \in 1..Len(bs) : x \in bs[k].pos..(bs[k].pos + bs[k].size - 1)
BY DEF Positions, Span

\* Positions are numbers.
LEMMA PositionsAreNats ==
  ASSUME NEW bs \in Seq(Block)
  PROVE  Positions(bs) \subseteq Nat
BY PositionIn, BlockType

\* The pixels of ascending blocks ascend.
LEMMA PixelsAscend ==
  ASSUME NEW bs \in Seq(Block), Ascending(bs), NEW i \in 1..SizeOf(bs), NEW j \in 1..SizeOf(bs),
         i < j
  PROVE  PixelsOf(bs)[i] < PixelsOf(bs)[j]
<1> DEFINE k == BlockAt(bs, i)
           l == BlockAt(bs, j)
<1>1. bs \in Seq(Part)
  BY BlocksAreParts
<1>2. /\ k \in 1..Len(bs) /\ UpTo(bs, k - 1) < i /\ i <= UpTo(bs, k)
      /\ l \in 1..Len(bs) /\ UpTo(bs, l - 1) < j /\ j <= UpTo(bs, l)
  BY <1>1, BlockFacts
<1>3. PixelsOf(bs)[i] = bs[k].pos + i - 1 - UpTo(bs, k - 1)
  BY DEF PixelsOf
<1>4. PixelsOf(bs)[j] = bs[l].pos + j - 1 - UpTo(bs, l - 1)
  BY DEF PixelsOf
<1> HIDE DEF k, l
<1>5. /\ UpTo(bs, k - 1) \in Nat /\ UpTo(bs, k) = UpTo(bs, k - 1) + bs[k].size
      /\ bs[k].size \in Nat /\ bs[k].pos \in Nat /\ k \in Nat
  BY <1>1, <1>2, PartFacts
<1>6. /\ UpTo(bs, l - 1) \in Nat /\ UpTo(bs, l) = UpTo(bs, l - 1) + bs[l].size
      /\ bs[l].size \in Nat /\ bs[l].pos \in Nat /\ l \in Nat
  BY <1>1, <1>2, PartFacts
<1>7. i \in Nat /\ j \in Nat
  BY <1>1, SumFacts
<1>8. CASE k = l
  <2> DEFINE a == UpTo(bs, k - 1)
  <2>1. /\ PixelsOf(bs)[i] = bs[k].pos + i - 1 - a /\ PixelsOf(bs)[j] = bs[k].pos + j - 1 - a
        /\ a \in Nat
    BY <1>3, <1>4, <1>5, <1>8
  <2> HIDE DEF a
  <2> QED
    BY <1>5, <1>7, <2>1
<1>9. CASE k < l
  <2>1. bs[k].pos + bs[k].size <= bs[l].pos
    BY <1>2, <1>9, AscendingFar
  <2> DEFINE a == UpTo(bs, k - 1)
             b == UpTo(bs, l - 1)
             y == PixelsOf(bs)[i]
             z == PixelsOf(bs)[j]
             p == bs[k].pos
             q == bs[l].pos
             n == bs[k].size
  <2>2. a \in Nat /\ b \in Nat /\ p \in Nat /\ q \in Nat /\ n \in Nat /\ p + n <= q
    BY <1>5, <1>6, <2>1
  <2>3. i <= a + n /\ b < j /\ y = p + i - 1 - a /\ z = q + j - 1 - b
    BY <1>2, <1>3, <1>4, <1>5
  <2> HIDE DEF a, b, y, z, p, q, n
  <2>4. y < z
    BY <1>7, <2>2, <2>3
  <2> QED
    BY <2>4 DEF y, z
<1>10. CASE l < k
  <2>1. l \in 0..Len(bs) /\ k - 1 \in 0..Len(bs) /\ l <= k - 1
    BY <1>1, <1>2, <1>5, <1>6, <1>10, SumFacts
  <2>2. UpTo(bs, l) <= UpTo(bs, k - 1) /\ UpTo(bs, l) \in Nat
    BY <1>1, <2>1, SumGrows, SumFacts
  <2> QED
    BY <1>2, <1>5, <1>7, <2>2
<1> QED
  BY <1>5, <1>6, <1>8, <1>9, <1>10

\* Blocks stand for the pixels at their positions.
LEMMA PixelsArePositions ==
  ASSUME NEW bs \in Seq(Block)
  PROVE  /\ PixelsOf(bs) \in Seq(Nat) /\ Len(PixelsOf(bs)) = SizeOf(bs) /\ SizeOf(bs) \in Nat
         /\ ToSet(PixelsOf(bs)) = Positions(bs)
<1>1. bs \in Seq(Part) /\ SizeOf(bs) \in Nat
  BY BlocksAreParts, SumFacts
<1>2. PixelsOf(bs) \in Seq(Nat) /\ Len(PixelsOf(bs)) = SizeOf(bs)
  BY <1>1, PositionFacts
<1>3. ASSUME NEW x \in Positions(bs)
      PROVE  x \in ToSet(PixelsOf(bs))
  <2>1. PICK k \in 1..Len(bs) : x \in bs[k].pos..(bs[k].pos + bs[k].size - 1)
    BY <1>3, PositionIn
  <2> DEFINE i == x - bs[k].pos + 1
  <2>2. i \in 1..bs[k].size /\ bs[k].pos + i - 1 = x
    BY <2>1, BlockType
  <2>3. /\ UpTo(bs, k - 1) + i \in 1..SizeOf(bs)
        /\ PixelsOf(bs)[UpTo(bs, k - 1) + i] = x
    BY <1>1, <2>2, PositionFacts
  <2> QED
    BY <1>2, <2>3 DEF ToSet
<1>4. ASSUME NEW j \in 1..SizeOf(bs)
      PROVE  PixelsOf(bs)[j] \in Positions(bs)
  <2> DEFINE k == BlockAt(bs, j)
  <2>1. k \in 1..Len(bs) /\ UpTo(bs, k - 1) < j /\ j <= UpTo(bs, k)
    BY <1>1, BlockFacts
  <2>2. PixelsOf(bs)[j] = bs[k].pos + j - 1 - UpTo(bs, k - 1)
    BY DEF PixelsOf
  <2> HIDE DEF k
  <2>3. /\ UpTo(bs, k - 1) \in Nat /\ UpTo(bs, k) = UpTo(bs, k - 1) + bs[k].size
        /\ bs[k].size \in Nat /\ bs[k].pos \in Nat /\ j \in Nat
    BY <1>1, <2>1, PartFacts
  <2>4. PixelsOf(bs)[j] \in bs[k].pos..(bs[k].pos + bs[k].size - 1)
    BY <2>1, <2>2, <2>3
  <2> QED
    BY <2>1, <2>4, PositionIn
<1>5. DOMAIN PixelsOf(bs) = 1..SizeOf(bs)
  BY <1>2
<1> QED
  BY <1>1, <1>2, <1>3, <1>4, <1>5 DEF ToSet

\* Blocks put behind blocks.
LEMMA JoinFacts ==
  ASSUME NEW f \in Seq(Block), NEW g \in Seq(Block), Ascending(f), Ascending(g),
         NEW n \in Nat, Below(f, n), Above(g, n)
  PROVE  /\ f \o g \in Seq(Block) /\ Ascending(f \o g)
         /\ Positions(f \o g) = Positions(f) \cup Positions(g)
         /\ \A m \in Nat : Below(g, m) /\ n <= m => Below(f \o g, m)
<1> DEFINE h == f \o g
<1>1. /\ h \in Seq(Block) /\ Len(h) = Len(f) + Len(g) /\ Len(f) \in Nat /\ Len(g) \in Nat
      /\ \A k \in 1..Len(f) : h[k] = f[k]
      /\ \A k \in 1..Len(h) : k > Len(f) => h[k] = g[k - Len(f)]
  OBVIOUS
<1> HIDE DEF h
<1>2. \A k \in 1..Len(h) : k \in 1..Len(f) \/ (k > Len(f) /\ k - Len(f) \in 1..Len(g))
  BY <1>1
<1>3. ASSUME NEW k \in 1..(Len(h) - 1)
      PROVE  h[k].pos + h[k].size <= h[k + 1].pos
  <2>1. k \in Nat /\ k \in 1..Len(h) /\ k + 1 \in 1..Len(h)
    BY <1>1
  <2>2. CASE k + 1 \in 1..Len(f)
    <3>1. k \in 1..Len(f) /\ k \in 1..(Len(f) - 1)
      BY <1>1, <2>1, <2>2
    <3> QED
      BY <1>1, <2>2, <3>1 DEF Ascending
  <2>3. CASE k \in 1..Len(f) /\ k + 1 \notin 1..Len(f)
    <3>1. k + 1 > Len(f) /\ k + 1 - Len(f) \in 1..Len(g)
      BY <1>2, <2>1, <2>3
    <3>2. h[k] = f[k] /\ h[k + 1] = g[k + 1 - Len(f)]
      BY <1>1, <2>1, <2>3, <3>1
    <3>3. PICK a \in Block, c \in Block : a = f[k] /\ c = g[k + 1 - Len(f)]
      BY <2>3, <3>1, BlockType
    <3>4. a.pos + a.size <= n /\ n <= c.pos
      BY <2>3, <3>1, <3>3 DEF Below, Above
    <3>5. a.pos + a.size <= c.pos
      BY <3>4 DEF Block
    <3> QED
      BY <3>2, <3>3, <3>5
  <2>4. CASE k \notin 1..Len(f)
    <3> DEFINE l == k - Len(f)
    <3>1. k > Len(f) /\ l \in 1..(Len(g) - 1) /\ k + 1 > Len(f) /\ k + 1 - Len(f) = l + 1
      BY <1>1, <2>1, <2>4
    <3>2. h[k] = g[l] /\ h[k + 1] = g[l + 1]
      BY <1>1, <2>1, <3>1
    <3> HIDE DEF l
    <3> QED
      BY <3>1, <3>2 DEF Ascending
  <2> QED
    BY <2>2, <2>3, <2>4
<1>4. Ascending(h)
  BY <1>3 DEF Ascending
<1>5. Positions(h) = Positions(f) \cup Positions(g)
  <2>1. ASSUME NEW x \in Positions(h)
        PROVE  x \in Positions(f) \cup Positions(g)
    <3>1. PICK k \in 1..Len(h) : x \in h[k].pos..(h[k].pos + h[k].size - 1)
      BY <1>1, <2>1, PositionIn
    <3>2. CASE k \in 1..Len(f)
      BY <1>1, <3>1, <3>2, PositionIn
    <3>3. CASE k > Len(f) /\ k - Len(f) \in 1..Len(g)
      BY <1>1, <3>1, <3>3, PositionIn
    <3> QED
      BY <1>2, <3>2, <3>3
  <2>2. ASSUME NEW x \in Positions(f)
        PROVE  x \in Positions(h)
    <3>1. PICK k \in 1..Len(f) : x \in f[k].pos..(f[k].pos + f[k].size - 1)
      BY <2>2, PositionIn
    <3>2. k \in 1..Len(h) /\ h[k] = f[k]
      BY <1>1
    <3> QED
      BY <1>1, <3>1, <3>2, PositionIn
  <2>3. ASSUME NEW x \in Positions(g)
        PROVE  x \in Positions(h)
    <3>1. PICK k \in 1..Len(g) : x \in g[k].pos..(g[k].pos + g[k].size - 1)
      BY <2>3, PositionIn
    <3>2. k + Len(f) \in 1..Len(h) /\ k + Len(f) > Len(f) /\ k + Len(f) - Len(f) = k
      BY <1>1
    <3>3. h[k + Len(f)] = g[k]
      BY <1>1, <3>2
    <3> QED
      BY <1>1, <3>1, <3>2, <3>3, PositionIn
  <2> QED
    BY <2>1, <2>2, <2>3
<1>6. ASSUME NEW m \in Nat, Below(g, m), n <= m
      PROVE  Below(h, m)
  <2>1. ASSUME NEW k \in 1..Len(h)
        PROVE  h[k].pos + h[k].size <= m
    <3>1. CASE k \in 1..Len(f)
      <4>1. f[k].pos + f[k].size <= n /\ f[k].pos \in Nat /\ f[k].size \in Nat /\ h[k] = f[k]
        BY <1>1, <3>1, BlockType DEF Below
      <4> QED
        BY <1>6, <4>1
    <3>2. CASE k > Len(f) /\ k - Len(f) \in 1..Len(g)
      BY <1>1, <1>6, <3>2 DEF Below
    <3> QED
      BY <1>2, <3>1, <3>2
  <2> QED
    BY <2>1 DEF Below
<1> QED
  BY <1>1, <1>4, <1>5, <1>6 DEF h

\* The positions of one block.
LEMMA OneBlock ==
  ASSUME NEW b \in Block
  PROVE  /\ <<b>> \in Seq(Block) /\ Ascending(<<b>>) /\ Positions(<<b>>) = Span(b)
         /\ Below(<<b>>, b.pos + b.size) /\ Above(<<b>>, b.pos)
         /\ b.pos \in Nat \ {0} /\ b.size \in Nat \ {0}
BY DEF Ascending, Positions, Below, Above, Block

\* No block has no position.
LEMMA NoBlockFacts ==
  /\ << >> \in Seq(Block) /\ Ascending(<< >>) /\ Positions(<< >>) = {}
  /\ \A n : Below(<< >>, n) /\ Above(<< >>, n)
BY DEF Ascending, Positions, Below, Above

\* Some blocks of a sequence of blocks.
LEMMA SubFacts ==
  ASSUME NEW bs \in Seq(Block), Ascending(bs), NEW a \in 1..(Len(bs) + 1),
         NEW b \in (a - 1)..Len(bs)
  PROVE  LET s == SubSeq(bs, a, b)
         IN  /\ s \in Seq(Block) /\ Ascending(s) /\ Len(s) = b - a + 1
             /\ Positions(s) \subseteq Positions(bs)
             /\ \A k \in a..b : Span(bs[k]) \subseteq Positions(s)
             /\ \A l \in (b + 1)..Len(bs) : Below(s, bs[l].pos)
             /\ \A n : (\A k \in a..b : n <= bs[k].pos) => Above(s, n)
<1> DEFINE s == SubSeq(bs, a, b)
<1>1. Len(bs) \in Nat /\ a \in Nat /\ b \in Int /\ \A k \in a..b : k \in 1..Len(bs)
  OBVIOUS
<1>2. /\ s \in Seq(Block) /\ Len(s) = b - a + 1
      /\ \A k \in 1..Len(s) : s[k] = bs[a + k - 1] /\ a + k - 1 \in a..b
  <2>1. \A k \in a..b : bs[k] \in Block
    BY <1>1
  <2>2. s = [k \in 1..(b - a + 1) |-> bs[a + k - 1]]
    BY <1>1
  <2>3. b - a + 1 \in Nat /\ \A k \in 1..(b - a + 1) : a + k - 1 \in a..b
    BY <1>1
  <2>4. \A k \in 1..(b - a + 1) : s[k] = bs[a + k - 1] /\ s[k] \in Block
    BY <2>1, <2>2, <2>3
  <2>5. s \in [1..(b - a + 1) -> Block]
    BY <2>2, <2>4
  <2>6. s \in Seq(Block) /\ Len(s) = b - a + 1
    BY <2>3, <2>5
  <2> QED
    BY <2>3, <2>4, <2>6
<1> HIDE DEF s
<1>3. Ascending(s)
  <2> SUFFICES ASSUME NEW k \in 1..(Len(s) - 1)
               PROVE  s[k].pos + s[k].size <= s[k + 1].pos
    BY DEF Ascending
  <2>1. k \in 1..Len(s) /\ k + 1 \in 1..Len(s) /\ a + (k + 1) - 1 = a + k
    BY <1>1, <1>2
  <2>2. s[k] = bs[a + k - 1] /\ s[k + 1] = bs[a + k]
    BY <1>2, <2>1
  <2>3. a + k - 1 \in 1..(Len(bs) - 1) /\ a + k - 1 + 1 = a + k
    BY <1>1, <1>2
  <2> QED
    BY <2>2, <2>3 DEF Ascending
<1>4. Positions(s) \subseteq Positions(bs)
  <2> SUFFICES ASSUME NEW x \in Positions(s) PROVE x \in Positions(bs)
    OBVIOUS
  <2>1. PICK k \in 1..Len(s) : x \in s[k].pos..(s[k].pos + s[k].size - 1)
    BY <1>2, PositionIn
  <2>2. a + k - 1 \in 1..Len(bs) /\ s[k] = bs[a + k - 1]
    BY <1>1, <1>2
  <2> QED
    BY <2>1, <2>2, PositionIn
<1>5. ASSUME NEW k \in a..b
      PROVE  Span(bs[k]) \subseteq Positions(s)
  <2>1. k - a + 1 \in 1..Len(s) /\ a + (k - a + 1) - 1 = k
    BY <1>1, <1>2
  <2>2. s[k - a + 1] = bs[k]
    BY <1>2, <2>1
  <2> QED
    BY <1>2, <2>1, <2>2, PositionIn DEF Span
<1>6. ASSUME NEW l \in (b + 1)..Len(bs)
      PROVE  Below(s, bs[l].pos)
  <2> SUFFICES ASSUME NEW k \in 1..Len(s)
               PROVE  s[k].pos + s[k].size <= bs[l].pos
    BY DEF Below
  <2>1. a + k - 1 \in 1..Len(bs) /\ s[k] = bs[a + k - 1] /\ a + k - 1 < l /\ l \in 1..Len(bs)
    BY <1>1, <1>2
  <2> QED
    BY <2>1, AscendingFar
<1>7. ASSUME NEW n, \A k \in a..b : n <= bs[k].pos
      PROVE  Above(s, n)
  BY <1>2, <1>7 DEF Above
<1> QED
  BY <1>2, <1>3, <1>4, <1>5, <1>6, <1>7 DEF s

(***************************************************************************)
(* Blocks that are cut.                                                    *)
(***************************************************************************)
LEMMA TimesFacts ==
  ASSUME NEW buf \in Nat
  PROVE  /\ 0 * buf = 0 /\ 1 * buf = buf
         /\ \A k \in Nat : k * buf \in Nat /\ (k + 1) * buf = k * buf + buf
<1>1. \A k \in Nat : (k + 1) * buf = k * buf + buf
  BY Z3
<1>2. \A k \in Nat : k * buf \in Nat
  OBVIOUS
<1> QED
  BY <1>1, <1>2

\* A product with more factors is not less.
LEMMA TimesGrows ==
  ASSUME NEW buf \in Nat, NEW n \in Nat, NEW k \in 0..n
  PROVE  k * buf <= n * buf
<1> DEFINE T == {m \in 0..n : k <= m => k * buf <= m * buf}
<1>1. k \in Nat /\ k * buf \in Nat
  BY TimesFacts
<1>2. 0 \in T
  BY <1>1, TimesFacts
<1>3. ASSUME NEW m \in 1..n, m - 1 \in T
      PROVE  m \in T
  <2>1. m - 1 \in Nat /\ (m - 1) + 1 = m
    OBVIOUS
  <2>2. (m - 1) * buf \in Nat /\ m * buf = (m - 1) * buf + buf
    BY <2>1, TimesFacts
  <2>3. k <= m - 1 => k * buf <= (m - 1) * buf
    BY <1>3
  <2>4. k <= m - 1 => k * buf <= m * buf
    <3> DEFINE x == k * buf
               y == m * buf
               z == (m - 1) * buf
    <3>1. x \in Nat /\ z \in Nat /\ y = z + buf
      BY <1>1, <2>2
    <3>2. k <= m - 1 => x <= z
      BY <2>3
    <3> HIDE DEF x, y, z
    <3>3. k <= m - 1 => x <= y
      BY <3>1, <3>2
    <3> QED
      BY <3>3 DEF x, y
  <2>5. k <= m => k <= m - 1 \/ k = m
    BY <1>1
  <2> QED
    BY <1>1, <2>4, <2>5
<1>4. IsStepwise(T, n)
  BY <1>2, <1>3 DEF IsStepwise
<1>5. n \in T
  <2> HIDE DEF T
  <2> QED
    BY <1>4, Stepwise
<1> QED
  BY <1>5

\* A quotient, times the divisor, and the rest.
LEMMA DivFacts ==
  ASSUME NEW a \in Nat, NEW buf \in Nat \ {0}
  PROVE  /\ a \div buf \in Nat /\ (a \div buf) * buf <= a
         /\ a < (a \div buf) * buf + buf
BY Z3

\* The parts of a block.
LEMMA SplitRangeFacts ==
  ASSUME NEW b \in Block, NEW buf \in Nat \ {0}
  PROVE  LET s == SplitRange(b, buf)
         IN  /\ s \in Seq(Block) /\ Ascending(s) /\ Positions(s) = Span(b)
             /\ Below(s, b.pos + b.size) /\ Above(s, b.pos)
<1> DEFINE s == SplitRange(b, buf)
           n == b.size \div buf
           last == b.size - (n - 1) * buf
           p == b.pos
           z == b.size
<1>1. CASE b.size < 2 * buf
  BY <1>1, OneBlock DEF SplitRange
<1>2. CASE ~(b.size < 2 * buf)
  <2>1. p \in Nat \ {0} /\ z \in Nat \ {0} /\ buf \in Nat \ {0} /\ 2 * buf <= z
    <3>1. b.pos \in Nat \ {0} /\ b.size \in Nat \ {0}
      BY OneBlock
    <3> HIDE DEF n, last, s
    <3> QED
      BY <1>2, <3>1
  <2>2. n \in Nat /\ n * buf <= z /\ z < n * buf + buf /\ n * buf \in Nat
    BY <2>1, DivFacts, TimesFacts
  <2>3. s = [k \in 1..n |-> [pos |-> p + (k - 1) * buf, size |-> IF k < n THEN buf ELSE last]]
    BY <1>2 DEF SplitRange
  <2> HIDE DEF p, z, n
  <2>4. n # 0
    BY <2>1, <2>2, TimesFacts
  <2>5. /\ n - 1 \in Nat /\ (n - 1) * buf \in Nat /\ n * buf = (n - 1) * buf + buf
    <3>1. n - 1 \in Nat /\ (n - 1) + 1 = n
      BY <2>2, <2>4
    <3> QED
      BY <3>1, TimesFacts
  <2>6. last \in Nat \ {0} /\ (n - 1) * buf + last = z
    BY <2>1, <2>2, <2>5 DEF z
  <2> HIDE DEF last
  <2>7. ASSUME NEW k \in 1..n
        PROVE  /\ (k - 1) * buf \in Nat /\ k * buf \in Nat /\ k * buf = (k - 1) * buf + buf
               /\ k - 1 \in Nat /\ (k < n => k * buf <= (n - 1) * buf)
    <3>1. k - 1 \in Nat /\ (k - 1) + 1 = k /\ (k < n => k \in 0..(n - 1))
      BY <2>2
    <3> QED
      BY <2>5, <3>1, TimesFacts, TimesGrows
  <2>8. ASSUME NEW k \in 1..n
        PROVE  /\ s[k].pos = p + (k - 1) * buf /\ s[k].size = IF k < n THEN buf ELSE last
               /\ s[k] \in Block /\ p <= s[k].pos /\ s[k].pos + s[k].size <= p + z
    <3> DEFINE w == (k - 1) * buf
               y == k * buf
               v == (n - 1) * buf
               m == IF k < n THEN buf ELSE last
    <3>1. s[k].pos = p + w /\ s[k].size = m /\ s[k] = [pos |-> p + w, size |-> m]
      BY <2>3
    <3>2. w \in Nat /\ y = w + buf /\ (k < n => y <= v) /\ v \in Nat /\ v + last = z
      BY <2>5, <2>6, <2>7
    <3>3. k = n \/ k < n
      BY <2>2
    <3>4. k = n => w = v
      OBVIOUS
    <3> HIDE DEF w, y, v
    <3>5. m \in Nat \ {0} /\ p + w \in Nat \ {0} /\ p <= p + w /\ p + w + m <= p + z
      BY <2>1, <2>2, <2>6, <3>2, <3>3, <3>4
    <3> HIDE DEF m
    <3>6. s[k] \in Block
      BY <3>1, <3>5 DEF Block
    <3> QED
      BY <3>1, <3>5, <3>6 DEF m, w
  <2>9. s \in Seq(Block) /\ Len(s) = n
    <3>1. s \in [1..n -> Block]
      BY <2>3, <2>8
    <3> QED
      BY <2>2, <3>1
  <2> HIDE DEF s
  <2>10. Below(s, p + z) /\ Above(s, p)
    BY <2>8, <2>9 DEF Below, Above
  <2>11. Ascending(s)
    <3> SUFFICES ASSUME NEW k \in 1..(n - 1)
                 PROVE  s[k].pos + s[k].size <= s[k + 1].pos
      BY <2>9 DEF Ascending
    <3>1. k \in 1..n /\ k + 1 \in 1..n /\ k < n /\ k + 1 - 1 = k
      BY <2>2
    <3>2. s[k].pos = p + (k - 1) * buf /\ s[k].size = buf /\ s[k + 1].pos = p + k * buf
      BY <2>8, <3>1
    <3>3. k * buf = (k - 1) * buf + buf /\ (k - 1) * buf \in Nat
      BY <2>7, <3>1
    <3> QED
      BY <2>1, <3>2, <3>3
  <2>12. ASSUME NEW x \in Positions(s)
         PROVE  x \in Span(b)
    <3>1. PICK k \in 1..n : x \in s[k].pos..(s[k].pos + s[k].size - 1)
      BY <2>9, <2>12, PositionIn
    <3>2. /\ p <= s[k].pos /\ s[k].pos + s[k].size <= p + z /\ s[k].pos \in Nat
          /\ s[k].size \in Nat
      BY <2>8 DEF Block
    <3>3. x \in p..(p + z - 1)
      BY <2>1, <3>1, <3>2
    <3> QED
      BY <3>3 DEF Span, p, z
  <2>13. ASSUME NEW x \in Span(b)
         PROVE  x \in Positions(s)
    <3> DEFINE d == x - p
               q == d \div buf
               r == q * buf
               v == (n - 1) * buf
    <3>1. x \in p..(p + z - 1)
      BY <2>13 DEF Span, p, z
    <3>2. d \in Nat /\ d < z /\ x = p + d
      BY <2>1, <3>1
    <3> HIDE DEF d
    <3>3. q \in Nat /\ r <= d /\ d < r + buf /\ r \in Nat
      BY <3>2, DivFacts, TimesFacts
    <3> HIDE DEF q
    <3>4. CASE q < n - 1
      <4>1. q + 1 \in 1..n /\ q + 1 < n /\ (q + 1) - 1 = q
        <5> HIDE DEF r
        <5> QED
          BY <2>2, <2>5, <3>3, <3>4
      <4>2. s[q + 1].pos = p + r /\ s[q + 1].size = buf
        BY <2>8, <4>1
      <4> HIDE DEF r
      <4>3. x \in (p + r)..(p + r + buf - 1)
        BY <2>1, <3>2, <3>3
      <4> QED
        BY <2>9, <4>1, <4>2, <4>3, PositionIn
    <3>5. CASE ~(q < n - 1)
      <4>1. n \in 1..n /\ ~(n < n) /\ n - 1 \in 0..q
        BY <2>2, <2>4, <2>5, <3>3, <3>5
      <4>2. s[n].pos = p + v /\ s[n].size = last
        BY <2>8, <4>1
      <4>3. v <= r /\ v \in Nat /\ v + last = z
        BY <2>5, <2>6, <3>3, <4>1, TimesGrows
      <4> HIDE DEF v, r
      <4>4. x \in (p + v)..(p + v + last - 1)
        BY <2>1, <2>6, <3>2, <3>3, <4>3
      <4> QED
        BY <2>9, <4>1, <4>2, <4>4, PositionIn
    <3> QED
      BY <3>4, <3>5
  <2>14. Positions(s) = Span(b)
    BY <2>12, <2>13
  <2> QED
    BY <2>9, <2>10, <2>11, <2>14 DEF s, p, z
<1> QED
  BY <1>1, <1>2

\* Blocks g stand for the pixels of the first k blocks.
Covers(g, bs, k) ==
  /\ g \in Seq(Block) /\ Ascending(g) /\ Positions(g) = UNION {Span(bs[j]) : j \in 1..k}
  /\ \A l \in (k + 1)..Len(bs) : Below(g, bs[l].pos)

\* No blocks cover the first none.
LEMMA CoversNone ==
  ASSUME NEW bs \in Seq(Block)
  PROVE  Covers(<< >>, bs, 0)
BY NoBlockFacts DEF Covers

\* All blocks cover the positions of all.
LEMMA CoversAll ==
  ASSUME NEW bs \in Seq(Block), NEW g, Covers(g, bs, Len(bs))
  PROVE  g \in Seq(Block) /\ Ascending(g) /\ Positions(g) = Positions(bs)
<1>1. DOMAIN bs = 1..Len(bs)
  OBVIOUS
<1> QED
  BY <1>1 DEF Covers, Positions

\* Parts of the next block behind those of the ones before.
LEMMA CoversMore ==
  ASSUME NEW bs \in Seq(Block), Ascending(bs), NEW k \in 1..Len(bs), NEW g, Covers(g, bs, k - 1),
         NEW h \in Seq(Block), Ascending(h), Positions(h) = Span(bs[k]),
         Below(h, bs[k].pos + bs[k].size), Above(h, bs[k].pos)
  PROVE  Covers(g \o h, bs, k)
<1>1. /\ k \in Nat /\ Len(bs) \in Nat /\ k \in ((k - 1) + 1)..Len(bs)
      /\ bs[k].pos \in Nat /\ bs[k].size \in Nat
  BY BlockType
<1>2. /\ g \in Seq(Block) /\ Ascending(g) /\ Below(g, bs[k].pos)
      /\ Positions(g) = UNION {Span(bs[j]) : j \in 1..(k - 1)}
  BY <1>1 DEF Covers
<1>3. /\ g \o h \in Seq(Block) /\ Ascending(g \o h)
      /\ Positions(g \o h) = Positions(g) \cup Span(bs[k])
      /\ \A m \in Nat : Below(h, m) /\ bs[k].pos <= m => Below(g \o h, m)
  BY <1>1, <1>2, JoinFacts
<1>4. Positions(g \o h) = UNION {Span(bs[j]) : j \in 1..k}
  <2>1. \A j : j \in 1..k <=> j \in 1..(k - 1) \/ j = k
    BY <1>1
  <2> QED
    BY <1>2, <1>3, <2>1
<1>5. ASSUME NEW l \in (k + 1)..Len(bs)
      PROVE  Below(g \o h, bs[l].pos)
  <2>1. l \in 1..Len(bs) /\ k < l
    BY <1>1
  <2>2. bs[k].pos + bs[k].size <= bs[l].pos /\ bs[l].pos \in Nat
    BY <2>1, AscendingFar, BlockType
  <2>3. Below(h, bs[l].pos)
    <3> SUFFICES ASSUME NEW i \in 1..Len(h)
                 PROVE  h[i].pos + h[i].size <= bs[l].pos
      BY DEF Below
    <3>1. h[i].pos + h[i].size <= bs[k].pos + bs[k].size
      BY DEF Below
    <3>2. h[i].pos \in Nat /\ h[i].size \in Nat
      BY BlockType
    <3> QED
      BY <1>1, <2>2, <3>1, <3>2, SMTT(30)
  <2>4. bs[k].pos <= bs[l].pos
    BY <1>1, <2>2
  <2> QED
    BY <1>3, <2>2, <2>3, <2>4
<1> QED
  BY <1>3, <1>4, <1>5 DEF Covers

\* Blocks that are split stand for the same pixels.
LEMMA SplitBigFacts ==
  ASSUME NEW bs \in Seq(Block), Ascending(bs), NEW buf \in Nat \ {0}
  PROVE  LET s == SplitBig(bs, buf)
         IN  s \in Seq(Block) /\ Ascending(s) /\ Positions(s) = Positions(bs)
<1> DEFINE n == Len(bs)
           part(k) == SplitRange(bs[k], buf)
           step == [x \in Seq(Block) \X (1..n) |-> x[1] \o part(x[2])]
           Is(g) == g = [k \in 0..n |-> IF k = 0 THEN << >> ELSE g[k - 1] \o part(k)]
           c == CHOOSE g : Is(g)
<1>1. n \in Nat /\ \A k \in 1..n : bs[k] \in Block
  BY BlockType
<1>2. \A k \in 1..n : /\ part(k) \in Seq(Block) /\ Ascending(part(k))
                      /\ Positions(part(k)) = Span(bs[k])
                      /\ Below(part(k), bs[k].pos + bs[k].size) /\ Above(part(k), bs[k].pos)
  BY <1>1, SplitRangeFacts
<1>3. SplitBig(bs, buf) = bs \/ SplitBig(bs, buf) = c[n]
  BY DEF SplitBig
<1> HIDE DEF part
<1>4. IsStep(step, n, Seq(Block)) /\ << >> \in Seq(Block)
  BY <1>2 DEF IsStep
<1>5. PICK f : Iterates(f, n, Seq(Block), << >>, step)
  <2> HIDE DEF step
  <2> QED
    BY <1>1, <1>4, RecursionExists
<1>6. \A k \in 1..n : f[k] = f[k - 1] \o part(k)
  <2> TAKE k \in 1..n
  <2>1. k - 1 \in 0..n
    BY <1>1
  <2>2. f[k - 1] \in Seq(Block) /\ f[k] = step[<<f[k - 1], k>>]
    BY <1>5, <2>1 DEF Iterates
  <2>3. <<f[k - 1], k>> \in Seq(Block) \X (1..n)
    BY <2>2
  <2> QED
    BY <2>2, <2>3
<1>7. Is(f)
  <2>1. \A k \in 0..n : f[k] = IF k = 0 THEN << >> ELSE f[k - 1] \o part(k)
    <3> TAKE k \in 0..n
    <3>1. k = 0 \/ k \in 1..n
      BY <1>1
    <3>2. k = 0 => f[k] = << >>
      BY <1>5 DEF Iterates
    <3>3. k \in 1..n => k # 0 /\ f[k] = f[k - 1] \o part(k)
      BY <1>1, <1>6, SMTT(30)
    <3> QED
      BY <3>1, <3>2, <3>3
  <2>2. f = [k \in 0..n |-> f[k]]
    BY <1>5 DEF Iterates
  <2> QED
    BY <2>1, <2>2
<1>8. Is(c)
  BY <1>7
<1> HIDE DEF c, step
<1>9. c[0] = << >> /\ \A k \in 1..n : c[k] = c[k - 1] \o part(k)
  <2>1. \A k \in 0..n : c[k] = IF k = 0 THEN << >> ELSE c[k - 1] \o part(k)
    BY <1>8
  <2>2. 0 \in 0..n /\ \A k \in 1..n : k \in 0..n /\ k # 0
    BY <1>1
  <2> HIDE DEF n, Is
  <2> QED
    BY <2>1, <2>2
<1> HIDE DEF Is
<1> DEFINE T == {k \in 0..n : Covers(c[k], bs, k)}
<1>10. 0 \in T
  BY <1>1, <1>9, CoversNone
<1>11. ASSUME NEW k \in 1..n, k - 1 \in T
       PROVE  k \in T
  <2>1. Covers(c[k - 1], bs, k - 1) /\ k \in 0..n
    BY <1>1, <1>11
  <2>2. Covers(c[k - 1] \o part(k), bs, k)
    BY <1>2, <2>1, CoversMore
  <2>3. c[k] = c[k - 1] \o part(k)
    BY <1>9
  <2> HIDE DEF n
  <2> QED
    BY <2>1, <2>2, <2>3
<1>12. n \in T
  <2> HIDE DEF T
  <2>1. IsStepwise(T, n)
    BY <1>10, <1>11 DEF IsStepwise
  <2> QED
    BY <1>1, <2>1, Stepwise
<1>13. c[n] \in Seq(Block) /\ Ascending(c[n]) /\ Positions(c[n]) = Positions(bs)
  BY <1>12, CoversAll
<1> QED
  BY <1>3, <1>13

\* Blocks that are glued stand for the same pixels.
LEMMA GlueMore ==
  ASSUME NEW bs \in Seq(Block), Ascending(bs), NEW k \in 1..Len(bs), NEW g, Covers(g, bs, k - 1),
         g # << >>, Touch(g[Len(g)], bs[k])
  PROVE  Covers([g EXCEPT ![Len(g)].size = @ + bs[k].size], bs, k)
<1> DEFINE n == Len(g)
           h == [g EXCEPT ![n].size = @ + bs[k].size]
           w == bs[k].size
<1>1. /\ k \in Nat /\ Len(bs) \in Nat /\ bs[k].pos \in Nat \ {0} /\ w \in Nat \ {0}
  BY BlockType
<1>2. /\ g \in Seq(Block) /\ Ascending(g)
      /\ Positions(g) = UNION {Span(bs[j]) : j \in 1..(k - 1)}
  BY DEF Covers
<1>3. n \in Nat /\ n \in 1..n /\ DOMAIN g = 1..n
  BY <1>2
<1>4. \A i \in 1..n : g[i].pos \in Nat \ {0} /\ g[i].size \in Nat \ {0} /\ g[i] \in Block
  BY <1>2, BlockType
<1>5. g[n].pos + g[n].size = bs[k].pos
  BY DEF Touch
<1>6. /\ h = [i \in 1..n |-> IF i = n THEN [g[n] EXCEPT !.size = @ + w] ELSE g[i]]
      /\ \A i \in 1..n : i # n => h[i] = g[i]
  BY <1>3
<1>7. h[n] = [g[n] EXCEPT !.size = @ + w] /\ h[n].pos = g[n].pos /\ h[n].size = g[n].size + w
  BY <1>3, <1>4, <1>6 DEF Block
<1>8. h \in Seq(Block) /\ Len(h) = n
  <2>1. h[n] = [pos |-> g[n].pos, size |-> g[n].size + w]
    BY <1>3, <1>4, <1>7 DEF Block
  <2>2. g[n].pos \in Nat \ {0} /\ g[n].size \in Nat \ {0} /\ g[n].size + w \in Nat \ {0}
    BY <1>1, <1>3, <1>4
  <2>3. h[n] \in Block
    BY <2>1, <2>2 DEF Block
  <2> HIDE DEF w
  <2>4. \A i \in 1..n : h[i] \in Block
    BY <1>4, <1>6, <2>3
  <2>5. h = [i \in 1..n |-> h[i]]
    BY <1>6
  <2> HIDE DEF h, n
  <2>6. h \in [1..n -> Block]
    BY <2>4, <2>5
  <2> QED
    BY <1>3, <2>6
<1> HIDE DEF h, n, w
<1>9. Ascending(h)
  <2> SUFFICES ASSUME NEW i \in 1..(n - 1)
               PROVE  h[i].pos + h[i].size <= h[i + 1].pos
    BY <1>8 DEF Ascending
  <2>1. i \in 1..n /\ i # n /\ i + 1 \in 1..n
    BY <1>3
  <2>2. h[i] = g[i] /\ h[i + 1].pos = g[i + 1].pos
    BY <1>6, <1>7, <2>1
  <2> QED
    BY <1>2, <2>2 DEF Ascending, n
<1>10. Positions(h) = UNION {Span(bs[j]) : j \in 1..k}
  <2>1. \A i \in 1..n : i # n => Span(h[i]) = Span(g[i])
    BY <1>6
  <2>2. Span(h[n]) = Span(g[n]) \cup Span(bs[k])
    <3> DEFINE a == g[n].pos
               s == g[n].size
               e == bs[k].pos
    <3>1. a \in Nat /\ s \in Nat /\ e \in Nat /\ w \in Nat /\ a + s = e
      BY <1>1, <1>3, <1>4, <1>5
    <3>2. /\ Span(h[n]) = a..(a + (s + w) - 1) /\ Span(g[n]) = a..(a + s - 1)
          /\ Span(bs[k]) = e..(e + w - 1)
      BY <1>7 DEF Span, w
    <3> HIDE DEF a, s, e
    <3>3. a..(a + (s + w) - 1) = a..(a + s - 1) \cup e..(e + w - 1)
      BY <3>1
    <3> QED
      BY <3>2, <3>3
  <2>3. Positions(h) = Positions(g) \cup Span(bs[k])
    <3>1. DOMAIN h = 1..n
      BY <1>8
    <3> QED
      BY <1>3, <2>1, <2>2, <3>1 DEF Positions
  <2>4. \A j : j \in 1..k <=> j \in 1..(k - 1) \/ j = k
    BY <1>1
  <2> QED
    BY <1>2, <2>3, <2>4
<1>11. ASSUME NEW l \in (k + 1)..Len(bs), NEW i \in 1..n
       PROVE  h[i].pos + h[i].size <= bs[l].pos
  <2>1. l \in 1..Len(bs) /\ k < l /\ l \in ((k - 1) + 1)..Len(bs)
    BY <1>1
  <2>2. bs[k].pos + w <= bs[l].pos /\ bs[l].pos \in Nat
    BY <2>1, AscendingFar, BlockType DEF w
  <2>3. g[i].pos + g[i].size <= bs[l].pos
    BY <2>1 DEF Covers, Below, n
  <2>4. CASE i = n
    <3> DEFINE a == g[n].pos
               s == g[n].size
               e == bs[k].pos
               z == bs[l].pos
    <3>1. /\ a \in Nat /\ s \in Nat /\ e \in Nat /\ w \in Nat /\ z \in Nat
          /\ a + s = e /\ e + w <= z
      BY <1>1, <1>3, <1>4, <1>5, <2>2
    <3>2. h[i].pos = a /\ h[i].size = s + w
      BY <1>7, <2>4
    <3> HIDE DEF a, s, e, z
    <3>3. a + (s + w) <= z
      BY <3>1
    <3> QED
      BY <3>2, <3>3 DEF z
  <2>5. CASE i # n
    BY <1>6, <2>3, <2>5
  <2> QED
    BY <2>4, <2>5
<1>12. \A l \in (k + 1)..Len(bs) : Below(h, bs[l].pos)
  BY <1>8, <1>11 DEF Below
<1> QED
  BY <1>8, <1>9, <1>10, <1>12 DEF Covers, h, n, w

\* A block with more added to the last one.
LEMMA LongerLast ==
  ASSUME NEW g \in Seq(Block), g # << >>, NEW w \in Nat
  PROVE  [g EXCEPT ![Len(g)].size = @ + w] \in Seq(Block) \ {<< >>}
<1> DEFINE n == Len(g)
           h == [g EXCEPT ![n].size = @ + w]
<1>1. n \in Nat /\ n \in 1..n /\ DOMAIN g = 1..n
  OBVIOUS
<1>2. \A i \in 1..n : g[i].pos \in Nat \ {0} /\ g[i].size \in Nat \ {0} /\ g[i] \in Block
  BY BlockType
<1>3. h = [i \in 1..n |-> IF i = n THEN [g[n] EXCEPT !.size = @ + w] ELSE g[i]]
  BY <1>1
<1>4. h[n] = [pos |-> g[n].pos, size |-> g[n].size + w]
  BY <1>1, <1>2, <1>3 DEF Block
<1>5. g[n].pos \in Nat \ {0} /\ g[n].size + w \in Nat \ {0}
  BY <1>1, <1>2
<1>6. h[n] \in Block
  BY <1>4, <1>5 DEF Block
<1>7. \A i \in 1..n : h[i] \in Block
  BY <1>2, <1>3, <1>6
<1>8. h = [i \in 1..n |-> h[i]]
  BY <1>3
<1> HIDE DEF h, n
<1>9. h \in [1..n -> Block]
  BY <1>7, <1>8
<1>10. h \in Seq(Block) /\ Len(h) = n /\ n # 0
  BY <1>1, <1>9
<1> QED
  BY <1>10 DEF h, n

\* Glued blocks stand for the same pixels.
LEMMA GlueFacts ==
  ASSUME NEW bs \in Seq(Block), Ascending(bs)
  PROVE  Glue(bs) \in Seq(Block) /\ Ascending(Glue(bs)) /\ Positions(Glue(bs)) = Positions(bs)
<1> DEFINE n == Len(bs)
           more(g, k) == IF g # << >> /\ Touch(g[Len(g)], bs[k])
                         THEN [g EXCEPT ![Len(g)].size = @ + bs[k].size]
                         ELSE Append(g, bs[k])
           step == [x \in Seq(Block) \X (1..n) |-> more(x[1], x[2])]
           Is(g) == g = [k \in 0..n |-> IF k = 0 THEN << >> ELSE more(g[k - 1], k)]
           c == CHOOSE g : Is(g)
<1>1. n \in Nat /\ \A k \in 1..n : bs[k] \in Block /\ bs[k].size \in Nat
  BY BlockType
<1>2. Glue(bs) = c[n]
  BY DEF Glue
<1>3. \A g \in Seq(Block), k \in 1..n : more(g, k) \in Seq(Block)
  BY <1>1, LongerLast
<1>4. ASSUME NEW k \in 1..n, NEW g, Covers(g, bs, k - 1)
      PROVE  Covers(more(g, k), bs, k)
  <2>1. g \in Seq(Block) /\ bs[k] \in Block
    BY <1>1, <1>4 DEF Covers
  <2>2. CASE g # << >> /\ Touch(g[Len(g)], bs[k])
    <3>1. Covers([g EXCEPT ![Len(g)].size = @ + bs[k].size], bs, k)
      BY <1>4, <2>2, GlueMore
    <3> QED
      BY <2>2, <3>1
  <2>3. CASE ~(g # << >> /\ Touch(g[Len(g)], bs[k]))
    <3>1. Covers(g \o <<bs[k]>>, bs, k)
      BY <1>4, <2>1, OneBlock, CoversMore
    <3>2. Append(g, bs[k]) = g \o <<bs[k]>>
      BY <2>1
    <3> QED
      BY <2>3, <3>1, <3>2
  <2> QED
    BY <2>2, <2>3
<1> HIDE DEF more
<1>5. IsStep(step, n, Seq(Block)) /\ << >> \in Seq(Block)
  BY <1>3 DEF IsStep
<1>6. PICK f : Iterates(f, n, Seq(Block), << >>, step)
  <2> HIDE DEF step
  <2> QED
    BY <1>1, <1>5, RecursionExists
<1>7. \A k \in 1..n : f[k] = more(f[k - 1], k)
  <2> TAKE k \in 1..n
  <2>1. f \in [0..n -> Seq(Block)] /\ k - 1 \in 0..n
    BY <1>1, <1>6 DEF Iterates
  <2>2. f[k - 1] \in Seq(Block)
    <3> HIDE DEF n
    <3> QED
      BY <2>1
  <2>3. <<f[k - 1], k>> \in Seq(Block) \X (1..n)
    BY <2>2
  <2> QED
    BY <1>6, <2>3 DEF Iterates
<1>8. Is(f)
  <2>1. \A k \in 0..n : f[k] = IF k = 0 THEN << >> ELSE more(f[k - 1], k)
    BY <1>1, <1>6, <1>7 DEF Iterates
  <2>2. f = [k \in 0..n |-> f[k]]
    BY <1>6 DEF Iterates
  <2> QED
    BY <2>1, <2>2
<1>9. Is(c)
  BY <1>8
<1> HIDE DEF c, step
<1>10. c[0] = << >> /\ \A k \in 1..n : c[k] = more(c[k - 1], k)
  <2>1. \A k \in 0..n : c[k] = IF k = 0 THEN << >> ELSE more(c[k - 1], k)
    BY <1>9
  <2>2. 0 \in 0..n /\ \A k \in 1..n : k \in 0..n /\ k # 0
    BY <1>1
  <2> HIDE DEF n, Is
  <2> QED
    BY <2>1, <2>2
<1> HIDE DEF Is
<1> DEFINE T == {k \in 0..n : Covers(c[k], bs, k)}
<1>11. 0 \in T
  BY <1>1, <1>10, CoversNone
<1>12. ASSUME NEW k \in 1..n, k - 1 \in T
       PROVE  k \in T
  <2>1. Covers(c[k - 1], bs, k - 1) /\ k \in 0..n
    BY <1>1, <1>12
  <2>2. Covers(more(c[k - 1], k), bs, k)
    BY <1>4, <2>1
  <2>3. c[k] = more(c[k - 1], k)
    BY <1>10
  <2> HIDE DEF n
  <2> QED
    BY <2>1, <2>2, <2>3
<1>13. n \in T
  <2> HIDE DEF T
  <2>1. IsStepwise(T, n)
    BY <1>11, <1>12 DEF IsStepwise
  <2> QED
    BY <1>1, <2>1, Stepwise
<1>14. c[n] \in Seq(Block) /\ Ascending(c[n]) /\ Positions(c[n]) = Positions(bs)
  BY <1>13, CoversAll
<1> QED
  BY <1>2, <1>14

(***************************************************************************)
(* The inductive invariant.                                                *)
(***************************************************************************)
\* Chunks are blocks of the ranges, all of them in front of the next block.
PlanInv ==
  /\ ranges \in AllRanges /\ u \in [Source -> Coords] /\ mem_chunk_size \in BufSizes
  /\ num_threads \in Nat \ {0} /\ keep_pix \in BOOLEAN /\ return_cut \in BOOLEAN
  /\ blocks \in Seq(Block) /\ Ascending(blocks) /\ Positions(blocks) = Source
  /\ first_ind \in 1..(Len(blocks) + 1) /\ block_chunks \in Seq(Seq(Block))
  /\ \A k \in 1..Len(block_chunks) :
       /\ Ascending(block_chunks[k]) /\ Positions(block_chunks[k]) \subseteq Source
       /\ \A j \in first_ind..Len(blocks) : Below(block_chunks[k], blocks[j].pos)
  /\ \A k, l \in 1..Len(block_chunks) :
       k # l => Positions(block_chunks[k]) \cap Positions(block_chunks[l]) = {}

Pixels == 1..Len(candidate_pix)
ReadTo(n) == UNION {ToSet(PixelsOf(block_chunks[k])) : k \in 1..n}
Accumulating == stage \in {"classify", "combine"}
Ended == IF Accumulating THEN ReadTo(iter - 1) ELSE ReadTo(iter)
Busy == {cur[t] : t \in {s \in Threads : pc[s] = "add"}}

LoopType ==
  /\ stage \in {"split", "chunk", "classify", "combine", "keep", "sums", "done"}
  /\ iter \in 0..Len(block_chunks)
  /\ candidate_pix = IF iter = 0 THEN << >> ELSE PixelsOf(block_chunks[iter])
  /\ Accumulating \/ stage = "keep" => iter > 0
  /\ pc \in [Threads -> {"loop", "add"}] /\ cur \in [Threads -> Nat]
  /\ loc \in [Threads -> Sum] /\ stor \in [Threads -> [Cells -> Sum]] /\ image \in [Cells -> Sum]
  /\ todo \subseteq CASE stage = "classify"          -> Pixels
                      [] stage \in {"combine", "sums"} -> Cells
                      [] OTHER                       -> {}
  /\ stage = "combine" /\ ~Multithreaded => todo = {}
  /\ ok \in [Pixels -> BOOLEAN] /\ ind \in [Pixels -> Cells \cup {OffGrid}]

\* A pixel that is accepted knows its cell, and one thread has it in hand.
HandInv ==
  /\ \A j \in Pixels :
       /\ ok[j] => ind[j] = CellOf[Coord(j)] /\ ind[j] # OffGrid
       /\ ~ok[j] => CellOf[Coord(j)] = OffGrid \/ (stage = "classify" /\ j \in todo)
       /\ stage = "classify" /\ j \in todo => ~ok[j]
  /\ \A t \in Threads : pc[t] = "add" => /\ stage = "classify"
                                         /\ cur[t] \in Pixels /\ ok[cur[t]]
  /\ \A s, t \in Threads : s # t /\ pc[s] = "add" /\ pc[t] = "add" => cur[s] # cur[t]
  /\ nPixel_retained = Cardinality({j \in Pixels : ok[j]})

\* What is counted: by all threads in cell c, and by thread t.
Added(c) == {candidate_pix[j] : j \in {k \in Pixels : ok[k] /\ ind[k] = c /\ k \notin Busy}}
Held(t, c) == {p \in Source : stor[t][c][2][p] # 0}

CountInv ==
  /\ ~Accumulating => \A c \in Cells : image[c] = Counted(InCell(ReadTo(iter), c))
  /\ Accumulating /\ ~Multithreaded =>
       \A c \in Cells : image[c] = Counted(InCell(ReadTo(iter - 1), c) \cup Added(c))
  /\ Accumulating /\ Multithreaded =>
       \A c \in Cells :
         /\ image[c] = Counted(InCell(IF stage = "combine" /\ c \notin todo
                                      THEN ReadTo(iter) ELSE ReadTo(iter - 1), c))
         /\ \A t \in Threads : stor[t][c] = Counted(Held(t, c))
         /\ UNION {Held(t, c) : t \in Threads} = Added(c)
         /\ \A s, t \in Threads : s # t => Held(s, c) \cap Held(t, c) = {}
  /\ \A t \in Threads : pc[t] = "add" =>
       loc[t] = IF Multithreaded THEN stor[t][ind[cur[t]]] ELSE image[ind[cur[t]]]

\* A range that no pixel of ps is out of, with pixels of ps at its ends.
Ends(r, ps) == \E p, q \in ps : r = <<u[p], u[q]>>
Holds(r, p) == r[1] <= u[p] /\ u[p] <= r[2]
IsRangeOf(r, ps) == (r = NoRange \/ Ends(r, ps)) /\ \A p \in ps : Holds(r, p)
Accepted == {candidate_pix[j] : j \in {k \in Pixels : ok[k]}}

RangeInv ==
  /\ IsRangeOf(img_range_step, Retained(Ended))
  /\ qe \in [Threads -> Int \X Int]
  /\ \A t \in Threads : qe[t] = NoRange \/ Ends(qe[t], Accepted)
  /\ \A p \in Accepted : \E t \in Threads : Holds(qe[t], p)

\* Pixels kept are in memory or on file, those of a cell in its section.
OneToOne(s) == \A k, l \in DOMAIN s : k # l => s[k] # s[l]
Sections(pix, npix) ==
  /\ npix \in [Cells -> Nat] /\ pix \in Seq(Source) /\ Total(npix) = Len(pix)
  /\ \A c \in Cells : \A k \in 1..npix[c] :
       First(npix, c) + k \in 1..Len(pix) /\ CellOf[u[pix[First(npix, c) + k]]] = c
Filed == {PixAt(x) : x \in OnFile}
Kept == Retained(IF Accumulating \/ stage = "keep" THEN ReadTo(iter - 1) ELSE ReadTo(iter))
Sorted == keep_pix /\ ~use_tmp_files /\ stage \in {"sums", "done"}

MemRight(m) ==
  /\ m \in [blocks : Seq(Source), ix : Seq(Cells), n : Nat]
  /\ m.n = Len(m.blocks) /\ m.n = Len(m.ix) /\ OneToOne(m.blocks)
  /\ \A k \in 1..m.n : m.ix[k] = CellOf[u[m.blocks[k]]]
  /\ ToSet(m.blocks) \cap Filed = {}

FilesRight ==
  /\ infiles \in Seq([npix : [Cells -> Nat], pix : Seq(Source), tot : Nat])
  /\ \A f \in 1..Len(infiles) : /\ infiles[f].tot = Len(infiles[f].pix)
                                /\ Sections(infiles[f].pix, infiles[f].npix)
  /\ \A x, y \in OnFile : x # y => PixAt(x) # PixAt(y)
  /\ npix_prev \in [Cells -> Nat]
  /\ \A c \in Cells :
       /\ npix_prev[c] = Cardinality(InCell(Filed, c))
       /\ SumTo([f \in DOMAIN infiles |-> infiles[f].npix[c]], Len(infiles)) = npix_prev[c]

KeptInv ==
  /\ MemRight(mem) /\ FilesRight
  /\ keep_pix /\ ~Sorted => ToSet(mem.blocks) \cup Filed = Kept
  /\ ~keep_pix => mem = NoPixels
  /\ ~use_tmp_files => infiles = << >>
  /\ stage = "keep" => keep_pix /\ ix = [k \in DOMAIN Chosen |-> ind[Chosen[k]]]
  /\ stage = "sums" => Sorted
  /\ stage = "done" /\ use_tmp_files => mem.blocks = << >>
  /\ ix \in Seq(Cells) /\ pix_out \in Seq(Source) /\ sums \in [Cells -> [Source -> Nat]]
  /\ Sorted => /\ OneToOne(pix_out) /\ ToSet(pix_out) = Retained(Read)
               /\ Sections(pix_out, Npix)
               /\ \A c \in Cells : stage = "done" \/ c \notin todo => sums[c] = image[c][2]

(***************************************************************************)
(* The plan: pixels of the ranges in chunks that have none in common.      *)
(***************************************************************************)
LEMMA NoOverlap ==
  ASSUME NEW c \in Seq(Block), NEW d \in Seq(Block), NEW n \in Nat, Below(c, n), Above(d, n)
  PROVE  Positions(c) \cap Positions(d) = {}
<1> SUFFICES ASSUME NEW x \in Positions(c), x \in Positions(d)
             PROVE  FALSE
  OBVIOUS
<1>1. PICK k \in 1..Len(c) : x \in c[k].pos..(c[k].pos + c[k].size - 1)
  BY PositionIn
<1>2. PICK l \in 1..Len(d) : x \in d[l].pos..(d[l].pos + d[l].size - 1)
  BY PositionIn
<1>3. /\ c[k].pos \in Nat /\ c[k].size \in Nat /\ d[l].pos \in Nat /\ d[l].size \in Nat
      /\ c[k].pos + c[k].size <= n /\ n <= d[l].pos
  BY BlockType DEF Below, Above
<1> DEFINE cp == c[k].pos
           cs == c[k].size
           dp == d[l].pos
           ds == d[l].size
<1>4. /\ cp \in Nat /\ cs \in Nat /\ dp \in Nat /\ ds \in Nat /\ cp + cs <= n /\ n <= dp
      /\ x \in cp..(cp + cs - 1) /\ x \in dp..(dp + ds - 1)
  BY <1>1, <1>2, <1>3
<1> HIDE DEF cp, cs, dp, ds
<1> QED
  BY <1>4

\* What the ranges ask for is a finite set of positions.
LEMMA SourceFinite ==
  ASSUME ranges \in Seq(Block)
  PROVE  IsFiniteSet(Source) /\ Source \in SUBSET (Nat \ {0})
<1> DEFINE s == PixelsOf(ranges)
<1>1. s \in Seq(Nat) /\ Len(s) \in Nat /\ ToSet(s) = Source
  BY PixelsArePositions DEF Source
<1>2. Source = {s[j] : j \in 1..Len(s)}
  BY <1>1 DEF ToSet
<1>3. IsFiniteSet(1..Len(s))
  BY <1>1, FS_Interval
<1>4. IsFiniteSet(Source)
  <2>1. s \in Surjection(1..Len(s), Source)
    <3> HIDE DEF s
    <3>1. s \in [1..Len(s) -> Source]
      BY <1>1, <1>2
    <3> QED
      BY <1>2, <3>1 DEF Surjection
  <2> HIDE DEF s
  <2> QED
    BY <1>3, <2>1, FS_Surjection
<1>5. ASSUME NEW x \in Source
      PROVE  x \in Nat \ {0}
  <2>1. PICK k \in 1..Len(ranges) : x \in ranges[k].pos..(ranges[k].pos + ranges[k].size - 1)
    BY PositionIn DEF Source
  <2>2. ranges[k].pos \in Nat \ {0} /\ ranges[k].size \in Nat
    BY BlockType
  <2> QED
    BY <2>1, <2>2
<1> QED
  BY <1>4, <1>5

\* The ranges and the buffer of a request are those assumed.
LEMMA RangesFacts ==
  ASSUME ranges \in AllRanges, mem_chunk_size \in BufSizes
  PROVE  ranges \in Seq(Block) /\ Ascending(ranges) /\ mem_chunk_size \in Nat \ {0}
BY CutAssumption

\* At the start nothing is dealt out.
LEMMA InitPlan == Init => PlanInv
<1> SUFFICES ASSUME Init
             PROVE  PlanInv
  OBVIOUS
<1>1. ranges \in Seq(Block) /\ Ascending(ranges) /\ mem_chunk_size \in Nat \ {0}
  BY RangesFacts DEF Init
<1>2. /\ ranges \in AllRanges /\ u \in [Source -> Coords] /\ mem_chunk_size \in BufSizes
      /\ first_ind = 1 /\ block_chunks = << >>
  BY DEF Init
<1>3. num_threads \in Nat \ {0}
  BY CutAssumption DEF Init
<1>4. keep_pix \in BOOLEAN /\ return_cut \in BOOLEAN
  BY CutAssumption DEF Init
<1>5. blocks \in Seq(Block) /\ Ascending(blocks) /\ Positions(blocks) = Source
  BY <1>1, GlueFacts, SplitBigFacts DEF Init, Source
<1> QED
  BY <1>2, <1>3, <1>4, <1>5 DEF PlanInv

\* The last block of a chunk is a block, or the chunk has none.
LEMMA LastBlockRange ==
  ASSUME NEW bs \in Seq(Block), NEW buf \in Nat \ {0}, NEW first \in 1..Len(bs)
  PROVE  LastBlock(bs, buf, first) \in first..Len(bs)
<1> DEFINE size(k) == UpTo(bs, k) - UpTo(bs, first - 1)
           enough  == {k \in first..Len(bs) : size(k) >= buf}
<1>1. Len(bs) \in Nat /\ first \in Nat /\ first - 1 \in 0..Len(bs)
  OBVIOUS
<1>2. UpTo(bs, first - 1) \in Nat
  BY <1>1, BlocksAreParts, SumFacts
<1>3. size(first - 1) = 0
  BY <1>2
<1>4. CASE enough = {}
  BY <1>1, <1>4 DEF LastBlock
<1>5. CASE enough # {}
  <2>1. Min(enough) \in enough
    <3>1. enough \in SUBSET Nat
      BY <1>1
    <3> HIDE DEF enough
    <3> QED
      BY <1>5, <3>1, MinOfNats
  <2>2. Min(enough) = first =>
          ~(10 * size(Min(enough) - 1) >= 9 * buf)
    BY <1>3
  <2> DEFINE m == Min(enough)
             last == IF 10 * size(m - 1) >= 9 * buf /\ 10 * bs[m].size > buf
                     THEN m - 1 ELSE m
  <2>3. LastBlock(bs, buf, first) = last
    BY <1>5 DEF LastBlock
  <2>4. m \in first..Len(bs)
    BY <2>1
  <2>5. last = m \/ (last = m - 1 /\ m # first)
    BY <2>2
  <2> HIDE DEF m, last
  <2> QED
    BY <1>1, <2>3, <2>4, <2>5
<1> QED
  BY <1>4, <1>5

\* One more chunk, of the next blocks.
LEMMA SplitPlan == PlanInv /\ SplitChunk => PlanInv'
<1> SUFFICES ASSUME PlanInv, SplitChunk
             PROVE  PlanInv'
  OBVIOUS
<1>1. PICK last \in Nat : /\ last = IF Most = 1 THEN Len(blocks)
                                    ELSE LastBlock(blocks, mem_chunk_size, first_ind)
                          /\ block_chunks' = Append(block_chunks, SubSeq(blocks, first_ind, last))
                          /\ first_ind' = last + 1
                          /\ last \in first_ind..Len(blocks)
  <2>1. first_ind \in 1..Len(blocks) /\ blocks \in Seq(Block) /\ mem_chunk_size \in Nat \ {0}
    BY RangesFacts DEF PlanInv, SplitChunk
  <2>2. LastBlock(blocks, mem_chunk_size, first_ind) \in first_ind..Len(blocks)
    BY <2>1, LastBlockRange
  <2> QED
    BY <2>1, <2>2, SMTT(30) DEF SplitChunk
<1> DEFINE s == SubSeq(blocks, first_ind, last)
           n == Len(block_chunks)
           new == block_chunks'
<1>2. /\ blocks \in Seq(Block) /\ Ascending(blocks) /\ Positions(blocks) = Source
      /\ first_ind \in 1..Len(blocks) /\ last \in 1..Len(blocks) /\ first_ind <= last
      /\ block_chunks \in Seq(Seq(Block)) /\ n \in Nat
      /\ first_ind \in 1..(Len(blocks) + 1) /\ last \in (first_ind - 1)..Len(blocks)
  BY <1>1 DEF PlanInv
<1>3. /\ s \in Seq(Block) /\ Ascending(s) /\ Positions(s) \subseteq Source
      /\ \A l \in (last + 1)..Len(blocks) : Below(s, blocks[l].pos)
  BY <1>2, SubFacts
<1>4. Above(s, blocks[first_ind].pos) /\ blocks[first_ind].pos \in Nat
  <2>1. \A k \in first_ind..last : blocks[first_ind].pos <= blocks[k].pos
    <3> TAKE k \in first_ind..last
    <3>1. k \in 1..Len(blocks) /\ (k = first_ind \/ first_ind < k)
      BY <1>2
    <3>2. /\ blocks[k].pos \in Nat /\ blocks[first_ind].pos \in Nat
          /\ blocks[first_ind].size \in Nat
      BY <1>2, <3>1, BlockType
    <3>3. first_ind < k => blocks[first_ind].pos + blocks[first_ind].size <= blocks[k].pos
      BY <1>2, <3>1, AscendingFar
    <3> QED
      BY <3>1, <3>2, <3>3
  <2> QED
    BY <1>2, <2>1, SubFacts, BlockType
<1>5. /\ Len(new) = n + 1 /\ new[n + 1] = s /\ new \in Seq(Seq(Block))
      /\ \A k \in 1..n : new[k] = block_chunks[k]
      /\ \A k \in 1..(n + 1) : k \in 1..n \/ k = n + 1
  <2>1. new = Append(block_chunks, s)
    BY <1>1
  <2>2. s \in Seq(Block) /\ block_chunks \in Seq(Seq(Block)) /\ n \in Nat
    BY <1>2, <1>3
  <2> HIDE DEF s, new
  <2> QED
    BY <2>1, <2>2
<1>6. \A k \in 1..n : /\ Ascending(block_chunks[k]) /\ Positions(block_chunks[k]) \subseteq Source
                      /\ block_chunks[k] \in Seq(Block)
                      /\ \A j \in first_ind..Len(blocks) : Below(block_chunks[k], blocks[j].pos)
  BY <1>2 DEF PlanInv
<1>7. \A k \in 1..n : Positions(block_chunks[k]) \cap Positions(s) = {}
  <2> TAKE k \in 1..n
  <2>1. /\ block_chunks[k] \in Seq(Block) /\ Below(block_chunks[k], blocks[first_ind].pos)
        /\ Above(s, blocks[first_ind].pos) /\ s \in Seq(Block) /\ blocks[first_ind].pos \in Nat
    BY <1>2, <1>3, <1>4, <1>6
  <2> HIDE DEF s
  <2> QED
    BY <2>1, NoOverlap
<1>8. \A k, l \in 1..n :
        k # l => Positions(block_chunks[k]) \cap Positions(block_chunks[l]) = {}
  BY DEF PlanInv
<1>9. \A j \in (last + 1)..Len(blocks) : j \in first_ind..Len(blocks)
  BY <1>2
<1> HIDE DEF s, n, new
<1>10. \A k \in 1..(n + 1) : /\ Ascending(new[k]) /\ Positions(new[k]) \subseteq Source
                             /\ \A j \in (last + 1)..Len(blocks) : Below(new[k], blocks[j].pos)
  BY <1>3, <1>5, <1>6, <1>9
<1>11. \A k, l \in 1..(n + 1) : k # l => Positions(new[k]) \cap Positions(new[l]) = {}
  BY <1>5, <1>7, <1>8
<1>12. last + 1 \in 1..(Len(blocks) + 1)
  BY <1>2
<1>13. UNCHANGED <<ranges, u, keep_pix, return_cut, num_threads, mem_chunk_size, blocks>>
  BY DEF SplitChunk, request
<1> QED
  BY <1>1, <1>5, <1>10, <1>11, <1>12, <1>13 DEF PlanInv, Source, new

\* Only a new chunk changes the plan.
LEMMA PlanKept == PlanInv /\ UNCHANGED plan => PlanInv'
BY DEF PlanInv, plan, request, Source

\* The pixels of a chunk are read once, and no chunk has pixels of another.
LEMMA ChunkFacts ==
  ASSUME PlanInv, NEW k \in 1..Len(block_chunks)
  PROVE  /\ PixelsOf(block_chunks[k]) \in Seq(Source) /\ OneToOne(PixelsOf(block_chunks[k]))
         /\ ToSet(PixelsOf(block_chunks[k])) = Positions(block_chunks[k])
         /\ Positions(block_chunks[k]) \subseteq Source
<1> DEFINE c == block_chunks[k]
           s == PixelsOf(c)
<1>1. c \in Seq(Block) /\ Ascending(c) /\ Positions(c) \subseteq Source
  BY DEF PlanInv
<1>2. s \in Seq(Nat) /\ Len(s) = SizeOf(c) /\ SizeOf(c) \in Nat /\ ToSet(s) = Positions(c)
  BY <1>1, PixelsArePositions
<1>3. s \in Seq(Source)
  <2>1. \A j \in 1..Len(s) : s[j] \in Source
    BY <1>1, <1>2 DEF ToSet
  <2> HIDE DEF s
  <2> QED
    BY <1>2, <2>1
<1>4. \A i, j \in 1..Len(s) : i < j => s[i] < s[j]
  BY <1>1, <1>2, PixelsAscend
<1>5. OneToOne(s)
  <2>1. \A i \in 1..Len(s) : s[i] \in Nat
    BY <1>2
  <2> HIDE DEF s
  <2> SUFFICES ASSUME NEW i \in DOMAIN s, NEW j \in DOMAIN s, i # j
               PROVE  s[i] # s[j]
    BY DEF OneToOne
  <2>2. i \in 1..Len(s) /\ j \in 1..Len(s) /\ (i < j \/ j < i)
    BY <1>2
  <2> QED
    BY <1>4, <2>1, <2>2
<1> QED
  BY <1>1, <1>2, <1>3, <1>5

\* What is read grows by the pixels of a chunk, and by no pixel twice.
LEMMA ReadFacts ==
  ASSUME PlanInv, NEW n \in 0..Len(block_chunks)
  PROVE  /\ ReadTo(n) \subseteq Source /\ ReadTo(0) = {}
         /\ n > 0 => /\ ReadTo(n) = ReadTo(n - 1) \cup ToSet(PixelsOf(block_chunks[n]))
                     /\ ReadTo(n - 1) \cap ToSet(PixelsOf(block_chunks[n])) = {}
<1> DEFINE C(k) == ToSet(PixelsOf(block_chunks[k]))
<1>1. Len(block_chunks) \in Nat /\ n \in Nat
  BY DEF PlanInv
<1>2. \A k \in 1..Len(block_chunks) : C(k) \subseteq Source /\ C(k) = Positions(block_chunks[k])
  BY ChunkFacts
<1>3. \A k, l \in 1..Len(block_chunks) : k # l => C(k) \cap C(l) = {}
  BY <1>2 DEF PlanInv
<1>4. \A m : ReadTo(m) = UNION {C(k) : k \in 1..m}
  BY DEF ReadTo
<1> HIDE DEF C
<1>5. ReadTo(n) \subseteq Source /\ ReadTo(0) = {}
  BY <1>1, <1>2, <1>4
<1>6. ASSUME n > 0
      PROVE  ReadTo(n) = ReadTo(n - 1) \cup C(n) /\ ReadTo(n - 1) \cap C(n) = {}
  <2>1. \A k : k \in 1..n <=> k \in 1..(n - 1) \/ k = n
    BY <1>1, <1>6
  <2>2. ReadTo(n) = ReadTo(n - 1) \cup C(n)
    BY <1>4, <2>1
  <2>3. \A k \in 1..(n - 1) : k \in 1..Len(block_chunks) /\ k # n /\ n \in 1..Len(block_chunks)
    BY <1>1, <1>6
  <2> QED
    BY <1>3, <1>4, <2>2, <2>3
<1> QED
  BY <1>5, <1>6 DEF C

\* The chunk in hand.
LEMMA CurrentFacts ==
  ASSUME PlanInv, LoopType
  PROVE  /\ candidate_pix \in Seq(Source) /\ OneToOne(candidate_pix) /\ Pixels = DOMAIN candidate_pix
         /\ \A j \in Pixels : /\ candidate_pix[j] \in Source /\ Coord(j) \in Coords
                              /\ CellOf[Coord(j)] \in Cells \cup {OffGrid}
         /\ iter > 0 => /\ ReadTo(iter) = ReadTo(iter - 1) \cup ToSet(candidate_pix)
                        /\ ReadTo(iter - 1) \cap ToSet(candidate_pix) = {}
         /\ ReadTo(iter) \subseteq Source /\ ReadTo(iter - 1) \subseteq Source
         /\ iter \in Nat /\ Len(block_chunks) \in Nat
<1>1. /\ iter \in 0..Len(block_chunks) /\ Len(block_chunks) \in Nat /\ iter \in Nat
      /\ candidate_pix = IF iter = 0 THEN << >> ELSE PixelsOf(block_chunks[iter])
  BY DEF PlanInv, LoopType
<1>2. candidate_pix \in Seq(Source) /\ OneToOne(candidate_pix)
  <2>1. CASE iter = 0
    BY <1>1, <2>1 DEF OneToOne
  <2>2. CASE iter # 0
    <3>1. iter \in 1..Len(block_chunks)
      BY <1>1, <2>2
    <3> QED
      BY <1>1, <2>2, <3>1, ChunkFacts
  <2> QED
    BY <2>1, <2>2
<1>3. Pixels = DOMAIN candidate_pix
  BY <1>2 DEF Pixels
<1>4. \A j \in Pixels : /\ candidate_pix[j] \in Source /\ Coord(j) \in Coords
                        /\ CellOf[Coord(j)] \in Cells \cup {OffGrid}
  <2> TAKE j \in Pixels
  <2>1. candidate_pix[j] \in Source
    BY <1>2 DEF Pixels
  <2>2. u \in [Source -> Coords] /\ CellOf \in [Coords -> Cells \cup {OffGrid}]
    BY CutAssumption DEF PlanInv
  <2> QED
    BY <2>1, <2>2 DEF Coord
<1>5. iter > 0 => /\ ReadTo(iter) = ReadTo(iter - 1) \cup ToSet(candidate_pix)
                  /\ ReadTo(iter - 1) \cap ToSet(candidate_pix) = {}
  BY <1>1, ReadFacts
<1>6. ReadTo(iter) \subseteq Source /\ ReadTo(iter - 1) \subseteq Source
  <2>1. CASE iter = 0
    <3>1. 1..(iter - 1) = {}
      BY <2>1
    <3> QED
      BY <1>1, <3>1, ReadFacts DEF ReadTo
  <2>2. CASE iter # 0
    <3>1. iter - 1 \in 0..Len(block_chunks)
      BY <1>1, <2>2
    <3> QED
      BY <1>1, <3>1, ReadFacts
  <2> QED
    BY <2>1, <2>2
<1> QED
  BY <1>1, <1>2, <1>3, <1>4, <1>5, <1>6

(***************************************************************************)
(* Sums.                                                                   *)
(***************************************************************************)
LEMMA CountedFacts ==
  ASSUME IsFiniteSet(Source), NEW S \in SUBSET Source
  PROVE  /\ IsFiniteSet(S) /\ Counted(S) \in Sum
         /\ Counted(S)[1] = Cardinality(S) /\ Cardinality(S) \in Nat
         /\ Counted(S)[2] = [p \in Source |-> IF p \in S THEN 1 ELSE 0]
         /\ \A p \in Source : Counted(S)[2][p] # 0 <=> p \in S
<1>1. IsFiniteSet(S) /\ Cardinality(S) \in Nat
  BY FS_Subset, FS_CardinalityType
<1> QED
  BY <1>1 DEF Counted, Sum

\* Sums of sets that have no pixel in common are the sum of their union.
LEMMA PlusCounted ==
  ASSUME IsFiniteSet(Source), NEW S \in SUBSET Source, NEW T \in SUBSET Source, S \cap T = {}
  PROVE  Plus(Counted(S), Counted(T)) = Counted(S \cup T)
<1>1. /\ IsFiniteSet(S) /\ IsFiniteSet(T)
      /\ Cardinality(S) \in Nat /\ Cardinality(T) \in Nat
  BY CountedFacts
<1>2. Cardinality(S \cup T) = Cardinality(S) + Cardinality(T)
  <2>1. Cardinality(S \cup T) = Cardinality(S) + Cardinality(T) - Cardinality(S \cap T)
    BY <1>1, FS_Union
  <2>2. Cardinality(S \cap T) = 0
    BY FS_EmptySet
  <2> QED
    BY <1>1, <2>1, <2>2
<1>3. [p \in Source |-> Counted(S)[2][p] + Counted(T)[2][p]]
        = [p \in Source |-> IF p \in S \cup T THEN 1 ELSE 0]
  <2>1. /\ Counted(S)[2] = [p \in Source |-> IF p \in S THEN 1 ELSE 0]
        /\ Counted(T)[2] = [p \in Source |-> IF p \in T THEN 1 ELSE 0]
    BY CountedFacts
  <2>2. ASSUME NEW p \in Source
        PROVE  Counted(S)[2][p] + Counted(T)[2][p] = IF p \in S \cup T THEN 1 ELSE 0
    <3>1. /\ Counted(S)[2][p] = IF p \in S THEN 1 ELSE 0
          /\ Counted(T)[2][p] = IF p \in T THEN 1 ELSE 0
      BY <2>1
    <3>2. ~(p \in S /\ p \in T)
      OBVIOUS
    <3> QED
      BY <3>1, <3>2
  <2> QED
    BY <2>2
<1> QED
  BY <1>2, <1>3, CountedFacts DEF Plus, Counted

\* As long as the request stays, so does what it asks for.
LEMMA RequestKept ==
  ASSUME UNCHANGED request
  PROVE  /\ Source' = Source /\ Threads' = Threads /\ u' = u /\ Sum' = Sum
         /\ Multithreaded' = Multithreaded
         /\ \A S : Counted(S)' = Counted(S) /\ Retained(S)' = Retained(S)
         /\ \A S, c : InCell(S, c)' = InCell(S, c)
         /\ \A a, b : Plus(a, b)' = Plus(a, b)
         /\ \A r, S : Ends(r, S)' = Ends(r, S) /\ IsRangeOf(r, S)' = IsRangeOf(r, S)
         /\ \A r, p : Holds(r, p)' = Holds(r, p)
BY DEF request, Source, Threads, Sum, Multithreaded, Counted, Retained, InCell, Plus,
       Ends, IsRangeOf, Holds

\* A cell is added up over the threads.
LEMMA CombinedFacts ==
  ASSUME IsFiniteSet(Source), num_threads \in Nat, NEW c, NEW S \in SUBSET Source,
         image[c] = Counted(S), NEW h \in [Threads -> SUBSET Source],
         \A t \in Threads : stor[t][c] = Counted(h[t]) /\ h[t] \cap S = {},
         \A s, t \in Threads : s # t => h[s] \cap h[t] = {}
  PROVE  Combined(c) = Counted(S \cup UNION {h[t] : t \in Threads})
<1> DEFINE n == num_threads
           part(k) == S \cup UNION {h[t] : t \in 1..k}
           f == [k \in 0..n |-> Counted(part(k))]
           Is(g) == g = [k \in 0..n |-> IF k = 0 THEN image[c] ELSE Plus(g[k - 1], stor[k][c])]
           sum == CHOOSE g : Is(g)
<1>1. n \in Nat /\ Threads = 1..n
  BY DEF Threads
<1>2. part(0) = S
  OBVIOUS
<1>3. ASSUME NEW k \in 1..n
      PROVE  Plus(Counted(part(k - 1)), stor[k][c]) = Counted(part(k))
  <2>1. /\ \A t : t \in 1..k <=> t \in 1..(k - 1) \/ t = k
        /\ \A t \in 1..(k - 1) : t \in Threads /\ t # k
        /\ k \in Threads
    BY <1>1
  <2>2. part(k) = part(k - 1) \cup h[k]
    BY <2>1
  <2>3. part(k - 1) \in SUBSET Source /\ h[k] \in SUBSET Source
    BY <2>1
  <2>4. part(k - 1) \cap h[k] = {}
    BY <2>1
  <2>5. stor[k][c] = Counted(h[k])
    BY <2>1
  <2> HIDE DEF part
  <2> QED
    BY <2>2, <2>3, <2>4, <2>5, PlusCounted
<1> HIDE DEF part
<1>4. Is(f)
  <2>1. \A k \in 0..n : f[k] = IF k = 0 THEN image[c] ELSE Plus(f[k - 1], stor[k][c])
    <3> TAKE k \in 0..n
    <3>1. CASE k = 0
      BY <1>2, <3>1
    <3>2. CASE k # 0
      <4>1. k \in 1..n /\ k - 1 \in 0..n
        BY <1>1, <3>2
      <4>2. f[k - 1] = Counted(part(k - 1)) /\ f[k] = Counted(part(k))
        BY <4>1
      <4> QED
        BY <1>3, <3>2, <4>1, <4>2
    <3> QED
      BY <3>1, <3>2
  <2> QED
    BY <2>1
<1>5. Is(sum)
  BY <1>4
<1>6. Combined(c) = sum[n]
  BY DEF Combined
<1> HIDE DEF sum, f
<1>7. \A k \in 0..n : sum[k] = IF k = 0 THEN image[c] ELSE Plus(sum[k - 1], stor[k][c])
  BY <1>5
<1> HIDE DEF Is
<1> DEFINE T == {k \in 0..n : sum[k] = Counted(part(k))}
<1>8. 0 \in T
  BY <1>1, <1>2, <1>7
<1>9. ASSUME NEW k \in 1..n, k - 1 \in T
      PROVE  k \in T
  <2>1. k \in 0..n /\ k # 0
    BY <1>1
  <2> QED
    BY <1>3, <1>7, <1>9, <2>1
<1>10. n \in T
  <2> HIDE DEF T
  <2>1. IsStepwise(T, n)
    BY <1>8, <1>9 DEF IsStepwise
  <2> QED
    BY <1>1, <2>1, Stepwise
<1> QED
  BY <1>1, <1>6, <1>10 DEF part

(***************************************************************************)
(* Ranges.                                                                 *)
(***************************************************************************)
\* A range of pixels of ps, or none.
EndsIn(r, ps) == r \in Int \X Int /\ (r = NoRange \/ Ends(r, ps))

\* A range that is widened holds what both ranges hold.
LEMMA WiderFacts ==
  ASSUME NEW ps, \A p \in ps : u[p] \in -Inf..Inf, NEW a, NEW b, EndsIn(a, ps), EndsIn(b, ps)
  PROVE  /\ EndsIn(Wider(a, b), ps)
         /\ \A p : u[p] \in Int /\ (Holds(a, p) \/ Holds(b, p)) => Holds(Wider(a, b), p)
<1> DEFINE a1 == a[1]
           a2 == a[2]
           b1 == b[1]
           b2 == b[2]
           w1 == IF b1 < a1 THEN b1 ELSE a1
           w2 == IF b2 > a2 THEN b2 ELSE a2
<1>1. Inf \in Nat
  BY CutAssumption
<1>2. /\ a1 \in Int /\ a2 \in Int /\ b1 \in Int /\ b2 \in Int
      /\ Wider(a, b) = <<w1, w2>>
  BY DEF EndsIn, Wider
<1>3. (a1 = Inf /\ a2 = -Inf) \/ (\E p, q \in ps : a1 = u[p] /\ a2 = u[q])
  BY DEF EndsIn, Ends, NoRange
<1>4. (b1 = Inf /\ b2 = -Inf) \/ (\E p, q \in ps : b1 = u[p] /\ b2 = u[q])
  BY DEF EndsIn, Ends, NoRange
<1> HIDE DEF a1, a2, b1, b2
<1>5. (w1 = Inf /\ w2 = -Inf) \/ (\E p, q \in ps : w1 = u[p] /\ w2 = u[q])
  <2>1. \A x \in -Inf..Inf : x \in Int /\ x <= Inf /\ -Inf <= x
    BY <1>1
  <2> QED
    BY <1>1, <1>2, <1>3, <1>4, <2>1
<1>6. w1 \in Int /\ w2 \in Int /\ w1 <= a1 /\ w1 <= b1 /\ a2 <= w2 /\ b2 <= w2
  BY <1>2
<1>7. EndsIn(Wider(a, b), ps)
  <2> HIDE DEF w1, w2
  <2> QED
    BY <1>2, <1>5, <1>6 DEF EndsIn, Ends, NoRange
<1>8. ASSUME NEW p, u[p] \in Int, Holds(a, p) \/ Holds(b, p)
      PROVE  Holds(Wider(a, b), p)
  <2> DEFINE x == u[p]
  <2>1. x \in Int /\ ((a1 <= x /\ x <= a2) \/ (b1 <= x /\ x <= b2))
    BY <1>8 DEF Holds, a1, a2, b1, b2
  <2> HIDE DEF x, w1, w2
  <2>2. w1 <= x /\ x <= w2
    BY <1>2, <1>6, <2>1
  <2> QED
    BY <1>2, <2>2 DEF Holds, x
<1> QED
  BY <1>7, <1>8

\* The range is widened over the threads.
LEMMA WidenedFacts ==
  ASSUME num_threads \in Nat, NEW ps, \A p \in ps : u[p] \in -Inf..Inf,
         EndsIn(img_range_step, ps), \A t \in Threads : EndsIn(qe[t], ps)
  PROVE  /\ EndsIn(Widened, ps)
         /\ \A p : u[p] \in Int /\ (Holds(img_range_step, p) \/ \E t \in Threads : Holds(qe[t], p))
              => Holds(Widened, p)
<1> DEFINE n == num_threads
           R == Int \X Int
           step == [x \in R \X (1..n) |-> Wider(x[1], qe[x[2]])]
           Is(g) == g = [t \in 0..n |-> IF t = 0 THEN img_range_step ELSE Wider(g[t - 1], qe[t])]
           range == CHOOSE g : Is(g)
<1>1. n \in Nat /\ Threads = 1..n
  BY DEF Threads
<1>2. \A r \in R, t \in 1..n : Wider(r, qe[t]) \in R
  BY <1>1 DEF EndsIn, Wider
<1>3. IsStep(step, n, R) /\ img_range_step \in R
  BY <1>2 DEF IsStep, EndsIn
<1>4. PICK f : Iterates(f, n, R, img_range_step, step)
  <2> HIDE DEF step, R
  <2> QED
    BY <1>1, <1>3, RecursionExists
<1>5. \A t \in 1..n : f[t] = Wider(f[t - 1], qe[t])
  <2> TAKE t \in 1..n
  <2>1. t - 1 \in 0..n /\ f[t - 1] \in R /\ <<f[t - 1], t>> \in R \X (1..n)
    BY <1>1, <1>4 DEF Iterates
  <2> QED
    BY <1>4, <2>1 DEF Iterates
<1>6. Is(f)
  <2>1. \A t \in 0..n : f[t] = IF t = 0 THEN img_range_step ELSE Wider(f[t - 1], qe[t])
    BY <1>1, <1>4, <1>5 DEF Iterates
  <2>2. f = [t \in 0..n |-> f[t]]
    BY <1>4 DEF Iterates
  <2> QED
    BY <2>1, <2>2
<1>7. Is(range)
  BY <1>6
<1>8. Widened = range[n]
  BY DEF Widened
<1> HIDE DEF range, step
<1>9. \A t \in 0..n : range[t] = IF t = 0 THEN img_range_step ELSE Wider(range[t - 1], qe[t])
  BY <1>7
<1> HIDE DEF Is
<1> DEFINE Good(t) == /\ EndsIn(range[t], ps)
                      /\ \A p : u[p] \in Int /\ (\/ Holds(img_range_step, p)
                                                 \/ \E s \in 1..t : Holds(qe[s], p))
                           => Holds(range[t], p)
           T == {t \in 0..n : Good(t)}
<1>10. 0 \in T
  <2>1. range[0] = img_range_step /\ 0 \in 0..n
    BY <1>1, <1>9
  <2> QED
    BY <2>1
<1>11. ASSUME NEW t \in 1..n, t - 1 \in T
       PROVE  t \in T
  <2>1. t \in 0..n /\ t # 0 /\ \A s \in 1..t : s \in 1..(t - 1) \/ s = t
    BY <1>1
  <2>2. range[t] = Wider(range[t - 1], qe[t])
    BY <1>9, <2>1
  <2>3. EndsIn(range[t - 1], ps) /\ EndsIn(qe[t], ps)
    BY <1>1, <1>11
  <2>4. /\ EndsIn(range[t], ps)
        /\ \A p : u[p] \in Int /\ (Holds(range[t - 1], p) \/ Holds(qe[t], p)) => Holds(range[t], p)
    BY <2>2, <2>3, WiderFacts
  <2> QED
    BY <1>11, <2>1, <2>4
<1>12. n \in T
  <2> HIDE DEF T
  <2>1. IsStepwise(T, n)
    BY <1>10, <1>11 DEF IsStepwise
  <2> QED
    BY <1>1, <2>1, Stepwise
<1> QED
  BY <1>1, <1>8, <1>12

(***************************************************************************)
(* The image and its range.                                                *)
(***************************************************************************)
LoopInv == LoopType /\ HandInv /\ CountInv /\ RangeInv

\* Every pixel has a coordinate and a cell, or is off the grid.
LEMMA CoordsInRange ==
  ASSUME PlanInv
  PROVE  \A p \in Source : u[p] \in -Inf..Inf /\ u[p] \in Int /\ CellOf[u[p]] \in Cells \cup {OffGrid}
<1>1. /\ u \in [Source -> Coords] /\ Coords \subseteq -Inf..Inf /\ Inf \in Nat
      /\ CellOf \in [Coords -> Cells \cup {OffGrid}]
  BY CutAssumption DEF PlanInv
<1>2. -Inf..Inf \subseteq Int
  BY <1>1
<1> HIDE DEF Cells
<1>3. \A x \in Coords : x \in -Inf..Inf /\ x \in Int /\ CellOf[x] \in Cells \cup {OffGrid}
  BY <1>1, <1>2
<1> QED
  BY <1>1, <1>3

\* What the plan says of the source and the threads.
LEMMA PlanFacts ==
  ASSUME PlanInv
  PROVE  /\ IsFiniteSet(Source) /\ Source \in SUBSET (Nat \ {0}) /\ num_threads \in Nat \ {0}
         /\ Threads = 1..num_threads /\ mem_chunk_size \in Nat \ {0}
BY SourceFinite, RangesFacts DEF PlanInv, Threads

\* At the start nothing is counted.
LEMMA InitLoop == Init => LoopInv
<1> SUFFICES ASSUME Init
             PROVE  LoopInv
  OBVIOUS
<1>1. PlanInv
  BY InitPlan
<1>2. IsFiniteSet(Source) /\ Counted({}) \in Sum
  BY <1>1, PlanFacts, CountedFacts
<1>3. Pixels = {} /\ stage = "split" /\ iter = 0 /\ block_chunks = << >> /\ ~Accumulating
  BY DEF Init, Pixels, Accumulating
<1>4. NoSum \in [Cells -> Sum]
  BY <1>2 DEF NoSum
<1>5. LoopType
  BY <1>2, <1>3, <1>4 DEF Init, LoopType
<1>6. HandInv
  <2>1. nPixel_retained = 0 /\ \A t \in Threads : pc[t] = "loop"
    BY DEF Init
  <2>2. {j \in Pixels : ok[j]} = {}
    BY <1>3
  <2> QED
    BY <1>3, <2>1, <2>2, FS_EmptySet DEF HandInv
<1>7. CountInv
  <2>1. ReadTo(0) = {}
    BY DEF ReadTo
  <2>2. \A c : InCell({}, c) = {}
    BY DEF InCell
  <2>3. \A c \in Cells : image[c] = Counted({})
    BY DEF Init, NoSum
  <2>4. \A t \in Threads : pc[t] = "loop"
    BY DEF Init
  <2> QED
    BY <1>3, <2>1, <2>2, <2>3, <2>4 DEF CountInv
<1>8. RangeInv
  <2>1. Ended = {} /\ Accepted = {} /\ Retained({}) = {}
    BY <1>3 DEF Ended, ReadTo, Accepted, Retained
  <2>2. NoRange \in Int \X Int
    BY CutAssumption DEF NoRange
  <2>3. img_range_step = NoRange /\ qe = [t \in Threads |-> NoRange]
    BY DEF Init
  <2> QED
    BY <2>1, <2>2, <2>3 DEF RangeInv, IsRangeOf
<1> QED
  BY <1>5, <1>6, <1>7, <1>8 DEF LoopInv

\* Between the chunks nothing is counted.
counted == <<iter, candidate_pix, pc, cur, loc, ok, ind, stor, qe, nPixel_retained, image,
             img_range_step>>
\* Steps that count nothing keep the image and its range right.
LEMMA RestStep ==
  ASSUME PlanInv, LoopInv, UNCHANGED request, UNCHANGED counted, LoopType',
         ~Accumulating, ~Accumulating', ReadTo(iter)' = ReadTo(iter)
  PROVE  LoopInv'
<1>1. \A t \in Threads : pc[t] # "add"
  BY DEF LoopInv, HandInv, Accumulating
<1>2. HandInv'
  <2>1. Pixels' = Pixels /\ \A j : Coord(j)' = Coord(j)
    BY DEF Pixels, Coord, counted, request
  <2>2. stage # "classify" /\ stage' # "classify"
    BY DEF Accumulating
  <2>3. Threads' = Threads /\ UNCHANGED <<pc, cur, ok, ind, nPixel_retained>>
    BY RequestKept DEF counted
  <2> QED
    BY <1>1, <2>1, <2>2, <2>3 DEF LoopInv, HandInv
<1>3. CountInv'
  <2>1. \A c \in Cells : image[c] = Counted(InCell(ReadTo(iter), c))
    BY DEF LoopInv, CountInv
  <2>2. UNCHANGED <<image, pc>> /\ Threads' = Threads
    BY RequestKept DEF counted
  <2>3. \A c \in Cells : image'[c] = Counted(InCell(ReadTo(iter), c))'
    BY <2>1, <2>2, RequestKept
  <2> QED
    BY <1>1, <2>2, <2>3 DEF CountInv
<1>4. RangeInv'
  <2>1. Ended' = Ended /\ Retained(Ended)' = Retained(Ended)
    BY RequestKept DEF Ended
  <2>2. UNCHANGED <<img_range_step, qe>> /\ Accepted' = Accepted
    BY DEF counted, Accepted, Pixels
  <2> QED
    BY <2>1, <2>2, RequestKept DEF LoopInv, RangeInv
<1> QED
  BY <1>2, <1>3, <1>4 DEF LoopInv

\* The types of what the loop works on, from those of a state before.
LEMMA LoopTypeRest ==
  ASSUME PlanInv, LoopType, UNCHANGED request, UNCHANGED counted, UNCHANGED block_chunks,
         stage' \in {"split", "chunk", "keep", "sums", "done"},
         stage' = "keep" => stage \in {"combine", "keep"},
         todo' \subseteq IF stage' = "sums" THEN Cells ELSE {}
  PROVE  LoopType'
BY DEF LoopType, Pixels, Accumulating, request, counted, Threads, Sum, Source

\* Chunks that are dealt out change nothing that is counted.
LEMMA SplitLoop ==
  ASSUME PlanInv, LoopInv, SplitChunk
  PROVE  LoopInv'
<1>1. UNCHANGED request /\ UNCHANGED counted /\ stage = "split" /\ UNCHANGED <<stage, todo>>
  BY DEF SplitChunk, counted, kernel
<1>2. PICK s : block_chunks' = Append(block_chunks, s)
  BY DEF SplitChunk
<1>3. /\ block_chunks \in Seq(Seq(Block)) /\ iter \in 0..Len(block_chunks)
      /\ Len(block_chunks) \in Nat
  BY DEF PlanInv, LoopInv, LoopType
<1>4. /\ Len(block_chunks') = Len(block_chunks) + 1
      /\ \A k \in 1..Len(block_chunks) : block_chunks'[k] = block_chunks[k]
  BY <1>2, <1>3
<1>5. /\ iter \in 0..Len(block_chunks') /\ ReadTo(iter)' = ReadTo(iter)
      /\ iter # 0 => block_chunks'[iter] = block_chunks[iter]
  <2>1. iter' = iter
    BY <1>1 DEF counted
  <2>2. \A k \in 1..iter : k \in 1..Len(block_chunks)
    BY <1>3
  <2> QED
    BY <1>3, <1>4, <2>1, <2>2 DEF ReadTo
<1>6. ~Accumulating /\ ~Accumulating'
  BY <1>1 DEF Accumulating
<1>7. LoopType'
  BY <1>1, <1>5, <1>6 DEF LoopInv, LoopType, Pixels, Accumulating, request, counted, Threads, Sum,
     Source
<1> QED
  BY <1>1, <1>5, <1>6, <1>7, RestStep

\* Steps that keep, or write, or end.
LEMMA QuietLoop ==
  ASSUME PlanInv, LoopInv,
         \/ SplitDone \/ KeepInMemory \/ AccumulateToFile \/ FinishFiles \/ FinishInMemory
         \/ FinishImage \/ SumCell \/ FinishSums \/ (UNCHANGED vars /\ ~Accumulating)
  PROVE  LoopInv'
<1>1. /\ UNCHANGED request /\ UNCHANGED counted /\ UNCHANGED block_chunks
      /\ stage \in {"split", "chunk", "keep", "sums", "done"}
      /\ stage' \in {"split", "chunk", "keep", "sums", "done"}
      /\ stage' = "keep" => stage = "keep"
  BY DEF LoopInv, LoopType, SplitDone, KeepInMemory, AccumulateToFile, FinishFiles, FinishInMemory,
     FinishImage, SumCell, FinishSums, vars, plan, kernel, counted, Accumulating
<1>2. todo' \subseteq IF stage' = "sums" THEN Cells ELSE {}
  BY DEF LoopInv, LoopType, SplitDone, KeepInMemory, AccumulateToFile, FinishFiles, FinishInMemory,
     FinishImage, SumCell, FinishSums, vars, plan, kernel, Accumulating
<1>3. LoopType'
  BY <1>1, <1>2, LoopTypeRest DEF LoopInv
<1>4. ~Accumulating /\ ~Accumulating'
  BY <1>1 DEF Accumulating
<1>5. ReadTo(iter)' = ReadTo(iter)
  BY <1>1 DEF ReadTo, counted
<1> QED
  BY <1>1, <1>3, <1>4, <1>5, RestStep

\* A chunk is read: nothing of it is counted yet.
LEMMA NextChunkLoop ==
  ASSUME PlanInv, LoopInv, NextChunk
  PROVE  LoopInv'
<1>1. /\ iter \in Nat /\ Len(block_chunks) \in Nat /\ iter < Len(block_chunks)
      /\ stage = "chunk" /\ stage' = "classify" /\ iter' = iter + 1
      /\ UNCHANGED <<block_chunks, pc, cur, loc, image, img_range_step>> /\ UNCHANGED request
      /\ candidate_pix' = PixelsOf(block_chunks[iter + 1])
  BY CurrentFacts DEF NextChunk, plan, LoopInv
<1>2. candidate_pix' \in Seq(Source) /\ Pixels' = DOMAIN candidate_pix'
  <2>1. iter + 1 \in 1..Len(block_chunks)
    BY <1>1
  <2>2. candidate_pix' \in Seq(Source)
    BY <1>1, <2>1, ChunkFacts
  <2> QED
    BY <2>2 DEF Pixels
<1>3. /\ ok' = [j \in Pixels' |-> FALSE] /\ ind' = [j \in Pixels' |-> 0] /\ todo' = Pixels'
      /\ stor' = [t \in Threads |-> NoSum] /\ qe' = [t \in Threads |-> NoRange]
      /\ nPixel_retained' = 0
  BY <1>2 DEF NextChunk
<1>4. \A t \in Threads : pc[t] # "add"
  BY <1>1 DEF LoopInv, HandInv
<1>5. /\ IsFiniteSet(Source) /\ Counted({}) \in Sum /\ {} \in SUBSET Source
      /\ \A p \in Source : Counted({})[2][p] = 0
  <2>1. IsFiniteSet(Source) /\ {} \in SUBSET Source
    BY PlanFacts
  <2>2. Counted({}) \in Sum
    BY <2>1, CountedFacts
  <2> QED
    BY <2>1, <2>2 DEF Counted
<1>6. NoSum \in [Cells -> Sum] /\ \A c \in Cells : NoSum[c] = Counted({})
  BY <1>5 DEF NoSum
<1>7. LoopType'
  <2>1. stor' \in [Threads -> [Cells -> Sum]]
    BY <1>3, <1>6
  <2>2. iter' \in 0..Len(block_chunks) /\ iter' > 0 /\ iter' # 0 /\ iter + 1 = iter'
    BY <1>1
  <2>3. /\ pc \in [Threads -> {"loop", "add"}] /\ cur \in [Threads -> Nat]
        /\ loc \in [Threads -> Sum] /\ image \in [Cells -> Sum]
    BY DEF LoopInv, LoopType
  <2>4. Threads' = Threads /\ Sum' = Sum
    BY <1>1, RequestKept
  <2>5. ok' \in [Pixels' -> BOOLEAN] /\ ind' \in [Pixels' -> Cells \cup {OffGrid}]
    BY <1>3 DEF OffGrid
  <2> QED
    BY <1>1, <1>3, <2>1, <2>2, <2>3, <2>4, <2>5 DEF LoopType, Accumulating
<1>8. HandInv'
  <2>1. {j \in Pixels' : ok'[j]} = {}
    BY <1>3
  <2>2. \A t \in Threads' : pc'[t] # "add"
    BY <1>1, <1>4, RequestKept
  <2>3. nPixel_retained' = Cardinality({j \in Pixels' : ok'[j]})
    BY <1>3, <2>1, FS_EmptySet
  <2> QED
    BY <1>1, <1>3, <2>2, <2>3 DEF HandInv
<1>9. ReadTo(iter - 1)' = ReadTo(iter) /\ Ended' = ReadTo(iter) /\ Ended = ReadTo(iter)
  BY <1>1 DEF ReadTo, Ended, Accumulating
<1>10. CountInv'
  <2>1. \A c \in Cells : image'[c] = Counted(InCell(ReadTo(iter - 1), c))'
    <3>1. \A c \in Cells : image[c] = Counted(InCell(ReadTo(iter), c))
      BY <1>1 DEF LoopInv, CountInv, Accumulating
    <3> QED
      BY <1>1, <1>9, <3>1, RequestKept
  <2>2. \A c : Added(c)' = {} /\ InCell(ReadTo(iter - 1), c)' \cup {} = InCell(ReadTo(iter - 1), c)'
    BY <1>3 DEF Added
  <2>3. \A t \in Threads, c \in Cells : stor'[t][c] = Counted({})' /\ Held(t, c)' = {}
    BY <1>1, <1>3, <1>5, <1>6, RequestKept DEF Held
  <2>4. Threads' = Threads /\ stage' = "classify" /\ Accumulating'
    BY <1>1, RequestKept DEF Accumulating
  <2>5. \A t \in Threads : pc'[t] # "add"
    BY <1>1, <1>4
  <2>6. \A c \in Cells : UNION {Held(t, c)' : t \in Threads} = {}
    BY <2>3
  <2> QED
    BY <2>1, <2>2, <2>3, <2>4, <2>5, <2>6 DEF CountInv
<1>11. RangeInv'
  <2>1. Accepted' = {}
    BY <1>3 DEF Accepted
  <2>2. NoRange \in Int \X Int
    BY CutAssumption DEF NoRange
  <2>3. IsRangeOf(img_range_step, Retained(Ended))'
    BY <1>1, <1>9, RequestKept DEF LoopInv, RangeInv
  <2>4. Threads' = Threads
    BY <1>1, RequestKept
  <2> QED
    BY <1>3, <2>1, <2>2, <2>3, <2>4 DEF RangeInv
<1> QED
  BY <1>7, <1>8, <1>10, <1>11 DEF LoopInv

\* A pixel that is dropped is not counted.
LEMMA RejectLoop ==
  ASSUME PlanInv, LoopInv, NEW t \in Threads, Reject(t)
  PROVE  LoopInv'
<1>1. PICK j \in todo : CellOf[Coord(j)] = OffGrid /\ todo' = todo \ {j}
  BY DEF Reject
<1>2. /\ stage = "classify" /\ UNCHANGED <<stage, block_chunks>> /\ UNCHANGED request
      /\ UNCHANGED counted
  BY DEF Reject, plan, counted
<1>3. /\ Pixels' = Pixels /\ Busy' = Busy /\ Accepted' = Accepted /\ Ended' = Ended
      /\ Accumulating' = Accumulating /\ \A k : Coord(k)' = Coord(k)
      /\ \A n : ReadTo(n)' = ReadTo(n) /\ \A c : Added(c)' = Added(c)
      /\ \A s, c : Held(s, c)' = Held(s, c)
  BY <1>2, RequestKept DEF counted, request, Pixels, Busy, Accepted, Ended, ReadTo, Accumulating,
     Coord, Added, Held
<1>4. LoopType'
  BY <1>1, <1>2, <1>3, RequestKept DEF LoopInv, LoopType, counted
<1>5. HandInv'
  BY <1>1, <1>2, <1>3, RequestKept DEF LoopInv, HandInv, counted
<1>6. CountInv'
  <2>1. stage # "combine" /\ stage' # "combine" /\ Accumulating /\ Accumulating'
    BY <1>2 DEF Accumulating
  <2>2. \A n, c : Counted(InCell(ReadTo(n), c))' = Counted(InCell(ReadTo(n), c))
    BY <1>2, <1>3, RequestKept
  <2>3. \A n, c : Counted(InCell(ReadTo(n), c) \cup Added(c))'
                    = Counted(InCell(ReadTo(n), c) \cup Added(c))
    BY <1>2, <1>3, RequestKept
  <2>4. \A s, c : Counted(Held(s, c))' = Counted(Held(s, c))
    BY <1>2, <1>3, RequestKept
  <2>5. UNCHANGED <<image, stor, pc, cur, ind, loc, iter>>
    BY <1>2 DEF counted
  <2>6. Threads' = Threads /\ Multithreaded' = Multithreaded
    BY <1>2, RequestKept
  <2>7. ~Multithreaded => \A c \in Cells :
          image'[c] = Counted(InCell(ReadTo(iter - 1), c) \cup Added(c))'
    BY <2>1, <2>3, <2>5 DEF LoopInv, CountInv
  <2>8. ASSUME Multithreaded, NEW c \in Cells
        PROVE  /\ image'[c] = Counted(InCell(ReadTo(iter - 1), c))'
               /\ \A s \in Threads : stor'[s][c] = Counted(Held(s, c))'
               /\ UNION {Held(s, c)' : s \in Threads} = Added(c)'
               /\ \A r, s \in Threads : r # s => Held(r, c)' \cap Held(s, c)' = {}
    <3>1. /\ image[c] = Counted(InCell(ReadTo(iter - 1), c))
          /\ \A s \in Threads : stor[s][c] = Counted(Held(s, c))
          /\ UNION {Held(s, c) : s \in Threads} = Added(c)
          /\ \A r, s \in Threads : r # s => Held(r, c) \cap Held(s, c) = {}
      BY <2>1, <2>8 DEF LoopInv, CountInv
    <3> QED
      BY <1>3, <2>2, <2>4, <2>5, <3>1
  <2>9. \A s \in Threads : pc[s] = "add" =>
          loc[s] = IF Multithreaded THEN stor[s][ind[cur[s]]] ELSE image[ind[cur[s]]]
    BY DEF LoopInv, CountInv
  <2> QED
    BY <2>1, <2>5, <2>6, <2>7, <2>8, <2>9 DEF CountInv
<1>7. RangeInv'
  <2>1. Retained(Ended)' = Retained(Ended) /\ UNCHANGED <<img_range_step, qe>>
    BY <1>2, <1>3, RequestKept DEF counted
  <2> QED
    BY <1>2, <1>3, <2>1, RequestKept DEF LoopInv, RangeInv
<1> QED
  BY <1>4, <1>5, <1>6, <1>7 DEF LoopInv

\* A pixel that is accepted is in hand of the thread, not yet counted.
LEMMA AcceptLoop ==
  ASSUME PlanInv, LoopInv, NEW t \in Threads, Accept(t)
  PROVE  LoopInv'
<1> DEFINE C(k) == CellOf[Coord(k)]
<1>1. PICK j \in todo :
        /\ C(j) # OffGrid /\ todo' = todo \ {j} /\ cur' = [cur EXCEPT ![t] = j]
        /\ ok' = [ok EXCEPT ![j] = TRUE] /\ ind' = [ind EXCEPT ![j] = C(j)]
        /\ qe' = [qe EXCEPT ![t] = Wider(@, <<Coord(j), Coord(j)>>)]
        /\ loc' = [loc EXCEPT ![t] = IF Multithreaded THEN stor[t][C(j)] ELSE image[C(j)]]
  BY DEF Accept, Storage
<1>2. /\ stage = "classify" /\ UNCHANGED <<stage, block_chunks, iter, candidate_pix, stor, image>>
      /\ UNCHANGED img_range_step /\ UNCHANGED request
      /\ pc[t] = "loop" /\ pc' = [pc EXCEPT ![t] = "add"]
      /\ nPixel_retained' = nPixel_retained + 1
  BY DEF Accept, plan
<1>3. /\ todo \subseteq Pixels /\ j \in Pixels /\ C(j) \in Cells /\ Pixels \in SUBSET Nat
      /\ pc \in [Threads -> {"loop", "add"}] /\ cur \in [Threads -> Nat]
      /\ loc \in [Threads -> Sum] /\ stor \in [Threads -> [Cells -> Sum]] /\ image \in [Cells -> Sum]
      /\ ok \in [Pixels -> BOOLEAN] /\ ind \in [Pixels -> Cells \cup {OffGrid}]
      /\ candidate_pix[j] \in Source
  <2>1. todo \subseteq Pixels
    BY <1>2 DEF LoopInv, LoopType
  <2>2. C(j) \in Cells
    BY <1>1, <2>1, CurrentFacts DEF LoopInv
  <2>3. candidate_pix[j] \in Source
    BY <2>1, CurrentFacts DEF LoopInv
  <2> QED
    BY <2>1, <2>2, <2>3 DEF LoopInv, LoopType, Pixels
<1>4. /\ ~ok[j] /\ \A s \in Threads : pc[s] = "add" => cur[s] # j /\ cur[s] \in Pixels /\ ok[cur[s]]
      /\ \A k \in Pixels : ok[k] => ind[k] = C(k) /\ ind[k] # OffGrid
      /\ \A k \in Pixels : ~ok[k] => C(k) = OffGrid \/ k \in todo
      /\ \A k \in todo : ~ok[k]
      /\ \A r, s \in Threads : r # s /\ pc[r] = "add" /\ pc[s] = "add" => cur[r] # cur[s]
  BY <1>2, <1>3 DEF LoopInv, HandInv
<1>5. /\ Pixels' = Pixels /\ Ended' = Ended /\ Accumulating' = Accumulating /\ Threads' = Threads
      /\ \A k : C(k)' = C(k)
      /\ \A n : ReadTo(n)' = ReadTo(n) /\ \A s, c : Held(s, c)' = Held(s, c)
  BY <1>2, RequestKept DEF request, Pixels, Ended, ReadTo, Accumulating, Coord, Held
<1>6. /\ \A s \in Threads : s # t => pc'[s] = pc[s] /\ cur'[s] = cur[s] /\ loc'[s] = loc[s]
      /\ pc'[t] = "add" /\ cur'[t] = j
      /\ loc'[t] = IF Multithreaded THEN stor[t][C(j)] ELSE image[C(j)]
      /\ \A k \in Pixels : k # j => ok'[k] = ok[k] /\ ind'[k] = ind[k]
      /\ ok'[j] /\ ind'[j] = C(j)
  BY <1>1, <1>2, <1>3
<1> HIDE DEF C
<1>7. LoopType'
  <2>1. loc' \in [Threads -> Sum]
    BY <1>1, <1>3
  <2>2. /\ pc' \in [Threads -> {"loop", "add"}] /\ cur' \in [Threads -> Nat]
        /\ ok' \in [Pixels -> BOOLEAN] /\ ind' \in [Pixels -> Cells \cup {OffGrid}]
        /\ todo' \subseteq Pixels
    BY <1>1, <1>2, <1>3
  <2>3. Sum' = Sum
    BY <1>2, RequestKept
  <2> QED
    BY <1>2, <1>3, <1>5, <2>1, <2>2, <2>3 DEF LoopInv, LoopType
<1>8. HandInv'
  <2>1. \A k \in Pixels :
          /\ ok'[k] => ind'[k] = C(k) /\ ind'[k] # OffGrid
          /\ ~ok'[k] => C(k) = OffGrid \/ k \in todo'
          /\ k \in todo' => ~ok'[k]
    <3> TAKE k \in Pixels
    <3>1. CASE k = j
      BY <1>1, <1>6, <3>1 DEF C
    <3>2. CASE k # j
      BY <1>1, <1>4, <1>6, <3>2
    <3> QED
      BY <3>1, <3>2
  <2>2. \A s \in Threads : pc'[s] = "add" => cur'[s] \in Pixels /\ ok'[cur'[s]]
    <3> TAKE s \in Threads
    <3>1. CASE s = t
      BY <1>3, <1>6, <3>1
    <3>2. CASE s # t
      BY <1>4, <1>6, <3>2
    <3> QED
      BY <3>1, <3>2
  <2>3. \A r, s \in Threads : r # s /\ pc'[r] = "add" /\ pc'[s] = "add" => cur'[r] # cur'[s]
    BY <1>4, <1>6
  <2>4. nPixel_retained' = Cardinality({k \in Pixels : ok'[k]})
    <3>1. {k \in Pixels : ok'[k]} = {k \in Pixels : ok[k]} \cup {j}
      BY <1>3, <1>6
    <3>2. IsFiniteSet({k \in Pixels : ok[k]})
      <4>1. candidate_pix \in Seq(Source)
        BY CurrentFacts DEF LoopInv
      <4>2. IsFiniteSet(Pixels)
        BY <4>1, FS_Interval DEF Pixels
      <4> QED
        BY <4>2, FS_Subset
    <3>3. nPixel_retained = Cardinality({k \in Pixels : ok[k]})
      BY DEF LoopInv, HandInv
    <3>4. j \notin {k \in Pixels : ok[k]}
      BY <1>4
    <3>5. Cardinality({k \in Pixels : ok[k]} \cup {j}) = Cardinality({k \in Pixels : ok[k]}) + 1
      BY <3>2, <3>4, FS_AddElement
    <3> QED
      BY <1>2, <3>1, <3>3, <3>5
  <2> QED
    BY <1>2, <1>5, <2>1, <2>2, <2>3, <2>4 DEF HandInv, C
<1>9. \A c : Added(c)' = Added(c)
  <2>1. Busy' = Busy \cup {j}
    <3>1. Busy' = {cur'[s] : s \in {s \in Threads : pc'[s] = "add"}}
      BY <1>5 DEF Busy
    <3> QED
      BY <1>2, <1>6, <3>1 DEF Busy
  <2>2. \A c : {k \in Pixels : ok'[k] /\ ind'[k] = c /\ k \notin Busy'}
                 = {k \in Pixels : ok[k] /\ ind[k] = c /\ k \notin Busy}
    BY <1>4, <1>6, <2>1
  <2> QED
    BY <1>2, <1>5, <2>2 DEF Added
<1>10. CountInv'
  <2>1. stage # "combine" /\ stage' # "combine" /\ Accumulating /\ Accumulating'
    BY <1>2 DEF Accumulating
  <2>2. /\ \A n, c : Counted(InCell(ReadTo(n), c))' = Counted(InCell(ReadTo(n), c))
        /\ \A n, c : Counted(InCell(ReadTo(n), c) \cup Added(c))'
                       = Counted(InCell(ReadTo(n), c) \cup Added(c))
        /\ \A s, c : Counted(Held(s, c))' = Counted(Held(s, c))
        /\ Multithreaded' = Multithreaded
    BY <1>2, <1>5, <1>9, RequestKept
  <2>3. ~Multithreaded => \A c \in Cells :
          image'[c] = Counted(InCell(ReadTo(iter - 1), c) \cup Added(c))'
    BY <1>2, <2>1, <2>2 DEF LoopInv, CountInv
  <2>4. ASSUME Multithreaded, NEW c \in Cells
        PROVE  /\ image'[c] = Counted(InCell(ReadTo(iter - 1), c))'
               /\ \A s \in Threads : stor'[s][c] = Counted(Held(s, c))'
               /\ UNION {Held(s, c)' : s \in Threads} = Added(c)'
               /\ \A r, s \in Threads : r # s => Held(r, c)' \cap Held(s, c)' = {}
    <3>1. /\ image[c] = Counted(InCell(ReadTo(iter - 1), c))
          /\ \A s \in Threads : stor[s][c] = Counted(Held(s, c))
          /\ UNION {Held(s, c) : s \in Threads} = Added(c)
          /\ \A r, s \in Threads : r # s => Held(r, c) \cap Held(s, c) = {}
      BY <2>1, <2>4 DEF LoopInv, CountInv
    <3> QED
      BY <1>2, <1>5, <1>9, <2>2, <3>1
  <2>5. ASSUME NEW s \in Threads, pc'[s] = "add"
        PROVE  loc'[s] = IF Multithreaded THEN stor[s][ind'[cur'[s]]] ELSE image[ind'[cur'[s]]]
    <3>1. CASE s = t
      BY <1>6, <3>1
    <3>2. CASE s # t
      <4>1. pc[s] = "add" /\ cur'[s] = cur[s] /\ loc'[s] = loc[s]
        BY <1>6, <2>5, <3>2
      <4>2. ind'[cur[s]] = ind[cur[s]]
        BY <1>4, <1>6, <4>1
      <4>3. loc[s] = IF Multithreaded THEN stor[s][ind[cur[s]]] ELSE image[ind[cur[s]]]
        BY <4>1 DEF LoopInv, CountInv
      <4> QED
        BY <4>1, <4>2, <4>3
    <3> QED
      BY <3>1, <3>2
  <2> QED
    BY <1>2, <1>5, <2>1, <2>2, <2>3, <2>4, <2>5 DEF CountInv
<1>11. RangeInv'
  <2> DEFINE p == candidate_pix[j]
             r == <<u[p], u[p]>>
  <2>1. Accepted' = Accepted \cup {p}
    <3>1. {k \in Pixels : ok'[k]} = {k \in Pixels : ok[k]} \cup {j}
      BY <1>3, <1>6
    <3> QED
      BY <1>2, <1>5, <3>1 DEF Accepted
  <2>2. qe' = [qe EXCEPT ![t] = Wider(@, r)]
    BY <1>1 DEF Coord
  <2>3. Accepted \cup {p} \subseteq Source
    BY <1>3, CurrentFacts DEF LoopInv, Accepted
  <2>4. \A x \in Accepted \cup {p} : u[x] \in -Inf..Inf /\ u[x] \in Int
    BY <2>3, CoordsInRange
  <2>5. /\ \A s \in Threads : qe[s] \in Int \X Int /\ (qe[s] = NoRange \/ Ends(qe[s], Accepted))
        /\ \A x \in Accepted : \E s \in Threads : Holds(qe[s], x)
        /\ IsRangeOf(img_range_step, Retained(Ended)) /\ qe \in [Threads -> Int \X Int]
    BY DEF LoopInv, RangeInv
  <2>6. EndsIn(qe[t], Accepted \cup {p}) /\ EndsIn(r, Accepted \cup {p}) /\ Holds(r, p)
    BY <2>4, <2>5 DEF EndsIn, Ends, Holds
  <2>7. /\ EndsIn(Wider(qe[t], r), Accepted \cup {p})
        /\ \A x : u[x] \in Int /\ (Holds(qe[t], x) \/ Holds(r, x)) => Holds(Wider(qe[t], r), x)
    <3> HIDE DEF r, p
    <3> QED
      BY <2>4, <2>6, WiderFacts
  <2>8. /\ qe'[t] = Wider(qe[t], r) /\ \A s \in Threads : s # t => qe'[s] = qe[s]
        /\ qe' \in [Threads -> Int \X Int]
    BY <2>2, <2>5, <2>7 DEF EndsIn
  <2> HIDE DEF r, p
  <2>9. ASSUME NEW s \in Threads
        PROVE  qe'[s] = NoRange \/ Ends(qe'[s], Accepted \cup {p})
    <3>1. CASE s = t
      BY <2>7, <2>8, <3>1 DEF EndsIn
    <3>2. CASE s # t
      <4>1. \A x : Ends(x, Accepted) => Ends(x, Accepted \cup {p})
        BY DEF Ends
      <4> QED
        BY <2>5, <2>8, <3>2, <4>1
    <3> QED
      BY <3>1, <3>2
  <2>10. ASSUME NEW x \in Accepted \cup {p}
         PROVE  \E s \in Threads : Holds(qe'[s], x)
    <3>1. CASE x = p
      BY <2>4, <2>6, <2>7, <2>8, <3>1
    <3>2. CASE x # p
      <4>1. PICK s \in Threads : Holds(qe[s], x)
        BY <2>5, <3>2
      <4>2. Holds(qe'[s], x)
        BY <2>4, <2>7, <2>8, <4>1
      <4> QED
        BY <4>2
    <3> QED
      BY <3>1, <3>2
  <2>11. IsRangeOf(img_range_step, Retained(Ended))'
    BY <1>2, <1>5, <2>5, RequestKept
  <2> QED
    BY <1>2, <1>5, <2>1, <2>8, <2>9, <2>10, <2>11, RequestKept DEF RangeInv
<1> QED
  BY <1>7, <1>8, <1>10, <1>11 DEF LoopInv

\* What is added to a cell is a pixel of the chunk that is in the source.
LEMMA AddedFacts ==
  ASSUME PlanInv, LoopInv, NEW c
  PROVE  /\ Added(c) \subseteq ToSet(candidate_pix) /\ Added(c) \subseteq Source
         /\ InCell(ReadTo(iter - 1), c) \subseteq Source /\ InCell(ReadTo(iter), c) \subseteq Source
         /\ Accumulating => InCell(ReadTo(iter - 1), c) \cap ToSet(candidate_pix) = {}
<1>1. Added(c) \subseteq ToSet(candidate_pix) /\ Added(c) \subseteq Source
  BY CurrentFacts DEF LoopInv, Added, ToSet
<1>2. InCell(ReadTo(iter - 1), c) \subseteq Source /\ InCell(ReadTo(iter), c) \subseteq Source
  BY CurrentFacts DEF LoopInv, InCell
<1>3. Accumulating => InCell(ReadTo(iter - 1), c) \cap ToSet(candidate_pix) = {}
  BY CurrentFacts DEF LoopInv, LoopType, InCell
<1> QED
  BY <1>1, <1>2, <1>3

\* The pixel in hand is added to its cell, by one thread.
LEMMA AddSignalLoop ==
  ASSUME PlanInv, LoopInv, NEW t \in Threads, AddSignal(t)
  PROVE  LoopInv'
<1>0. PICK j, c, p : j = cur[t] /\ c = ind[j] /\ p = candidate_pix[j]
  OBVIOUS
<1> DEFINE new == Plus(loc[t], Counted({p}))
<1>1. /\ stage = "classify" /\ pc[t] = "add"
      /\ IF Multithreaded THEN stor' = [stor EXCEPT ![t] = [@ EXCEPT ![c] = new]] /\ image' = image
         ELSE image' = [image EXCEPT ![c] = new] /\ stor' = stor
      /\ pc' = [pc EXCEPT ![t] = "loop"]
      /\ UNCHANGED <<stage, block_chunks, iter, candidate_pix, cur, loc, todo, ok, ind, qe,
                     nPixel_retained, img_range_step>>
      /\ UNCHANGED request
  BY <1>0 DEF AddSignal, plan, Storage
<1>2. /\ j \in Pixels /\ ok[j] /\ c \in Cells /\ p \in Source
      /\ pc \in [Threads -> {"loop", "add"}] /\ cur \in [Threads -> Nat]
      /\ loc \in [Threads -> Sum] /\ stor \in [Threads -> [Cells -> Sum]] /\ image \in [Cells -> Sum]
      /\ todo \subseteq Pixels /\ ok \in [Pixels -> BOOLEAN]
      /\ ind \in [Pixels -> Cells \cup {OffGrid}]
  <2>1. j \in Pixels /\ ok[j]
    BY <1>0, <1>1 DEF LoopInv, HandInv
  <2>2. c # OffGrid /\ ind \in [Pixels -> Cells \cup {OffGrid}]
    BY <1>0, <2>1 DEF LoopInv, LoopType, HandInv
  <2>3. p \in Source
    BY <1>0, <2>1, CurrentFacts DEF LoopInv
  <2>4. c \in Cells
    BY <1>0, <2>1, <2>2
  <2> QED
    BY <1>1, <2>1, <2>2, <2>3, <2>4 DEF LoopInv, LoopType
<1>3. /\ Pixels' = Pixels /\ Ended' = Ended /\ Accumulating' = Accumulating /\ Threads' = Threads
      /\ \A k : Coord(k)' = Coord(k) /\ Accepted' = Accepted
      /\ \A n : ReadTo(n)' = ReadTo(n)
  BY <1>1, RequestKept DEF request, Pixels, Ended, ReadTo, Accumulating, Coord, Accepted
<1>4. /\ \A s \in Threads : s # t => pc'[s] = pc[s]
      /\ pc'[t] = "loop" /\ pc' \in [Threads -> {"loop", "add"}]
  BY <1>1, <1>2
<1>5. /\ Source' = Source /\ Sum' = Sum /\ Multithreaded' = Multithreaded
      /\ IsFiniteSet(Source) /\ Added(c) \subseteq Source
  BY <1>1, RequestKept, PlanFacts, AddedFacts
\* The pixel joins those counted in its cell.
<1>6. /\ Added(c)' = Added(c) \cup {p} /\ p \notin Added(c)
      /\ \A d : d # c => Added(d)' = Added(d)
  <2> DEFINE Of(d) == {k \in Pixels : ok[k] /\ ind[k] = d /\ k \notin Busy}
  <2>1. Busy' = Busy \ {j} /\ j \in Busy
    <3>1. \A s \in Threads : s # t /\ pc[s] = "add" => cur[s] # j
      BY <1>0, <1>1 DEF LoopInv, HandInv
    <3>2. Busy' = {cur[s] : s \in {s \in Threads : pc'[s] = "add"}}
      BY <1>1, <1>3 DEF Busy
    <3> QED
      BY <1>0, <1>1, <1>4, <3>1, <3>2, SMTT(30) DEF Busy
  <2>2. \A d : Added(d)' = {candidate_pix[k] : k \in {k \in Pixels :
                                                        ok[k] /\ ind[k] = d /\ k \notin Busy'}}
    BY <1>1, <1>3 DEF Added
  <2>3. \A d : Added(d) = {candidate_pix[k] : k \in Of(d)}
    BY DEF Added
  <2>4. {k \in Pixels : ok[k] /\ ind[k] = c /\ k \notin Busy'} = Of(c) \cup {j}
    BY <1>0, <1>2, <2>1
  <2>5. \A d : d # c => {k \in Pixels : ok[k] /\ ind[k] = d /\ k \notin Busy'} = Of(d)
    BY <1>0, <1>2, <2>1
  <2>6. j \notin Of(c) /\ \A k \in Of(c) : k \in Pixels
    BY <2>1
  <2>7. \A k \in Pixels : k # j => candidate_pix[k] # p
    BY <1>0, <1>2, CurrentFacts DEF LoopInv, OneToOne
  <2> HIDE DEF Of
  <2>8. p \notin Added(c)
    BY <2>3, <2>6, <2>7
  <2>9. Added(c)' = Added(c) \cup {p}
    BY <1>0, <2>2, <2>3, <2>4
  <2>10. \A d : d # c => Added(d)' = Added(d)
    BY <2>2, <2>3, <2>5
  <2> QED
    BY <2>8, <2>9, <2>10
<1>7. loc[t] = IF Multithreaded THEN stor[t][c] ELSE image[c]
  BY <1>0, <1>1 DEF LoopInv, CountInv
<1>8. Accumulating /\ Accumulating' /\ stage # "combine" /\ stage' # "combine"
  BY <1>1 DEF Accumulating
<1>9. /\ {p} \in SUBSET Source /\ Counted({p}) \in Sum
      /\ \A n, d : Counted(InCell(ReadTo(n), d))' = Counted(InCell(ReadTo(n), d))
      /\ \A S : Counted(S)' = Counted(S)
  BY <1>1, <1>2, <1>3, <1>5, CountedFacts, RequestKept
\* Threads have their own part of the storage.
<1>10. ASSUME Multithreaded
       PROVE  /\ stor' \in [Threads -> [Cells -> Sum]] /\ image' \in [Cells -> Sum]
              /\ \A d \in Cells :
                   /\ image'[d] = Counted(InCell(ReadTo(iter - 1), d))'
                   /\ \A s \in Threads : stor'[s][d] = Counted(Held(s, d))'
                   /\ UNION {Held(s, d)' : s \in Threads} = Added(d)'
                   /\ \A r, s \in Threads : r # s => Held(r, d)' \cap Held(s, d)' = {}
              /\ \A s \in Threads : s # t => stor'[s] = stor[s]
  <2>1. \A d \in Cells :
          /\ image[d] = Counted(InCell(ReadTo(iter - 1), d))
          /\ \A s \in Threads : stor[s][d] = Counted(Held(s, d))
          /\ UNION {Held(s, d) : s \in Threads} = Added(d)
          /\ \A r, s \in Threads : r # s => Held(r, d) \cap Held(s, d) = {}
    BY <1>8, <1>10 DEF LoopInv, CountInv
  <2>2. Held(t, c) \in SUBSET Source /\ Held(t, c) \cap {p} = {}
    <3>1. Held(t, c) \subseteq Added(c)
      BY <1>2, <2>1
    <3> QED
      BY <1>5, <1>6, <3>1
  <2>3. new = Counted(Held(t, c) \cup {p})
    <3>1. loc[t] = Counted(Held(t, c))
      BY <1>2, <1>7, <1>10, <2>1
    <3> QED
      BY <1>5, <1>9, <2>2, <3>1, PlusCounted
  <2>4. Held(t, c) \cup {p} \in SUBSET Source /\ new \in Sum
    <3>1. Held(t, c) \cup {p} \in SUBSET Source
      BY <1>2, <2>2
    <3> HIDE DEF new
    <3> QED
      BY <1>5, <2>3, <3>1, CountedFacts
  <2>5. stor' = [stor EXCEPT ![t] = [@ EXCEPT ![c] = new]] /\ image' = image
    BY <1>1, <1>10
  <2> HIDE DEF new
  <2>6. /\ stor' \in [Threads -> [Cells -> Sum]] /\ stor'[t][c] = new
        /\ \A s \in Threads : s # t => stor'[s] = stor[s]
        /\ \A d \in Cells : d # c => stor'[t][d] = stor[t][d]
    BY <1>2, <2>4, <2>5
  <2>7. \A s, d : Held(s, d)' = {x \in Source : stor'[s][d][2][x] # 0}
    BY <1>5 DEF Held
  <2>8. Held(t, c)' = Held(t, c) \cup {p}
    <3>1. \A x \in Source : new[2][x] # 0 <=> x \in Held(t, c) \cup {p}
      BY <1>5, <2>3, <2>4, CountedFacts
    <3> QED
      BY <2>4, <2>6, <2>7, <3>1
  <2>9. \A s \in Threads, d \in Cells : s # t \/ d # c => Held(s, d)' = Held(s, d)
    BY <2>6, <2>7 DEF Held
  <2>10. ASSUME NEW d \in Cells
         PROVE  /\ \A s \in Threads : stor'[s][d] = Counted(Held(s, d))'
                /\ UNION {Held(s, d)' : s \in Threads} = Added(d)'
                /\ \A r, s \in Threads : r # s => Held(r, d)' \cap Held(s, d)' = {}
    <3>1. CASE d # c
      BY <1>6, <1>9, <2>1, <2>6, <2>9, <3>1
    <3>2. CASE d = c
      <4>1. \A s \in Threads : stor'[s][c] = Counted(Held(s, c))'
        <5> TAKE s \in Threads
        <5>1. CASE s = t
          BY <1>9, <2>3, <2>6, <2>8, <5>1
        <5>2. CASE s # t
          BY <1>2, <1>9, <2>1, <2>6, <2>9, <5>2
        <5> QED
          BY <5>1, <5>2
      <4>2. UNION {Held(s, c)' : s \in Threads} = Added(c) \cup {p}
        BY <1>2, <2>1, <2>8, <2>9
      <4>3. \A s \in Threads : p \notin Held(s, c)
        BY <1>2, <1>6, <2>1
      <4>4. \A r, s \in Threads : r # s => Held(r, c)' \cap Held(s, c)' = {}
        BY <1>2, <2>1, <2>8, <2>9, <4>3
      <4> QED
        BY <1>6, <3>2, <4>1, <4>2, <4>4
    <3> QED
      BY <3>1, <3>2
  <2>11. \A d \in Cells : image'[d] = Counted(InCell(ReadTo(iter - 1), d))'
    BY <1>1, <1>9, <2>1, <2>5
  <2> QED
    BY <1>2, <2>5, <2>6, <2>10, <2>11
\* Without threads the cell of the image is the one place.
<1>11. ASSUME ~Multithreaded
       PROVE  /\ stor' \in [Threads -> [Cells -> Sum]] /\ image' \in [Cells -> Sum]
              /\ \A d \in Cells :
                   image'[d] = Counted(InCell(ReadTo(iter - 1), d) \cup Added(d))'
              /\ \A s \in Threads : s = t
  <2> DEFINE B(d) == InCell(ReadTo(iter - 1), d)
  <2>1. \A d \in Cells : image[d] = Counted(B(d) \cup Added(d))
    BY <1>8, <1>11 DEF LoopInv, CountInv
  <2>2. B(c) \cup Added(c) \in SUBSET Source /\ p \notin B(c) \cup Added(c)
    <3>1. p \in ToSet(candidate_pix)
      BY <1>0, <1>2, CurrentFacts DEF LoopInv, ToSet
    <3>2. B(c) \subseteq Source /\ B(c) \cap ToSet(candidate_pix) = {}
      BY <1>8, AddedFacts
    <3> QED
      BY <1>5, <1>6, <3>1, <3>2
  <2>3. new = Counted((B(c) \cup Added(c)) \cup {p})
    <3>1. loc[t] = Counted(B(c) \cup Added(c))
      BY <1>2, <1>7, <1>11, <2>1
    <3> HIDE DEF B
    <3> QED
      BY <1>5, <1>9, <2>2, <3>1, PlusCounted
  <2>4. new \in Sum
    <3>1. (B(c) \cup Added(c)) \cup {p} \in SUBSET Source
      BY <1>2, <2>2
    <3> HIDE DEF B, new
    <3> QED
      BY <1>5, <2>3, <3>1, CountedFacts
  <2>5. image' = [image EXCEPT ![c] = new] /\ stor' = stor
    BY <1>1, <1>11
  <2> HIDE DEF new
  <2>6. image'[c] = new /\ \A d \in Cells : d # c => image'[d] = image[d]
    BY <1>2, <2>5
  <2>7. \A d : B(d)' = B(d)
    BY <1>1, <1>3, RequestKept
  <2>8. \A d \in Cells : image'[d] = Counted(B(d) \cup Added(d))'
    <3> HIDE DEF B
    <3> TAKE d \in Cells
    <3>1. CASE d = c
      <4>1. (B(c) \cup Added(c))' = (B(c) \cup Added(c)) \cup {p}
        BY <1>6, <2>7
      <4> QED
        BY <1>9, <2>3, <2>6, <3>1, <4>1
    <3>2. CASE d # c
      <4>1. (B(d) \cup Added(d))' = B(d) \cup Added(d)
        BY <1>6, <2>7, <3>2
      <4> QED
        BY <1>9, <2>1, <2>6, <3>2, <4>1
    <3> QED
      BY <3>1, <3>2
  <2>9. \A s \in Threads : s = t
    BY <1>11, PlanFacts DEF Multithreaded
  <2> QED
    BY <1>2, <2>4, <2>5, <2>8, <2>9
<1>12. LoopType'
  <2>1. stor' \in [Threads -> [Cells -> Sum]] /\ image' \in [Cells -> Sum]
    BY <1>10, <1>11
  <2> QED
    BY <1>1, <1>2, <1>3, <1>4, <1>5, <2>1 DEF LoopInv, LoopType
<1>13. HandInv'
  <2>1. \A s \in Threads : pc'[s] = "add" => pc[s] = "add"
    BY <1>4
  <2> QED
    BY <1>1, <1>3, <2>1 DEF LoopInv, HandInv
<1>14. CountInv'
  <2>1. ASSUME NEW s \in Threads, pc'[s] = "add"
        PROVE  loc'[s] = IF Multithreaded THEN stor'[s][ind'[cur'[s]]] ELSE image'[ind'[cur'[s]]]
    <3>1. s # t /\ pc[s] = "add"
      BY <1>4, <2>1
    <3>2. Multithreaded /\ stor'[s] = stor[s]
      BY <1>10, <1>11, <3>1
    <3>3. loc[s] = stor[s][ind[cur[s]]]
      BY <3>1, <3>2 DEF LoopInv, CountInv
    <3> QED
      BY <1>1, <3>2, <3>3
  <2> QED
    BY <1>1, <1>3, <1>5, <1>8, <1>10, <1>11, <2>1 DEF CountInv
<1>15. RangeInv'
  <2>1. Retained(Ended)' = Retained(Ended) /\ UNCHANGED <<img_range_step, qe>>
    BY <1>1, <1>3, RequestKept
  <2> QED
    BY <1>1, <1>3, <2>1, RequestKept DEF LoopInv, RangeInv
<1> QED
  BY <1>12, <1>13, <1>14, <1>15 DEF LoopInv

\* All pixels of the chunk are dropped or counted when threads have ended.
LEMMA AllAdded ==
  ASSUME PlanInv, LoopInv, stage \in {"combine", "keep"}
  PROVE  /\ \A c \in Cells : InCell(ReadTo(iter), c) = InCell(ReadTo(iter - 1), c) \cup Added(c)
         /\ Retained(ReadTo(iter)) = Retained(ReadTo(iter - 1)) \cup Accepted
<1>1. /\ iter > 0 /\ candidate_pix \in Seq(Source)
      /\ ReadTo(iter) = ReadTo(iter - 1) \cup ToSet(candidate_pix)
      /\ ToSet(candidate_pix) = {candidate_pix[j] : j \in Pixels}
  BY CurrentFacts DEF LoopInv, LoopType, Accumulating, ToSet
<1>2. \A j \in Pixels : /\ ok[j] => ind[j] = CellOf[u[candidate_pix[j]]] /\ ind[j] # OffGrid
                        /\ ~ok[j] => CellOf[u[candidate_pix[j]]] = OffGrid
  BY DEF LoopInv, HandInv, Coord
<1>3. Busy = {}
  BY DEF LoopInv, HandInv, Busy
<1>4. ASSUME NEW c \in Cells
      PROVE  InCell(ToSet(candidate_pix), c) = Added(c)
  <2>1. c # OffGrid
    BY DEF Cells, OffGrid
  <2>2. Added(c) = {candidate_pix[j] : j \in {k \in Pixels : ok[k] /\ ind[k] = c}}
    BY <1>3 DEF Added
  <2> QED
    BY <1>1, <1>2, <2>1, <2>2 DEF InCell
<1>5. Retained(ToSet(candidate_pix)) = Accepted
  BY <1>1, <1>2 DEF Retained, Accepted
<1> QED
  BY <1>1, <1>4, <1>5 DEF InCell, Retained

\* The storage of the threads is added up from what they all counted.
LEMMA EnterCombineLoop ==
  ASSUME PlanInv, LoopInv, EnterCombine
  PROVE  LoopInv'
<1>1. /\ stage = "classify" /\ stage' = "combine" /\ todo = {}
      /\ \A t \in Threads : pc[t] = "loop"
      /\ todo' = IF Multithreaded THEN Cells ELSE {}
      /\ UNCHANGED counted /\ UNCHANGED request /\ UNCHANGED block_chunks
  BY DEF EnterCombine, counted, plan
<1>2. /\ Pixels' = Pixels /\ Accepted' = Accepted /\ Ended' = Ended
      /\ Accumulating /\ Accumulating' /\ \A k : Coord(k)' = Coord(k)
      /\ \A n : ReadTo(n)' = ReadTo(n) /\ \A c : Added(c)' = Added(c)
      /\ \A s, c : Held(s, c)' = Held(s, c)
      /\ Threads' = Threads /\ Multithreaded' = Multithreaded /\ Sum' = Sum
  BY <1>1, RequestKept DEF counted, request, Pixels, Busy, Accepted, Ended, ReadTo, Accumulating,
     Coord, Added, Held
<1>3. LoopType'
  BY <1>1, <1>2 DEF LoopInv, LoopType, counted
<1>4. HandInv'
  BY <1>1, <1>2 DEF LoopInv, HandInv, counted
<1>5. CountInv'
  <2>1. /\ \A n, c : Counted(InCell(ReadTo(n), c))' = Counted(InCell(ReadTo(n), c))
        /\ \A n, c : Counted(InCell(ReadTo(n), c) \cup Added(c))'
                       = Counted(InCell(ReadTo(n), c) \cup Added(c))
        /\ \A s, c : Counted(Held(s, c))' = Counted(Held(s, c))
    BY <1>1, <1>2, RequestKept
  <2>2. UNCHANGED <<image, stor, pc, iter>>
    BY <1>1 DEF counted
  <2>3. ~Multithreaded => \A c \in Cells :
          image'[c] = Counted(InCell(ReadTo(iter - 1), c) \cup Added(c))'
    BY <1>2, <2>1, <2>2 DEF LoopInv, CountInv
  <2>4. ASSUME Multithreaded, NEW c \in Cells
        PROVE  /\ image'[c] = Counted(InCell(ReadTo(iter - 1), c))'
               /\ \A s \in Threads : stor'[s][c] = Counted(Held(s, c))'
               /\ UNION {Held(s, c)' : s \in Threads} = Added(c)'
               /\ \A r, s \in Threads : r # s => Held(r, c)' \cap Held(s, c)' = {}
    <3>1. /\ image[c] = Counted(InCell(ReadTo(iter - 1), c))
          /\ \A s \in Threads : stor[s][c] = Counted(Held(s, c))
          /\ UNION {Held(s, c) : s \in Threads} = Added(c)
          /\ \A r, s \in Threads : r # s => Held(r, c) \cap Held(s, c) = {}
      BY <1>1, <1>2, <2>4 DEF LoopInv, CountInv
    <3> QED
      BY <1>2, <2>1, <2>2, <3>1
  <2>5. Multithreaded => \A c \in Cells : c \in todo'
    BY <1>1
  <2>6. \A t \in Threads : pc'[t] # "add"
    BY <1>1, <2>2
  <2> QED
    BY <1>2, <2>3, <2>4, <2>5, <2>6 DEF CountInv
<1>6. RangeInv'
  <2>1. Retained(Ended)' = Retained(Ended) /\ UNCHANGED <<img_range_step, qe>>
    BY <1>1, <1>2, RequestKept DEF counted
  <2> QED
    BY <1>1, <1>2, <2>1, RequestKept DEF LoopInv, RangeInv
<1> QED
  BY <1>3, <1>4, <1>5, <1>6 DEF LoopInv

\* A cell that is added up has all pixels of the chunk that belong to it.
LEMMA CombineCellLoop ==
  ASSUME PlanInv, LoopInv, CombineCell
  PROVE  LoopInv'
<1>1. PICK c \in todo : todo' = todo \ {c} /\ image' = [image EXCEPT ![c] = Combined(c)]
  BY DEF CombineCell
<1>2. /\ stage = "combine" /\ UNCHANGED <<stage, block_chunks, iter, candidate_pix, pc, cur, loc,
                                          ok, ind, stor, qe, nPixel_retained, img_range_step>>
      /\ UNCHANGED request
  BY DEF CombineCell, plan
<1>3. /\ Multithreaded /\ c \in Cells /\ todo \subseteq Cells /\ image \in [Cells -> Sum]
      /\ Accumulating
  BY <1>1, <1>2 DEF LoopInv, LoopType, Accumulating
<1>4. /\ Pixels' = Pixels /\ Accepted' = Accepted /\ Ended' = Ended
      /\ Accumulating' /\ \A k : Coord(k)' = Coord(k)
      /\ \A n : ReadTo(n)' = ReadTo(n) /\ \A d : Added(d)' = Added(d)
      /\ \A s, d : Held(s, d)' = Held(s, d)
      /\ Threads' = Threads /\ Multithreaded' = Multithreaded /\ Sum' = Sum
  BY <1>2, RequestKept DEF request, Pixels, Busy, Accepted, Ended, ReadTo, Accumulating,
     Coord, Added, Held
<1>5. IsFiniteSet(Source) /\ num_threads \in Nat /\ Threads = 1..num_threads
  BY PlanFacts
<1>6. \A d \in Cells :
        /\ image[d] = Counted(InCell(IF d \notin todo THEN ReadTo(iter) ELSE ReadTo(iter - 1), d))
        /\ \A s \in Threads : stor[s][d] = Counted(Held(s, d))
        /\ UNION {Held(s, d) : s \in Threads} = Added(d)
        /\ \A r, s \in Threads : r # s => Held(r, d) \cap Held(s, d) = {}
  BY <1>2, <1>3 DEF LoopInv, CountInv
<1>7. Combined(c) = Counted(InCell(ReadTo(iter), c))
  <2> DEFINE S == InCell(ReadTo(iter - 1), c)
             h == [t \in Threads |-> Held(t, c)]
  <2>1. image[c] = Counted(S)
    BY <1>1, <1>3, <1>6
  <2>2. h \in [Threads -> SUBSET Source]
    BY DEF Held
  <2>3. S \in SUBSET Source /\ S \cap ToSet(candidate_pix) = {} /\ Added(c) \subseteq ToSet(candidate_pix)
    BY <1>3, AddedFacts
  <2>4. UNION {h[t] : t \in Threads} = Added(c)
    BY <1>3, <1>6
  <2>5. \A t \in Threads : stor[t][c] = Counted(h[t]) /\ h[t] \cap S = {}
    BY <1>3, <1>6, <2>3
  <2>6. \A s, t \in Threads : s # t => h[s] \cap h[t] = {}
    BY <1>3, <1>6
  <2> HIDE DEF S, h
  <2>7. Combined(c) = Counted(S \cup UNION {h[t] : t \in Threads})
    BY <1>5, <2>1, <2>2, <2>3, <2>5, <2>6, CombinedFacts
  <2>8. S \cup Added(c) = InCell(ReadTo(iter), c)
    BY <1>2, <1>3, AllAdded DEF S
  <2> QED
    BY <2>4, <2>7, <2>8
<1>8. LoopType'
  <2>1. Combined(c) \in Sum
    <3>1. InCell(ReadTo(iter), c) \in SUBSET Source
      BY AddedFacts
    <3> QED
      BY <1>5, <1>7, <3>1, CountedFacts
  <2>2. image' \in [Cells -> Sum]
    BY <1>1, <1>3, <2>1
  <2> QED
    BY <1>1, <1>2, <1>3, <1>4, <2>2 DEF LoopInv, LoopType
<1>9. HandInv'
  BY <1>2, <1>4 DEF LoopInv, HandInv
<1>10. CountInv'
  <2>1. \A n, d : Counted(InCell(ReadTo(n), d))' = Counted(InCell(ReadTo(n), d))
    BY <1>2, <1>4, RequestKept
  <2>2. \A s, d : Counted(Held(s, d))' = Counted(Held(s, d))
    BY <1>2, <1>4, RequestKept
  <2>3. image'[c] = Combined(c) /\ \A d \in Cells : d # c => image'[d] = image[d]
    BY <1>1, <1>3
  <2>4. ASSUME NEW d \in Cells
        PROVE  image'[d] = Counted(InCell(IF d \notin todo' THEN ReadTo(iter) ELSE ReadTo(iter - 1), d))
    <3>1. CASE d = c
      BY <1>1, <1>7, <2>3, <3>1
    <3>2. CASE d # c
      BY <1>1, <1>6, <2>3, <3>2
    <3> QED
      BY <3>1, <3>2
  <2>5. \A d \in Cells : /\ d \notin todo' => image'[d] = Counted(InCell(ReadTo(iter), d))'
                         /\ d \in todo' => image'[d] = Counted(InCell(ReadTo(iter - 1), d))'
    BY <1>2, <2>1, <2>4
  <2>6. \A d \in Cells :
          /\ \A s \in Threads : stor'[s][d] = Counted(Held(s, d))'
          /\ UNION {Held(s, d)' : s \in Threads} = Added(d)'
          /\ \A r, s \in Threads : r # s => Held(r, d)' \cap Held(s, d)' = {}
    BY <1>2, <1>4, <1>6, <2>2
  <2>7. \A t \in Threads : pc'[t] # "add"
    BY <1>2 DEF LoopInv, HandInv
  <2>8. \A d \in Cells : image'[d] = Counted(InCell(IF stage = "combine" /\ d \notin todo
                                       THEN ReadTo(iter) ELSE ReadTo(iter - 1), d))'
    BY <1>2, <2>5
  <2> QED
    BY <1>3, <1>4, <2>6, <2>7, <2>8 DEF CountInv
<1>11. RangeInv'
  <2>1. Retained(Ended)' = Retained(Ended)
    BY <1>2, <1>4, RequestKept
  <2> QED
    BY <1>2, <1>4, <2>1, RequestKept DEF LoopInv, RangeInv
<1> QED
  BY <1>8, <1>9, <1>10, <1>11 DEF LoopInv

\* The range is widened by the ranges of the threads if pixels are retained.
LEMMA CompressLoop ==
  ASSUME PlanInv, LoopInv, Compress
  PROVE  LoopInv'
<1>1. /\ stage = "combine" /\ todo = {} /\ stage' \in {"keep", "chunk"}
      /\ UNCHANGED <<block_chunks, iter, candidate_pix, pc, cur, loc, todo, ok, ind, stor, qe,
                     nPixel_retained, image>>
      /\ UNCHANGED request
      /\ img_range_step' = IF nPixel_retained > 0 THEN Widened ELSE img_range_step
  BY DEF Compress, plan, kernel
<1>2. /\ Pixels' = Pixels /\ Accepted' = Accepted /\ \A k : Coord(k)' = Coord(k)
      /\ Accumulating /\ ~Accumulating' /\ \A n : ReadTo(n)' = ReadTo(n)
      /\ Threads' = Threads /\ Multithreaded' = Multithreaded /\ Sum' = Sum
      /\ iter > 0
  BY <1>1, RequestKept DEF LoopInv, LoopType, request, Pixels, Accepted, ReadTo, Accumulating, Coord
<1>3. LoopType'
  BY <1>1, <1>2 DEF LoopInv, LoopType
<1>4. \A t \in Threads : pc[t] # "add"
  BY <1>1 DEF LoopInv, HandInv
<1>5. HandInv'
  BY <1>1, <1>2, <1>4 DEF LoopInv, HandInv
<1>6. CountInv'
  <2>1. \A c \in Cells : image[c] = Counted(InCell(ReadTo(iter), c))
    <3>1. CASE Multithreaded
      BY <1>1, <1>2, <3>1 DEF LoopInv, CountInv
    <3>2. CASE ~Multithreaded
      BY <1>1, <1>2, <3>2, AllAdded DEF LoopInv, CountInv
    <3> QED
      BY <3>1, <3>2
  <2>2. \A c \in Cells : image'[c] = Counted(InCell(ReadTo(iter), c))'
    BY <1>1, <1>2, <2>1, RequestKept
  <2> QED
    BY <1>1, <1>2, <1>4, <2>2 DEF CountInv
<1>7. RangeInv'
  <2> DEFINE old == Retained(ReadTo(iter - 1))
             ps  == Retained(ReadTo(iter))
  <2>1. ps = old \cup Accepted
    BY <1>1, AllAdded
  <2>2. IsRangeOf(img_range_step, old) /\ Ended' = ReadTo(iter) /\ Retained(Ended)' = ps
    BY <1>1, <1>2, RequestKept DEF LoopInv, RangeInv, Ended
  <2>3. \A p \in ps : u[p] \in -Inf..Inf /\ u[p] \in Int
    BY CoordsInRange, CurrentFacts DEF LoopInv, Retained
  <2>4. IsFiniteSet(Pixels) /\ nPixel_retained = Cardinality({k \in Pixels : ok[k]})
    BY CurrentFacts, FS_Interval DEF LoopInv, HandInv, Pixels
  <2> HIDE DEF old, ps
  <2>5. IsRangeOf(img_range_step', ps)
    <3>1. CASE nPixel_retained > 0
      <4>1. \A t \in Threads : qe[t] \in Int \X Int /\ (qe[t] = NoRange \/ Ends(qe[t], Accepted))
        BY DEF LoopInv, RangeInv
      <4>2. \A t \in Threads : EndsIn(qe[t], ps)
        BY <2>1, <4>1 DEF EndsIn, Ends
      <4>3. EndsIn(img_range_step, ps)
        <5>1. NoRange \in Int \X Int
          BY CutAssumption DEF NoRange
        <5> QED
          BY <2>1, <2>2, <2>3, <5>1 DEF EndsIn, IsRangeOf, Ends
      <4>4. /\ EndsIn(Widened, ps)
            /\ \A p : u[p] \in Int /\ (Holds(img_range_step, p) \/ \E t \in Threads : Holds(qe[t], p))
                 => Holds(Widened, p)
        BY <2>3, <4>2, <4>3, PlanFacts, WidenedFacts
      <4>5. \A p \in ps : Holds(img_range_step, p) \/ \E t \in Threads : Holds(qe[t], p)
        BY <2>1, <2>2 DEF LoopInv, RangeInv, IsRangeOf
      <4> QED
        BY <1>1, <2>3, <3>1, <4>4, <4>5 DEF IsRangeOf, EndsIn
    <3>2. CASE ~(nPixel_retained > 0)
      <4>1. {k \in Pixels : ok[k]} = {}
        <5>1. IsFiniteSet({k \in Pixels : ok[k]})
          BY <2>4, FS_Subset
        <5> QED
          BY <2>4, <3>2, <5>1, FS_CardinalityType, FS_EmptySet
      <4>2. Accepted = {}
        BY <4>1 DEF Accepted
      <4> QED
        BY <1>1, <2>1, <2>2, <3>2, <4>2
    <3> QED
      BY <3>1, <3>2
  <2> QED
    BY <1>1, <1>2, <2>2, <2>5, RequestKept DEF LoopInv, RangeInv
<1> QED
  BY <1>3, <1>5, <1>6, <1>7 DEF LoopInv

\* Every step keeps the plan.
LEMMA PlanStep == PlanInv /\ [Next]_vars => PlanInv'
<1> SUFFICES ASSUME PlanInv, [Next]_vars
             PROVE  PlanInv'
  OBVIOUS
<1>1. SplitChunk \/ UNCHANGED plan
  BY DEF Next, Step, Reject, Accept, AddSignal, Single, SplitDone, NextChunk, EnterCombine,
     CombineCell, Compress, KeepInMemory, AccumulateToFile, FinishFiles, FinishInMemory, FinishImage,
     SumCell, FinishSums, Finished, vars
<1> QED
  BY <1>1, SplitPlan, PlanKept

\* A step that changes nothing.
LEMMA StutterLoop ==
  ASSUME PlanInv, LoopInv, UNCHANGED vars
  PROVE  LoopInv'
<1>1. UNCHANGED request /\ UNCHANGED <<counted, stage, todo, block_chunks>>
  BY DEF vars, plan, kernel, counted
<1>2. /\ Pixels' = Pixels /\ Accepted' = Accepted /\ Ended' = Ended
      /\ Accumulating' = Accumulating /\ \A k : Coord(k)' = Coord(k)
      /\ \A n : ReadTo(n)' = ReadTo(n) /\ \A c : Added(c)' = Added(c)
      /\ \A s, c : Held(s, c)' = Held(s, c)
      /\ Threads' = Threads /\ Multithreaded' = Multithreaded /\ Sum' = Sum
  BY <1>1, RequestKept DEF counted, request, Pixels, Busy, Accepted, Ended, ReadTo, Accumulating,
     Coord, Added, Held
<1>3. LoopType'
  BY <1>1, <1>2 DEF LoopInv, LoopType, counted
<1>4. HandInv'
  BY <1>1, <1>2 DEF LoopInv, HandInv, counted
<1>5. CountInv'
  <2>1. UNCHANGED <<stage, todo, image, stor, pc, cur, ind, loc, iter>>
    BY <1>1 DEF counted
  <2>2. /\ \A n, c : Counted(InCell(ReadTo(n), c))' = Counted(InCell(ReadTo(n), c))
        /\ \A n, c : Counted(InCell(ReadTo(n), c) \cup Added(c))'
                       = Counted(InCell(ReadTo(n), c) \cup Added(c))
        /\ \A s, c : Counted(Held(s, c))' = Counted(Held(s, c))
    BY <1>1, <1>2, RequestKept
  <2>3. \A c : Counted(InCell(IF stage = "combine" /\ c \notin todo
                             THEN ReadTo(iter) ELSE ReadTo(iter - 1), c))'
               = Counted(InCell(IF stage = "combine" /\ c \notin todo
                                THEN ReadTo(iter) ELSE ReadTo(iter - 1), c))
    BY <2>1, <2>2
  <2>4. ASSUME Accumulating, Multithreaded, NEW c \in Cells
        PROVE  /\ image'[c] = Counted(InCell(IF stage = "combine" /\ c \notin todo
                                             THEN ReadTo(iter) ELSE ReadTo(iter - 1), c))'
               /\ \A s \in Threads : stor'[s][c] = Counted(Held(s, c))'
               /\ UNION {Held(s, c)' : s \in Threads} = Added(c)'
               /\ \A r, s \in Threads : r # s => Held(r, c)' \cap Held(s, c)' = {}
    <3>1. /\ image[c] = Counted(InCell(IF stage = "combine" /\ c \notin todo
                                       THEN ReadTo(iter) ELSE ReadTo(iter - 1), c))
          /\ \A s \in Threads : stor[s][c] = Counted(Held(s, c))
          /\ UNION {Held(s, c) : s \in Threads} = Added(c)
          /\ \A r, s \in Threads : r # s => Held(r, c) \cap Held(s, c) = {}
      BY <2>4 DEF LoopInv, CountInv
    <3> QED
      BY <1>2, <2>1, <2>2, <2>3, <3>1
  <2>5. ~Accumulating => \A c \in Cells : image'[c] = Counted(InCell(ReadTo(iter), c))'
    BY <2>1, <2>2 DEF LoopInv, CountInv
  <2>6. Accumulating /\ ~Multithreaded => \A c \in Cells :
          image'[c] = Counted(InCell(ReadTo(iter - 1), c) \cup Added(c))'
    BY <2>1, <2>2 DEF LoopInv, CountInv
  <2>7. \A s \in Threads : pc[s] = "add" =>
          loc[s] = IF Multithreaded THEN stor[s][ind[cur[s]]] ELSE image[ind[cur[s]]]
    BY DEF LoopInv, CountInv
  <2> QED
    BY <1>2, <2>1, <2>4, <2>5, <2>6, <2>7 DEF CountInv
<1>6. RangeInv'
  <2>1. Retained(Ended)' = Retained(Ended) /\ UNCHANGED <<img_range_step, qe>>
    BY <1>1, <1>2, RequestKept DEF counted
  <2> QED
    BY <1>1, <1>2, <2>1, RequestKept DEF LoopInv, RangeInv
<1> QED
  BY <1>3, <1>4, <1>5, <1>6 DEF LoopInv

\* Every step keeps the image, and what threads have in hand.
LEMMA LoopStep == PlanInv /\ LoopInv /\ [Next]_vars => LoopInv'
<1> SUFFICES ASSUME PlanInv, LoopInv, [Next]_vars
             PROVE  LoopInv'
  OBVIOUS
<1>1. ASSUME NEW t \in Threads, Step(t)
      PROVE  LoopInv'
  BY <1>1, RejectLoop, AcceptLoop, AddSignalLoop DEF Step
<1>2. CASE Single
  BY <1>2, SplitLoop, QuietLoop, NextChunkLoop, EnterCombineLoop, CombineCellLoop, CompressLoop
     DEF Single
<1>3. CASE UNCHANGED vars
  BY <1>3, StutterLoop
<1> QED
  BY <1>1, <1>2, <1>3 DEF Next, Finished

\* A range that no pixel is out of, with pixels at its ends, is the range.
LEMMA RangeIs ==
  ASSUME NEW r, NEW ps, \A p \in ps : u[p] \in Int, IsRangeOf(r, ps)
  PROVE  r = IF ps = {} THEN NoRange ELSE <<Min({u[p] : p \in ps}), Max({u[p] : p \in ps})>>
<1>1. CASE ps = {}
  BY <1>1 DEF IsRangeOf, Ends
<1>2. CASE ps # {}
  <2> DEFINE S == {u[p] : p \in ps}
  <2>1. \A x \in S : x \in Int /\ r[1] <= x /\ x <= r[2]
    BY DEF IsRangeOf, Holds
  <2>2. r = <<r[1], r[2]>> /\ r[1] \in S /\ r[2] \in S
    <3>1. CASE Ends(r, ps)
      BY <3>1 DEF Ends
    <3>2. CASE r = NoRange
      <4>1. PICK x \in S : x \in Int /\ Inf <= x /\ x <= -Inf
        BY <1>2, <2>1, <3>2 DEF NoRange
      <4>2. Inf \in Nat
        BY CutAssumption
      <4>3. x = Inf /\ x = -Inf
        BY <4>1, <4>2
      <4> QED
        BY <3>2, <4>1, <4>3 DEF NoRange
    <3> QED
      BY <3>1, <3>2 DEF IsRangeOf
  <2> HIDE DEF S
  <2>3. Min(S) = r[1]
    <3>1. Min(S) \in S /\ \A y \in S : Min(S) <= y
      BY <2>1, <2>2 DEF Min
    <3> QED
      BY <2>1, <2>2, <3>1
  <2>4. Max(S) = r[2]
    <3>1. Max(S) \in S /\ \A y \in S : Max(S) >= y
      BY <2>1, <2>2 DEF Max
    <3> QED
      BY <2>1, <2>2, <3>1
  <2> QED
    BY <1>2, <2>2, <2>3, <2>4 DEF S
<1> QED
  BY <1>1, <1>2

\* The invariant says what the image is while no thread runs.
LEMMA ImageFollows == PlanInv /\ LoopInv => ImageCountsRead
<1> SUFFICES ASSUME PlanInv, LoopInv, AtRest
             PROVE  /\ \A c \in Cells : image[c] = Counted(InCell(Read, c))
                    /\ img_range_step =
                         IF Retained(Read) = {} THEN NoRange
                         ELSE <<Min({u[p] : p \in Retained(Read)}), Max({u[p] : p \in Retained(Read)})>>
  BY DEF ImageCountsRead
<1>1. Read = ReadTo(iter) /\ ~Accumulating /\ Ended = ReadTo(iter)
  BY DEF Read, ReadTo, AtRest, Accumulating, Ended
<1>2. \A c \in Cells : image[c] = Counted(InCell(Read, c))
  BY <1>1 DEF LoopInv, CountInv
<1>3. IsRangeOf(img_range_step, Retained(Read))
  BY <1>1 DEF LoopInv, RangeInv
<1>4. \A p \in Retained(Read) : u[p] \in Int
  BY <1>1, CurrentFacts, CoordsInRange DEF LoopInv, Retained
<1> QED
  BY <1>2, <1>3, <1>4, RangeIs

\* Whatever thread takes a pixel, the image counts the pixels read, once and
\* in their cells, and its range is theirs, after every chunk.
THEOREM ImageRight == Spec => []ImageCountsRead
<1>1. Init => PlanInv /\ LoopInv
  BY InitPlan, InitLoop
<1>2. PlanInv /\ LoopInv /\ [Next]_vars => (PlanInv /\ LoopInv)'
  BY PlanStep, LoopStep
<1>3. PlanInv /\ LoopInv => ImageCountsRead
  BY ImageFollows
<1> QED
  BY <1>1, <1>2, <1>3, PTL DEF Spec

(***************************************************************************)
(* sort_pixels_by_bins.                                                    *)
(***************************************************************************)
\* The pixels of cells up to m, and those a pixel comes behind of, with it.
UpToCell(idx, m) == {l \in 1..Len(idx) : idx[l] <= m}
Of(idx, c) == {l \in 1..Len(idx) : idx[l] = c}
Behind(idx, k) == {l \in 1..Len(idx) : idx[l] < idx[k] \/ (idx[l] = idx[k] /\ l <= k)}
PlaceOf(idx) ==
  [k \in 1..Len(idx) |-> ByIndex(idx)[idx[k]] + Cardinality({l \in 1..k : idx[l] = idx[k]})]
CountsOf(npix, idx) == npix \in [Cells -> Nat] /\ \A c \in Cells : npix[c] = Cardinality(Of(idx, c))

\* Sets of positions are finite, and smaller ones have fewer elements.
LEMMA SubCards ==
  ASSUME NEW n \in Nat, NEW S \in SUBSET (1..n)
  PROVE  /\ IsFiniteSet(S) /\ Cardinality(S) \in Nat /\ Cardinality(S) <= n
         /\ \A T \in SUBSET S : /\ IsFiniteSet(T) /\ Cardinality(T) \in Nat
                                /\ Cardinality(T) <= Cardinality(S)
                                /\ T # S => Cardinality(T) < Cardinality(S)
<1>1. IsFiniteSet(1..n) /\ Cardinality(1..n) = n
  BY FS_Interval
<1>2. IsFiniteSet(S) /\ Cardinality(S) \in Nat /\ Cardinality(S) <= n
  BY <1>1, FS_Subset, FS_CardinalityType
<1>3. ASSUME NEW T \in SUBSET S
      PROVE  /\ IsFiniteSet(T) /\ Cardinality(T) \in Nat /\ Cardinality(T) <= Cardinality(S)
             /\ T # S => Cardinality(T) < Cardinality(S)
  <2>1. /\ IsFiniteSet(T) /\ Cardinality(T) <= Cardinality(S)
        /\ Cardinality(S) = Cardinality(T) => S = T
    BY <1>2, FS_Subset
  <2>2. Cardinality(T) \in Nat
    BY <2>1, FS_CardinalityType
  <2> QED
    BY <1>2, <2>1, <2>2
<1> QED
  BY <1>2, <1>3

\* Sets that have no element in common add up.
LEMMA DisjointCards ==
  ASSUME NEW S, NEW T, IsFiniteSet(S), IsFiniteSet(T), S \cap T = {}
  PROVE  Cardinality(S \cup T) = Cardinality(S) + Cardinality(T)
<1>1. Cardinality(S \cup T) = Cardinality(S) + Cardinality(T) - Cardinality(S \cap T)
  BY FS_Union
<1>2. Cardinality(S \cap T) = 0
  BY FS_EmptySet
<1>3. Cardinality(S) \in Nat /\ Cardinality(T) \in Nat
  BY FS_CardinalityType
<1> QED
  BY <1>1, <1>2, <1>3

\* Counts of cells add up to the pixels in front of a cell.
LEMMA CellSums ==
  ASSUME NEW idx \in Seq(Cells), NEW npix, CountsOf(npix, idx)
  PROVE  /\ \A m \in 0..NumCells : SumTo(npix, m) = Cardinality(UpToCell(idx, m))
         /\ Total(npix) = Len(idx)
         /\ \A c \in Cells : /\ First(npix, c) = Cardinality(UpToCell(idx, c - 1))
                             /\ First(npix, c) \in Nat /\ npix[c] \in Nat
                             /\ First(npix, c) + npix[c] = Cardinality(UpToCell(idx, c))
<1> DEFINE n == Len(idx)
           T == {m \in 0..NumCells : SumTo(npix, m) = Cardinality(UpToCell(idx, m))}
<1>1. NumCells \in Nat /\ Cells = 1..NumCells /\ n \in Nat /\ \A l \in 1..n : idx[l] \in 1..NumCells
  BY CutAssumption DEF Cells
<1>2. /\ SumTo(npix, 0) = 0
      /\ \A m \in 0..NumCells : SumTo(npix, m) \in Nat
      /\ \A m \in 1..NumCells : SumTo(npix, m) = SumTo(npix, m - 1) + npix[m]
  BY <1>1, SumToFacts DEF CountsOf
<1>3. \A m : UpToCell(idx, m) \in SUBSET (1..n) /\ Of(idx, m) \in SUBSET (1..n)
  BY DEF UpToCell, Of
<1>4. \A m : /\ IsFiniteSet(UpToCell(idx, m)) /\ Cardinality(UpToCell(idx, m)) \in Nat
             /\ IsFiniteSet(Of(idx, m))
  BY <1>1, <1>3, SubCards
<1>5. 0 \in T
  <2>1. UpToCell(idx, 0) = {}
    BY <1>1 DEF UpToCell
  <2>2. Cardinality(UpToCell(idx, 0)) = 0 /\ 0 \in 0..NumCells
    <3>1. Cardinality({}) = 0
      BY FS_EmptySet
    <3>2. 0 \in 0..NumCells
      BY <1>1
    <3> QED
      BY <2>1, <3>1, <3>2
  <2> QED
    BY <1>2, <2>2
<1>6. \A m \in 1..NumCells :
        Cardinality(UpToCell(idx, m)) = Cardinality(UpToCell(idx, m - 1)) + npix[m]
  <2> TAKE m \in 1..NumCells
  <2>1. /\ UpToCell(idx, m) = UpToCell(idx, m - 1) \cup Of(idx, m)
        /\ UpToCell(idx, m - 1) \cap Of(idx, m) = {}
    BY <1>1 DEF UpToCell, Of
  <2>2. npix[m] = Cardinality(Of(idx, m))
    BY <1>1 DEF CountsOf
  <2> QED
    BY <1>4, <2>1, <2>2, DisjointCards
<1>7. ASSUME NEW m \in 1..NumCells, m - 1 \in T
      PROVE  m \in T
  BY <1>1, <1>2, <1>6, <1>7
<1>8. \A m \in 0..NumCells : m \in T
  <2> HIDE DEF T
  <2>1. IsStepwise(T, NumCells)
    BY <1>5, <1>7 DEF IsStepwise
  <2> QED
    BY <1>1, <2>1, Stepwise
<1>9. Total(npix) = n
  <2>1. UpToCell(idx, NumCells) = 1..n
    BY <1>1 DEF UpToCell
  <2>2. Cardinality(1..n) = n
    <3>1. n \in Nat
      BY <1>1
    <3> HIDE DEF n
    <3> QED
      BY <3>1, FS_Interval
  <2> QED
    BY <1>1, <1>8, <2>1, <2>2 DEF Total
<1>10. ASSUME NEW c \in Cells
       PROVE  /\ First(npix, c) = Cardinality(UpToCell(idx, c - 1))
              /\ First(npix, c) \in Nat /\ npix[c] \in Nat
              /\ First(npix, c) + npix[c] = Cardinality(UpToCell(idx, c))
  <2>1. c - 1 \in 0..NumCells /\ c \in 0..NumCells /\ c \in 1..NumCells
    BY <1>1
  <2>2. npix[c] \in Nat
    BY DEF CountsOf
  <2> QED
    BY <1>2, <1>6, <1>8, <2>1, <2>2 DEF First
<1> QED
  BY <1>8, <1>9, <1>10

\* Pixels have places of their own, in the section of their cell.
LEMMA PlaceFacts ==
  ASSUME NEW idx \in Seq(Cells), NEW npix, CountsOf(npix, idx), NEW place,
         place = PlaceOf(idx)
  PROVE  /\ place \in [1..Len(idx) -> 1..Len(idx)]
         /\ \A k, l \in 1..Len(idx) : k # l => place[k] # place[l]
         /\ \A s \in 1..Len(idx) : \E k \in 1..Len(idx) : place[k] = s
         /\ \A c \in Cells : \A i \in 1..npix[c] :
              /\ First(npix, c) + i \in 1..Len(idx)
              /\ \A k \in 1..Len(idx) : place[k] = First(npix, c) + i => idx[k] = c
<1> DEFINE n == Len(idx)
<1>1. /\ NumCells \in Nat /\ Cells = 1..NumCells /\ n \in Nat /\ DOMAIN idx = 1..n
      /\ \A l \in 1..n : idx[l] \in 1..NumCells
  BY CutAssumption DEF Cells
<1>2. \A k \in 1..n : Behind(idx, k) \in SUBSET (1..n) /\ k \in Behind(idx, k)
  BY <1>1 DEF Behind
<1>3. \A k \in 1..n : place[k] = Cardinality(Behind(idx, k))
  <2> TAKE k \in 1..n
  <2> DEFINE less == {l \in 1..n : idx[l] < idx[k]}
             same == {l \in 1..k : idx[l] = idx[k]}
  <2>1. less \in SUBSET (1..n) /\ same \in SUBSET (1..n) /\ less \cap same = {}
    BY <1>1
  <2>2. Behind(idx, k) = less \cup same
    BY <1>1 DEF Behind
  <2>3. ByIndex(idx)[idx[k]] = Cardinality(less)
    BY <1>1 DEF ByIndex
  <2>4. place[k] = Cardinality(less) + Cardinality(same)
    BY <2>3 DEF PlaceOf
  <2> HIDE DEF less, same
  <2>5. IsFiniteSet(less) /\ IsFiniteSet(same)
    BY <1>1, <2>1, SubCards
  <2> QED
    BY <2>1, <2>2, <2>4, <2>5, DisjointCards
<1> DEFINE before(k, l) == idx[k] < idx[l] \/ (idx[k] = idx[l] /\ k < l)
<1>4. ASSUME NEW k \in 1..n, NEW l \in 1..n, before(k, l)
      PROVE  place[k] < place[l]
  <2>1. Behind(idx, k) \in SUBSET Behind(idx, l) /\ l \notin Behind(idx, k)
    BY <1>1, <1>4 DEF Behind
  <2>2. Behind(idx, l) \in SUBSET (1..n) /\ Behind(idx, k) # Behind(idx, l)
    BY <1>2, <2>1
  <2> QED
    BY <1>1, <1>3, <2>1, <2>2, SubCards
<1>5. \A k \in 1..n : place[k] \in 1..n
  <2> TAKE k \in 1..n
  <2>1. Behind(idx, k) \in SUBSET (1..n) /\ {k} \in SUBSET Behind(idx, k)
    BY <1>2
  <2>2. Cardinality({k}) <= Cardinality(Behind(idx, k)) /\ Cardinality(Behind(idx, k)) <= n
        /\ Cardinality(Behind(idx, k)) \in Nat
    BY <1>1, <2>1, SubCards
  <2>3. Cardinality({k}) = 1
    BY FS_Singleton
  <2> QED
    BY <1>1, <1>3, <2>2, <2>3
<1>6. place \in [1..n -> 1..n]
  <2>1. place = [k \in 1..n |-> place[k]]
    BY DEF PlaceOf
  <2> QED
    BY <1>5, <2>1
<1>7. \A k, l \in 1..n : k # l => place[k] # place[l]
  <2> TAKE k, l \in 1..n
  <2>1. k # l => before(k, l) \/ before(l, k)
    BY <1>1
  <2>2. place[k] \in Nat /\ place[l] \in Nat
    BY <1>1, <1>5
  <2> HIDE DEF before
  <2> QED
    BY <1>4, <2>1, <2>2
<1>8. \A s \in 1..n : \E k \in 1..n : place[k] = s
  <2>1. place \in Injection(1..n, 1..n)
    BY <1>6, <1>7 DEF Injection, IsInjective
  <2>2. place \in Surjection(1..n, 1..n)
    BY <1>1, <2>1, FS_Injection, FS_Interval
  <2> QED
    BY <2>2 DEF Surjection
<1>9. ASSUME NEW c \in Cells, NEW i \in 1..npix[c]
      PROVE  First(npix, c) + i \in 1..n
  <2>1. /\ First(npix, c) \in Nat /\ npix[c] \in Nat
        /\ First(npix, c) + npix[c] = Cardinality(UpToCell(idx, c))
    BY CellSums
  <2>2. Cardinality(UpToCell(idx, c)) <= n /\ Cardinality(UpToCell(idx, c)) \in Nat
    BY <1>1, SubCards DEF UpToCell
  <2> QED
    BY <1>1, <2>1, <2>2
<1>10. ASSUME NEW c \in Cells, NEW i \in 1..npix[c], NEW k \in 1..n, place[k] = First(npix, c) + i
       PROVE  idx[k] = c
  <2> DEFINE first == First(npix, c)
  <2>1. /\ first = Cardinality(UpToCell(idx, c - 1)) /\ first \in Nat /\ npix[c] \in Nat
        /\ first + npix[c] = Cardinality(UpToCell(idx, c))
    BY CellSums
  <2>2. /\ UpToCell(idx, c) \in SUBSET (1..n) /\ UpToCell(idx, c - 1) \in SUBSET (1..n)
        /\ Behind(idx, k) \in SUBSET (1..n)
    BY <1>2 DEF UpToCell
  <2>3. c \in Nat /\ idx[k] \in Nat
    BY <1>1
  <2>4. ASSUME idx[k] < c
        PROVE  FALSE
    <3>1. Behind(idx, k) \in SUBSET UpToCell(idx, c - 1)
      BY <1>1, <2>3, <2>4 DEF Behind, UpToCell
    <3>2. place[k] <= first /\ place[k] \in Nat
      BY <1>1, <1>3, <2>1, <2>2, <3>1, SubCards
    <3> HIDE DEF first
    <3> QED
      BY <1>10, <2>1, <3>2 DEF first
  <2>5. ASSUME idx[k] > c
        PROVE  FALSE
    <3>1. UpToCell(idx, c) \in SUBSET Behind(idx, k)
      BY <1>1, <2>3, <2>5 DEF Behind, UpToCell
    <3>2. k \notin UpToCell(idx, c)
      BY <2>3, <2>5 DEF UpToCell
    <3>3. UpToCell(idx, c) # Behind(idx, k)
      BY <1>2, <3>2
    <3>4. Cardinality(UpToCell(idx, c)) < place[k] /\ place[k] \in Nat
      BY <1>1, <1>3, <2>2, <3>1, <3>3, SubCards
    <3> HIDE DEF first
    <3> QED
      BY <1>10, <2>1, <3>4 DEF first
  <2> QED
    BY <2>3, <2>4, <2>5
<1> QED
  BY <1>6, <1>7, <1>8, <1>9, <1>10

\* Sorted, they are the same pixels, those of a cell in its section.
LEMMA SortPixFacts ==
  ASSUME NEW pix \in Seq(Source), NEW idx \in Seq(Cells), Len(idx) = Len(pix), OneToOne(pix),
         NEW npix, CountsOf(npix, idx)
  PROVE  LET s == SortPix(pix, idx, npix)
         IN  /\ s \in Seq(Source) /\ Len(s) = Len(pix) /\ ToSet(s) = ToSet(pix) /\ OneToOne(s)
             /\ Total(npix) = Len(pix)
             /\ \A c \in Cells : \A i \in 1..npix[c] :
                  /\ First(npix, c) + i \in 1..Len(pix)
                  /\ \E k \in 1..Len(pix) : s[First(npix, c) + i] = pix[k] /\ idx[k] = c
<1> DEFINE n == Len(pix)
           begin == ByIndex(idx)
           place(k) == begin[idx[k]] + Cardinality({l \in 1..k : idx[l] = idx[k]})
           p == PlaceOf(idx)
           last(s) == Max({k \in DOMAIN pix : place(k) = s})
           q == [s \in DOMAIN pix |-> IF \E k \in DOMAIN pix : place(k) = s THEN pix[last(s)] ELSE 0]
<1>1. /\ n \in Nat /\ DOMAIN pix = 1..n /\ DOMAIN idx = 1..n
      /\ \A k \in 1..n : idx[k] \in Cells /\ idx[k] \in Nat /\ pix[k] \in Source
      /\ \A c \in Cells : c \in Nat
  BY CutAssumption DEF Cells
<1>2. ByBins(npix) = begin
  <2>1. \A c \in Cells : {l \in DOMAIN idx : idx[l] < c} = UpToCell(idx, c - 1)
    BY <1>1 DEF UpToCell
  <2>2. \A c \in Cells : First(npix, c) = Cardinality({l \in DOMAIN idx : idx[l] < c})
    <3> TAKE c \in Cells
    <3>1. {l \in DOMAIN idx : idx[l] < c} = UpToCell(idx, c - 1)
      BY <2>1
    <3>2. First(npix, c) = Cardinality(UpToCell(idx, c - 1))
      BY CellSums
    <3> QED
      BY <3>1, <3>2
  <2> QED
    BY <2>2 DEF ByBins, ByIndex
<1>3. Total(npix) = n
  BY CellSums
<1>4. SortPix(pix, idx, npix) = q
  BY <1>2, <1>3 DEF SortPix, Put
<1>5. /\ p \in [1..n -> 1..n]
      /\ \A k, l \in 1..n : k # l => p[k] # p[l]
      /\ \A s \in 1..n : \E k \in 1..n : p[k] = s
      /\ \A c \in Cells : \A i \in 1..npix[c] :
           /\ First(npix, c) + i \in 1..n
           /\ \A k \in 1..n : p[k] = First(npix, c) + i => idx[k] = c
  <2>2. /\ p \in [1..Len(idx) -> 1..Len(idx)]
        /\ \A k, l \in 1..Len(idx) : k # l => p[k] # p[l]
        /\ \A s \in 1..Len(idx) : \E k \in 1..Len(idx) : p[k] = s
        /\ \A c \in Cells : \A i \in 1..npix[c] :
             /\ First(npix, c) + i \in 1..Len(idx)
             /\ \A k \in 1..Len(idx) : p[k] = First(npix, c) + i => idx[k] = c
    BY PlaceFacts
  <2> QED
    BY <2>2
<1>6. \A k \in 1..n : place(k) = p[k]
  BY DEF PlaceOf
<1> HIDE DEF place, p, begin
<1>7. ASSUME NEW k \in 1..n
      PROVE  q[p[k]] = pix[k] /\ p[k] \in 1..n
  <2>1. p[k] \in 1..n
    BY <1>5
  <2>2. {l \in DOMAIN pix : place(l) = p[k]} = {k}
    BY <1>1, <1>5, <1>6, SMTT(30)
  <2>3. Max({k}) = k
    BY DEF Max
  <2>4. last(p[k]) = k
    BY <2>2, <2>3
  <2>5. \E l \in DOMAIN pix : place(l) = p[k]
    BY <1>1, <1>6
  <2> HIDE DEF last
  <2>6. p[k] \in DOMAIN pix
    BY <1>1, <2>1
  <2>7. q[p[k]] = pix[last(p[k])]
    BY <2>5, <2>6
  <2> HIDE DEF q
  <2> QED
    BY <2>1, <2>4, <2>7
<1>8. DOMAIN q = 1..n
  BY <1>1
<1>9. q = [s \in 1..n |-> q[s]]
  BY <1>1
<1> HIDE DEF q
<1>10. \A s \in 1..n : \E k \in 1..n : p[k] = s /\ q[s] = pix[k]
  BY <1>5, <1>7
<1>11. q \in Seq(Source) /\ Len(q) = n
  <2>1. \A s \in 1..n : q[s] \in Source
    BY <1>1, <1>10
  <2>2. q \in [1..n -> Source]
    BY <1>9, <2>1
  <2> QED
    BY <1>1, <2>2
<1>12. ToSet(q) = ToSet(pix)
  <2>1. ToSet(q) = {q[s] : s \in 1..n} /\ ToSet(pix) = {pix[k] : k \in 1..n}
    BY <1>1, <1>8 DEF ToSet
  <2>2. \A s \in 1..n : q[s] \in {pix[k] : k \in 1..n}
    BY <1>10
  <2>3. \A k \in 1..n : pix[k] \in {q[s] : s \in 1..n}
    BY <1>7
  <2> HIDE DEF n
  <2> QED
    BY <2>1, <2>2, <2>3
<1>13. OneToOne(q)
  <2> SUFFICES ASSUME NEW s \in 1..n, NEW t \in 1..n, s # t
               PROVE  q[s] # q[t]
    BY <1>8 DEF OneToOne
  <2>1. PICK k \in 1..n : p[k] = s /\ q[s] = pix[k]
    BY <1>10
  <2>2. PICK l \in 1..n : p[l] = t /\ q[t] = pix[l]
    BY <1>10
  <2> QED
    BY <1>1, <2>1, <2>2 DEF OneToOne
<1>14. \A c \in Cells : \A i \in 1..npix[c] :
         /\ First(npix, c) + i \in 1..n
         /\ \E k \in 1..n : q[First(npix, c) + i] = pix[k] /\ idx[k] = c
  <2> TAKE c \in Cells
  <2> TAKE i \in 1..npix[c]
  <2>1. First(npix, c) + i \in 1..n
    BY <1>5
  <2>2. PICK k \in 1..n : p[k] = First(npix, c) + i /\ q[First(npix, c) + i] = pix[k]
    BY <1>10, <2>1
  <2>3. idx[k] = c
    BY <1>5, <2>2
  <2> QED
    BY <2>1, <2>2, <2>3
<1> QED
  BY <1>3, <1>4, <1>11, <1>12, <1>13, <1>14

(***************************************************************************)
(* The pixels retained of a chunk.                                         *)
(***************************************************************************)
\* Those accepted, each once, in their order.
LEMMA ChosenFacts ==
  ASSUME PlanInv, LoopInv
  PROVE  /\ Chosen \in Seq(Pixels) /\ OneToOne(Chosen) /\ ToSet(Chosen) = {j \in Pixels : ok[j]}
<1> DEFINE n == Len(candidate_pix)
           S == Seq(Pixels)
           more(s, j) == IF ok[j] THEN Append(s, j) ELSE s
           step == [x \in S \X (1..n) |-> more(x[1], x[2])]
           Is(g) == g = [j \in 0..n |-> IF j = 0 THEN << >>
                                       ELSE IF ok[j] THEN Append(g[j - 1], j) ELSE g[j - 1]]
           ic == CHOOSE g : Is(g)
<1>1. n \in Nat /\ Pixels = 1..n
  BY CurrentFacts DEF LoopInv, Pixels
<1>2. IsStep(step, n, S) /\ << >> \in S
  <2>1. \A s \in S, j \in 1..n : more(s, j) \in S
    <3> TAKE s \in S, j \in 1..n
    <3>1. s \in Seq(Pixels) /\ j \in Pixels
      BY <1>1
    <3>2. Append(s, j) \in Seq(Pixels)
      BY <3>1
    <3> QED
      BY <3>1, <3>2
  <2>2. << >> \in S
    OBVIOUS
  <2> HIDE DEF S, more
  <2> QED
    BY <2>1, <2>2 DEF IsStep
<1> HIDE DEF S
<1>3. PICK f : Iterates(f, n, S, << >>, step)
  <2> HIDE DEF step
  <2> QED
    BY <1>1, <1>2, RecursionExists
<1>4. \A j \in 1..n : f[j] = more(f[j - 1], j)
  <2> TAKE j \in 1..n
  <2>1. j - 1 \in 0..n /\ f[j - 1] \in S /\ <<f[j - 1], j>> \in S \X (1..n)
    BY <1>1, <1>3 DEF Iterates
  <2> QED
    BY <1>3, <2>1 DEF Iterates
<1>5. Is(f)
  <2>1. \A j \in 0..n : f[j] = IF j = 0 THEN << >>
                               ELSE IF ok[j] THEN Append(f[j - 1], j) ELSE f[j - 1]
    <3> TAKE j \in 0..n
    <3>1. j = 0 \/ j \in 1..n
      BY <1>1
    <3>2. j = 0 => f[j] = << >>
      BY <1>3 DEF Iterates
    <3>3. j \in 1..n => j # 0 /\ f[j] = IF ok[j] THEN Append(f[j - 1], j) ELSE f[j - 1]
      BY <1>1, <1>4
    <3> QED
      BY <3>1, <3>2, <3>3
  <2>2. f = [j \in 0..n |-> f[j]]
    <3>1. f \in [0..n -> S]
      BY <1>3, SMTT(30) DEF Iterates
    <3> QED
      BY <3>1
  <2> QED
    BY <2>1, <2>2
<1>6. Is(ic)
  BY <1>5
<1>7. Chosen = ic[n]
  BY DEF Chosen
<1> HIDE DEF ic, step
<1>8. \A j \in 0..n : ic[j] = IF j = 0 THEN << >>
                              ELSE IF ok[j] THEN Append(ic[j - 1], j) ELSE ic[j - 1]
  BY <1>6
<1> HIDE DEF Is
<1> DEFINE Good(j) == ic[j] \in S /\ OneToOne(ic[j]) /\ ToSet(ic[j]) = {k \in 1..j : ok[k]}
           T == {j \in 0..n : Good(j)}
<1>9. 0 \in T
  <2>1. ic[0] = << >> /\ 0 \in 0..n
    BY <1>1, <1>8
  <2>2. OneToOne(<< >>) /\ ToSet(<< >>) = {} /\ {k \in 1..0 : ok[k]} = {}
    BY DEF OneToOne, ToSet
  <2> QED
    BY <1>2, <2>1, <2>2
<1>10. ASSUME NEW j \in 1..n, j - 1 \in T
       PROVE  j \in T
  <2> DEFINE s == ic[j - 1]
  <2>1. /\ j \in 0..n /\ j # 0 /\ j \in Pixels
        /\ s \in Seq(Pixels) /\ OneToOne(s) /\ ToSet(s) = {k \in 1..(j - 1) : ok[k]}
        /\ S = Seq(Pixels)
        /\ \A k : k \in 1..j <=> k \in 1..(j - 1) \/ k = j
        /\ j \notin 1..(j - 1)
    BY <1>1, <1>10 DEF S
  <2>2. ic[j] = IF ok[j] THEN Append(s, j) ELSE s
    BY <1>8, <2>1
  <2> HIDE DEF s
  <2>3. CASE ok[j]
    <3> DEFINE a == Append(s, j)
    <3>1. /\ a \in Seq(Pixels) /\ DOMAIN a = 1..(Len(s) + 1) /\ DOMAIN s = 1..Len(s)
          /\ a[Len(s) + 1] = j /\ Len(s) \in Nat /\ \A k \in 1..Len(s) : a[k] = s[k]
      BY <2>1
    <3>2. \A k : k \in 1..(Len(s) + 1) <=> k \in 1..Len(s) \/ k = Len(s) + 1
      BY <3>1
    <3>3. \A k \in 1..Len(s) : s[k] # j
      BY <2>1, <3>1 DEF ToSet
    <3> HIDE DEF a
    <3>4. OneToOne(a)
      BY <2>1, <3>1, <3>2, <3>3 DEF OneToOne
    <3>5. ToSet(a) = ToSet(s) \cup {j}
      BY <3>1, <3>2 DEF ToSet
    <3>6. ToSet(a) = {k \in 1..j : ok[k]}
      BY <2>1, <2>3, <3>5
    <3>7. ic[j] = a
      BY <2>2, <2>3 DEF a
    <3> QED
      BY <2>1, <3>1, <3>4, <3>6, <3>7
  <2>4. CASE ~ok[j]
    <3>1. ic[j] = s /\ {k \in 1..j : ok[k]} = {k \in 1..(j - 1) : ok[k]}
      BY <2>1, <2>2, <2>4
    <3> QED
      BY <2>1, <3>1
  <2> QED
    BY <2>3, <2>4
<1>11. n \in T
  <2> HIDE DEF T
  <2>1. IsStepwise(T, n)
    BY <1>9, <1>10 DEF IsStepwise
  <2> QED
    BY <1>1, <2>1, Stepwise
<1> QED
  BY <1>1, <1>7, <1>11 DEF S

(***************************************************************************)
(* The pixels kept.                                                        *)
(***************************************************************************)
LEMMA OneToOneCards ==
  ASSUME NEW S, NEW s \in Seq(S), OneToOne(s)
  PROVE  IsFiniteSet(ToSet(s)) /\ Cardinality(ToSet(s)) = Len(s)
<1>1. Len(s) \in Nat /\ DOMAIN s = 1..Len(s) /\ ToSet(s) = {s[k] : k \in 1..Len(s)}
  BY DEF ToSet
<1>2. s \in [1..Len(s) -> ToSet(s)]
  BY <1>1
<1>3. s \in Bijection(1..Len(s), ToSet(s))
  BY <1>1, <1>2 DEF Bijection, Injection, Surjection, IsInjective, OneToOne
<1>4. IsFiniteSet(1..Len(s)) /\ Cardinality(1..Len(s)) = Len(s)
  BY <1>1, FS_Interval
<1>5. ExistsBijection(1..Len(s), ToSet(s))
  BY <1>3 DEF ExistsBijection
<1> QED
  BY <1>4, <1>5, FS_Bijection

\* As many indexes of a cell as pixels of it.
LEMMA CellCards ==
  ASSUME NEW s \in Seq(Source), NEW idx, Len(idx) = Len(s), OneToOne(s),
         \A k \in 1..Len(s) : idx[k] = CellOf[u[s[k]]], NEW c
  PROVE  Cardinality(Of(idx, c)) = Cardinality(InCell(ToSet(s), c))
<1> DEFINE f == [k \in Of(idx, c) |-> s[k]]
           I == InCell(ToSet(s), c)
<1>1. Len(s) \in Nat /\ DOMAIN s = 1..Len(s) /\ ToSet(s) = {s[k] : k \in 1..Len(s)}
  BY DEF ToSet
<1>2. \A k \in Of(idx, c) : k \in 1..Len(s) /\ s[k] \in I
  BY <1>1 DEF Of, InCell
<1>3. \A p \in I : \E k \in Of(idx, c) : s[k] = p
  BY <1>1 DEF Of, InCell
<1>4. f \in [Of(idx, c) -> I]
  BY <1>2
<1>5. f \in Bijection(Of(idx, c), I)
  BY <1>1, <1>2, <1>3, <1>4 DEF Bijection, Injection, Surjection, IsInjective, OneToOne
<1>6. ExistsBijection(Of(idx, c), I)
  BY <1>5 DEF ExistsBijection
<1>7. IsFiniteSet(Of(idx, c))
  BY <1>1, SubCards DEF Of
<1> QED
  BY <1>6, <1>7, FS_Bijection

\* Functions that agree up to n have the same sum.
LEMMA SumToSame ==
  ASSUME NEW n \in Nat, NEW f, NEW g, \A k \in 1..n : f[k] \in Nat /\ g[k] = f[k]
  PROVE  SumTo(f, n) = SumTo(g, n) /\ SumTo(f, n) \in Nat
<1> DEFINE T == {k \in 0..n : SumTo(f, k) = SumTo(g, k)}
<1>1. /\ SumTo(f, 0) = 0 /\ \A k \in 1..n : SumTo(f, k) = SumTo(f, k - 1) + f[k]
      /\ \A k \in 0..n : SumTo(f, k) \in Nat
  BY SumToFacts
<1>2. SumTo(g, 0) = 0 /\ \A k \in 1..n : SumTo(g, k) = SumTo(g, k - 1) + g[k]
  BY SumToFacts
<1>3. 0 \in T /\ \A k \in 1..n : k - 1 \in T => k \in T
  BY <1>1, <1>2
<1>4. n \in T
  <2> HIDE DEF T
  <2>1. IsStepwise(T, n)
    BY <1>3 DEF IsStepwise
  <2> QED
    BY <2>1, Stepwise
<1> QED
  BY <1>1, <1>4

\* At the start nothing is kept.
LEMMA InitKept == Init => KeptInv
<1> SUFFICES ASSUME Init
             PROVE  KeptInv
  OBVIOUS
<1>1. /\ mem = NoPixels /\ npix_prev = Zero /\ infiles = << >> /\ pix_out = << >> /\ ix = << >>
      /\ sums = [c \in Cells |-> Counted({})[2]] /\ stage = "split" /\ iter = 0
  BY DEF Init
<1>2. OnFile = {} /\ Filed = {}
  BY <1>1 DEF OnFile, Filed
<1>3. MemRight(mem)
  BY <1>1, <1>2 DEF MemRight, NoPixels, OneToOne, ToSet
<1>4. FilesRight
  <2>1. Zero \in [Cells -> Nat]
    BY DEF Zero
  <2>2. \A c \in Cells : npix_prev[c] = Cardinality(InCell(Filed, c))
    <3>1. \A c \in Cells : InCell(Filed, c) = {}
      BY <1>2 DEF InCell
    <3> QED
      BY <1>1, <3>1, FS_EmptySet DEF Zero
  <2>3. \A c \in Cells :
          SumTo([f \in DOMAIN infiles |-> infiles[f].npix[c]], Len(infiles)) = npix_prev[c]
    <3> TAKE c \in Cells
    <3> DEFINE g == [f \in DOMAIN infiles |-> infiles[f].npix[c]]
    <3>1. Len(infiles) = 0 /\ \A k \in 1..0 : g[k] \in Nat
      BY <1>1
    <3> HIDE DEF g
    <3>2. SumTo(g, 0) = 0
      BY <3>1, SumToFacts
    <3> QED
      BY <1>1, <3>1, <3>2 DEF Zero, g
  <2> QED
    BY <1>1, <1>2, <2>1, <2>2, <2>3 DEF FilesRight
<1>5. Kept = {} /\ ToSet(mem.blocks) = {}
  BY <1>1 DEF Kept, Accumulating, ReadTo, Retained, NoPixels, ToSet
<1>6. sums \in [Cells -> [Source -> Nat]]
  <2>1. Counted({})[2] \in [Source -> Nat]
    BY DEF Counted
  <2> QED
    BY <1>1, <2>1
<1>7. ~Sorted
  BY <1>1 DEF Sorted
<1> QED
  BY <1>1, <1>2, <1>3, <1>4, <1>5, <1>6, <1>7 DEF KeptInv

\* Files stay, and what is said of memory.
LEMMA FilesKept ==
  ASSUME UNCHANGED request, UNCHANGED <<infiles, npix_prev>>
  PROVE  /\ OnFile' = OnFile /\ Filed' = Filed /\ FilesRight = FilesRight'
         /\ \A m : MemRight(m)' = MemRight(m)
         /\ \A p, n : Sections(p, n)' = Sections(p, n)
BY DEF request, OnFile, Filed, PixAt, FilesRight, Sections, MemRight, InCell, Source, Total, First

\* Steps that leave alone what is kept, and what is to be kept.
LEMMA KeptSame ==
  ASSUME KeptInv, UNCHANGED kept, UNCHANGED request, UNCHANGED ix, Kept' = Kept,
         use_tmp_files => use_tmp_files',
         stage \notin {"keep", "sums", "done"}, stage' \notin {"keep", "sums", "done"}
  PROVE  KeptInv'
<1>1. UNCHANGED <<mem, infiles, npix_prev, pix_out, sums, keep_pix, ix>>
  BY DEF kept, request
<1>2. ~Sorted /\ ~Sorted' /\ stage' # "keep" /\ stage' # "done" /\ stage' # "sums"
  BY DEF Sorted
<1>3. MemRight(mem)' /\ FilesRight' /\ Filed' = Filed
  BY <1>1, FilesKept DEF KeptInv
<1>4. NoPixels' = NoPixels /\ Source' = Source
  BY RequestKept DEF NoPixels
<1> QED
  BY <1>1, <1>2, <1>3, <1>4 DEF KeptInv

\* While a chunk is accumulated nothing is kept.
LEMMA AccumulateKept ==
  ASSUME PlanInv, LoopInv, KeptInv,
         \/ SplitChunk \/ SplitDone \/ NextChunk \/ EnterCombine \/ CombineCell
         \/ \E t \in Threads : Step(t)
  PROVE  KeptInv'
<1>1. /\ UNCHANGED kept /\ UNCHANGED request /\ UNCHANGED ix
      /\ stage \notin {"keep", "sums", "done"} /\ stage' \notin {"keep", "sums", "done"}
  BY DEF SplitChunk, SplitDone, NextChunk, EnterCombine, CombineCell, Step, Reject, Accept,
     AddSignal, plan
<1>2. CASE SplitChunk
  <2>1. PICK s : block_chunks' = Append(block_chunks, s)
    BY <1>2 DEF SplitChunk
  <2>2. /\ block_chunks \in Seq(Seq(Block)) /\ iter \in 0..Len(block_chunks)
        /\ Len(block_chunks) \in Nat /\ iter' = iter /\ stage = "split" /\ stage' = "split"
    BY <1>2 DEF PlanInv, LoopInv, LoopType, SplitChunk
  <2>3. /\ Len(block_chunks') = Len(block_chunks) + 1
        /\ \A k \in 1..iter : block_chunks'[k] = block_chunks[k]
    BY <2>1, <2>2
  <2>4. ReadTo(iter)' = ReadTo(iter)
    BY <2>2, <2>3 DEF ReadTo
  <2>5. Kept' = Kept
    BY <1>1, <2>2, <2>4, RequestKept DEF Kept, Accumulating
  <2>6. use_tmp_files => use_tmp_files'
    BY <1>1, <2>2, <2>3 DEF use_tmp_files, request
  <2> QED
    BY <1>1, <2>5, <2>6, KeptSame
<1>3. CASE NextChunk
  <2>1. /\ UNCHANGED block_chunks /\ stage = "chunk" /\ stage' = "classify" /\ iter' = iter + 1
        /\ iter \in Nat
    BY <1>3, CurrentFacts DEF NextChunk, plan, LoopInv
  <2>2. ReadTo(iter - 1)' = ReadTo(iter)
    BY <2>1 DEF ReadTo
  <2>3. Kept' = Kept
    BY <1>1, <2>1, <2>2, RequestKept DEF Kept, Accumulating
  <2>4. use_tmp_files => use_tmp_files'
    BY <1>1, <2>1 DEF use_tmp_files, request
  <2> QED
    BY <1>1, <2>3, <2>4, KeptSame
<1>4. CASE SplitDone \/ EnterCombine \/ CombineCell \/ \E t \in Threads : Step(t)
  <2>1. /\ UNCHANGED <<block_chunks, iter>>
        /\ \/ stage = "split" /\ stage' = "chunk"
           \/ stage \in {"classify", "combine"} /\ stage' \in {"classify", "combine"}
    <3>1. CASE SplitDone \/ EnterCombine \/ CombineCell
      BY <3>1 DEF SplitDone, EnterCombine, CombineCell, plan
    <3>2. CASE \E t \in Threads : Step(t)
      BY <3>2 DEF Step, Reject, Accept, AddSignal, plan
    <3> QED
      BY <1>4, <3>1, <3>2
  <2>2. Kept' = Kept
    BY <1>1, <2>1, RequestKept DEF Kept, ReadTo, Accumulating
  <2>3. use_tmp_files => use_tmp_files'
    BY <1>1, <2>1 DEF use_tmp_files, request
  <2> QED
    BY <1>1, <2>2, <2>3, KeptSame
<1> QED
  BY <1>2, <1>3, <1>4

\* The indexes are those of the pixels the mask selects.
LEMMA CompressKept ==
  ASSUME PlanInv, LoopInv, KeptInv, Compress
  PROVE  KeptInv'
<1>1. /\ UNCHANGED kept /\ UNCHANGED request /\ UNCHANGED <<block_chunks, iter, todo>>
      /\ UNCHANGED <<mem, infiles, npix_prev, pix_out, sums, keep_pix>>
      /\ UNCHANGED <<ok, ind, candidate_pix>>
      /\ ix' = IF keep_pix THEN [k \in DOMAIN Chosen |-> ind[Chosen[k]]] ELSE << >>
      /\ stage = "combine" /\ stage' = IF keep_pix THEN "keep" ELSE "chunk"
  BY DEF Compress, plan, request, kernel, kept
<1>2. keep_pix => Kept' = Kept
  BY <1>1, RequestKept DEF Kept, ReadTo, Accumulating
<1>3. Chosen' = Chosen
  BY <1>1 DEF Chosen
<1>4. ix' \in Seq(Cells)
  <2>1. /\ Chosen \in Seq(Pixels) /\ DOMAIN Chosen = 1..Len(Chosen) /\ Len(Chosen) \in Nat
        /\ \A k \in DOMAIN Chosen : Chosen[k] \in Pixels /\ ok[Chosen[k]]
    BY ChosenFacts DEF ToSet
  <2>2. \A j \in Pixels : ok[j] => ind[j] \in Cells
    BY DEF LoopInv, LoopType, HandInv
  <2>3. [k \in 1..Len(Chosen) |-> ind[Chosen[k]]] \in Seq(Cells)
    <3>1. \A k \in 1..Len(Chosen) : ind[Chosen[k]] \in Cells
      BY <2>1, <2>2
    <3> QED
      BY <2>1, <3>1
  <2> QED
    BY <1>1, <2>1, <2>3
<1>5. MemRight(mem)' /\ FilesRight' /\ Filed' = Filed
  BY <1>1, FilesKept DEF KeptInv
<1>6. ~Sorted /\ ~Sorted' /\ stage' # "done" /\ stage' # "sums"
  BY <1>1 DEF Sorted
<1>7. NoPixels' = NoPixels /\ Source' = Source
  BY <1>1, RequestKept DEF NoPixels
<1>8. use_tmp_files' = use_tmp_files
  BY <1>1 DEF use_tmp_files, request
<1>9. keep_pix => ToSet(mem.blocks) \cup Filed = Kept
  BY <1>6 DEF KeptInv
<1> QED
  BY <1>1, <1>2, <1>3, <1>4, <1>5, <1>6, <1>7, <1>8, <1>9 DEF KeptInv

\* The pixels the mask selects are those accepted.
LEMMA PixRetainedFacts ==
  ASSUME PlanInv, LoopInv
  PROVE  /\ PixRetained \in Seq(Source) /\ OneToOne(PixRetained) /\ ToSet(PixRetained) = Accepted
         /\ Len(PixRetained) = Len(Chosen) /\ Len(PixRetained) = nPixel_retained
         /\ \A k \in 1..Len(PixRetained) : /\ PixRetained[k] = candidate_pix[Chosen[k]]
                                           /\ Chosen[k] \in Pixels /\ ok[Chosen[k]]
<1> DEFINE n == Len(Chosen)
<1>1. /\ Chosen \in Seq(Pixels) /\ OneToOne(Chosen) /\ ToSet(Chosen) = {j \in Pixels : ok[j]}
      /\ DOMAIN Chosen = 1..n /\ n \in Nat /\ \A k \in 1..n : Chosen[k] \in Pixels
  BY ChosenFacts
<1>2. \A k \in 1..n : ok[Chosen[k]]
  BY <1>1 DEF ToSet
<1>3. PixRetained = [k \in 1..n |-> candidate_pix[Chosen[k]]]
  BY <1>1 DEF PixRetained
<1>4. \A k \in 1..n : candidate_pix[Chosen[k]] \in Source
  BY <1>1, CurrentFacts DEF LoopInv
<1>5. PixRetained \in Seq(Source) /\ Len(PixRetained) = n /\ DOMAIN PixRetained = 1..n
  <2> HIDE DEF n
  <2> QED
    BY <1>1, <1>3, <1>4
<1>6. OneToOne(PixRetained)
  <2>1. OneToOne(candidate_pix) /\ Pixels = DOMAIN candidate_pix
    BY CurrentFacts DEF LoopInv
  <2>2. ASSUME NEW k \in 1..n, NEW l \in 1..n, k # l
        PROVE  candidate_pix[Chosen[k]] # candidate_pix[Chosen[l]]
    <3>1. Chosen[k] # Chosen[l]
      BY <1>1, <2>2 DEF OneToOne
    <3>2. Chosen[k] \in DOMAIN candidate_pix /\ Chosen[l] \in DOMAIN candidate_pix
      BY <1>1, <2>1
    <3> QED
      BY <2>1, <3>1, <3>2 DEF OneToOne
  <2> HIDE DEF n
  <2>3. \A k \in 1..n : PixRetained[k] = candidate_pix[Chosen[k]]
    BY <1>3
  <2> QED
    BY <1>5, <2>2, <2>3 DEF OneToOne
<1>7. ToSet(PixRetained) = Accepted
  <2>1. ToSet(PixRetained) = {candidate_pix[Chosen[k]] : k \in 1..n}
    BY <1>3, <1>5 DEF ToSet
  <2>2. \A j \in Pixels : ok[j] => \E k \in 1..n : Chosen[k] = j
    BY <1>1 DEF ToSet
  <2> QED
    BY <1>1, <1>2, <2>1, <2>2 DEF Accepted
<1>8. n = nPixel_retained
  <2>1. Cardinality(ToSet(Chosen)) = n
    BY <1>1, OneToOneCards
  <2> QED
    BY <1>1, <2>1 DEF LoopInv, HandInv
<1> QED
  BY <1>2, <1>1, <1>3, <1>5, <1>6, <1>7, <1>8

\* Two sequences that have no element in common, one behind the other.
Apart(a, b) == ToSet(a) \cap ToSet(b) = {}
LEMMA JoinOneToOne ==
  ASSUME NEW a \in Seq(Source), NEW b \in Seq(Source), OneToOne(a), OneToOne(b), Apart(a, b)
  PROVE  /\ a \o b \in Seq(Source) /\ OneToOne(a \o b) /\ ToSet(a \o b) = ToSet(a) \cup ToSet(b)
         /\ Len(a \o b) = Len(a) + Len(b)
         /\ \A k \in 1..Len(a) : (a \o b)[k] = a[k]
         /\ \A k \in 1..Len(b) : (a \o b)[Len(a) + k] = b[k]
         /\ \A k \in 1..Len(a \o b) : k \in 1..Len(a) \/ \E i \in 1..Len(b) : k = Len(a) + i
<1> DEFINE m == Len(a)
           n == Len(b)
           c == a \o b
<1>1. m \in Nat /\ n \in Nat /\ DOMAIN a = 1..m /\ DOMAIN b = 1..n
  OBVIOUS
<1>2. c \in Seq(Source) /\ Len(c) = m + n /\ DOMAIN c = 1..(m + n)
  OBVIOUS
<1>3. /\ \A k \in 1..m : c[k] = a[k] /\ k \in 1..(m + n)
      /\ \A k \in 1..n : c[m + k] = b[k] /\ m + k \in 1..(m + n)
  OBVIOUS
<1>4. \A k \in 1..(m + n) : k \in 1..m \/ \E i \in 1..n : k = m + i
  <2> TAKE k \in 1..(m + n)
  <2> HIDE DEF m, n
  <2>1. k \in 1..m \/ (k - m \in 1..n /\ k = m + (k - m))
    BY <1>1
  <2> QED
    BY <2>1
<1>5. \A x : /\ x \in ToSet(a) <=> \E k \in 1..m : a[k] = x
             /\ x \in ToSet(b) <=> \E k \in 1..n : b[k] = x
             /\ x \in ToSet(c) <=> \E k \in 1..(m + n) : c[k] = x
  BY <1>1, <1>2 DEF ToSet
<1>8. /\ \A k, l \in 1..m : k # l => a[k] # a[l]
      /\ \A k, l \in 1..n : k # l => b[k] # b[l]
      /\ \A k \in 1..m, l \in 1..n : a[k] # b[l]
  <2>1. \A k \in 1..m, l \in 1..n : a[k] # b[l]
    BY <1>5 DEF Apart
  <2> QED
    BY <1>1, <2>1 DEF OneToOne
<1> HIDE DEF c, m, n
<1>6. ToSet(c) = ToSet(a) \cup ToSet(b)
  BY <1>3, <1>4, <1>5
<1>7. OneToOne(c)
  <2> SUFFICES ASSUME NEW k \in 1..(m + n), NEW l \in 1..(m + n), k # l
               PROVE  c[k] # c[l]
    BY <1>2 DEF OneToOne
  <2>1. CASE k \in 1..m /\ l \in 1..m
    BY <1>3, <1>8, <2>1
  <2>2. CASE k \in 1..m /\ \E j \in 1..n : l = m + j
    BY <1>3, <1>8, <2>2
  <2>3. CASE (\E i \in 1..n : k = m + i) /\ l \in 1..m
    BY <1>3, <1>8, <2>3
  <2>4. CASE (\E i \in 1..n : k = m + i) /\ \E j \in 1..n : l = m + j
    <3>1. PICK i \in 1..n, j \in 1..n : k = m + i /\ l = m + j
      BY <2>4
    <3>2. i # j
      BY <3>1
    <3> QED
      BY <1>3, <1>8, <3>1, <3>2
  <2> QED
    BY <1>4, <2>1, <2>2, <2>3, <2>4
<1> QED
  BY <1>2, <1>3, <1>4, <1>6, <1>7 DEF c, m, n

\* Cells that are those of the pixels, one behind the other too.
CellsOf(a, x) == Len(x) = Len(a) /\ \A k \in 1..Len(a) : x[k] = CellOf[u[a[k]]]
LEMMA JoinCells ==
  ASSUME NEW a \in Seq(Source), NEW b \in Seq(Source), NEW x \in Seq(Cells), NEW y \in Seq(Cells),
         CellsOf(a, x), CellsOf(b, y)
  PROVE  x \o y \in Seq(Cells) /\ CellsOf(a \o b, x \o y)
<1> DEFINE m == Len(a)
           n == Len(b)
           c == a \o b
           z == x \o y
<1>1. m \in Nat /\ n \in Nat /\ Len(x) = m /\ Len(y) = n
  BY DEF CellsOf
<1>2. Len(c) = m + n /\ Len(z) = m + n /\ z \in Seq(Cells)
  BY <1>1
<1>3. /\ \A k \in 1..m : c[k] = a[k] /\ z[k] = x[k]
      /\ \A k \in 1..n : c[m + k] = b[k] /\ z[m + k] = y[k]
  BY <1>1
<1>4. /\ \A k \in 1..m : x[k] = CellOf[u[a[k]]]
      /\ \A k \in 1..n : y[k] = CellOf[u[b[k]]]
  BY DEF CellsOf
<1> HIDE DEF m, n, c, z
<1>5. ASSUME NEW k \in 1..(m + n)
      PROVE  z[k] = CellOf[u[c[k]]]
  <2>1. CASE k \in 1..m
    BY <1>3, <1>4, <2>1
  <2>2. CASE k \notin 1..m
    <3>1. k - m \in 1..n /\ k = m + (k - m)
      BY <1>1, <2>2
    <3>2. PICK i \in 1..n : k = m + i
      BY <3>1
    <3>3. c[m + i] = b[i] /\ z[m + i] = y[i] /\ y[i] = CellOf[u[b[i]]]
      BY <1>3, <1>4
    <3> QED
      BY <3>2, <3>3
  <2> QED
    BY <2>1, <2>2
<1>6. CellsOf(c, z)
  BY <1>2, <1>5 DEF CellsOf
<1> QED
  BY <1>2, <1>6 DEF c, z

\* What is retained joins the pixels in memory.
LEMMA AddFacts ==
  ASSUME PlanInv, LoopInv, KeptInv, stage = "keep"
  PROVE  /\ MemRight(Add(mem)) /\ ToSet(Add(mem).blocks) \cup Filed = Retained(ReadTo(iter))
<1>1. /\ mem \in [blocks : Seq(Source), ix : Seq(Cells), n : Nat]
      /\ mem.n = Len(mem.blocks) /\ mem.n = Len(mem.ix) /\ OneToOne(mem.blocks)
      /\ \A k \in 1..mem.n : mem.ix[k] = CellOf[u[mem.blocks[k]]]
      /\ ToSet(mem.blocks) \cap Filed = {}
  BY DEF KeptInv, MemRight
<1>2. keep_pix /\ ~Sorted /\ ix \in Seq(Cells) /\ ix = [k \in DOMAIN Chosen |-> ind[Chosen[k]]]
  BY DEF KeptInv, Sorted
<1>3. ToSet(mem.blocks) \cup Filed = Retained(ReadTo(iter - 1))
  BY <1>2 DEF KeptInv, Kept
<1>4. /\ Retained(ReadTo(iter)) = Retained(ReadTo(iter - 1)) \cup Accepted
      /\ Accepted \cap Retained(ReadTo(iter - 1)) = {}
  <2>1. Retained(ReadTo(iter)) = Retained(ReadTo(iter - 1)) \cup Accepted
    BY AllAdded
  <2>2. iter > 0
    BY DEF LoopInv, LoopType
  <2>3. ReadTo(iter - 1) \cap ToSet(candidate_pix) = {} /\ Accepted \subseteq ToSet(candidate_pix)
    BY <2>2, CurrentFacts DEF LoopInv, Accepted, ToSet
  <2> QED
    BY <2>1, <2>3 DEF Retained
<1>5. CASE nPixel_retained = 0
  <2>1. Accepted = {}
    <3>1. PixRetained \in Seq(Source) /\ Len(PixRetained) = 0 /\ ToSet(PixRetained) = Accepted
      BY <1>5, PixRetainedFacts
    <3> QED
      BY <3>1 DEF ToSet
  <2>2. Add(mem) = mem
    BY <1>5 DEF Add
  <2> QED
    BY <1>3, <1>4, <2>1, <2>2 DEF KeptInv
<1>6. CASE nPixel_retained # 0
  <2>1. PICK a \in Seq(Source), x \in Seq(Cells) :
          /\ a = mem.blocks /\ x = mem.ix /\ OneToOne(a) /\ CellsOf(a, x) /\ mem.n = Len(a)
    BY <1>1 DEF CellsOf
  <2>2. PICK b \in Seq(Source) :
          /\ b = PixRetained /\ OneToOne(b) /\ ToSet(b) = Accepted /\ Len(b) = nPixel_retained
          /\ Len(b) = Len(Chosen)
          /\ \A k \in 1..Len(b) : /\ b[k] = candidate_pix[Chosen[k]]
                                 /\ Chosen[k] \in Pixels /\ ok[Chosen[k]]
    BY PixRetainedFacts
  <2>3. DOMAIN Chosen = 1..Len(b) /\ Len(ix) = Len(b) /\ ix = [k \in 1..Len(b) |-> ind[Chosen[k]]]
    <3>1. DOMAIN Chosen = 1..Len(b)
      BY <2>2, ChosenFacts
    <3>2. DOMAIN ix = 1..Len(b) /\ Len(b) \in Nat
      BY <1>2, <3>1
    <3> QED
      BY <1>2, <3>1, <3>2
  <2>4. CellsOf(b, ix)
    <3>1. \A k \in 1..Len(b) : ix[k] = CellOf[u[b[k]]]
      BY <2>2, <2>3 DEF LoopInv, HandInv, Coord
    <3> QED
      BY <2>3, <3>1 DEF CellsOf
  <2>5. Apart(a, b)
    BY <1>3, <1>4, <2>1, <2>2 DEF Apart
  <2>6. /\ a \o b \in Seq(Source) /\ OneToOne(a \o b) /\ ToSet(a \o b) = ToSet(a) \cup ToSet(b)
        /\ Len(a \o b) = Len(a) + Len(b)
    BY <2>1, <2>2, <2>5, JoinOneToOne
  <2>7. x \o ix \in Seq(Cells) /\ CellsOf(a \o b, x \o ix)
    BY <1>2, <2>1, <2>4, JoinCells
  <2>8. ToSet(a \o b) \cap Filed = {}
    BY <1>1, <1>3, <1>4, <2>1, <2>2, <2>6
  <2>9. Add(mem) = [blocks |-> a \o b, ix |-> x \o ix, n |-> Len(a) + Len(b)]
    BY <1>6, <2>1, <2>2 DEF Add
  <2>10. PICK d \in Seq(Source), y \in Seq(Cells), n \in Nat :
           /\ d = a \o b /\ y = x \o ix /\ n = Len(d) /\ Add(mem) = [blocks |-> d, ix |-> y, n |-> n]
    <3>1. PICK d \in Seq(Source) : d = a \o b
      BY <2>6
    <3>2. PICK y \in Seq(Cells) : y = x \o ix
      BY <2>7
    <3>3. PICK n \in Nat : n = Len(a) + Len(b)
      BY <2>1, <2>2
    <3>4. n = Len(d) /\ Add(mem) = [blocks |-> d, ix |-> y, n |-> n]
      BY <2>6, <2>9, <3>1, <3>2, <3>3
    <3> QED
      BY <3>1, <3>2, <3>4
  <2>11. /\ Add(mem).blocks = d /\ Add(mem).ix = y /\ Add(mem).n = n
         /\ Add(mem) \in [blocks : Seq(Source), ix : Seq(Cells), n : Nat]
    BY <2>10
  <2>12. n = Len(y) /\ \A k \in 1..n : y[k] = CellOf[u[d[k]]]
    BY <2>7, <2>10 DEF CellsOf
  <2>13. MemRight(Add(mem))
    BY <2>6, <2>8, <2>10, <2>11, <2>12 DEF MemRight
  <2> QED
    BY <1>3, <1>4, <2>1, <2>2, <2>6, <2>10, <2>11, <2>13
<1> QED
  BY <1>5, <1>6

\* The pixels of files: those of each, and none twice.
FileRecord == [npix : [Cells -> Nat], pix : Seq(Source), tot : Nat]
FiledIn(fs) == UNION {ToSet(fs[g].pix) : g \in DOMAIN fs}
NoneTwice(fs) == /\ \A g \in DOMAIN fs : OneToOne(fs[g].pix)
                 /\ \A g, h \in DOMAIN fs : g # h => Apart(fs[g].pix, fs[h].pix)
LEMMA OnFileIs ==
  ASSUME NEW fs, NEW on, on = UNION {{g} \X DOMAIN fs[g].pix : g \in DOMAIN fs}
  PROVE  /\ {fs[x[1]].pix[x[2]] : x \in on} = FiledIn(fs)
         /\ (\A x, y \in on : x # y => fs[x[1]].pix[x[2]] # fs[y[1]].pix[y[2]]) <=> NoneTwice(fs)
<1> DEFINE at(x) == fs[x[1]].pix[x[2]]
<1>1. /\ \A g \in DOMAIN fs : \A k \in DOMAIN fs[g].pix :
           <<g, k>> \in on /\ at(<<g, k>>) = fs[g].pix[k]
      /\ \A x \in on : /\ x[1] \in DOMAIN fs /\ x[2] \in DOMAIN fs[x[1]].pix /\ x = <<x[1], x[2]>>
  OBVIOUS
<1>2. {at(x) : x \in on} = FiledIn(fs)
  <2>1. ASSUME NEW x \in on
        PROVE  at(x) \in FiledIn(fs)
    BY <1>1 DEF FiledIn, ToSet
  <2>2. ASSUME NEW p \in FiledIn(fs)
        PROVE  \E x \in on : p = at(x)
    <3>1. PICK g \in DOMAIN fs : p \in ToSet(fs[g].pix)
      BY DEF FiledIn
    <3>2. PICK k \in DOMAIN fs[g].pix : p = fs[g].pix[k]
      BY <3>1 DEF ToSet
    <3> QED
      BY <1>1, <3>2
  <2> HIDE DEF at
  <2> QED
    BY <2>1, <2>2
<1>3. ASSUME \A x, y \in on : x # y => at(x) # at(y)
      PROVE  NoneTwice(fs)
  <2>1. ASSUME NEW g \in DOMAIN fs, NEW h \in DOMAIN fs, NEW k \in DOMAIN fs[g].pix,
               NEW l \in DOMAIN fs[h].pix, g # h \/ k # l
        PROVE  fs[g].pix[k] # fs[h].pix[l]
    <3>1. <<g, k>> # <<h, l>>
      BY <2>1
    <3> QED
      BY <1>1, <1>3, <3>1
  <2> QED
    BY <2>1 DEF NoneTwice, OneToOne, Apart, ToSet
<1>4. ASSUME NoneTwice(fs), NEW x \in on, NEW y \in on, x # y
      PROVE  at(x) # at(y)
  <2>1. CASE x[1] = y[1]
    <3>1. x[2] # y[2]
      BY <1>1, <1>4, <2>1
    <3> QED
      BY <1>1, <1>4, <2>1, <3>1 DEF NoneTwice, OneToOne
  <2>2. CASE x[1] # y[1]
    <3>1. Apart(fs[x[1]].pix, fs[y[1]].pix)
      BY <1>1, <1>4, <2>2 DEF NoneTwice
    <3>2. at(x) \in ToSet(fs[x[1]].pix) /\ at(y) \in ToSet(fs[y[1]].pix)
      BY <1>1 DEF ToSet
    <3> QED
      BY <3>1, <3>2 DEF Apart
  <2> QED
    BY <2>1, <2>2
<1> HIDE DEF at
<1>5. (\A x, y \in on : x # y => at(x) # at(y)) <=> NoneTwice(fs)
  BY <1>3, <1>4
<1> QED
  BY <1>2, <1>5 DEF at

\* One file more.
OneMore(gs, fs, f) == gs = Append(fs, f)
NotFiled(s, fs) == ToSet(s) \cap FiledIn(fs) = {}
LEMMA FilesMore ==
  ASSUME NEW fs \in Seq(FileRecord), NEW f \in FileRecord, NoneTwice(fs), OneToOne(f.pix),
         NotFiled(f.pix, fs), NEW gs, OneMore(gs, fs, f)
  PROVE  /\ gs \in Seq(FileRecord) /\ Len(gs) = Len(fs) + 1 /\ NoneTwice(gs)
         /\ \A g \in 1..Len(gs) : gs[g] = IF g = Len(gs) THEN f ELSE fs[g]
         /\ FiledIn(gs) = FiledIn(fs) \cup ToSet(f.pix)
<1> DEFINE n == Len(fs)
<1>1. n \in Nat /\ DOMAIN fs = 1..n /\ DOMAIN gs = 1..(n + 1) /\ Len(gs) = n + 1
  BY DEF OneMore
<1>2. gs \in Seq(FileRecord) /\ gs[n + 1] = f /\ \A g \in 1..n : gs[g] = fs[g]
  BY DEF OneMore
<1> HIDE DEF n
<1>3. /\ \A g \in 1..(n + 1) : g \in 1..n \/ g = n + 1
      /\ n + 1 \in 1..(n + 1) /\ \A g \in 1..n : g \in 1..(n + 1) /\ g # n + 1
  BY <1>1
<1>4. \A g \in 1..n : Apart(fs[g].pix, f.pix) /\ Apart(f.pix, fs[g].pix)
  BY <1>1 DEF FiledIn, Apart, NotFiled
<1>5. NoneTwice(gs)
  <2>1. ASSUME NEW g \in 1..(n + 1)
        PROVE  OneToOne(gs[g].pix)
    BY <1>1, <1>2, <1>3 DEF NoneTwice
  <2>2. ASSUME NEW g \in 1..(n + 1), NEW h \in 1..(n + 1), g # h
        PROVE  Apart(gs[g].pix, gs[h].pix)
    BY <1>1, <1>2, <1>3, <1>4, <2>2 DEF NoneTwice
  <2> QED
    BY <1>1, <2>1, <2>2 DEF NoneTwice
<1>6. FiledIn(gs) = FiledIn(fs) \cup ToSet(f.pix)
  <2>1. ASSUME NEW p \in FiledIn(gs)
        PROVE  p \in FiledIn(fs) \cup ToSet(f.pix)
    BY <1>1, <1>2, <1>3 DEF FiledIn
  <2>2. ASSUME NEW p \in FiledIn(fs)
        PROVE  p \in FiledIn(gs)
    <3>1. PICK g \in 1..n : p \in ToSet(fs[g].pix)
      BY <1>1 DEF FiledIn
    <3>2. g \in DOMAIN gs /\ gs[g] = fs[g]
      BY <1>1, <1>2, <1>3
    <3> QED
      BY <3>1, <3>2 DEF FiledIn
  <2>3. ToSet(f.pix) \subseteq FiledIn(gs)
    BY <1>1, <1>2, <1>3 DEF FiledIn
  <2> QED
    BY <2>1, <2>2, <2>3
<1> QED
  BY <1>1, <1>2, <1>3, <1>5, <1>6

\* The pixels of memory, sorted, as a file: those of a cell in its section.
LEMMA FileFacts ==
  ASSUME PlanInv, FilesRight, NEW m, MemRight(m), NEW R \in SUBSET Source,
         Retained(R) = ToSet(m.blocks) \cup Filed,
         \A c \in Cells : image[c] = Counted(InCell(R, c))
  PROVE  /\ File(m) \in FileRecord /\ File(m).tot = Len(File(m).pix)
         /\ Sections(File(m).pix, File(m).npix) /\ OneToOne(File(m).pix)
         /\ ToSet(File(m).pix) = ToSet(m.blocks)
         /\ Npix \in [Cells -> Nat]
         /\ \A c \in Cells : /\ Npix[c] = npix_prev[c] + File(m).npix[c]
                             /\ Npix[c] = Cardinality(InCell(ToSet(m.blocks) \cup Filed, c))
<1> DEFINE M == ToSet(m.blocks)
           now == [c \in Cells |-> Npix[c] - npix_prev[c]]
<1>1. PICK pix \in Seq(Source), idx \in Seq(Cells) :
        /\ pix = m.blocks /\ idx = m.ix /\ m.n = Len(pix) /\ Len(idx) = Len(pix) /\ OneToOne(pix)
        /\ \A k \in 1..Len(pix) : idx[k] = CellOf[u[pix[k]]]
  <2>1. m.blocks \in Seq(Source) /\ m.ix \in Seq(Cells)
    BY DEF MemRight
  <2>2. /\ m.n = Len(m.blocks) /\ Len(m.ix) = Len(m.blocks) /\ OneToOne(m.blocks)
        /\ \A k \in 1..Len(m.blocks) : m.ix[k] = CellOf[u[m.blocks[k]]]
    BY DEF MemRight
  <2> QED
    BY <2>1, <2>2
<1>2. IsFiniteSet(Source) /\ M \in SUBSET Source /\ Filed \in SUBSET Source
  <2>1. IsFiniteSet(Source)
    BY PlanFacts
  <2>2. Retained(R) \subseteq Source
    BY DEF Retained
  <2> QED
    BY <2>1, <2>2
<1>3. ASSUME NEW c \in Cells
      PROVE  /\ Npix[c] = Cardinality(InCell(M \cup Filed, c)) /\ Npix[c] \in Nat
             /\ npix_prev[c] \in Nat
             /\ Npix[c] = npix_prev[c] + Cardinality(InCell(M, c))
             /\ Cardinality(InCell(M, c)) \in Nat
  <2>1. InCell(R, c) = InCell(M, c) \cup InCell(Filed, c)
    <3>1. c # OffGrid
      BY DEF Cells, OffGrid
    <3>2. InCell(R, c) = InCell(Retained(R), c)
      BY <3>1 DEF InCell, Retained
    <3> QED
      BY <3>2 DEF InCell
  <2>2. InCell(M \cup Filed, c) = InCell(R, c)
    BY <2>1 DEF InCell
  <2>3. InCell(M, c) \cap InCell(Filed, c) = {}
    BY DEF InCell, MemRight
  <2>4. InCell(M, c) \in SUBSET Source /\ InCell(Filed, c) \in SUBSET Source
    BY <1>2 DEF InCell
  <2>5. /\ IsFiniteSet(InCell(M, c)) /\ IsFiniteSet(InCell(Filed, c))
        /\ Cardinality(InCell(M, c)) \in Nat /\ Cardinality(InCell(Filed, c)) \in Nat
    BY <1>2, <2>4, FS_Subset, FS_CardinalityType
  <2>6. Cardinality(InCell(R, c)) = Cardinality(InCell(M, c)) + Cardinality(InCell(Filed, c))
    BY <2>1, <2>3, <2>5, DisjointCards
  <2>7. Npix[c] = Cardinality(InCell(R, c))
    <3>1. InCell(R, c) \in SUBSET Source
      BY DEF InCell
    <3>2. Npix[c] = image[c][1] /\ image[c] = Counted(InCell(R, c))
      BY DEF Npix
    <3> QED
      BY <1>2, <3>1, <3>2, CountedFacts
  <2>8. npix_prev[c] = Cardinality(InCell(Filed, c))
    BY DEF FilesRight
  <2> HIDE DEF M
  <2> QED
    BY <2>2, <2>5, <2>6, <2>7, <2>8
<1>4. now \in [Cells -> Nat] /\ \A c \in Cells : now[c] = Cardinality(InCell(M, c))
  <2>1. ASSUME NEW c \in Cells
        PROVE  now[c] = Cardinality(InCell(M, c)) /\ now[c] \in Nat
    <3>1. now[c] = Npix[c] - npix_prev[c]
      OBVIOUS
    <3> HIDE DEF now, M
    <3> QED
      BY <1>3, <3>1
  <2>2. now = [c \in Cells |-> now[c]]
    OBVIOUS
  <2> HIDE DEF now, M
  <2> QED
    BY <2>1, <2>2
<1>5. CountsOf(now, idx)
  <2>1. \A c \in Cells : Cardinality(Of(idx, c)) = Cardinality(InCell(M, c))
    BY <1>1, CellCards
  <2> HIDE DEF now, M
  <2> QED
    BY <1>4, <2>1 DEF CountsOf
<1>6. PICK s : s = SortPix(pix, idx, now)
  OBVIOUS
<1>7. File(m) = [npix |-> now, pix |-> s, tot |-> Len(pix)]
  BY <1>1, <1>6 DEF File
<1>8. /\ s \in Seq(Source) /\ Len(s) = Len(pix) /\ ToSet(s) = ToSet(pix) /\ OneToOne(s)
      /\ Total(now) = Len(pix)
      /\ \A c \in Cells : \A i \in 1..now[c] :
           /\ First(now, c) + i \in 1..Len(pix)
           /\ \E k \in 1..Len(pix) : s[First(now, c) + i] = pix[k] /\ idx[k] = c
  <2> HIDE DEF now
  <2>1. Len(idx) = Len(pix) /\ OneToOne(pix)
    BY <1>1
  <2> QED
    BY <1>5, <1>6, <2>1, SortPixFacts
<1>9. Sections(s, now)
  <2> HIDE DEF now
  <2>1. ASSUME NEW c \in Cells, NEW i \in 1..now[c]
        PROVE  First(now, c) + i \in 1..Len(s) /\ CellOf[u[s[First(now, c) + i]]] = c
    <3>1. PICK k \in 1..Len(pix) : s[First(now, c) + i] = pix[k] /\ idx[k] = c
      BY <1>8
    <3>2. First(now, c) + i \in 1..Len(s)
      BY <1>8
    <3> QED
      BY <1>1, <3>1, <3>2
  <2> QED
    BY <1>4, <1>8, <2>1 DEF Sections
<1>10. Npix \in [Cells -> Nat]
  BY <1>3 DEF Npix
<1>11. ASSUME NEW c \in Cells
       PROVE  Npix[c] = npix_prev[c] + now[c]
  <2> HIDE DEF now, M
  <2> QED
    BY <1>3, <1>4
<1>12. Len(pix) \in Nat
  BY <1>1
<1> HIDE DEF now
<1>13. /\ File(m).npix = now /\ File(m).pix = s /\ File(m).tot = Len(pix)
       /\ File(m) \in FileRecord
  BY <1>4, <1>7, <1>8, <1>12 DEF FileRecord
<1> QED
  BY <1>1, <1>3, <1>8, <1>9, <1>10, <1>11, <1>13

\* They are put behind the files there are, and what was in memory is on file.
LEMMA FlushFacts ==
  ASSUME PlanInv, FilesRight, NEW m, MemRight(m), NEW R \in SUBSET Source,
         Retained(R) = ToSet(m.blocks) \cup Filed,
         \A c \in Cells : image[c] = Counted(InCell(R, c)),
         Flush(m), UNCHANGED request
  PROVE  /\ MemRight(mem)' /\ FilesRight' /\ mem'.blocks = << >>
         /\ ToSet(mem'.blocks) \cup Filed' = ToSet(m.blocks) \cup Filed
<1>1. /\ Source' = Source /\ \A p, n : Sections(p, n)' = Sections(p, n)
      /\ \A S, c : InCell(S, c)' = InCell(S, c) /\ \A x : MemRight(x) = MemRight(x)
      /\ NoPixels' = NoPixels /\ u' = u
  BY RequestKept DEF Sections, Total, First, NoPixels
<1>2. CASE m.blocks = << >>
  <2>1. mem' = m /\ UNCHANGED <<npix_prev, infiles>>
    BY <1>2 DEF Flush
  <2>2. FilesRight' /\ Filed' = Filed /\ MemRight(m)'
    BY <2>1, FilesKept
  <2>3. MemRight(mem)'
    BY <2>1, <2>2 DEF MemRight
  <2> QED
    BY <1>2, <2>1, <2>2, <2>3
<1>3. CASE m.blocks # << >>
  <2>1. mem' = NoPixels /\ npix_prev' = Npix /\ infiles' = Append(infiles, File(m))
    BY <1>3 DEF Flush
  <2>2. PICK f \in FileRecord : f = File(m)
    BY FileFacts
  <2>3. /\ f.tot = Len(f.pix) /\ Sections(f.pix, f.npix) /\ OneToOne(f.pix)
        /\ ToSet(f.pix) = ToSet(m.blocks) /\ Npix \in [Cells -> Nat]
        /\ \A c \in Cells : /\ Npix[c] = npix_prev[c] + f.npix[c]
                            /\ Npix[c] = Cardinality(InCell(ToSet(m.blocks) \cup Filed, c))
    BY <2>2, FileFacts
  <2>4. infiles \in Seq(FileRecord)
    BY DEF FilesRight, FileRecord
  <2>5. PICK gs : gs = infiles'
    OBVIOUS
  <2>6. PICK fs : fs = infiles
    OBVIOUS
  <2>7. Filed = FiledIn(fs) /\ NoneTwice(fs)
    <3>1. Filed = FiledIn(infiles)
      BY OnFileIs DEF Filed, OnFile, PixAt
    <3>2. NoneTwice(infiles)
      BY OnFileIs DEF FilesRight, OnFile, PixAt
    <3> QED
      BY <2>6, <3>1, <3>2
  <2>8. /\ gs \in Seq(FileRecord) /\ Len(gs) = Len(fs) + 1 /\ NoneTwice(gs)
        /\ \A g \in 1..Len(gs) : gs[g] = IF g = Len(gs) THEN f ELSE fs[g]
        /\ FiledIn(gs) = FiledIn(fs) \cup ToSet(f.pix)
    <3>1. NotFiled(f.pix, fs)
      BY <2>3, <2>7 DEF MemRight, NotFiled
    <3>2. gs = Append(fs, f) /\ fs \in Seq(FileRecord)
      BY <2>1, <2>2, <2>4, <2>5, <2>6
    <3> QED
      <4>1. f \in FileRecord /\ fs \in Seq(FileRecord) /\ NoneTwice(fs) /\ OneToOne(f.pix)
        BY <2>2, <2>3, <2>7, <3>2
      <4>2. OneMore(gs, fs, f)
        BY <3>2 DEF OneMore
      <4> QED
        BY ONLY <3>1, <4>1, <4>2, FilesMore
  <2>9. /\ Filed' = FiledIn(gs) /\ (\A x, y \in OnFile : x # y => PixAt(x) # PixAt(y))'
    <3>1. Filed' = FiledIn(infiles')
      BY OnFileIs DEF Filed, OnFile, PixAt
    <3>2. NoneTwice(infiles')
      BY <2>5, <2>8
    <3>3. (\A x, y \in OnFile : x # y => PixAt(x) # PixAt(y))'
      BY <3>2, OnFileIs DEF OnFile, PixAt
    <3> QED
      BY <2>5, <3>1, <3>3
  <2>10. Filed' = ToSet(m.blocks) \cup Filed
    BY <2>3, <2>7, <2>8, <2>9
  <2>11. \A g \in 1..Len(gs) : gs[g].tot = Len(gs[g].pix) /\ Sections(gs[g].pix, gs[g].npix)
    <3>1. \A g \in 1..Len(fs) : fs[g].tot = Len(fs[g].pix) /\ Sections(fs[g].pix, fs[g].npix)
      BY <2>6 DEF FilesRight
    <3>2. \A g \in 1..Len(gs) : g = Len(gs) \/ g \in 1..Len(fs)
      <4>1. Len(fs) \in Nat
        BY <2>4, <2>6
      <4> QED
        BY <2>8, <4>1
    <3> QED
      BY <2>3, <2>8, <3>1, <3>2
  <2>12. ASSUME NEW c \in Cells
         PROVE  /\ Npix[c] = Cardinality(InCell(Filed', c))
                /\ SumTo([g \in DOMAIN gs |-> gs[g].npix[c]], Len(gs)) = Npix[c]
    <3> DEFINE n == Len(fs)
               a == [g \in DOMAIN fs |-> fs[g].npix[c]]
               b == [g \in DOMAIN gs |-> gs[g].npix[c]]
    <3>1. n \in Nat /\ DOMAIN fs = 1..n /\ DOMAIN gs = 1..(n + 1) /\ Len(gs) = n + 1
      BY <2>4, <2>6, <2>8
    <3>2. \A g \in 1..(n + 1) : gs[g] \in FileRecord /\ gs[g].npix[c] \in Nat
      <4>1. \A g \in 1..(n + 1) : gs[g] \in FileRecord
        BY <2>8, <3>1
      <4> QED
        BY <4>1 DEF FileRecord
    <3>3. /\ \A g \in 1..n : b[g] = a[g] /\ b[g] \in Nat
          /\ b[n + 1] = f.npix[c] /\ \A g \in 1..(n + 1) : b[g] \in Nat
      <4>1. \A g \in 1..n : g \in 1..(n + 1) /\ g # n + 1
        BY <3>1
      <4>2. n + 1 \in 1..(n + 1)
        BY <3>1
      <4> HIDE DEF n
      <4> QED
        BY <2>8, <3>1, <3>2, <4>1, <4>2
    <3>4. SumTo(a, n) = npix_prev[c] /\ npix_prev[c] \in Nat
      BY <2>6 DEF FilesRight
    <3> HIDE DEF a, b, n
    <3>5. SumTo(b, n + 1) = SumTo(b, n) + b[n + 1]
      <4>1. n + 1 \in Nat /\ n + 1 \in 1..(n + 1) /\ (n + 1) - 1 = n
        BY <3>1
      <4>2. SumTo(b, n + 1) = SumTo(b, (n + 1) - 1) + b[n + 1]
        BY <3>3, <4>1, SumToFacts
      <4> QED
        BY <4>1, <4>2
    <3>6. SumTo(b, n) = SumTo(a, n)
      BY <3>1, <3>3, SumToSame
    <3>7. SumTo(b, n + 1) = Npix[c]
      BY <2>3, <3>3, <3>4, <3>5, <3>6
    <3> QED
      BY <2>3, <2>10, <3>1, <3>7 DEF b
  <2>13. FilesRight'
    <3>1. /\ infiles' = gs /\ gs \in Seq([npix : [Cells -> Nat], pix : Seq(Source'), tot : Nat])
          /\ \A g \in 1..Len(gs) : /\ gs[g].tot = Len(gs[g].pix)
                                  /\ Sections(gs[g].pix, gs[g].npix)
      BY <1>1, <2>5, <2>8, <2>11 DEF FileRecord
    <3>5. (\A g \in 1..Len(infiles) : /\ infiles[g].tot = Len(infiles[g].pix)
                                      /\ Sections(infiles[g].pix, infiles[g].npix))'
      BY <1>1, <3>1 DEF Sections, Total, First
    <3>2. npix_prev' \in [Cells -> Nat]
      BY <2>1, <2>3
    <3>3. \A c \in Cells :
            /\ npix_prev'[c] = Cardinality(InCell(Filed', c))
            /\ SumTo([g \in DOMAIN infiles' |-> infiles'[g].npix[c]], Len(infiles')) = npix_prev'[c]
      BY <2>1, <2>5, <2>12
    <3>4. \A c \in Cells : InCell(Filed, c)' = InCell(Filed', c)
      BY <1>1 DEF InCell
    <3> QED
      BY <2>9, <3>1, <3>2, <3>3, <3>4, <3>5 DEF FilesRight
  <2>14. MemRight(mem)' /\ mem'.blocks = << >> /\ ToSet(mem'.blocks) = {}
    <3>1. mem' = [blocks |-> << >>, ix |-> << >>, n |-> 0]
      BY <2>1 DEF NoPixels
    <3>2. ToSet(mem'.blocks) = {}
      BY <3>1 DEF ToSet
    <3> QED
      BY <3>1, <3>2 DEF MemRight, OneToOne
  <2> QED
    BY <2>10, <2>13, <2>14
<1> QED
  BY <1>2, <1>3

\* What is retained is kept in memory, or put on file if the buffer is exceeded.
LEMMA KeepKept ==
  ASSUME PlanInv, LoopInv, KeptInv, KeepInMemory \/ AccumulateToFile
  PROVE  KeptInv'
<1>1. /\ UNCHANGED request /\ UNCHANGED <<block_chunks, iter, image, ix, pix_out, sums, keep_pix>>
      /\ stage = "keep" /\ stage' = "chunk"
  BY DEF KeepInMemory, AccumulateToFile, plan, request
<1>2. PICK m : m = Add(mem)
  OBVIOUS
<1>3. MemRight(m) /\ ToSet(m.blocks) \cup Filed = Retained(ReadTo(iter)) /\ FilesRight
  BY <1>1, <1>2, AddFacts DEF KeptInv
<1>4. \/ mem' = m /\ UNCHANGED <<npix_prev, infiles>>
      \/ use_tmp_files /\ Flush(m)
  BY <1>2 DEF KeepInMemory, AccumulateToFile
<1>5. /\ MemRight(mem)' /\ FilesRight'
      /\ ToSet(mem'.blocks) \cup Filed' = ToSet(m.blocks) \cup Filed
  <2>1. CASE mem' = m /\ UNCHANGED <<npix_prev, infiles>>
    <3>1. FilesRight' /\ Filed' = Filed /\ MemRight(m)'
      BY <1>1, <1>3, <2>1, FilesKept
    <3>2. MemRight(mem)'
      BY <2>1, <3>1 DEF MemRight
    <3> QED
      BY <2>1, <3>1, <3>2
  <2>2. CASE Flush(m)
    <3>1. PICK R \in SUBSET Source : R = ReadTo(iter)
      BY CurrentFacts DEF LoopInv
    <3>2. \A c \in Cells : image[c] = Counted(InCell(R, c))
      BY <1>1, <3>1 DEF LoopInv, CountInv, Accumulating
    <3>3. Retained(R) = ToSet(m.blocks) \cup Filed
      BY <1>3, <3>1
    <3> QED
      BY <1>1, <1>3, <2>2, <3>1, <3>2, <3>3, FlushFacts
  <2> QED
    BY <1>4, <2>1, <2>2
<1>6. Kept' = Retained(ReadTo(iter))
  BY <1>1, RequestKept DEF Kept, ReadTo, Accumulating
<1>7. use_tmp_files' = use_tmp_files
  BY <1>1 DEF use_tmp_files, request
<1>8. ~use_tmp_files => infiles' = << >>
  BY <1>4 DEF KeptInv
<1>9. ~Sorted' /\ stage' # "keep" /\ stage' # "done" /\ stage' # "sums" /\ keep_pix
  BY <1>1 DEF Sorted, KeptInv
<1>10. Source' = Source /\ ix' \in Seq(Cells) /\ pix_out' \in Seq(Source) /\ sums' \in [Cells -> [Source -> Nat]]
  BY <1>1, RequestKept DEF KeptInv
<1>11. ToSet(mem'.blocks) \cup Filed' = Kept'
  BY <1>3, <1>5, <1>6
<1> QED
  BY <1>1, <1>5, <1>7, <1>8, <1>9, <1>10, <1>11 DEF KeptInv

\* What is left goes to the last file.
LEMMA FinishFilesKept ==
  ASSUME PlanInv, LoopInv, KeptInv, FinishFiles
  PROVE  KeptInv'
<1>1. /\ UNCHANGED request /\ UNCHANGED <<block_chunks, iter, image, ix, pix_out, sums, keep_pix>>
      /\ stage = "chunk" /\ stage' = "done" /\ keep_pix /\ use_tmp_files /\ Flush(mem)
  BY DEF FinishFiles, plan, request
<1>10. PICK R \in SUBSET Source : R = ReadTo(iter)
  BY CurrentFacts DEF LoopInv
<1>11. PICK m : m = mem
  OBVIOUS
<1>2. m = mem /\ R = ReadTo(iter)
  BY <1>10, <1>11
<1>3. ~Sorted /\ Retained(R) = ToSet(m.blocks) \cup Filed /\ MemRight(m) /\ FilesRight /\ Flush(m)
  BY <1>1, <1>2 DEF KeptInv, Sorted, Kept, Accumulating
<1>4. \A c \in Cells : image[c] = Counted(InCell(R, c))
  BY <1>1, <1>2 DEF LoopInv, CountInv, Accumulating
<1>5. /\ MemRight(mem)' /\ FilesRight' /\ mem'.blocks = << >>
      /\ ToSet(mem'.blocks) \cup Filed' = ToSet(m.blocks) \cup Filed
  BY <1>1, <1>2, <1>3, <1>4, FlushFacts
<1>6. Kept' = Retained(R)
  BY <1>1, <1>2, RequestKept DEF Kept, ReadTo, Accumulating
<1>7. use_tmp_files' = use_tmp_files
  BY <1>1 DEF use_tmp_files, request
<1>8. ~Sorted' /\ stage' # "keep" /\ stage' # "sums"
  BY <1>1, <1>7 DEF Sorted
<1>9. Source' = Source /\ ix' \in Seq(Cells) /\ pix_out' \in Seq(Source) /\ sums' \in [Cells -> [Source -> Nat]]
  BY <1>1, RequestKept DEF KeptInv
<1> QED
  BY <1>1, <1>3, <1>5, <1>6, <1>7, <1>8, <1>9 DEF KeptInv

\* A cut that keeps no pixels ends with its image.
LEMMA FinishImageKept ==
  ASSUME PlanInv, LoopInv, KeptInv, FinishImage
  PROVE  KeptInv'
<1>1. /\ UNCHANGED request /\ UNCHANGED <<block_chunks, iter, ix, pix_out, sums, keep_pix>>
      /\ UNCHANGED <<mem, infiles, npix_prev>>
      /\ stage = "chunk" /\ stage' = "done" /\ ~keep_pix
  BY DEF FinishImage, plan, request, kept
<1>2. FilesRight' /\ Filed' = Filed /\ MemRight(mem)'
  BY <1>1, FilesKept DEF KeptInv
<1>3. mem = NoPixels /\ mem'.blocks = << >> /\ NoPixels' = NoPixels
  BY <1>1 DEF KeptInv, NoPixels
<1>4. use_tmp_files' = use_tmp_files
  BY <1>1 DEF use_tmp_files, request
<1>5. ~Sorted' /\ stage' # "keep" /\ stage' # "sums"
  BY <1>1 DEF Sorted
<1>6. Source' = Source /\ ix' \in Seq(Cells) /\ pix_out' \in Seq(Source) /\ sums' \in [Cells -> [Source -> Nat]]
  BY <1>1, RequestKept DEF KeptInv
<1> QED
  BY <1>1, <1>2, <1>3, <1>4, <1>5, <1>6 DEF KeptInv

\* Pixels in memory are sorted, if the cut returns them.
LEMMA FinishInMemoryKept ==
  ASSUME PlanInv, LoopInv, KeptInv, FinishInMemory
  PROVE  KeptInv'
<1>1. /\ UNCHANGED request
      /\ UNCHANGED <<block_chunks, iter, image, ix, keep_pix, infiles, npix_prev>>
      /\ stage = "chunk" /\ stage' = "sums" /\ keep_pix /\ ~use_tmp_files
      /\ pix_out' = SortPix(mem.blocks, mem.ix, Npix) /\ mem' = NoPixels /\ todo' = Cells
      /\ sums' = [c \in Cells |-> Counted({})[2]]
  BY DEF FinishInMemory, plan, request
<1>2. PICK R \in SUBSET Source : R = ReadTo(iter)
  BY CurrentFacts DEF LoopInv
<1>3. PICK m : m = mem
  OBVIOUS
<1>4. Retained(R) = ToSet(m.blocks) \cup Filed /\ MemRight(m) /\ FilesRight /\ infiles = << >>
  BY <1>1, <1>2, <1>3 DEF KeptInv, Sorted, Kept, Accumulating
<1>5. \A c \in Cells : image[c] = Counted(InCell(R, c))
  BY <1>1, <1>2 DEF LoopInv, CountInv, Accumulating
<1>6. Filed = {}
  BY <1>4 DEF Filed, OnFile
<1>7. PICK f \in FileRecord : f = File(m)
  BY <1>4, <1>5, FileFacts
<1>8. /\ Sections(f.pix, f.npix) /\ OneToOne(f.pix) /\ ToSet(f.pix) = ToSet(m.blocks)
      /\ Npix \in [Cells -> Nat] /\ \A c \in Cells : Npix[c] = npix_prev[c] + f.npix[c]
  BY <1>4, <1>5, <1>7, FileFacts
<1>9. f.npix = Npix
  <2>1. \A c \in Cells : npix_prev[c] = 0
    <3>1. \A c : InCell(Filed, c) = {}
      BY <1>6 DEF InCell
    <3>2. \A c \in Cells : npix_prev[c] = Cardinality(InCell(Filed, c))
      BY <1>4 DEF FilesRight
    <3>3. Cardinality({}) = 0
      BY FS_EmptySet
    <3> QED
      BY <3>1, <3>2, <3>3
  <2>2. f.npix \in [Cells -> Nat]
    BY <1>7 DEF FileRecord
  <2>3. ASSUME NEW c \in Cells
        PROVE  f.npix[c] = Npix[c]
    <3>1. f.npix[c] \in Nat
      BY <2>2
    <3> QED
      BY <1>8, <2>1, <3>1
  <2> QED
    BY <1>8, <2>2, <2>3
<1>10. f.pix = pix_out'
  <2>1. f.npix = [c \in Cells |-> Npix[c] - npix_prev[c]]
    BY <1>7 DEF File
  <2>2. f.pix = SortPix(m.blocks, m.ix, f.npix)
    BY <1>7, <2>1 DEF File
  <2> QED
    BY <1>1, <1>3, <1>9, <2>2
<1>11. PICK s \in Seq(Source), npix \in [Cells -> Nat] : s = f.pix /\ npix = f.npix
  BY <1>8 DEF Sections
<1>12. Sections(s, npix)' /\ Npix' = npix
  <2>1. Sections(s, npix)
    BY <1>8, <1>11
  <2>2. Npix' = npix
    BY <1>1, <1>9, <1>11 DEF Npix
  <2> QED
    BY <1>1, <2>1, <2>2, RequestKept DEF Sections, Total, First
<1>13. /\ pix_out' = s /\ s \in Seq(Source') /\ OneToOne(s) /\ ToSet(s) = Retained(R)
       /\ Read' = R /\ Retained(R)' = Retained(R)
  <2>1. Read' = R
    BY <1>1, <1>2 DEF Read, ReadTo
  <2> QED
    BY <1>1, <1>4, <1>6, <1>8, <1>10, <1>11, <2>1, RequestKept
<1>14. FilesRight' /\ Filed' = Filed
  BY <1>1, <1>4, FilesKept
<1>15. MemRight(mem)'
  <2>1. mem' = [blocks |-> << >>, ix |-> << >>, n |-> 0]
    BY <1>1 DEF NoPixels
  <2>2. ToSet(mem'.blocks) = {}
    BY <2>1 DEF ToSet
  <2> QED
    BY <2>1, <2>2 DEF MemRight, OneToOne
<1>16. Sorted' /\ use_tmp_files' = use_tmp_files
  BY <1>1 DEF Sorted, use_tmp_files, request
<1>17. sums' \in [Cells -> [Source' -> Nat]]
  <2>1. Counted({})[2] = [p \in Source |-> 0]
    BY DEF Counted
  <2>2. Counted({})[2] \in [Source -> Nat]
    BY <2>1
  <2> QED
    BY <1>1, <2>2, RequestKept
<1>18. /\ stage' = "sums" /\ infiles' = << >> /\ keep_pix' /\ ix' \in Seq(Cells)
       /\ \A c \in Cells : c \in todo'
  BY <1>1, <1>4 DEF KeptInv
<1>19. (Sorted => /\ OneToOne(pix_out) /\ ToSet(pix_out) = Retained(Read)
                  /\ Sections(pix_out, Npix)
                  /\ \A c \in Cells : stage = "done" \/ c \notin todo => sums[c] = image[c][2])'
  <2>1. OneToOne(pix_out') /\ ToSet(pix_out') = Retained(Read)'
    BY <1>13 DEF Retained
  <2>2. Sections(pix_out, Npix)'
    BY <1>12, <1>13 DEF Sections
  <2> QED
    BY <1>18, <2>1, <2>2
<1> QED
  BY <1>13, <1>14, <1>15, <1>16, <1>17, <1>18, <1>19 DEF KeptInv

\* Those of a cell add up to what the image counted in it.
LEMMA SummedFacts ==
  ASSUME PlanInv, LoopInv, KeptInv, stage = "sums", NEW c \in Cells
  PROVE  Summed(c) = image[c][2] /\ Summed(c) \in [Source -> Nat]
<1> DEFINE S == InCell(Read, c)
           n == Npix[c]
           f == First(Npix, c)
           at(k) == pix_out[f + k]
           D == {at(k) : k \in 1..n}
<1>1. /\ pix_out \in Seq(Source) /\ OneToOne(pix_out) /\ ToSet(pix_out) = Retained(Read)
      /\ Sections(pix_out, Npix)
  BY DEF KeptInv
<1>2. image[c] = Counted(S) /\ Read = ReadTo(iter) /\ Read \subseteq Source /\ IsFiniteSet(Source)
  BY CurrentFacts, PlanFacts DEF LoopInv, CountInv, Accumulating, Read, ReadTo
<1>3. S \in SUBSET Source
  BY <1>2 DEF InCell
<1>4. /\ image[c][2] = [p \in Source |-> IF p \in S THEN 1 ELSE 0]
      /\ n = Cardinality(S) /\ n \in Nat /\ IsFiniteSet(S)
  BY <1>2, <1>3, CountedFacts DEF Npix
<1>5. f \in Nat
  <2>1. c - 1 \in Nat /\ \A k \in 1..(c - 1) : k \in Cells
    BY CutAssumption DEF Cells
  <2>2. \A k \in 1..(c - 1) : Npix[k] \in Nat
    BY <1>1, <2>1 DEF Sections
  <2>3. SumTo(Npix, c - 1) \in Nat
    BY <2>1, <2>2, SumToFacts
  <2> QED
    BY <2>3 DEF First
<1>6. \A k \in 1..n : f + k \in DOMAIN pix_out /\ CellOf[u[at(k)]] = c
  BY <1>1 DEF Sections
<1> HIDE DEF n, f
<1>7. \A k \in 1..n : at(k) \in S
  <2> TAKE k \in 1..n
  <2>1. at(k) \in Retained(Read)
    BY <1>1, <1>6 DEF ToSet
  <2> QED
    BY <1>6, <2>1 DEF InCell, Retained
<1>8. \A k, l \in 1..n : k # l => at(k) # at(l)
  <2> TAKE k, l \in 1..n
  <2>1. k # l => f + k # f + l
    BY <1>4, <1>5
  <2> QED
    BY <1>1, <1>6, <2>1 DEF OneToOne
<1> HIDE DEF at, S
<1>9. D = S
  <2>1. D \subseteq S
    BY <1>7
  <2>2. Cardinality(D) = n
    <3> DEFINE g == [k \in 1..n |-> at(k)]
    <3>1. g \in Bijection(1..n, D)
      BY <1>8 DEF Bijection, Injection, Surjection, IsInjective
    <3>2. ExistsBijection(1..n, D)
      BY <3>1 DEF ExistsBijection
    <3>3. IsFiniteSet(1..n) /\ Cardinality(1..n) = n
      BY <1>4, FS_Interval
    <3> HIDE DEF D
    <3> QED
      BY <3>2, <3>3, FS_Bijection
  <2> HIDE DEF D
  <2> QED
    BY <1>4, <2>1, <2>2, FS_Subset
<1>10. ASSUME NEW p \in Source
       PROVE  Cardinality({k \in 1..n : at(k) = p}) = IF p \in S THEN 1 ELSE 0
  <2>1. CASE p \in S
    <3>1. PICK k \in 1..n : at(k) = p
      BY <1>9, <2>1
    <3>2. {l \in 1..n : at(l) = p} = {k}
      BY <1>8, <3>1
    <3>3. Cardinality({k}) = 1
      BY FS_Singleton
    <3> QED
      BY <2>1, <3>2, <3>3
  <2>2. CASE p \notin S
    <3>1. {l \in 1..n : at(l) = p} = {}
      BY <1>7, <2>2
    <3>2. Cardinality({}) = 0
      BY FS_EmptySet
    <3> QED
      BY <2>2, <3>1, <3>2
  <2> QED
    BY <2>1, <2>2
<1>11. Summed(c) = [p \in Source |-> Cardinality({k \in 1..n : at(k) = p})]
  BY DEF Summed, n, f, at
<1>12. Summed(c) = [p \in Source |-> IF p \in S THEN 1 ELSE 0]
  BY <1>10, <1>11
<1> QED
  BY <1>4, <1>12

\* Every cell is added up from its section.
LEMMA SumsKept ==
  ASSUME PlanInv, LoopInv, KeptInv, SumCell \/ FinishSums
  PROVE  KeptInv'
<1>1. /\ UNCHANGED request
      /\ UNCHANGED <<block_chunks, iter, image, ix, keep_pix, infiles, npix_prev, mem, pix_out>>
      /\ stage = "sums" /\ stage' \in {"sums", "done"}
  BY DEF SumCell, FinishSums, plan, request, kept
<1>2. Sorted /\ keep_pix /\ ~use_tmp_files
  BY <1>1 DEF KeptInv, Sorted
<1>3. use_tmp_files' = use_tmp_files
  BY <1>1 DEF use_tmp_files, request
<1>4. Sorted'
  BY <1>1, <1>2, <1>3 DEF Sorted
<1>5. /\ sums' \in [Cells -> [Source -> Nat]]
      /\ \A c \in Cells : stage' = "done" \/ c \notin todo' => sums'[c] = image[c][2]
  <2>1. /\ sums \in [Cells -> [Source -> Nat]]
        /\ \A c \in Cells : c \notin todo => sums[c] = image[c][2]
    BY <1>2, <1>1 DEF KeptInv
  <2>2. CASE SumCell
    <3>1. PICK d \in todo : /\ todo' = todo \ {d} /\ sums' = [sums EXCEPT ![d] = Summed(d)]
                            /\ stage' = "sums"
      BY <2>2 DEF SumCell
    <3>2. d \in Cells
      BY <1>1, <3>1 DEF LoopInv, LoopType
    <3>3. Summed(d) = image[d][2] /\ Summed(d) \in [Source -> Nat]
      BY <1>1, <3>2, SummedFacts
    <3> QED
      BY <2>1, <3>1, <3>2, <3>3
  <2>3. CASE FinishSums
    <3>1. todo = {} /\ sums' = sums
      BY <2>3 DEF FinishSums, kept
    <3> QED
      BY <2>1, <3>1
  <2> QED
    BY <2>2, <2>3
<1>6. FilesRight' /\ Filed' = Filed /\ MemRight(mem)'
  BY <1>1, FilesKept DEF KeptInv
<1>7. /\ Source' = Source /\ Retained(Read)' = Retained(Read)
      /\ ix' \in Seq(Cells) /\ pix_out' \in Seq(Source)
  BY <1>1, RequestKept DEF KeptInv, Read, ReadTo
<1>8. Sections(pix_out, Npix)' /\ OneToOne(pix_out') /\ ToSet(pix_out') = Retained(Read)'
  <2>1. Sections(pix_out, Npix) /\ OneToOne(pix_out) /\ ToSet(pix_out) = Retained(Read)
    BY <1>2 DEF KeptInv
  <2> QED
    BY <1>1, <1>7, <2>1, RequestKept DEF Sections, Total, First, Npix
<1>9. infiles' = << >> /\ stage' # "keep" /\ ~use_tmp_files'
  BY <1>1, <1>2, <1>3 DEF KeptInv
<1> QED
  BY <1>1, <1>2, <1>4, <1>5, <1>6, <1>7, <1>8, <1>9 DEF KeptInv

\* A step that changes nothing keeps what is kept.
LEMMA StutterKept ==
  ASSUME PlanInv, LoopInv, KeptInv, UNCHANGED vars
  PROVE  KeptInv'
<1>1. /\ UNCHANGED request
      /\ UNCHANGED <<block_chunks, iter, image, ix, keep_pix, infiles, npix_prev, mem, pix_out,
                     sums, stage, todo, candidate_pix, ok, ind>>
  BY DEF vars, plan, request, kernel, kept
<1>2. use_tmp_files' = use_tmp_files /\ Sorted' = Sorted /\ Chosen' = Chosen
  BY <1>1 DEF use_tmp_files, request, Sorted, Chosen
<1>3. FilesRight' /\ Filed' = Filed /\ MemRight(mem)'
  BY <1>1, FilesKept DEF KeptInv
<1>4. /\ Source' = Source /\ NoPixels' = NoPixels /\ Kept' = Kept
      /\ Retained(Read)' = Retained(Read)
  BY <1>1, RequestKept DEF NoPixels, Kept, Read, ReadTo, Accumulating
<1>5. Sections(pix_out, Npix)' = Sections(pix_out, Npix)
  BY <1>1, RequestKept DEF Sections, Total, First, Npix
<1> QED
  BY <1>1, <1>2, <1>3, <1>4, <1>5 DEF KeptInv

\* Every step keeps what is kept.
LEMMA KeptStep == PlanInv /\ LoopInv /\ KeptInv /\ [Next]_vars => KeptInv'
<1> SUFFICES ASSUME PlanInv, LoopInv, KeptInv, [Next]_vars
             PROVE  KeptInv'
  OBVIOUS
<1>1. CASE \E t \in Threads : Step(t)
  BY <1>1, AccumulateKept
<1>2. CASE Single
  BY <1>2, AccumulateKept, CompressKept, KeepKept, FinishFilesKept, FinishInMemoryKept,
     FinishImageKept, SumsKept DEF Single
<1>3. CASE UNCHANGED vars
  BY <1>3, StutterKept
<1> QED
  BY <1>1, <1>2, <1>3 DEF Next, Finished

CutInv == PlanInv /\ LoopInv /\ KeptInv
\* The inductive invariant of a cut.
LEMMA CutInductive == Spec => []CutInv
<1>1. Init => CutInv
  BY InitPlan, InitLoop, InitKept DEF CutInv
<1>2. CutInv /\ [Next]_vars => CutInv'
  BY PlanStep, LoopStep, KeptStep DEF CutInv
<1> QED
  BY <1>1, <1>2, PTL DEF Spec

\* The pixels a cut keeps are those it counts: in files, every one once, in the
\* section of its cell, with counts that add up to the image; in memory, every
\* one once, and signals that add up to those of the image.
THEOREM KeptRight == Spec => []KeptPixelsMatchImage
<1>1. CutInv => KeptPixelsMatchImage
  <2> SUFFICES ASSUME PlanInv, LoopInv, KeptInv, stage = "done", keep_pix
               PROVE  IF use_tmp_files THEN FilesHoldRetained ELSE SumsAgree
    BY DEF CutInv, KeptPixelsMatchImage
  <2>1. Read = ReadTo(iter) /\ Read \subseteq Source /\ IsFiniteSet(Source)
    BY CurrentFacts, PlanFacts DEF LoopInv, Read, ReadTo
  <2>2. CASE use_tmp_files
    <3>1. FilesRight /\ mem.blocks = << >> /\ ~Sorted
      BY <2>2 DEF KeptInv, Sorted
    <3>2. Filed = Retained(Read)
      <4>1. ToSet(mem.blocks) = {}
        BY <3>1 DEF ToSet
      <4>2. ToSet(mem.blocks) \cup Filed = Kept
        BY <3>1 DEF KeptInv
      <4>3. Kept = Retained(Read)
        BY <2>1 DEF Kept, Accumulating
      <4> QED
        BY <4>1, <4>2, <4>3
    <3>3. DOMAIN infiles = 1..Len(infiles)
      BY <3>1 DEF FilesRight
    <3>4. ASSUME NEW f \in DOMAIN infiles
          PROVE  /\ infiles[f].tot = Len(infiles[f].pix)
                 /\ Total(infiles[f].npix) = Len(infiles[f].pix)
                 /\ \A c \in Cells : \A k \in 1..infiles[f].npix[c] :
                      CellOf[u[infiles[f].pix[First(infiles[f].npix, c) + k]]] = c
      BY <3>1, <3>3 DEF FilesRight, Sections
    <3>5. ASSUME NEW c \in Cells
          PROVE  SumTo([f \in DOMAIN infiles |-> infiles[f].npix[c]], Len(infiles)) = Npix[c]
      <4>1. image[c] = Counted(InCell(Read, c))
        BY <2>1 DEF LoopInv, CountInv, Accumulating
      <4>2. Npix[c] = Cardinality(InCell(Read, c))
        <5>1. InCell(Read, c) \in SUBSET Source
          BY <2>1 DEF InCell
        <5>2. Npix[c] = image[c][1]
          BY DEF Npix
        <5> QED
          BY <2>1, <4>1, <5>1, <5>2, CountedFacts
      <4>3. InCell(Filed, c) = InCell(Read, c)
        <5>1. c # OffGrid
          BY DEF Cells, OffGrid
        <5> QED
          BY <3>2, <5>1 DEF InCell, Retained
      <4> QED
        BY <3>1, <4>2, <4>3 DEF FilesRight
    <3>6. /\ {PixAt(x) : x \in OnFile} = Retained(Read)
          /\ \A x, y \in OnFile : x # y => PixAt(x) # PixAt(y)
      BY <3>1, <3>2 DEF Filed, FilesRight
    <3> QED
      BY <2>2, <3>4, <3>5, <3>6 DEF FilesHoldRetained
  <2>3. CASE ~use_tmp_files
    <3>1. Sorted
      BY <2>3 DEF Sorted
    <3>2. /\ pix_out \in Seq(Source) /\ OneToOne(pix_out) /\ ToSet(pix_out) = Retained(Read)
          /\ \A c \in Cells : sums[c] = image[c][2]
      BY <3>1 DEF KeptInv
    <3>3. Len(pix_out) = Cardinality(Retained(Read))
      BY <3>2, OneToOneCards
    <3> QED
      BY <2>3, <3>2, <3>3 DEF SumsAgree
  <2> QED
    BY <2>2, <2>3
<1> QED
  BY <1>1, CutInductive, PTL

(***************************************************************************)
(* No chunk is short: all pixels fit the buffer, or no block is more than  *)
(* a tenth of it.  Then all blocks are dealt out.                          *)
(***************************************************************************)
NoneShort == Most <= 1 \/ \A k \in DOMAIN blocks : 10 * blocks[k].size <= mem_chunk_size
AllDealt == first_ind = Len(blocks) + 1

DealtInv ==
  /\ \A j \in 1..(first_ind - 1) :
       \E k \in 1..Len(block_chunks) : Span(blocks[j]) \subseteq Positions(block_chunks[k])
  /\ NoneShort => AllDealt \/ Len(block_chunks) * mem_chunk_size <= UpTo(blocks, first_ind - 1)
  /\ NoneShort /\ stage # "split" => AllDealt
  /\ stage \in {"sums", "done"} => iter = Len(block_chunks)

\* A chunk of blocks of which none is more than a tenth of the buffer ends with
\* the last block or fills the buffer.
LEMMA LastBlockFills ==
  ASSUME NEW bs \in Seq(Block), NEW buf \in Nat \ {0}, NEW first \in 1..Len(bs),
         \A k \in DOMAIN bs : 10 * bs[k].size <= buf
  PROVE  LET m == LastBlock(bs, buf, first)
         IN  m = Len(bs) \/ UpTo(bs, m) >= UpTo(bs, first - 1) + buf
<1> DEFINE size(k) == UpTo(bs, k) - UpTo(bs, first - 1)
           enough  == {k \in first..Len(bs) : size(k) >= buf}
           m == LastBlock(bs, buf, first)
<1>1. Len(bs) \in Nat /\ first \in Nat /\ DOMAIN bs = 1..Len(bs)
  OBVIOUS
<1>2. UpTo(bs, first - 1) \in Nat /\ \A k \in 1..Len(bs) : UpTo(bs, k) \in Nat /\ bs[k].size \in Nat
  <2>1. first - 1 \in 0..Len(bs) /\ \A k \in 1..Len(bs) : k \in 0..Len(bs)
    BY <1>1
  <2> QED
    BY <2>1, BlocksAreParts, SumFacts
<1>3. CASE enough = {}
  <2>1. m = Len(bs)
    BY <1>3 DEF LastBlock
  <2> QED
    BY <2>1
<1>4. CASE enough # {}
  <2>1. Min(enough) \in enough
    <3>1. enough \in SUBSET Nat
      BY <1>1
    <3> HIDE DEF enough
    <3> QED
      BY <1>4, <3>1, MinOfNats
  <2>2. PICK l \in first..Len(bs) : l = Min(enough) /\ size(l) >= buf
    BY <2>1
  <2>3. l \in DOMAIN bs /\ bs[l].size \in Nat
    BY <1>1, <1>2, <2>2
  <2>4. ~(10 * bs[l].size > buf)
    <3> DEFINE z == bs[l].size
    <3>1. 10 * z <= buf /\ z \in Nat
      BY <2>3
    <3> HIDE DEF z
    <3>2. ~(10 * z > buf)
      BY <3>1
    <3> QED
      BY <3>2 DEF z
  <2>5. m = l
    <3>1. m = IF 10 * size(l - 1) >= 9 * buf /\ 10 * bs[l].size > buf THEN l - 1 ELSE l
      BY <1>4, <2>2 DEF LastBlock
    <3> HIDE DEF m
    <3> QED
      BY <2>4, <3>1
  <2>6. UpTo(bs, l) \in Nat
    BY <1>1, <1>2, <2>2
  <2> QED
    BY <1>2, <2>2, <2>5, <2>6
<1> QED
  BY <1>3, <1>4

\* As many buffers as there may be chunks hold all pixels.
LEMMA MostHolds ==
  ASSUME NEW bs \in Seq(Block), NEW buf \in Nat \ {0}
  PROVE  /\ MaxChunks(bs, buf) \in Nat /\ SizeOf(bs) <= MaxChunks(bs, buf) * buf
         /\ MaxChunks(bs, buf) = 0 => bs = << >>
<1> DEFINE n == SizeOf(bs)
           a == n + buf - 1
           q == a \div buf
<1>1. n \in Nat /\ (n = 0 => bs = << >>)
  BY BlocksAreParts, SumFacts
<1> HIDE DEF n
<1>2. a \in Nat /\ a + 1 = n + buf
  BY <1>1
<1> HIDE DEF a
<1>3. q \in Nat /\ q * buf <= a /\ a < q * buf + buf
  BY <1>2, DivFacts
<1>4. q * buf \in Nat
  BY <1>3, TimesFacts
<1>5. MaxChunks(bs, buf) = q
  BY DEF MaxChunks, q, a, n
<1>6. n <= q * buf
  <2> DEFINE x == q * buf
  <2>1. x \in Nat /\ a < x + buf
    BY <1>3, <1>4
  <2> HIDE DEF x, q
  <2>2. n <= x
    BY <1>1, <1>2, <2>1
  <2> QED
    BY <2>2 DEF x
<1>7. q = 0 => bs = << >>
  <2>1. q = 0 => q * buf = 0
    BY TimesFacts
  <2> HIDE DEF q
  <2>2. q = 0 => n = 0
    BY <1>1, <1>6, <2>1
  <2> QED
    BY <1>1, <2>2
<1> QED
  BY <1>3, <1>5, <1>6, <1>7 DEF n

\* At the start no block is dealt out, and no chunk is.
LEMMA InitDealt == Init => DealtInv
<1> SUFFICES ASSUME Init
             PROVE  DealtInv
  OBVIOUS
<1>1. /\ first_ind = 1 /\ block_chunks = << >> /\ stage = "split" /\ blocks \in Seq(Block)
      /\ mem_chunk_size \in Nat \ {0}
  BY InitPlan, RangesFacts DEF Init, PlanInv
<1>2. UpTo(blocks, 0) = 0
  BY <1>1, BlocksAreParts, SumFacts
<1>3. Len(block_chunks) * mem_chunk_size = 0
  <2>1. Len(block_chunks) = 0
    BY <1>1
  <2> QED
    BY <1>1, <2>1, TimesFacts
<1>4. 1..(first_ind - 1) = {} /\ first_ind - 1 = 0
  BY <1>1
<1>5. Len(block_chunks) * mem_chunk_size <= UpTo(blocks, first_ind - 1)
  BY <1>2, <1>3, <1>4
<1> QED
  BY <1>1, <1>4, <1>5 DEF DealtInv

\* A chunk that does not end with the last block fills the buffer.
LEMMA SplitDealt ==
  ASSUME PlanInv, DealtInv, SplitChunk
  PROVE  DealtInv'
<1>1. /\ first_ind \in 1..Len(blocks) /\ blocks \in Seq(Block) /\ mem_chunk_size \in Nat \ {0}
      /\ block_chunks \in Seq(Seq(Block)) /\ Ascending(blocks)
      /\ UNCHANGED request /\ UNCHANGED <<blocks, mem_chunk_size, stage, iter>> /\ stage = "split"
  BY RangesFacts DEF PlanInv, SplitChunk, request
<1>2. PICK last : /\ last = IF Most = 1 THEN Len(blocks)
                            ELSE LastBlock(blocks, mem_chunk_size, first_ind)
                  /\ block_chunks' = Append(block_chunks, SubSeq(blocks, first_ind, last))
                  /\ first_ind' = last + 1
  BY DEF SplitChunk
<1>3. last \in first_ind..Len(blocks) /\ last \in Nat /\ last \in 1..Len(blocks)
  <2>1. LastBlock(blocks, mem_chunk_size, first_ind) \in first_ind..Len(blocks)
    BY <1>1, LastBlockRange
  <2> QED
    BY <1>1, <1>2, <2>1
<1> DEFINE s == SubSeq(blocks, first_ind, last)
           n == Len(block_chunks)
<1>4. PICK new : new = block_chunks'
  OBVIOUS
<1>5. /\ s \in Seq(Block) /\ \A k \in first_ind..last : Span(blocks[k]) \subseteq Positions(s)
  <2>1. first_ind \in 1..(Len(blocks) + 1) /\ last \in (first_ind - 1)..Len(blocks)
    BY <1>1, <1>3
  <2> QED
    BY <1>1, <2>1, SubFacts
<1>6. /\ n \in Nat /\ Len(new) = n + 1 /\ new[n + 1] = s /\ \A k \in 1..n : new[k] = block_chunks[k]
      /\ n + 1 \in 1..Len(new) /\ \A k \in 1..n : k \in 1..Len(new)
  BY <1>1, <1>2, <1>4, <1>5
<1>7. \A j \in 1..last :
        \E k \in 1..Len(new) : Span(blocks[j]) \subseteq Positions(new[k])
  <2> HIDE DEF s, n
  <2> TAKE j \in 1..last
  <2>1. CASE j \in 1..(first_ind - 1)
    <3>1. PICK k \in 1..n : Span(blocks[j]) \subseteq Positions(block_chunks[k])
      BY <2>1 DEF DealtInv, n
    <3> QED
      BY <1>6, <3>1
  <2>2. CASE j \in first_ind..last
    BY <1>5, <1>6, <2>2
  <2>3. j \in 1..(first_ind - 1) \/ j \in first_ind..last
    BY <1>1, <1>3
  <2> QED
    BY <2>1, <2>2, <2>3
<1>8. ASSUME NoneShort, last # Len(blocks)
      PROVE  (n + 1) * mem_chunk_size <= UpTo(blocks, last)
  <2>1. Most # 1 /\ last = LastBlock(blocks, mem_chunk_size, first_ind)
    BY <1>2, <1>8
  <2>2. \A k \in DOMAIN blocks : 10 * blocks[k].size <= mem_chunk_size
    <3>1. Most \in Nat /\ Most # 0
      BY <1>1, MostHolds DEF Most
    <3>2. ~(Most <= 1)
      BY <2>1, <3>1
    <3> QED
      BY <1>8, <3>2 DEF NoneShort
  <2>3. UpTo(blocks, last) >= UpTo(blocks, first_ind - 1) + mem_chunk_size
    BY <1>1, <1>8, <2>1, <2>2, LastBlockFills
  <2>4. n * mem_chunk_size <= UpTo(blocks, first_ind - 1)
    BY <1>1, <1>8 DEF DealtInv, AllDealt
  <2>5. (n + 1) * mem_chunk_size = n * mem_chunk_size + mem_chunk_size /\ n * mem_chunk_size \in Nat
    BY <1>1, <1>6, TimesFacts
  <2>6. UpTo(blocks, last) \in Nat /\ UpTo(blocks, first_ind - 1) \in Nat
    <3>1. last \in 0..Len(blocks) /\ first_ind - 1 \in 0..Len(blocks)
      BY <1>1, <1>3
    <3> QED
      BY <1>1, <3>1, BlocksAreParts, SumFacts
  <2> DEFINE x == UpTo(blocks, last)
             y == UpTo(blocks, first_ind - 1)
             z == n * mem_chunk_size
             w == (n + 1) * mem_chunk_size
  <2>7. x \in Nat /\ y \in Nat /\ z \in Nat /\ w = z + mem_chunk_size /\ x >= y + mem_chunk_size /\ z <= y
    BY <2>3, <2>4, <2>5, <2>6
  <2> HIDE DEF x, y, z, w
  <2>8. w <= x
    BY <1>1, <2>7
  <2> QED
    BY <2>8 DEF w, x
<1>9. first_ind' - 1 = last /\ (first_ind' = Len(blocks) + 1 <=> last = Len(blocks))
  BY <1>1, <1>2, <1>3
<1>10. NoneShort' = NoneShort /\ stage' = "split" /\ blocks' = blocks /\ Len(block_chunks') = n + 1
       /\ mem_chunk_size' = mem_chunk_size
  BY <1>1, <1>4, <1>6 DEF NoneShort, Most
<1>11. AllDealt' <=> last = Len(blocks)
  BY <1>9, <1>10 DEF AllDealt
<1>12. (NoneShort => AllDealt \/ Len(block_chunks) * mem_chunk_size <= UpTo(blocks, first_ind - 1))'
  BY <1>8, <1>9, <1>10, <1>11
<1>13. \A j \in 1..(first_ind' - 1) :
         \E k \in 1..Len(block_chunks') : Span(blocks'[j]) \subseteq Positions(block_chunks'[k])
  BY <1>4, <1>7, <1>9, <1>10
<1> QED
  BY <1>10, <1>12, <1>13 DEF DealtInv

\* No block is left when as many chunks as buffers are filled.
LEMMA SplitDoneDealt ==
  ASSUME PlanInv, DealtInv, SplitDone
  PROVE  DealtInv'
<1>1. /\ UNCHANGED <<blocks, mem_chunk_size, first_ind, block_chunks, iter>>
      /\ stage' = "chunk" /\ (first_ind > Len(blocks) \/ Len(block_chunks) = Most)
      /\ first_ind \in 1..(Len(blocks) + 1) /\ blocks \in Seq(Block) /\ mem_chunk_size \in Nat \ {0}
  BY RangesFacts DEF SplitDone, plan, request, PlanInv
<1>2. ASSUME NoneShort
      PROVE  AllDealt
  <2>1. CASE first_ind > Len(blocks)
    BY <1>1, <2>1 DEF AllDealt
  <2>2. CASE Len(block_chunks) = Most /\ ~AllDealt
    <3>1. SizeOf(blocks) <= UpTo(blocks, first_ind - 1)
      <4>1. Most * mem_chunk_size <= UpTo(blocks, first_ind - 1)
        BY <1>2, <2>2 DEF DealtInv
      <4>2. SizeOf(blocks) <= Most * mem_chunk_size /\ Most \in Nat
        BY <1>1, MostHolds DEF Most
      <4>3. Most * mem_chunk_size \in Nat /\ SizeOf(blocks) \in Nat /\ UpTo(blocks, first_ind - 1) \in Nat
        <5>1. first_ind - 1 \in 0..Len(blocks)
          BY <1>1
        <5>2. SizeOf(blocks) \in Nat /\ UpTo(blocks, first_ind - 1) \in Nat
          BY <1>1, <5>1, BlocksAreParts, SumFacts
        <5>3. Most * mem_chunk_size \in Nat
          BY <1>1, <4>2, TimesFacts
        <5> QED
          BY <5>2, <5>3
      <4> DEFINE x == Most * mem_chunk_size
                 y == UpTo(blocks, first_ind - 1)
                 z == SizeOf(blocks)
      <4>4. x \in Nat /\ y \in Nat /\ z \in Nat /\ x <= y /\ z <= x
        BY <4>1, <4>2, <4>3
      <4> HIDE DEF x, y, z
      <4>5. z <= y
        BY <4>4
      <4> QED
        BY <4>5 DEF z, y
    <3>2. first_ind \in 1..Len(blocks) /\ Len(blocks) \in Nat
      BY <1>1, <2>2 DEF AllDealt
    <3>3. /\ UpTo(blocks, first_ind) = UpTo(blocks, first_ind - 1) + blocks[first_ind].size
          /\ blocks[first_ind].size \in Nat \ {0}
          /\ UpTo(blocks, first_ind - 1) \in Nat /\ UpTo(blocks, first_ind) \in Nat
      <4>1. blocks \in Seq(Part)
        BY <1>1, BlocksAreParts
      <4> QED
        BY <1>1, <3>2, <4>1, PartFacts, BlockType
    <3>4. UpTo(blocks, first_ind) <= SizeOf(blocks) /\ SizeOf(blocks) \in Nat
      <4>1. first_ind \in 0..Len(blocks) /\ Len(blocks) \in 0..Len(blocks) /\ first_ind <= Len(blocks)
        BY <3>2
      <4> QED
        BY <1>1, <4>1, BlocksAreParts, SumFacts, SumGrows DEF SizeOf
    <3> DEFINE x == UpTo(blocks, first_ind)
               y == UpTo(blocks, first_ind - 1)
               z == SizeOf(blocks)
               d == blocks[first_ind].size
    <3>5. /\ x \in Nat /\ y \in Nat /\ z \in Nat /\ d \in Nat \ {0}
          /\ x = y + d /\ z <= y /\ x <= z
      BY <3>1, <3>3, <3>4
    <3> HIDE DEF x, y, z, d
    <3> QED
      BY <3>5
  <2> QED
    BY <1>1, <2>1, <2>2
<1>3. NoneShort' = NoneShort /\ AllDealt' = AllDealt
  BY <1>1 DEF NoneShort, Most, AllDealt
<1> QED
  BY <1>1, <1>2, <1>3 DEF DealtInv

\* Blocks that are dealt out stay so.
LEMMA DealtStep == PlanInv /\ LoopInv /\ KeptInv /\ DealtInv /\ [Next]_vars => DealtInv'
<1> SUFFICES ASSUME PlanInv, LoopInv, KeptInv, DealtInv, [Next]_vars
             PROVE  DealtInv'
  OBVIOUS
<1>1. CASE SplitChunk
  BY <1>1, SplitDealt
<1>2. CASE SplitDone
  BY <1>2, SplitDoneDealt
<1>3. CASE ~SplitChunk /\ ~SplitDone
  <2>1. /\ UNCHANGED plan
        /\ \/ stage = "split" /\ stage' = "split" /\ iter' = iter
           \/ stage # "split" /\ stage' \in {"classify", "combine", "keep", "chunk"}
           \/ stage # "split" /\ iter' = iter /\ iter = Len(block_chunks)
    <3>1. CASE UNCHANGED vars
      BY <3>1 DEF vars, LoopInv, LoopType, DealtInv, plan
    <3>2. CASE \E t \in Threads : Step(t)
      BY <3>2 DEF Step, Reject, Accept, AddSignal
    <3>3. CASE Single
      BY <1>3, <3>3 DEF Single, NextChunk, EnterCombine, CombineCell, Compress, KeepInMemory,
         AccumulateToFile, FinishFiles, FinishInMemory, FinishImage, SumCell, FinishSums, DealtInv
    <3> QED
      BY <3>1, <3>2, <3>3 DEF Next, Finished
  <2>2. UNCHANGED <<blocks, mem_chunk_size, first_ind, block_chunks>>
    BY <2>1 DEF plan, request
  <2>3. NoneShort' = NoneShort /\ AllDealt' = AllDealt
    BY <2>2 DEF NoneShort, Most, AllDealt
  <2> QED
    BY <2>1, <2>2, <2>3 DEF DealtInv
<1> QED
  BY <1>1, <1>2, <1>3

\* A cut whose pixels all fit the buffer, or whose blocks are none more than a
\* tenth of it, leaves out no pixel of the ranges that may contribute.
THEOREM NoneLeftOut == Spec => [](NoneShort => EveryCandidateCut)
<1>1. Init => DealtInv
  BY InitDealt
<1>2. CutInv /\ DealtInv /\ [Next]_vars => DealtInv'
  BY DealtStep DEF CutInv
<1>3. CutInv /\ DealtInv => (NoneShort => EveryCandidateCut)
  <2> SUFFICES ASSUME CutInv, DealtInv, NoneShort, stage = "done", NEW c \in Cells
               PROVE  image[c] = Counted(InCell(Source, c))
    BY DEF EveryCandidateCut
  <2>1. PlanInv /\ LoopInv
    BY DEF CutInv
  <2>2. AllDealt /\ iter = Len(block_chunks)
    BY DEF DealtInv
  <2>3. ReadTo(iter) \subseteq Source
    BY <2>1, CurrentFacts DEF LoopInv
  <2>4. ASSUME NEW x \in Source
        PROVE  x \in ReadTo(iter)
    <3>1. PICK j \in 1..Len(blocks) : x \in Span(blocks[j])
      BY <2>1, PositionIn DEF PlanInv, Span
    <3>2. j \in 1..(first_ind - 1)
      BY <2>1, <2>2 DEF AllDealt, PlanInv
    <3>3. PICK k \in 1..Len(block_chunks) : x \in Positions(block_chunks[k])
      BY <3>1, <3>2 DEF DealtInv
    <3> QED
      BY <2>1, <2>2, <3>3, ChunkFacts DEF ReadTo
  <2>5. image[c] = Counted(InCell(ReadTo(iter), c))
    BY <2>1 DEF LoopInv, CountInv, Accumulating
  <2>6. ReadTo(iter) = Source
    BY <2>3, <2>4
  <2> QED
    BY <2>5, <2>6
<1> QED
  BY <1>1, <1>2, <1>3, CutInductive, PTL DEF Spec

\* Every variable keeps its type.
THEOREM TypeCorrect == Spec => []TypeOK
<1>1. CutInv => TypeOK
  <2> SUFFICES ASSUME PlanInv, LoopInv, KeptInv
               PROVE  TypeOK
    BY DEF CutInv
  <2>1. candidate_pix \in Seq(Source) /\ Pixels = DOMAIN candidate_pix
    BY CurrentFacts DEF LoopInv
  <2>2. todo \subseteq Cells \cup DOMAIN candidate_pix
    BY <2>1 DEF LoopInv, LoopType
  <2>3. img_range_step \in Int \X Int
    <3>1. img_range_step = NoRange \/ \E p, q \in Retained(Ended) : img_range_step = <<u[p], u[q]>>
      BY DEF LoopInv, RangeInv, IsRangeOf, Ends
    <3>2. Inf \in Int /\ -Inf \in Int
      BY CutAssumption
    <3>3. Retained(Ended) \subseteq Source
      BY CurrentFacts DEF LoopInv, Ended, Retained
    <3>4. \A p \in Source : u[p] \in Int
      BY CoordsInRange
    <3> QED
      BY <3>1, <3>2, <3>3, <3>4 DEF NoRange
  <2>4. nPixel_retained \in Nat
    <3>1. PixRetained \in Seq(Source) /\ Len(PixRetained) = nPixel_retained
      BY PixRetainedFacts
    <3> QED
      BY <3>1
  <2>5. \A k \in DOMAIN block_chunks : Positions(block_chunks[k]) \subseteq Source
    <3>1. DOMAIN block_chunks = 1..Len(block_chunks)
      BY DEF PlanInv
    <3> QED
      BY <3>1 DEF PlanInv
  <2>6. \A k \in DOMAIN infiles :
          infiles[k] \in [npix : [Cells -> Nat], pix : Seq(Source), tot : Nat]
    <3>1. PICK T : /\ T = [npix : [Cells -> Nat], pix : Seq(Source), tot : Nat]
                   /\ infiles \in Seq(T)
      BY DEF KeptInv, FilesRight
    <3>2. \A k \in DOMAIN infiles : infiles[k] \in T
      <4>1. infiles \in Seq(T)
        BY <3>1
      <4> QED
        BY ONLY <4>1
    <3> QED
      BY <3>1, <3>2
  <2>7. /\ ok \in [DOMAIN candidate_pix -> BOOLEAN]
        /\ ind \in [DOMAIN candidate_pix -> Cells \cup {0}]
        /\ stage \in {"split", "chunk", "classify", "combine", "keep", "sums", "done"}
        /\ iter \in 0..Len(block_chunks)
        /\ pc \in [Threads -> {"loop", "add"}] /\ cur \in [Threads -> Nat]
        /\ loc \in [Threads -> Sum] /\ stor \in [Threads -> [Cells -> Sum]]
        /\ image \in [Cells -> Sum] /\ qe \in [Threads -> Int \X Int]
    BY <2>1 DEF LoopInv, LoopType, RangeInv, OffGrid
  <2>8. /\ ix \in Seq(Cells) /\ mem \in [blocks : Seq(Source), ix : Seq(Cells), n : Nat]
        /\ npix_prev \in [Cells -> Nat] /\ sums \in [Cells -> [Source -> Nat]]
        /\ pix_out \in Seq(Source)
    BY DEF KeptInv, MemRight, FilesRight
  <2>9. /\ ranges \in AllRanges /\ u \in [Source -> Coords]
        /\ mem_chunk_size \in BufSizes /\ num_threads \in Nat \ {0}
        /\ keep_pix \in BOOLEAN /\ return_cut \in BOOLEAN
        /\ first_ind \in 1..(Len(blocks) + 1)
    BY DEF PlanInv
  <2> QED
    BY <2>1, <2>2, <2>3, <2>4, <2>5, <2>6, <2>7, <2>8, <2>9 DEF TypeOK
<1> QED
  BY <1>1, CutInductive, PTL
=============================================================================
