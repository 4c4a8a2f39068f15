--------------------------- MODULE HdfReaderProofs ---------------------------
(***************************************************************************)
(* For any number of readers, any blocks and buffers: the locks of         *)
(* hdf_mex_reader, and the stream its portions make up.  The sums of sizes *)
(* come first, then the portion of the mex file and the split of Matlab    *)
(* as parts cut out of the blocks, then the invariant of the stream.       *)
(***************************************************************************)
EXTENDS HdfReader, FiniteSetTheorems, WellFoundedInduction, TLAPS

(***************************************************************************)
(* Numbers and recursive functions.                                        *)
(***************************************************************************)
\* A set of numbers has a least one.
LEMMA LeastOfNats ==
  ASSUME NEW S \in SUBSET Nat, S # {}
  PROVE  \E x \in S : \A y \in S : x <= y
<1>1. PICK x \in S : \A y \in S : ~ (<<y, x>> \in OpToRel(<, Nat))
  BY WFMin, NatLessThanWellFounded
<1>2. \A y \in S : ~ (y < x)
  BY <1>1 DEF OpToRel
<1> QED
  BY <1>2

\* f is what the steps make of a, one for each k; they stay in S.
IsStep(step, n, S) == step \in [S \X (1..n) -> S]
Iterates(f, n, S, a, step) ==
  f \in [0..n -> S] /\ f[0] = a /\ \A k \in 1..n : f[k] = step[<<f[k - 1], k>>]

\* A function that follows a step from a start exists.
LEMMA RecursionExists ==
  ASSUME NEW n \in Nat, NEW S, NEW a \in S, NEW step, IsStep(step, n, S)
  PROVE  \E f : Iterates(f, n, S, a, step)
<1> DEFINE Is(f, m) == Iterates(f, m, S, a, step)
           N == {m \in 0..n : ~ \E f : Is(f, m)}
<1> USE DEF Iterates, IsStep
<1>1. SUFFICES N = {}
  OBVIOUS
<1>2. SUFFICES ASSUME N # {} PROVE FALSE
  OBVIOUS
<1>3. PICK m \in N : \A l \in N : m <= l
  <2>1. N \in SUBSET Nat
    OBVIOUS
  <2> QED
    BY <1>2, <2>1, LeastOfNats
<1>4. m \in 0..n /\ m \in Nat /\ ~ \E f : Is(f, m)
  BY <1>3
<1>5. CASE m = 0
  <2>1. Is([k \in 0..0 |-> a], 0)
    OBVIOUS
  <2> QED
    BY <1>4, <1>5, <2>1
<1>6. CASE m # 0
  <2>1. m - 1 \in 0..n /\ m - 1 \notin N
    <3>1. m - 1 \in 0..n /\ ~(m <= m - 1)
      BY <1>4, <1>6
    <3> QED
      BY <1>3, <3>1
  <2>2. PICK f : Is(f, m - 1)
    BY <2>1
  <2>3. f[m - 1] \in S /\ <<f[m - 1], m>> \in S \X (1..n)
    BY <1>4, <1>6, <2>2
  <2> DEFINE g == [k \in 0..m |-> IF k = m THEN step[<<f[m - 1], m>>] ELSE f[k]]
  <2>4. g \in [0..m -> S] /\ g[0] = a /\ \A k \in 0..(m - 1) : g[k] = f[k]
    BY <1>4, <1>6, <2>2, <2>3
  <2>5. g[m] = step[<<g[m - 1], m>>]
    <3>1. m \in 0..m /\ m - 1 \in 0..(m - 1)
      BY <1>4, <1>6
    <3>2. g[m] = step[<<f[m - 1], m>>]
      BY <3>1
    <3> HIDE DEF g
    <3> QED
      BY <2>4, <3>1, <3>2
  <2>6. ASSUME NEW k \in 1..m, k # m
        PROVE  g[k] = step[<<g[k - 1], k>>]
    <3>1. k \in 1..(m - 1) /\ k - 1 \in 0..(m - 1) /\ k \in 0..(m - 1)
      BY <1>4, <2>6
    <3> QED
      BY <2>2, <2>4, <3>1
  <2> HIDE DEF g
  <2>7. Is(g, m)
    BY <2>4, <2>5, <2>6
  <2> QED
    BY <1>4, <2>7
<1> QED
  BY <1>5, <1>6

\* f and g begin alike and are made by the same steps.
Alike(f, g, n) == f[0] = g[0] /\ \A k \in 1..n : f[k - 1] = g[k - 1] => f[k] = g[k]

\* There is but one.
LEMMA RecursionUnique ==
  ASSUME NEW n \in Nat, NEW f, NEW g, Alike(f, g, n)
  PROVE  \A k \in 0..n : f[k] = g[k]
<1> DEFINE N == {k \in 0..n : f[k] # g[k]}
<1>1. SUFFICES ASSUME N # {} PROVE FALSE
  OBVIOUS
<1>2. PICK k \in N : \A l \in N : k <= l
  <2>1. N \in SUBSET Nat
    OBVIOUS
  <2> QED
    BY <1>1, <2>1, LeastOfNats
<1>3. k \in 1..n /\ k - 1 \in 0..n /\ ~(k <= k - 1)
  BY <1>2 DEF Alike
<1> QED
  BY <1>2, <1>3 DEF Alike

(***************************************************************************)
(* Sums.                                                                   *)
(***************************************************************************)
\* What adds up the numbers f[1], f[2], ..., f[n].
AddsUp(g, f, n) == g[0] = 0 /\ \A k \in 1..n : f[k] \in Nat /\ g[k] = g[k - 1] + f[k]

\* A function that adds up is the sum.
LEMMA SumToIs ==
  ASSUME NEW n \in Nat, NEW f, NEW g, AddsUp(g, f, n)
  PROVE  SumTo(f, n) = g[n] /\ g[n] \in Nat
<1> DEFINE step == [x \in Nat \X (1..n) |-> x[1] + f[x[2]]]
           Sums(h) == h = [k \in 0..n |-> IF k = 0 THEN 0 ELSE h[k - 1] + f[k]]
           c == CHOOSE h : Sums(h)
<1>1. IsStep(step, n, Nat)
  BY DEF IsStep, AddsUp
<1>2. PICK h : Iterates(h, n, Nat, 0, step)
  <2> HIDE DEF step
  <2> QED
    BY <1>1, RecursionExists
<1>3. \A k \in 1..n : h[k] = h[k - 1] + f[k]
  <2> TAKE k \in 1..n
  <2>1. k - 1 \in 0..n /\ h[k - 1] \in Nat /\ <<h[k - 1], k>> \in Nat \X (1..n)
    BY <1>2 DEF Iterates
  <2> QED
    BY <1>2, <2>1 DEF Iterates
<1>4. Sums(h)
  <2>1. \A k \in 0..n : h[k] = IF k = 0 THEN 0 ELSE h[k - 1] + f[k]
    BY <1>2, <1>3 DEF Iterates
  <2>2. h = [k \in 0..n |-> h[k]]
    BY <1>2 DEF Iterates
  <2> QED
    BY <2>1, <2>2
<1>5. Sums(c)
  BY <1>4
<1>6. SumTo(f, n) = c[n]
  BY DEF SumTo
<1> HIDE DEF c, step
<1>7. c[0] = 0 /\ \A k \in 1..n : c[k] = c[k - 1] + f[k]
  <2>1. \A k \in 0..n : c[k] = IF k = 0 THEN 0 ELSE c[k - 1] + f[k]
    BY <1>5
  <2> QED
    BY <2>1
<1> HIDE DEF Sums
<1>8. c[n] = h[n] /\ g[n] = h[n]
  <2>1. Alike(c, h, n)
    BY <1>2, <1>3, <1>7 DEF Iterates, Alike
  <2>2. Alike(g, h, n)
    BY <1>2, <1>3 DEF Iterates, Alike, AddsUp
  <2>3. \A k \in 0..n : c[k] = h[k]
    BY <2>1, RecursionUnique
  <2>4. \A k \in 0..n : g[k] = h[k]
    BY <2>2, RecursionUnique
  <2> QED
    BY <2>3, <2>4
<1> QED
  BY <1>2, <1>6, <1>8 DEF Iterates

\* A sum begins at zero and grows by one term.
LEMMA SumToFacts ==
  ASSUME NEW m \in Nat, NEW f, \A k \in 1..m : f[k] \in Nat
  PROVE  /\ SumTo(f, 0) = 0
         /\ \A n \in 0..m : SumTo(f, n) \in Nat
         /\ \A n \in 1..m : SumTo(f, n) = SumTo(f, n - 1) + f[n]
<1> DEFINE step == [x \in Nat \X (1..m) |-> x[1] + f[x[2]]]
<1>1. IsStep(step, m, Nat)
  BY DEF IsStep
<1>2. PICK g : Iterates(g, m, Nat, 0, step)
  <2> HIDE DEF step
  <2> QED
    BY <1>1, RecursionExists
<1>3. \A k \in 1..m : g[k] = g[k - 1] + f[k]
  <2> TAKE k \in 1..m
  <2>1. k - 1 \in 0..m /\ g[k - 1] \in Nat /\ <<g[k - 1], k>> \in Nat \X (1..m)
    BY <1>2 DEF Iterates
  <2> QED
    BY <1>2, <2>1 DEF Iterates
<1> HIDE DEF step
<1>4. \A n \in 0..m : SumTo(f, n) = g[n]
  <2> TAKE n \in 0..m
  <2>1. n \in Nat /\ \A k \in 1..n : k \in 1..m
    OBVIOUS
  <2>2. AddsUp(g, f, n)
    BY <1>2, <1>3, <2>1 DEF Iterates, AddsUp
  <2> QED
    BY <2>1, <2>2, SumToIs
<1>5. \A n \in 1..m : n \in 0..m /\ n - 1 \in 0..m
  OBVIOUS
<1> QED
  BY <1>2, <1>3, <1>4, <1>5 DEF Iterates

(***************************************************************************)
(* The pixels of blocks.  A cut may leave a block of no pixels, so that    *)
(* these facts are about parts rather than blocks.                         *)
(***************************************************************************)
Part == [pos : Nat, size : Nat]

\* UpTo adds up the sizes.
LEMMA SumFacts ==
  ASSUME NEW bs \in Seq(Part)
  PROVE  /\ UpTo(bs, 0) = 0 /\ Len(bs) \in Nat /\ SizeOf(bs) \in Nat
         /\ \A k \in 0..Len(bs) : UpTo(bs, k) \in Nat
         /\ \A k \in 1..Len(bs) :
              UpTo(bs, k) = UpTo(bs, k - 1) + bs[k].size /\ bs[k] \in Part
<1> DEFINE f == [j \in DOMAIN bs |-> bs[j].size]
<1>1. Len(bs) \in Nat /\ DOMAIN bs = 1..Len(bs) /\ \A k \in 1..Len(bs) : bs[k] \in Part
  OBVIOUS
<1>2. \A k \in 1..Len(bs) : f[k] = bs[k].size /\ f[k] \in Nat
  BY <1>1 DEF Part
<1>3. \A k : UpTo(bs, k) = SumTo(f, k)
  BY DEF UpTo
<1> HIDE DEF f
<1>4. /\ SumTo(f, 0) = 0 /\ \A n \in 0..Len(bs) : SumTo(f, n) \in Nat
      /\ \A n \in 1..Len(bs) : SumTo(f, n) = SumTo(f, n - 1) + f[n]
  BY <1>1, <1>2, SumToFacts
<1> QED
  BY <1>1, <1>2, <1>3, <1>4 DEF SizeOf

\* The sum of sizes grows by the size of a block.
LEMMA PartFacts ==
  ASSUME NEW bs \in Seq(Part), NEW k \in 1..Len(bs)
  PROVE  /\ UpTo(bs, k - 1) \in Nat /\ UpTo(bs, k) \in Nat /\ k \in Nat
         /\ UpTo(bs, k) = UpTo(bs, k - 1) + bs[k].size
         /\ bs[k].size \in Nat /\ bs[k].pos \in Nat
<1>1. k \in 0..Len(bs) /\ k - 1 \in 0..Len(bs) /\ k \in Nat
  BY SumFacts
<1> QED
  BY <1>1, SumFacts DEF Part

\* They are what any function is that adds them up.
LEMMA SumUnique ==
  ASSUME NEW bs \in Seq(Part), NEW g, g[0] = 0,
         \A k \in 1..Len(bs) : g[k] = g[k - 1] + bs[k].size
  PROVE  \A k \in 0..Len(bs) : UpTo(bs, k) = g[k]
<1> DEFINE S == {k \in 0..Len(bs) : UpTo(bs, k) # g[k]}
<1>1. SUFFICES ASSUME S # {} PROVE FALSE
  OBVIOUS
<1>2. PICK k \in S : \A m \in S : k <= m
  <2>1. S \in SUBSET Nat
    BY SumFacts
  <2> QED
    BY <1>1, <2>1, LeastOfNats
<1>3. k # 0 /\ k \in 1..Len(bs) /\ k - 1 \in 0..Len(bs) /\ k - 1 \notin S
  BY <1>2, SumFacts
<1> QED
  BY <1>2, <1>3, SumFacts

\* It never falls.
LEMMA SumGrows ==
  ASSUME NEW bs \in Seq(Part), NEW j \in 0..Len(bs), NEW k \in 0..Len(bs), j <= k
  PROVE  UpTo(bs, j) <= UpTo(bs, k)
<1> DEFINE S == {m \in 0..Len(bs) : j <= m /\ ~(UpTo(bs, j) <= UpTo(bs, m))}
<1>1. SUFFICES ASSUME S # {} PROVE FALSE
  OBVIOUS
<1>2. PICK m \in S : \A l \in S : m <= l
  <2>1. S \in SUBSET Nat
    BY SumFacts
  <2> QED
    BY <1>1, <2>1, LeastOfNats
<1>3. m # j
  BY <1>2, SumFacts
<1>4. m \in 1..Len(bs) /\ m - 1 \in 0..Len(bs) /\ m - 1 \notin S /\ j <= m - 1
  BY <1>2, <1>3, SumFacts
<1>5. UpTo(bs, m) = UpTo(bs, m - 1) + bs[m].size /\ bs[m].size \in Nat
  BY <1>4, SumFacts DEF Part
<1>6. UpTo(bs, j) \in Nat /\ UpTo(bs, m - 1) \in Nat
  BY <1>4, SumFacts
<1>7. UpTo(bs, j) <= UpTo(bs, m - 1) /\ ~(UpTo(bs, j) <= UpTo(bs, m))
  BY <1>2, <1>4
<1> QED
  BY <1>5, <1>6, <1>7

\* Every place below the size is in one block.
LEMMA BlockFacts ==
  ASSUME NEW bs \in Seq(Part), NEW j \in 1..SizeOf(bs)
  PROVE  LET k == BlockAt(bs, j)
         IN  k \in 1..Len(bs) /\ UpTo(bs, k - 1) < j /\ j <= UpTo(bs, k)
<1> DEFINE S == {k \in 0..Len(bs) : j <= UpTo(bs, k)}
<1>1. Len(bs) \in S
  BY SumFacts DEF SizeOf
<1>2. PICK k \in S : \A m \in S : k <= m
  <2>1. S \in SUBSET Nat
    BY SumFacts
  <2> QED
    BY <1>1, <2>1, LeastOfNats
<1>3. k # 0 /\ k \in 1..Len(bs) /\ k - 1 \in 0..Len(bs) /\ k - 1 \notin S
  BY <1>2, SumFacts
<1>4. UpTo(bs, k - 1) < j /\ j <= UpTo(bs, k) /\ DOMAIN bs = 1..Len(bs)
  BY <1>2, <1>3, SumFacts
<1> QED
  BY <1>3, <1>4 DEF BlockAt

\* Place i of block k holds the i-th pixel of that block.
LEMMA PositionFacts ==
  ASSUME NEW bs \in Seq(Part)
  PROVE  /\ PixelsOf(bs) \in Seq(Nat) /\ Len(PixelsOf(bs)) = SizeOf(bs)
         /\ \A k \in 1..Len(bs) : \A i \in 1..bs[k].size :
              /\ UpTo(bs, k - 1) + i \in 1..SizeOf(bs)
              /\ PixelsOf(bs)[UpTo(bs, k - 1) + i] = bs[k].pos + i - 1
<1>1. ASSUME NEW j \in 1..SizeOf(bs)
      PROVE  LET k == BlockAt(bs, j) IN bs[k].pos + j - 1 - UpTo(bs, k - 1) \in Nat
  <2> DEFINE k == BlockAt(bs, j)
  <2>1. k \in 1..Len(bs) /\ UpTo(bs, k - 1) < j /\ j \in Nat
    BY <1>1, BlockFacts, SumFacts
  <2> HIDE DEF k
  <2>2. UpTo(bs, k - 1) \in Nat /\ bs[k].pos \in Nat
    BY <2>1, SumFacts DEF Part
  <2> QED
    BY <2>1, <2>2 DEF k
<1>2. PixelsOf(bs) \in [1..SizeOf(bs) -> Nat]
  BY <1>1 DEF PixelsOf
<1>3. PixelsOf(bs) \in Seq(Nat) /\ Len(PixelsOf(bs)) = SizeOf(bs)
  BY <1>2, SumFacts
<1>4. ASSUME NEW k \in 1..Len(bs), NEW i \in 1..bs[k].size
      PROVE  /\ UpTo(bs, k - 1) + i \in 1..SizeOf(bs)
             /\ PixelsOf(bs)[UpTo(bs, k - 1) + i] = bs[k].pos + i - 1
  <2> DEFINE j == UpTo(bs, k - 1) + i
             l == BlockAt(bs, j)
  <2>1. /\ UpTo(bs, k) = UpTo(bs, k - 1) + bs[k].size /\ bs[k].size \in Nat /\ bs[k].pos \in Nat
        /\ UpTo(bs, k - 1) \in Nat /\ k - 1 \in 0..Len(bs) /\ k \in 0..Len(bs)
    BY SumFacts DEF Part
  <2>2. UpTo(bs, k) <= SizeOf(bs)
    BY <2>1, SumGrows, SumFacts DEF SizeOf
  <2>3. j \in 1..SizeOf(bs) /\ UpTo(bs, k - 1) < j /\ j <= UpTo(bs, k)
    BY <2>1, <2>2, SumFacts
  <2>4. l \in 1..Len(bs) /\ UpTo(bs, l - 1) < j /\ j <= UpTo(bs, l)
    BY <2>3, BlockFacts
  <2> HIDE DEF l, j
  <2>5. l = k
    <3>1. /\ l - 1 \in 0..Len(bs) /\ l \in 0..Len(bs) /\ l \in Nat /\ k \in Nat /\ j \in Nat
          /\ UpTo(bs, l) \in Nat /\ UpTo(bs, l - 1) \in Nat
      BY <2>3, <2>4, SumFacts
    <3>2. ~(l < k)
      <4> SUFFICES ASSUME l < k PROVE FALSE
        OBVIOUS
      <4>1. UpTo(bs, l) <= UpTo(bs, k - 1)
        BY <2>1, <3>1, SumGrows
      <4> QED
        BY <2>1, <2>3, <2>4, <3>1, <4>1
    <3>3. ~(k < l)
      <4> SUFFICES ASSUME k < l PROVE FALSE
        OBVIOUS
      <4>1. UpTo(bs, k) <= UpTo(bs, l - 1)
        BY <2>1, <3>1, SumGrows
      <4> QED
        BY <2>1, <2>3, <2>4, <3>1, <4>1
    <3> QED
      BY <3>1, <3>2, <3>3
  <2>6. PixelsOf(bs)[j] = bs[l].pos + j - 1 - UpTo(bs, l - 1)
    BY <2>3 DEF PixelsOf, l
  <2> QED
    BY <2>1, <2>3, <2>5, <2>6 DEF j
<1> QED
  BY <1>3, <1>4

\* Blocks are parts that have pixels.
LEMMA BlocksAreParts ==
  ASSUME NEW bs \in Seq(Block)
  PROVE  /\ bs \in Seq(Part) /\ Len(bs) \in Nat
         /\ \A k \in 1..Len(bs) : /\ bs[k] \in Block /\ bs[k].pos \in Nat \ {0}
                                  /\ bs[k].size \in Nat \ {0}
         /\ SizeOf(bs) = 0 <=> bs = << >>
<1>1. Len(bs) \in Nat /\ \A k \in 1..Len(bs) : bs[k] \in Block
  OBVIOUS
<1>2. \A b \in Block : b \in Part /\ b.pos \in Nat \ {0} /\ b.size \in Nat \ {0}
  BY DEF Block, Part
<1>3. bs \in Seq(Part)
  BY <1>2
<1>4. bs = << >> => SizeOf(bs) = 0
  BY <1>3, SumFacts DEF SizeOf
<1>5. bs # << >> => SizeOf(bs) # 0
  <2> SUFFICES ASSUME bs # << >> PROVE SizeOf(bs) # 0
    OBVIOUS
  <2>1. Len(bs) \in 1..Len(bs) /\ Len(bs) - 1 \in 0..Len(bs)
    BY <1>1
  <2>2. SizeOf(bs) = UpTo(bs, Len(bs) - 1) + bs[Len(bs)].size /\ UpTo(bs, Len(bs) - 1) \in Nat
    BY <1>3, <2>1, SumFacts DEF SizeOf
  <2>3. bs[Len(bs)].size \in Nat \ {0}
    BY <1>1, <1>2, <2>1
  <2> QED
    BY <2>2, <2>3
<1> QED
  BY <1>1, <1>2, <1>3, <1>4, <1>5

MexOpen == open \cap MexHandles

\* Every reader that is open and goes through the mex file holds one lock.
LockInv ==
  /\ open \subseteq Handles /\ IsFiniteSet(open)
  /\ num_locks \in [Handles -> {0, 1}] /\ locks \in Nat /\ failed \in BOOLEAN
  /\ \A h \in Handles : num_locks[h] = 1 <=> h \in MexOpen
  /\ LocksMatchHandles

LEMMA InitLocks ==
  ASSUME Init
  PROVE  LockInv
<1>1. open = {} /\ MexOpen = {} /\ locks = 0
  BY DEF Init, MexOpen
<1>2. IsFiniteSet(open) /\ Cardinality(MexOpen) = 0
  BY <1>1, FS_EmptySet
<1> QED
  <2>1. \A h \in Handles : num_locks[h] = 1 <=> h \in MexOpen
    BY <1>1 DEF Init
  <2>2. num_locks \in [Handles -> {0, 1}] /\ failed \in BOOLEAN
    BY DEF Init
  <2> QED
    BY <1>1, <1>2, <2>1, <2>2 DEF LockInv, LocksMatchHandles, MexOpen

LEMMA MexOpenFinite ==
  ASSUME LockInv
  PROVE  IsFiniteSet(MexOpen) /\ Cardinality(MexOpen) \in Nat
BY FS_Subset, FS_CardinalityType DEF LockInv, MexOpen

LEMMA OpenStep ==
  ASSUME LockInv, NEW h \in Handles, OpenHandle(h)
  PROVE  LockInv'
<1>1. IsFiniteSet(open')
  BY FS_AddElement DEF LockInv, OpenHandle
<1>2. CASE h \in MexHandles
  <2>1. MexOpen' = MexOpen \cup {h} /\ h \notin MexOpen
    BY <1>2 DEF OpenHandle, MexOpen
  <2>2. Cardinality(MexOpen') = Cardinality(MexOpen) + 1
    BY <2>1, MexOpenFinite, FS_AddElement
  <2>3. locks' = locks + 1 /\ num_locks' = [num_locks EXCEPT ![h] = 1] /\ failed' = failed
    BY <1>2 DEF OpenHandle
  <2> QED
    BY <1>1, <2>1, <2>2, <2>3 DEF LockInv, LocksMatchHandles, MexOpen, OpenHandle
<1>3. CASE h \notin MexHandles
  <2>1. /\ MexOpen' = MexOpen /\ locks' = locks /\ num_locks' = num_locks /\ failed' = failed
        /\ open' \subseteq Handles
    BY <1>3 DEF OpenHandle, MexOpen, LockInv
  <2> QED
    BY <1>1, <2>1 DEF LockInv, LocksMatchHandles, MexOpen
<1> QED
  BY <1>2, <1>3

LEMMA CloseStep ==
  ASSUME LockInv, NEW h \in Handles, Close(h)
  PROVE  LockInv'
<1>1. open' = open \ {h} /\ IsFiniteSet(open')
  BY FS_RemoveElement DEF LockInv, Close
<1>2. /\ num_locks' = [num_locks EXCEPT ![h] = 0] /\ failed' = failed /\ h \in open
      /\ locks' = Unlocked(num_locks[h])
  BY DEF Close
<1>3. CASE h \in MexHandles
  <2>1. MexOpen' = MexOpen \ {h} /\ h \in MexOpen /\ num_locks[h] = 1
    BY <1>1, <1>2, <1>3 DEF MexOpen, LockInv
  <2>2. Cardinality(MexOpen') = Cardinality(MexOpen) - 1
    BY <2>1, MexOpenFinite, FS_RemoveElement
  <2>3. Cardinality(MexOpen') \in Nat
    BY <2>1, MexOpenFinite, FS_RemoveElement, FS_CardinalityType
  <2>4. locks' \in Nat /\ (~failed => locks' = Cardinality(MexOpen'))
    BY <1>2, <2>1, <2>2, <2>3, MexOpenFinite DEF LockInv, LocksMatchHandles, Unlocked, MexOpen
  <2> QED
    BY <1>1, <1>2, <2>1, <2>4 DEF LockInv, LocksMatchHandles, MexOpen
<1>4. CASE h \notin MexHandles
  <2>1. MexOpen' = MexOpen /\ num_locks[h] = 0 /\ locks' = locks
    BY <1>1, <1>2, <1>4 DEF MexOpen, LockInv, Unlocked
  <2> QED
    BY <1>1, <1>2, <1>4, <2>1 DEF LockInv, LocksMatchHandles, MexOpen
<1> QED
  BY <1>3, <1>4

\* A read takes a lock off only when it fails.
LEMMA ReadStep ==
  ASSUME LockInv, NEW h \in Handles, NEW op \in BOOLEAN, NEW bs \in Requests, NEW buf \in Bufs,
         Read(h, op, bs, buf)
  PROVE  LockInv'
<1>1. /\ open' = open /\ num_locks' = num_locks
      /\ (locks' = locks /\ failed' = failed) \/ (locks' = Unlocked(1) /\ failed' = TRUE)
  BY DEF Read, ReadIdle, ReadMex, ReadMatlab
<1>2. locks \in Nat /\ Unlocked(1) \in Nat
  BY DEF LockInv, Unlocked
<1>3. locks' \in Nat
  BY <1>1, <1>2
<1>4. failed' \in BOOLEAN
  BY <1>1 DEF LockInv
<1> QED
  BY <1>1, <1>3, <1>4 DEF LockInv, LocksMatchHandles, MexOpen

LEMMA NextStep ==
  ASSUME LockInv, [Next]_vars
  PROVE  LockInv'
<1>1. ASSUME NEW h \in Handles, OpenFails(h)
      PROVE  LockInv'
  <2>1. /\ open' = open /\ num_locks' = num_locks /\ failed' = TRUE /\ locks' = Unlocked(1)
    BY <1>1 DEF OpenFails
  <2> QED
    BY <2>1 DEF LockInv, LocksMatchHandles, MexOpen, Unlocked
<1>2. CASE UNCHANGED vars
  BY <1>2 DEF vars, LockInv, LocksMatchHandles, MexOpen
<1> QED
  BY <1>1, <1>2, OpenStep, CloseStep, ReadStep DEF Next

\* As long as no call has failed, the mex file holds one lock for every reader
\* that is open through it, so that it is never cleared from under one.
THEOREM LocksCorrect == Spec => []LocksMatchHandles
<1>1. LockInv => LocksMatchHandles
  BY DEF LockInv
<1> QED
  BY InitLocks, NextStep, <1>1, PTL DEF Spec

(***************************************************************************)
(* Blocks cut into parts.                                                  *)
(***************************************************************************)
\* Parts cs cut from blocks bs, from place d on: part i is cut from block i + m,
\* of which s[i] pixels are skipped.
IsCut(bs, cs, d, m, s) ==
  \A i \in 1..Len(cs) :
    /\ i + m \in 1..Len(bs) /\ s[i] \in Nat
    /\ cs[i].pos = bs[i + m].pos + s[i] /\ s[i] + cs[i].size <= bs[i + m].size
    /\ UpTo(cs, i - 1) + d = UpTo(bs, i + m - 1) + s[i]

LEMMA CutFrom ==
  ASSUME NEW bs \in Seq(Part), NEW cs \in Seq(Part), NEW d \in Nat, NEW m \in Nat, NEW s,
         IsCut(bs, cs, d, m, s)
  PROVE  \A j \in 1..SizeOf(cs) :
           d + j \in 1..SizeOf(bs) /\ PixelsOf(cs)[j] = PixelsOf(bs)[d + j]
<1> TAKE j \in 1..SizeOf(cs)
<1> DEFINE i == BlockAt(cs, j)
           r == j - UpTo(cs, i - 1)
           k == i + m
<1>1. i \in 1..Len(cs) /\ UpTo(cs, i - 1) < j /\ j <= UpTo(cs, i)
  BY BlockFacts
<1> HIDE DEF i
<1>2. /\ UpTo(cs, i) = UpTo(cs, i - 1) + cs[i].size /\ UpTo(cs, i - 1) \in Nat
      /\ cs[i].size \in Nat /\ cs[i].pos \in Nat /\ j \in Nat /\ i \in Nat
  BY <1>1, PartFacts
<1>3. r \in 1..cs[i].size /\ j = UpTo(cs, i - 1) + r
  BY <1>1, <1>2
<1> HIDE DEF r
<1>4. PixelsOf(cs)[j] = cs[i].pos + r - 1
  BY <1>1, <1>3, PositionFacts
<1>5. /\ k \in 1..Len(bs) /\ s[i] \in Nat
      /\ cs[i].pos = bs[k].pos + s[i] /\ s[i] + cs[i].size <= bs[k].size
      /\ UpTo(cs, i - 1) + d = UpTo(bs, k - 1) + s[i]
  BY <1>1 DEF IsCut
<1> HIDE DEF k
<1>6. UpTo(bs, k - 1) \in Nat /\ bs[k].size \in Nat /\ bs[k].pos \in Nat
  BY <1>5, PartFacts
<1>7. s[i] + r \in 1..bs[k].size /\ d + j = UpTo(bs, k - 1) + (s[i] + r)
  <2> DEFINE a == UpTo(cs, i - 1)
             b == UpTo(bs, k - 1)
             y == cs[i].size
             z == bs[k].size
             e == s[i]
  <2>1. /\ a \in Nat /\ b \in Nat /\ y \in Nat /\ z \in Nat /\ e \in Nat
        /\ r \in 1..y /\ j = a + r /\ e + y <= z /\ a + d = b + e
    BY <1>2, <1>3, <1>5, <1>6
  <2> HIDE DEF a, b, y, z, e
  <2>2. e + r \in 1..z /\ d + j = b + (e + r)
    BY <2>1
  <2> QED
    BY <2>2 DEF b, z, e
<1>8. /\ UpTo(bs, k - 1) + (s[i] + r) \in 1..SizeOf(bs)
      /\ PixelsOf(bs)[UpTo(bs, k - 1) + (s[i] + r)] = bs[k].pos + (s[i] + r) - 1
  BY <1>5, <1>7, PositionFacts
<1>9. cs[i].pos + r - 1 = bs[k].pos + (s[i] + r) - 1
  <2> DEFINE e == s[i]
             y == bs[k].pos
  <2>1. e \in Nat /\ y \in Nat /\ cs[i].pos = y + e /\ r \in Nat
    BY <1>2, <1>3, <1>5, <1>6
  <2> HIDE DEF e, y
  <2>2. (y + e) + r - 1 = y + (e + r) - 1
    BY <2>1
  <2> QED
    BY <2>1, <2>2 DEF e, y
<1> QED
  BY <1>4, <1>7, <1>8, <1>9

LEMMA LeastInRange ==
  ASSUME NEW a \in Nat, NEW b \in Nat, NEW S \in SUBSET (a..b), S # {}
  PROVE  Min(S) \in S /\ \A k \in S : Min(S) <= k
<1>1. \E x \in S : \A y \in S : x <= y
  BY LeastOfNats
<1> QED
  BY <1>1 DEF Min

(***************************************************************************)
(* The portion the mex file reads.                                         *)
(***************************************************************************)
\* A place in the blocks, with d pixels in front of it.
InPlace(bs, p, d) ==
  /\ p \in Nat \X Nat /\ p[1] \in 1..(Len(bs) + 1)
  /\ p[1] <= Len(bs) => p[2] < bs[p[1]].size
  /\ p[1] > Len(bs) => p[2] = 0
  /\ UpTo(bs, p[1] - 1) + p[2] = d

\* Where the portion ends.
LEMMA LastFacts ==
  ASSUME NEW bs \in Seq(Block), NEW first \in 1..Len(bs), NEW p \in 0..(bs[first].size - 1),
         NEW n \in Nat \ {0}, UpTo(bs, first - 1) + p + n <= SizeOf(bs)
  PROVE  LET last == LastOf(bs, first, p, n)
             cut  == CutPos(bs, first, p, n)
         IN  /\ last \in first..Len(bs) /\ cut \in 1..bs[last].size
             /\ UpTo(bs, last - 1) + cut = UpTo(bs, first - 1) + p + n
             /\ Selected(bs, first, p, last) = n <=> cut = bs[last].size
<1> DEFINE last == LastOf(bs, first, p, n)
           cut == CutPos(bs, first, p, n)
           d == UpTo(bs, first - 1) + p
           S == {k \in first..Len(bs) : Selected(bs, first, p, k) >= n}
<1>1. /\ bs \in Seq(Part) /\ Len(bs) \in Nat /\ first \in Nat \ {0} /\ p \in Nat
      /\ \A k \in 1..Len(bs) : bs[k].size \in Nat \ {0}
  BY BlocksAreParts
<1>2. /\ \A k \in 0..Len(bs) : UpTo(bs, k) \in Nat
      /\ \A k \in 1..Len(bs) : UpTo(bs, k) = UpTo(bs, k - 1) + bs[k].size
  BY <1>1, SumFacts
<1>3. /\ d \in Nat /\ first - 1 \in 0..Len(bs) /\ UpTo(bs, first - 1) \in Nat
      /\ p \in Nat /\ first \in Nat
  BY <1>1, <1>2
<1>4. \A k \in 0..Len(bs) : Selected(bs, first, p, k) = UpTo(bs, k) - d
  BY <1>1, <1>2, <1>3 DEF Selected
<1>5. Len(bs) \in S
  <2>1. Len(bs) \in first..Len(bs) /\ UpTo(bs, Len(bs)) = SizeOf(bs) /\ Len(bs) \in 0..Len(bs)
    BY <1>1 DEF SizeOf
  <2>2. UpTo(bs, Len(bs)) - d >= n
    <3>1. UpTo(bs, Len(bs)) \in Nat
      BY <1>2, <2>1
    <3> QED
      BY <1>3, <2>1, <3>1
  <2> QED
    BY <1>4, <2>1, <2>2
<1>6. last \in S /\ \A k \in S : last <= k
  <2>1. S \in SUBSET (first..Len(bs))
    OBVIOUS
  <2> HIDE DEF S
  <2>2. Min(S) \in S /\ \A k \in S : Min(S) <= k
    BY <1>1, <1>5, <2>1, LeastInRange
  <2> QED
    BY <2>2 DEF LastOf, S
<1>7. /\ last \in first..Len(bs) /\ last \in 1..Len(bs) /\ last - 1 \in 0..Len(bs)
      /\ UpTo(bs, last) - d >= n
  BY <1>1, <1>4, <1>6
<1> HIDE DEF last
<1>8. UpTo(bs, last - 1) - d < n
  <2>1. CASE last = first
    BY <1>1, <1>3, <2>1
  <2>2. CASE last # first
    <3>1. last - 1 \in first..Len(bs) /\ ~(last <= last - 1)
      BY <1>1, <1>7, <2>2
    <3>2. last - 1 \notin S
      BY <1>6, <3>1
    <3>3. ~(UpTo(bs, last - 1) - d >= n)
      BY <1>4, <1>7, <3>1, <3>2
    <3>4. UpTo(bs, last - 1) \in Nat
      BY <1>2, <1>7
    <3> QED
      BY <1>3, <3>3, <3>4
  <2> QED
    BY <2>1, <2>2
<1>9. UpTo(bs, last) = UpTo(bs, last - 1) + bs[last].size /\ bs[last].size \in Nat \ {0}
      /\ UpTo(bs, last) \in Nat /\ UpTo(bs, last - 1) \in Nat /\ last \in Nat
  BY <1>1, <1>2, <1>7
<1>10. cut = bs[last].size - (UpTo(bs, last) - d - n)
  BY <1>4, <1>7 DEF CutPos, last
<1> HIDE DEF cut
<1>11. cut = d + n - UpTo(bs, last - 1)
  <2> DEFINE a == UpTo(bs, last - 1)
             b == UpTo(bs, last)
             z == bs[last].size
  <2> HIDE DEF d
  <2>1. b = a + z /\ a \in Nat /\ b \in Nat /\ z \in Nat /\ cut = z - (b - d - n) /\ d \in Nat
    BY <1>3, <1>9, <1>10
  <2> HIDE DEF a, b, z
  <2>2. cut = d + n - a
    BY <2>1
  <2> QED
    BY <2>2 DEF a
<1>12. Selected(bs, first, p, last) = UpTo(bs, last) - d
  BY <1>4, <1>7
<1>13. /\ cut \in 1..bs[last].size /\ UpTo(bs, last - 1) + cut = d + n
       /\ Selected(bs, first, p, last) = n <=> cut = bs[last].size
  <2> DEFINE a == UpTo(bs, last - 1)
             b == UpTo(bs, last)
             z == bs[last].size
             q == Selected(bs, first, p, last)
  <2> HIDE DEF d
  <2>1. /\ b = a + z /\ a \in Nat /\ b \in Nat /\ z \in Nat /\ d \in Nat
        /\ cut = d + n - a /\ q = b - d /\ a - d < n /\ b - d >= n
    BY <1>3, <1>7, <1>8, <1>9, <1>11, <1>12
  <2> HIDE DEF a, b, z, q
  <2>2. cut \in 1..z /\ a + cut = d + n /\ (q = n <=> cut = z)
    BY <2>1, SMTT(30)
  <2> QED
    BY <2>2 DEF a, z, q
<1> QED
  BY <1>7, <1>13 DEF last, cut

\* The portion fits the buffer, and is what follows in the blocks; the next
\* one begins behind it.
LEMMA PortionFacts ==
  ASSUME NEW bs \in Seq(Block), NEW first \in 1..Len(bs), NEW p \in 0..(bs[first].size - 1),
         NEW buf \in Nat \ {0}
  PROVE  LET n  == NpixToRead(bs, first, p, buf)
             cs == Portion(bs, first, p, n)
             d  == UpTo(bs, first - 1) + p
         IN  /\ n \in 1..buf /\ d + n \in 0..SizeOf(bs) /\ cs \in Seq(Block) /\ SizeOf(cs) = n
             /\ \A j \in 1..n : PixelsOf(cs)[j] = PixelsOf(bs)[d + j]
             /\ InPlace(bs, NextAt(bs, first, p, n), d + n)
<1> DEFINE n == NpixToRead(bs, first, p, buf)
           cs == Portion(bs, first, p, n)
           d == UpTo(bs, first - 1) + p
           last == LastOf(bs, first, p, n)
           cut == CutPos(bs, first, p, n)
           m == last - first + 1
           s == [i \in 1..m |-> IF i = 1 THEN p ELSE 0]
           Skip(k) == IF k = first THEN p ELSE 0
           Cut(k) == IF k = last THEN cut ELSE bs[k].size
<1>1. /\ bs \in Seq(Part) /\ Len(bs) \in Nat /\ first \in Nat \ {0} /\ p \in Nat
      /\ \A k \in 1..Len(bs) : bs[k] \in Block /\ bs[k].pos \in Nat \ {0}
                               /\ bs[k].size \in Nat \ {0}
  BY BlocksAreParts
<1>2. /\ \A k \in 0..Len(bs) : UpTo(bs, k) \in Nat
      /\ \A k \in 1..Len(bs) : UpTo(bs, k) = UpTo(bs, k - 1) + bs[k].size
  BY <1>1, SumFacts
<1>3. d \in Nat /\ first - 1 \in 0..Len(bs) /\ first \in 0..Len(bs) /\ d < UpTo(bs, first)
  <2>1. first - 1 \in 0..Len(bs) /\ first \in 0..Len(bs) /\ first \in 1..Len(bs)
    BY <1>1
  <2>2. UpTo(bs, first - 1) \in Nat /\ UpTo(bs, first) = UpTo(bs, first - 1) + bs[first].size
    BY <1>2, <2>1
  <2>3. p < bs[first].size /\ bs[first].size \in Nat
    BY <1>1
  <2> QED
    BY <1>1, <2>1, <2>2, <2>3
<1>4. UpTo(bs, first) <= SizeOf(bs) /\ SizeOf(bs) \in Nat /\ UpTo(bs, first) \in Nat
  BY <1>1, <1>2, <1>3, SumGrows DEF SizeOf
<1>5. n = Fewest(buf, SizeOf(bs) - d)
  <2>1. UpTo(bs, first - 1) \in Nat
    BY <1>2, <1>3
  <2>2. SizeOf(bs) - UpTo(bs, first - 1) - p = SizeOf(bs) - d
    BY <1>1, <1>4, <2>1
  <2> QED
    BY <2>2 DEF NpixToRead
<1> HIDE DEF n, d
<1>6. n \in 1..buf /\ n \in Nat \ {0} /\ d + n <= SizeOf(bs)
  BY <1>3, <1>4, <1>5 DEF Fewest
<1>7. /\ last \in first..Len(bs) /\ cut \in 1..bs[last].size
      /\ UpTo(bs, last - 1) + cut = d + n
      /\ Selected(bs, first, p, last) = n <=> cut = bs[last].size
  BY <1>6, LastFacts DEF d
<1> HIDE DEF last, cut
<1>8. last \in Nat /\ m \in 1..Len(bs) /\ \A i \in 1..m : first + i - 1 \in first..last
  BY <1>1, <1>7
<1>9. cs = [i \in 1..m |-> [pos |-> bs[first + i - 1].pos + Skip(first + i - 1),
                             size |-> Cut(first + i - 1) - Skip(first + i - 1)]]
  BY DEF Portion, last, cut
<1>10. ASSUME NEW k \in first..last
       PROVE  /\ k \in 1..Len(bs) /\ k \in Nat /\ Skip(k) \in Nat /\ Cut(k) \in Nat
              /\ Cut(k) - Skip(k) \in Nat \ {0} /\ Cut(k) <= bs[k].size
  <2>1. k \in 1..Len(bs) /\ k \in Nat
    BY <1>1, <1>7, <1>8
  <2>2. bs[k].size \in Nat \ {0} /\ cut \in Nat \ {0} /\ bs[last].size \in Nat
    BY <1>1, <1>7, <1>8, <2>1
  <2>3. k = first => p < bs[k].size
    BY <1>1, <2>2
  <2>4. k = first /\ k = last => cut = p + n
    <3>1. first = last => UpTo(bs, first - 1) + cut = UpTo(bs, first - 1) + p + n
      BY <1>7 DEF d
    <3>2. UpTo(bs, first - 1) \in Nat
      BY <1>2, <1>3
    <3> QED
      BY <1>1, <1>6, <2>2, <3>1, <3>2
  <2> QED
    BY <1>1, <1>6, <1>7, <2>1, <2>2, <2>3, <2>4, SMTT(30)
<1>11. /\ cs \in Seq(Block) /\ Len(cs) = m
       /\ \A i \in 1..m : LET k == first + i - 1
                          IN  /\ k \in first..last /\ cs[i].pos = bs[k].pos + Skip(k)
                              /\ cs[i].size = Cut(k) - Skip(k)
  <2> HIDE DEF cs, m, Skip, Cut
  <2>1. ASSUME NEW i \in 1..m
        PROVE  [pos |-> bs[first + i - 1].pos + Skip(first + i - 1),
                size |-> Cut(first + i - 1) - Skip(first + i - 1)] \in Block
    <3> DEFINE k == first + i - 1
    <3>1. k \in first..last
      BY <1>8, <2>1
    <3> HIDE DEF k
    <3>2. k \in 1..Len(bs) /\ Skip(k) \in Nat /\ Cut(k) - Skip(k) \in Nat \ {0}
      BY <1>10, <3>1
    <3>3. bs[k].pos \in Nat \ {0}
      BY <1>1, <3>2
    <3>4. bs[k].pos + Skip(k) \in Nat \ {0}
      <4> DEFINE a == bs[k].pos
                 e == Skip(k)
      <4>1. a \in Nat \ {0} /\ e \in Nat
        BY <3>2, <3>3
      <4> HIDE DEF a, e
      <4>2. a + e \in Nat \ {0}
        BY <4>1
      <4> QED
        BY <4>2 DEF a, e
    <3>5. [pos |-> bs[k].pos + Skip(k), size |-> Cut(k) - Skip(k)] \in Block
      BY <3>2, <3>4 DEF Block
    <3> QED
      BY <3>5 DEF k
  <2>2. cs \in [1..m -> Block]
    BY <1>9, <2>1
  <2>3. \A i \in 1..m : /\ cs[i].pos = bs[first + i - 1].pos + Skip(first + i - 1)
                        /\ cs[i].size = Cut(first + i - 1) - Skip(first + i - 1)
    BY <1>9
  <2>4. m \in Nat
    BY <1>1, <1>8
  <2>5. cs \in Seq(Block) /\ Len(cs) = m
    BY <2>2, <2>4
  <2> QED
    BY <1>8, <2>3, <2>5
<1> HIDE DEF cs
<1> DEFINE g == [i \in 0..m |-> IF i = m THEN n ELSE IF i = 0 THEN 0
                                ELSE UpTo(bs, first + i - 1) - d]
<1>12. ASSUME NEW i \in 1..m
       PROVE  LET k == first + i - 1
              IN  /\ g[i] = UpTo(bs, k - 1) + Cut(k) - d
                  /\ g[i - 1] = UpTo(bs, k - 1) + Skip(k) - d
  <2> DEFINE k == first + i - 1
  <2>1. /\ k \in first..last /\ i \in Nat /\ m \in Nat /\ i \in 0..m /\ i - 1 \in 0..m
        /\ i - 1 # m
    BY <1>8, <1>12
  <2>2. k \in 1..Len(bs) /\ k \in Nat /\ k - 1 \in 0..Len(bs)
    BY <1>10, <2>1
  <2>3. /\ UpTo(bs, k) = UpTo(bs, k - 1) + bs[k].size /\ UpTo(bs, k - 1) \in Nat
        /\ UpTo(bs, k) \in Nat
    BY <1>1, <2>2, PartFacts
  <2>4. g[i] = UpTo(bs, k - 1) + Cut(k) - d
    <3>1. CASE i = m
      <4>1. k = last
        BY <1>1, <1>8, <3>1
      <4>2. g[i] = n /\ UpTo(bs, k - 1) + Cut(k) = d + n
        BY <1>7, <2>1, <3>1, <4>1
      <4> DEFINE a == UpTo(bs, k - 1)
                 b == Cut(k)
                 r == g[i]
      <4>3. /\ r = n /\ a + b = d + n /\ d \in Nat /\ n \in Nat
            /\ a \in Nat /\ b \in Nat
        BY <1>3, <1>6, <1>10, <2>1, <2>3, <4>2
      <4> HIDE DEF a, b, r, m
      <4>4. r = a + b - d
        BY <4>3
      <4> QED
        BY <4>4 DEF a, b, r
    <3>2. CASE i # m
      <4>1. k # last /\ i # 0
        BY <1>1, <1>8, <2>1, <3>2
      <4>2. g[i] = UpTo(bs, k) - d /\ Cut(k) = bs[k].size
        BY <2>1, <3>2, <4>1
      <4> DEFINE a == UpTo(bs, k - 1)
                 b == Cut(k)
                 r == g[i]
      <4>3. r = (a + b) - d /\ a \in Nat /\ b \in Nat /\ d \in Nat
        BY <1>3, <1>10, <2>1, <2>3, <4>2
      <4> HIDE DEF a, b, r, m
      <4>4. r = a + b - d
        BY <4>3
      <4> QED
        BY <4>4 DEF a, b, r
    <3> QED
      BY <3>1, <3>2
  <2>5. g[i - 1] = UpTo(bs, k - 1) + Skip(k) - d
    <3>1. CASE i = 1
      <4>1. k = first /\ i - 1 = 0
        BY <1>1, <3>1
      <4>2. g[i - 1] = 0 /\ UpTo(bs, k - 1) + Skip(k) = d
        BY <2>1, <4>1 DEF d
      <4> DEFINE a == UpTo(bs, k - 1)
                 e == Skip(k)
                 r == g[i - 1]
      <4>3. r = 0 /\ a + e = d /\ d \in Nat /\ a \in Nat /\ e \in Nat
        BY <1>3, <1>10, <2>1, <2>3, <4>2
      <4> HIDE DEF a, e, r, m
      <4>4. r = a + e - d
        BY <4>3
      <4> QED
        BY <4>4 DEF a, e, r
    <3>2. CASE i # 1
      <4>1. k # first /\ i - 1 # 0 /\ first + (i - 1) - 1 = k - 1
        BY <1>1, <2>1, <3>2
      <4>2. g[i - 1] = UpTo(bs, k - 1) - d /\ Skip(k) = 0
        BY <2>1, <4>1
      <4> DEFINE a == UpTo(bs, k - 1)
                 e == Skip(k)
                 r == g[i - 1]
      <4>3. r = a - d /\ e = 0 /\ a \in Nat /\ d \in Nat
        BY <1>3, <2>3, <4>2
      <4> HIDE DEF a, e, r, m
      <4>4. r = a + e - d
        BY <4>3
      <4> QED
        BY <4>4 DEF a, e, r
    <3> QED
      BY <3>1, <3>2
  <2> QED
    BY <2>4, <2>5
<1>13. g[0] = 0 /\ g[m] = n
  BY <1>8
<1> HIDE DEF g, Skip, Cut
<1>14. ASSUME NEW i \in 1..Len(cs)
       PROVE  g[i] = g[i - 1] + cs[i].size
  <2> DEFINE k == first + i - 1
             a == UpTo(bs, k - 1)
             b == Cut(k)
             e == Skip(k)
  <2>1. /\ g[i] = a + b - d /\ g[i - 1] = a + e - d /\ cs[i].size = b - e
        /\ k \in first..last
    BY <1>11, <1>12
  <2>2. b \in Nat /\ e \in Nat /\ k - 1 \in 0..Len(bs)
    BY <1>10, <2>1
  <2>3. a \in Nat
    BY <1>2, <2>2
  <2> HIDE DEF a, b, e, k
  <2> QED
    BY <1>3, <2>1, <2>2, <2>3
<1>15. \A i \in 0..m : UpTo(cs, i) = g[i]
  <2>1. cs \in Seq(Part)
    BY <1>11, BlocksAreParts
  <2> QED
    BY <1>11, <1>13, <1>14, <2>1, SumUnique
<1>16. SizeOf(cs) = n
  BY <1>8, <1>11, <1>13, <1>15 DEF SizeOf
<1>17. IsCut(bs, cs, d, first - 1, s)
  <2> SUFFICES ASSUME NEW i \in 1..m
               PROVE  /\ i + (first - 1) \in 1..Len(bs) /\ s[i] \in Nat
                      /\ cs[i].pos = bs[i + (first - 1)].pos + s[i]
                      /\ s[i] + cs[i].size <= bs[i + (first - 1)].size
                      /\ UpTo(cs, i - 1) + d = UpTo(bs, i + (first - 1) - 1) + s[i]
    BY <1>11 DEF IsCut
  <2> DEFINE k == first + i - 1
  <2>1. k = i + (first - 1) /\ k - 1 = i + (first - 1) - 1 /\ i - 1 \in 0..m
    BY <1>1, <1>8
  <2>2. s[i] = Skip(k)
    BY <1>1, <1>8 DEF Skip
  <2>3. k \in first..last /\ cs[i].pos = bs[k].pos + Skip(k) /\ cs[i].size = Cut(k) - Skip(k)
    BY <1>11
  <2>4. k \in 1..Len(bs) /\ Skip(k) \in Nat /\ Cut(k) \in Nat /\ Cut(k) <= bs[k].size
    BY <1>10, <2>3
  <2>5. UpTo(cs, i - 1) = UpTo(bs, k - 1) + Skip(k) - d
    BY <1>12, <1>15, <2>1
  <2>6. UpTo(bs, k - 1) \in Nat /\ bs[k].size \in Nat
    BY <1>1, <2>4, PartFacts
  <2> HIDE DEF k
  <2>7. Skip(k) + (Cut(k) - Skip(k)) <= bs[k].size
    BY <2>4, <2>6
  <2>8. UpTo(cs, i - 1) + d = UpTo(bs, k - 1) + Skip(k)
    <3> DEFINE a == UpTo(bs, k - 1)
               e == Skip(k)
    <3>1. a \in Nat /\ e \in Nat /\ UpTo(cs, i - 1) = a + e - d
      BY <2>4, <2>5, <2>6
    <3> HIDE DEF a, e
    <3>2. (a + e - d) + d = a + e
      BY <1>3, <3>1
    <3> QED
      BY <3>1, <3>2 DEF a, e
  <2> QED
    BY <2>1, <2>2, <2>3, <2>4, <2>7, <2>8
<1>18. \A j \in 1..n : PixelsOf(cs)[j] = PixelsOf(bs)[d + j]
  BY <1>1, <1>3, <1>11, <1>16, <1>17, CutFrom, BlocksAreParts
<1>19. InPlace(bs, NextAt(bs, first, p, n), d + n)
  <2>0. last \in 1..Len(bs)
    BY <1>1, <1>7
  <2>1. /\ last \in 1..Len(bs) /\ last \in Nat /\ cut \in Nat /\ bs[last].size \in Nat
        /\ UpTo(bs, last) = UpTo(bs, last - 1) + bs[last].size /\ UpTo(bs, last) \in Nat
    BY <1>1, <1>7, <2>0, PartFacts
  <2>2. CASE Selected(bs, first, p, last) = n
    <3>1. NextAt(bs, first, p, n) = <<last + 1, 0>>
      BY <2>2 DEF NextAt, last
    <3>2. UpTo(bs, last) = d + n /\ (last + 1) - 1 = last
      BY <1>7, <2>1, <2>2
    <3>3. UpTo(bs, (last + 1) - 1) + 0 = d + n
      BY <2>1, <3>2
    <3> QED
      BY <1>1, <2>1, <3>1, <3>3 DEF InPlace
  <2>3. CASE Selected(bs, first, p, last) # n
    <3>1. NextAt(bs, first, p, n) = <<last, cut>>
      BY <2>3 DEF NextAt, last, cut
    <3>2. cut < bs[last].size
      BY <1>7, <2>1, <2>3
    <3> QED
      BY <1>1, <1>7, <2>1, <3>1, <3>2 DEF InPlace
  <2> QED
    BY <2>2, <2>3
<1>20. d + n \in 0..SizeOf(bs)
  BY <1>3, <1>4, <1>6
<1> QED
  BY <1>6, <1>11, <1>16, <1>18, <1>19, <1>20 DEF n, cs, d

(***************************************************************************)
(* The split Matlab makes.                                                 *)
(***************************************************************************)
\* The first l blocks, of the last of them as many pixels as a[l] has.
IsFront(bs, a, l) ==
  /\ Len(a) = l /\ a[l].size <= bs[l].size
  /\ \A i \in 1..l : a[i].pos = bs[i].pos /\ (i # l => a[i].size = bs[i].size)

\* The blocks behind block m, without the first n pixels.
IsBack(bs, b, m, n) ==
  /\ m + 1 \in 1..Len(bs) /\ n \in 0..bs[m + 1].size /\ Len(b) = Len(bs) - m
  /\ b[1].pos = bs[m + 1].pos + n /\ b[1].size = bs[m + 1].size - n
  /\ \A i \in 1..Len(b) : i # 1 => b[i] = bs[i + m]

LEMMA FrontFacts ==
  ASSUME NEW bs \in Seq(Part), NEW a \in Seq(Part), NEW l \in 1..Len(bs), IsFront(bs, a, l)
  PROVE  /\ SizeOf(a) = UpTo(bs, l - 1) + a[l].size
         /\ \A j \in 1..SizeOf(a) : PixelsOf(a)[j] = PixelsOf(bs)[j]
<1> DEFINE g == [i \in 0..l |-> IF i = l THEN UpTo(bs, l - 1) + a[l].size ELSE UpTo(bs, i)]
           s == [i \in 1..l |-> 0]
<1>1. /\ l \in Nat \ {0} /\ Len(bs) \in Nat /\ \A i \in 0..l : i \in 0..Len(bs)
      /\ \A i \in 1..l : i \in 1..Len(bs)
  OBVIOUS
<1>2. g[0] = 0 /\ \A i \in 0..(l - 1) : g[i] = UpTo(bs, i)
  BY <1>1, SumFacts
<1>3. g[l] = UpTo(bs, l - 1) + a[l].size
  BY <1>1
<1>4. ASSUME NEW i \in 1..Len(a)
      PROVE  g[i] = g[i - 1] + a[i].size
  <2>1. i - 1 \in 0..(l - 1) /\ i \in 1..Len(bs)
    BY <1>1, <1>4 DEF IsFront
  <2>2. g[i - 1] = UpTo(bs, i - 1)
    BY <1>2, <2>1
  <2>3. CASE i = l
    BY <1>3, <2>2, <2>3
  <2>4. CASE i # l
    <3>1. i \in 0..(l - 1) /\ a[i].size = bs[i].size
      BY <1>1, <1>4, <2>4 DEF IsFront
    <3>2. g[i] = UpTo(bs, i) /\ UpTo(bs, i) = UpTo(bs, i - 1) + bs[i].size
      BY <1>2, <2>1, <3>1, PartFacts
    <3> QED
      BY <2>2, <3>1, <3>2
  <2> QED
    BY <2>3, <2>4
<1> HIDE DEF g
<1>5. \A i \in 0..l : UpTo(a, i) = g[i]
  BY <1>1, <1>2, <1>4, SumUnique DEF IsFront
<1>6. SizeOf(a) = UpTo(bs, l - 1) + a[l].size
  BY <1>1, <1>3, <1>5 DEF SizeOf, IsFront
<1>7. IsCut(bs, a, 0, 0, s)
  <2> SUFFICES ASSUME NEW i \in 1..l
               PROVE  /\ i + 0 \in 1..Len(bs) /\ s[i] \in Nat
                      /\ a[i].pos = bs[i + 0].pos + s[i] /\ s[i] + a[i].size <= bs[i + 0].size
                      /\ UpTo(a, i - 1) + 0 = UpTo(bs, i + 0 - 1) + s[i]
    BY DEF IsCut, IsFront
  <2>1. i + 0 = i /\ s[i] = 0 /\ i \in 1..Len(bs) /\ i - 1 \in 0..(l - 1) /\ i - 1 \in 0..l
        /\ i \in 1..Len(a)
    BY <1>1 DEF IsFront
  <2>2. a[i].size \in Nat /\ bs[i].size \in Nat /\ bs[i].pos \in Nat /\ UpTo(bs, i - 1) \in Nat
    BY <2>1, PartFacts
  <2>3. a[i].size <= bs[i].size /\ a[i].pos = bs[i].pos
    BY <2>2 DEF IsFront
  <2>4. UpTo(a, i - 1) = UpTo(bs, i - 1)
    BY <1>2, <1>5, <2>1
  <2> QED
    BY <2>1, <2>2, <2>3, <2>4
<1>8. \A j \in 1..SizeOf(a) : 0 + j \in 1..SizeOf(bs) /\ PixelsOf(a)[j] = PixelsOf(bs)[0 + j]
  BY <1>7, CutFrom
<1>9. \A j \in 1..SizeOf(a) : 0 + j = j
  BY SumFacts
<1> QED
  BY <1>6, <1>8, <1>9

LEMMA BackFacts ==
  ASSUME NEW bs \in Seq(Part), NEW b \in Seq(Part), NEW m \in Nat, NEW n \in Nat,
         IsBack(bs, b, m, n)
  PROVE  /\ UpTo(bs, m) + n + SizeOf(b) = SizeOf(bs)
         /\ \A j \in 1..SizeOf(b) : PixelsOf(b)[j] = PixelsOf(bs)[UpTo(bs, m) + n + j]
<1> DEFINE d == UpTo(bs, m) + n
           g == [i \in 0..Len(b) |-> IF i = 0 THEN 0 ELSE UpTo(bs, i + m) - d]
           s == [i \in 1..Len(b) |-> IF i = 1 THEN n ELSE 0]
<1>1. /\ Len(bs) \in Nat /\ Len(b) \in Nat \ {0} /\ m \in 0..Len(bs) /\ n \in Nat
      /\ \A i \in 0..Len(b) : i + m \in 0..Len(bs)
      /\ \A i \in 1..Len(b) : i + m \in 1..Len(bs)
  <2>1. Len(bs) \in Nat /\ m + 1 \in 1..Len(bs) /\ Len(b) = Len(bs) - m
    BY SumFacts DEF IsBack
  <2> QED
    BY <2>1
<1>2. UpTo(bs, m) \in Nat /\ d \in Nat
  BY <1>1, SumFacts
<1> HIDE DEF d
<1>3. ASSUME NEW i \in 1..Len(b)
      PROVE  /\ i + m \in 1..Len(bs) /\ UpTo(bs, i + m - 1) \in Nat /\ UpTo(bs, i + m) \in Nat
             /\ UpTo(bs, i + m) = UpTo(bs, i + m - 1) + bs[i + m].size
             /\ bs[i + m].size \in Nat /\ bs[i + m].pos \in Nat
  <2> DEFINE k == i + m
  <2>1. k \in 1..Len(bs)
    BY <1>1
  <2> HIDE DEF k
  <2>2. /\ UpTo(bs, k - 1) \in Nat /\ UpTo(bs, k) \in Nat
        /\ UpTo(bs, k) = UpTo(bs, k - 1) + bs[k].size
        /\ bs[k].size \in Nat /\ bs[k].pos \in Nat
    BY <2>1, PartFacts
  <2> QED
    BY <2>1, <2>2 DEF k
<1>4. ASSUME NEW i \in 1..Len(b)
      PROVE  /\ s[i] \in Nat /\ b[i].pos = bs[i + m].pos + s[i]
             /\ b[i].size = bs[i + m].size - s[i] /\ b[i].size \in Nat
             /\ g[i - 1] + d = UpTo(bs, i + m - 1) + s[i]
             /\ g[i] + d = UpTo(bs, i + m)
  <2>1. i + m - 1 = (i - 1) + m /\ i - 1 \in 0..Len(b) /\ i \in 0..Len(b) /\ i # 0
    BY <1>1
  <2>2. g[i] = UpTo(bs, i + m) - d
    BY <2>1
  <2>3. g[i] + d = UpTo(bs, i + m)
    <3> DEFINE x == UpTo(bs, i + m)
               y == g[i]
    <3>1. x \in Nat /\ y = x - d
      BY <1>3, <2>2
    <3> HIDE DEF x, y
    <3>2. y + d = x
      BY <1>2, <3>1
    <3> QED
      BY <3>2 DEF x, y
  <2>4. CASE i = 1
    <3>1. s[i] = n /\ g[i - 1] = 0 /\ i + m - 1 = m /\ i + m = m + 1
      BY <1>1, <2>1, <2>4
    <3>2. g[i - 1] + d = UpTo(bs, i + m - 1) + s[i]
      BY <1>2, <3>1 DEF d
    <3>3. b[i].pos = bs[i + m].pos + s[i] /\ b[i].size = bs[i + m].size - s[i]
      BY <2>4, <3>1 DEF IsBack
    <3>4. b[i].size \in Nat
      BY PartFacts
    <3> QED
      BY <1>1, <2>3, <3>1, <3>2, <3>3, <3>4
  <2>5. CASE i # 1
    <3>1. s[i] = 0 /\ b[i] = bs[i + m] /\ i - 1 # 0
      BY <1>1, <2>5 DEF IsBack
    <3>2. g[i - 1] = UpTo(bs, i + m - 1) - d
      BY <2>1, <3>1
    <3>3. g[i - 1] + d = UpTo(bs, i + m - 1)
      <4> DEFINE x == UpTo(bs, i + m - 1)
                 y == g[i - 1]
      <4>1. x \in Nat /\ y = x - d
        BY <1>3, <3>2
      <4> HIDE DEF x, y
      <4>2. y + d = x
        BY <1>2, <4>1
      <4> QED
        BY <4>2 DEF x, y
    <3>4. b[i].pos = bs[i + m].pos + s[i] /\ b[i].size = bs[i + m].size - s[i]
      BY <1>3, <3>1
    <3>5. UpTo(bs, i + m - 1) + s[i] = UpTo(bs, i + m - 1)
      BY <1>3, <3>1
    <3> HIDE DEF g, s
    <3> QED
      BY <1>3, <2>3, <3>1, <3>3, <3>4, <3>5
  <2> HIDE DEF g, s
  <2> QED
    BY <2>4, <2>5
<1>5. g[0] = 0 /\ Len(b) \in 1..Len(b) /\ Len(b) + m = Len(bs)
  BY <1>1 DEF IsBack
<1>6. \A i \in 0..Len(b) : g[i] \in Int
  BY <1>1, <1>2, SumFacts
<1> HIDE DEF g, s
<1>7. \A i \in 1..Len(b) : g[i] = g[i - 1] + b[i].size
  <2> TAKE i \in 1..Len(b)
  <2> DEFINE x == UpTo(bs, i + m)
             w == UpTo(bs, i + m - 1)
             y == g[i]
             u == g[i - 1]
             z == bs[i + m].size
             e == s[i]
             q == b[i].size
  <2>1. /\ x \in Nat /\ w \in Nat /\ x = w + z /\ z \in Nat
    BY <1>3
  <2>2. e \in Nat /\ q = z - e /\ u + d = w + e /\ y + d = x
    BY <1>4
  <2>3. y \in Int /\ u \in Int
    <3>1. i \in 0..Len(b) /\ i - 1 \in 0..Len(b)
      BY <1>1
    <3> QED
      BY <1>6, <3>1
  <2> HIDE DEF x, y, w, u, z, e, q
  <2>4. y = u + q
    BY <1>2, <2>1, <2>2, <2>3
  <2> QED
    BY <2>4 DEF y, u, q
<1>8. \A i \in 0..Len(b) : UpTo(b, i) = g[i]
  BY <1>5, <1>7, SumUnique
<1>9. UpTo(bs, m) + n + SizeOf(b) = SizeOf(bs)
  <2>1. SizeOf(b) + d = SizeOf(bs) /\ SizeOf(b) \in Nat
    <3>1. Len(b) \in 0..Len(b) /\ g[Len(b)] + d = UpTo(bs, Len(b) + m)
      BY <1>1, <1>4, <1>5
    <3> QED
      BY <1>5, <1>8, <3>1, SumFacts DEF SizeOf
  <2>2. d + SizeOf(b) = SizeOf(bs)
    BY <1>2, <2>1
  <2> QED
    BY <2>2 DEF d
<1>10. IsCut(bs, b, d, m, s)
  <2> SUFFICES ASSUME NEW i \in 1..Len(b)
               PROVE  /\ i + m \in 1..Len(bs) /\ s[i] \in Nat
                      /\ b[i].pos = bs[i + m].pos + s[i] /\ s[i] + b[i].size <= bs[i + m].size
                      /\ UpTo(b, i - 1) + d = UpTo(bs, i + m - 1) + s[i]
    BY DEF IsCut
  <2>1. UpTo(b, i - 1) = g[i - 1]
    <3>1. i - 1 \in 0..Len(b)
      BY <1>1
    <3> QED
      BY <1>8, <3>1
  <2>2. s[i] + b[i].size <= bs[i + m].size
    <3> DEFINE z == bs[i + m].size
               e == s[i]
               q == b[i].size
    <3>1. z \in Nat /\ e \in Nat /\ q = z - e
      BY <1>3, <1>4
    <3> HIDE DEF z, e, q
    <3>2. e + q <= z
      BY <3>1
    <3> QED
      BY <3>2 DEF z, e, q
  <2> QED
    BY <1>3, <1>4, <2>1, <2>2
<1>11. \A j \in 1..SizeOf(b) : PixelsOf(b)[j] = PixelsOf(bs)[d + j]
  BY <1>2, <1>10, CutFrom
<1> QED
  BY <1>9, <1>11 DEF d

LEMMA MostInRange ==
  ASSUME NEW n \in Nat, NEW S \in SUBSET (0..n), S # {}
  PROVE  Max(S) \in S /\ \A k \in S : k <= Max(S)
<1> DEFINE T == {n - k : k \in S}
<1>1. PICK x \in T : \A y \in T : x <= y
  <2>1. \A k \in S : n - k \in Nat
    OBVIOUS
  <2>2. T \in SUBSET Nat /\ T # {}
    BY <2>1
  <2> QED
    BY <2>2, LeastOfNats
<1>2. PICK k \in S : x = n - k
  BY <1>1
<1>3. \A l \in S : l <= k
  BY <1>1, <1>2
<1> QED
  BY <1>2, <1>3 DEF Max

\* Blocks bs split in two: what a has is what bs begins with, b has the rest.
IsSplit(bs, a, b) ==
  /\ a \in Seq(Part) /\ b \in Seq(Block) /\ SizeOf(a) + SizeOf(b) = SizeOf(bs)
  /\ \A j \in 1..SizeOf(a) : PixelsOf(a)[j] = PixelsOf(bs)[j]
  /\ \A j \in 1..SizeOf(b) : PixelsOf(b)[j] = PixelsOf(bs)[SizeOf(a) + j]

\* Behind block l - 1.
LEMMA WholeSplit ==
  ASSUME NEW bs \in Seq(Block), NEW l \in 1..Len(bs)
  PROVE  LET a == SubSeq(bs, 1, l) IN IsSplit(bs, a, From(bs, l + 1)) /\ SizeOf(a) = UpTo(bs, l)
<1> DEFINE a == SubSeq(bs, 1, l)
           b == From(bs, l + 1)
<1>1. bs \in Seq(Part) /\ Len(bs) \in Nat /\ l \in Nat \ {0} /\ SizeOf(bs) \in Nat
  BY BlocksAreParts, SumFacts
<1>2. /\ a \in Seq(Block) /\ a \in Seq(Part) /\ Len(a) = l
      /\ \A i \in 1..l : a[i] = bs[i]
  <2>1. a \in Seq(Block) /\ Len(a) = l /\ \A i \in 1..l : a[i] = bs[i]
    BY <1>1
  <2> QED
    BY <2>1, BlocksAreParts
<1>3. /\ UpTo(bs, l) = UpTo(bs, l - 1) + bs[l].size /\ UpTo(bs, l) \in Nat
      /\ bs[l].size \in Nat /\ l \in 1..l
  BY <1>1, PartFacts
<1> HIDE DEF a
<1>4. IsFront(bs, a, l)
  BY <1>2, <1>3 DEF IsFront
<1>5. SizeOf(a) = UpTo(bs, l) /\ \A j \in 1..SizeOf(a) : PixelsOf(a)[j] = PixelsOf(bs)[j]
  <2>1. a[l].size = bs[l].size
    BY <1>2, <1>3
  <2> QED
    BY <1>1, <1>2, <1>3, <1>4, <2>1, FrontFacts
<1>6. CASE l = Len(bs)
  <2>1. b = << >> /\ b \in Seq(Block)
    BY <1>1, <1>6 DEF From
  <2>2. SizeOf(b) = 0
    BY <2>1, BlocksAreParts
  <2>3. SizeOf(a) = SizeOf(bs)
    BY <1>5, <1>6 DEF SizeOf
  <2> HIDE DEF b
  <2>4. IsSplit(bs, a, b)
    BY <1>1, <1>2, <1>5, <2>1, <2>2, <2>3 DEF IsSplit
  <2> QED
    BY <1>5, <2>4 DEF a, b
<1>7. CASE l # Len(bs)
  <2>1. /\ b \in Seq(Block) /\ Len(b) = Len(bs) - l /\ l + 1 \in 1..Len(bs)
        /\ \A i \in 1..Len(b) : b[i] = bs[i + l]
    <3>1. l + 1 \in 1..Len(bs)
      BY <1>1, <1>7
    <3>2. /\ b \in Seq(Block) /\ Len(b) = Len(bs) - (l + 1) + 1
          /\ \A i \in 1..(Len(bs) - (l + 1) + 1) : b[i] = bs[(l + 1) + i - 1]
      BY <1>1, <3>1 DEF From
    <3>3. \A i \in 1..(Len(bs) - l) : (l + 1) + i - 1 = i + l
      BY <1>1
    <3> QED
      BY <1>1, <3>1, <3>2, <3>3
  <2>2. b \in Seq(Part)
    BY <2>1, BlocksAreParts
  <2>3. bs[l + 1].pos \in Nat /\ bs[l + 1].size \in Nat
    BY <1>1, <2>1, PartFacts
  <2> HIDE DEF b
  <2>4. IsBack(bs, b, l, 0)
    <3>1. 1 \in 1..Len(b) /\ 1 + l = l + 1
      BY <1>1, <2>1
    <3>2. b[1] = bs[l + 1]
      BY <2>1, <3>1
    <3> QED
      BY <1>1, <2>1, <2>3, <3>2 DEF IsBack
  <2>5. /\ UpTo(bs, l) + 0 + SizeOf(b) = SizeOf(bs)
        /\ \A j \in 1..SizeOf(b) : PixelsOf(b)[j] = PixelsOf(bs)[UpTo(bs, l) + 0 + j]
    BY <1>1, <2>2, <2>4, BackFacts
  <2>6. UpTo(bs, l) + 0 = UpTo(bs, l)
    BY <1>3
  <2>7. IsSplit(bs, a, b)
    BY <1>2, <1>5, <2>1, <2>5, <2>6 DEF IsSplit
  <2> QED
    BY <1>5, <2>7 DEF a, b
<1> QED
  BY <1>6, <1>7

\* Inside block l, of which n pixels go with those before it.
LEMMA CutSplit ==
  ASSUME NEW bs \in Seq(Block), NEW k \in Nat, k + 1 \in 1..Len(bs), NEW n \in Nat,
         n < bs[k + 1].size
  PROVE  LET a == Append(SubSeq(bs, 1, k), [bs[k + 1] EXCEPT !.size = n])
         IN  IsSplit(bs, a, CutBlock(bs, k + 1, n)) /\ SizeOf(a) = UpTo(bs, k) + n
<1> DEFINE l == k + 1
           x == [bs[l] EXCEPT !.size = n]
           y == [bs[l] EXCEPT !.pos = @ + n, !.size = @ - n]
           a == Append(SubSeq(bs, 1, k), x)
           b == CutBlock(bs, l, n)
<1>1. /\ bs \in Seq(Part) /\ Len(bs) \in Nat /\ l \in 1..Len(bs) /\ l \in Nat
      /\ bs[l] \in Block /\ bs[l].pos \in Nat \ {0} /\ bs[l].size \in Nat \ {0} /\ l - 1 = k
  BY BlocksAreParts
<1>2. /\ x \in Part /\ x.pos = bs[l].pos /\ x.size = n
      /\ y \in Block /\ y.pos = bs[l].pos + n /\ y.size = bs[l].size - n
  <2>1. bs[l].pos + n \in Nat \ {0} /\ bs[l].size - n \in Nat \ {0}
    BY <1>1
  <2> HIDE DEF l
  <2> QED
    BY <1>1, <2>1 DEF Block, Part
<1> HIDE DEF x, y
<1>3. a \in Seq(Part) /\ Len(a) = l /\ a[l] = x /\ \A i \in 1..l : i # l => a[i] = bs[i]
  <2>1. /\ SubSeq(bs, 1, k) \in Seq(Part) /\ Len(SubSeq(bs, 1, k)) = k
        /\ \A i \in 1..k : SubSeq(bs, 1, k)[i] = bs[i]
    BY <1>1
  <2> DEFINE f == SubSeq(bs, 1, k)
  <2> HIDE DEF f
  <2>2. Append(f, x) \in Seq(Part) /\ Len(Append(f, x)) = k + 1 /\ Append(f, x)[k + 1] = x
    BY <1>2, <2>1 DEF f
  <2>3. \A i \in 1..k : Append(f, x)[i] = bs[i]
    BY <1>2, <2>1 DEF f
  <2> QED
    BY <1>1, <2>2, <2>3 DEF f
<1> HIDE DEF a
<1>4. IsFront(bs, a, l)
  BY <1>1, <1>2, <1>3 DEF IsFront
<1>5. SizeOf(a) = UpTo(bs, k) + n /\ \A j \in 1..SizeOf(a) : PixelsOf(a)[j] = PixelsOf(bs)[j]
  BY <1>1, <1>2, <1>3, <1>4, FrontFacts
<1>6. /\ b \in Seq(Block) /\ Len(b) = Len(bs) - k /\ b[1] = y
      /\ \A i \in 1..Len(b) : i # 1 => b[i] = bs[i + k]
  <2> DEFINE f == From(bs, l + 1)
  <2>1. /\ f \in Seq(Block) /\ Len(f) = Len(bs) - l
        /\ \A i \in 1..(Len(bs) - l) : f[i] = bs[(l + 1) + i - 1]
    <3>1. CASE l = Len(bs)
      BY <1>1, <3>1 DEF From
    <3>2. CASE l # Len(bs)
      BY <1>1, <3>2 DEF From
    <3> QED
      BY <3>1, <3>2
  <2>2. b = <<y>> \o f
    BY DEF CutBlock, y
  <2> HIDE DEF f, b
  <2>3. b \in Seq(Block) /\ Len(b) = 1 + Len(f) /\ b[1] = y
    BY <1>2, <2>1, <2>2
  <2>4. \A i \in 1..Len(b) : i # 1 => b[i] = f[i - 1]
    BY <1>2, <2>1, <2>2
  <2>5. ASSUME NEW i \in 1..Len(b), i # 1
        PROVE  b[i] = bs[i + k]
    <3>1. i - 1 \in 1..(Len(bs) - l) /\ (l + 1) + (i - 1) - 1 = i + k
      BY <1>1, <2>1, <2>3, <2>5
    <3> QED
      BY <2>1, <2>4, <2>5, <3>1
  <2> QED
    BY <1>1, <2>1, <2>3, <2>5
<1> HIDE DEF b
<1>7. b \in Seq(Part)
  BY <1>6, BlocksAreParts
<1>8. IsBack(bs, b, k, n)
  BY <1>1, <1>2, <1>6 DEF IsBack
<1>9. /\ UpTo(bs, k) + n + SizeOf(b) = SizeOf(bs)
      /\ \A j \in 1..SizeOf(b) : PixelsOf(b)[j] = PixelsOf(bs)[UpTo(bs, k) + n + j]
  BY <1>1, <1>7, <1>8, BackFacts
<1>10. IsSplit(bs, a, b)
  BY <1>3, <1>5, <1>6, <1>9 DEF IsSplit
<1> QED
  BY <1>5, <1>10 DEF a, b, x

\* What Matlab reads is no more than a tenth more than the buffer, and not
\* nothing when the buffer has room.
ForBuffer(n, buf) == n \in Nat /\ 10 * n <= 11 * buf /\ (buf > 0 => n > 0)

LEMMA SplitFacts ==
  ASSUME NEW bs \in Seq(Block), bs # << >>, NEW buf \in Nat
  PROVE  LET split == SplitNpix(bs, buf)
         IN  IsSplit(bs, split[1], split[2]) /\ ForBuffer(SizeOf(split[1]), buf)
<1> DEFINE split == SplitNpix(bs, buf)
           S == {j \in 0..Len(bs) : UpTo(bs, j) <= buf}
           k == Fits(bs, buf)
           n == buf - UpTo(bs, k)
<1>1. /\ bs \in Seq(Part) /\ Len(bs) \in Nat /\ SizeOf(bs) # 0 /\ Len(bs) # 0
      /\ \A i \in 1..Len(bs) : bs[i].size \in Nat \ {0}
  BY BlocksAreParts
<1>2. /\ SizeOf(bs) \in Nat /\ UpTo(bs, 0) = 0 /\ \A i \in 0..Len(bs) : UpTo(bs, i) \in Nat
      /\ \A i \in 1..Len(bs) : UpTo(bs, i) = UpTo(bs, i - 1) + bs[i].size
  BY <1>1, SumFacts
<1>3. k \in S /\ \A i \in S : i <= k
  <2>1. 0 \in S /\ S \in SUBSET (0..Len(bs))
    BY <1>1, <1>2
  <2> HIDE DEF S
  <2>2. Max(S) \in S /\ \A i \in S : i <= Max(S)
    BY <1>1, <2>1, MostInRange
  <2> QED
    BY <2>2 DEF Fits, S
<1> HIDE DEF k
<1>4. k \in 0..Len(bs) /\ k \in Nat /\ UpTo(bs, k) \in Nat /\ UpTo(bs, k) <= buf /\ n \in Nat
  BY <1>1, <1>2, <1>3
<1>5. ASSUME k # Len(bs)
      PROVE  /\ k + 1 \in 1..Len(bs) /\ UpTo(bs, k + 1) \in Nat /\ UpTo(bs, k + 1) > buf
             /\ UpTo(bs, k + 1) = UpTo(bs, k) + bs[k + 1].size /\ bs[k + 1].size \in Nat
  <2>1. k + 1 \in 1..Len(bs) /\ k + 1 \in 0..Len(bs) /\ ~(k + 1 <= k) /\ (k + 1) - 1 = k
    BY <1>1, <1>4, <1>5
  <2>2. UpTo(bs, k + 1) \in Nat /\ ~(UpTo(bs, k + 1) <= buf)
    BY <1>2, <1>3, <2>1
  <2> QED
    BY <1>1, <1>2, <2>1, <2>2
<1>6. \A i \in 1..Len(bs) : UpTo(bs, i) > 0
  <2> TAKE i \in 1..Len(bs)
  <2>1. i - 1 \in 0..Len(bs)
    BY <1>1
  <2>2. UpTo(bs, i) = UpTo(bs, i - 1) + bs[i].size /\ bs[i].size \in Nat \ {0}
    BY <1>1, <1>2
  <2>3. UpTo(bs, i - 1) \in Nat
    BY <1>2, <2>1
  <2> QED
    BY <2>2, <2>3
<1> DEFINE grown == k < 2 /\ 10 * UpTo(bs, k + 1) <= 11 * buf
<1>7. CASE k = Len(bs)
  <2>1. split[1] = bs /\ split[2] = << >>
    BY <1>7 DEF SplitNpix, k
  <2>2. UpTo(bs, k) = SizeOf(bs) /\ 0 < SizeOf(bs)
    BY <1>1, <1>2, <1>7 DEF SizeOf
  <2>3. 10 * SizeOf(bs) <= 11 * buf
    BY <1>2, <1>4, <2>2
  <2>4. << >> \in Seq(Block) /\ SizeOf(<< >>) = 0
    <3>1. << >> \in Seq(Block)
      OBVIOUS
    <3> DEFINE e == << >>
    <3>2. e \in Seq(Block) /\ e = << >>
      BY <3>1
    <3> HIDE DEF e
    <3>3. SizeOf(e) = 0
      BY <3>2, BlocksAreParts
    <3> QED
      BY <3>1, <3>2, <3>3
  <2>5. IsSplit(bs, bs, << >>)
    BY <1>1, <1>2, <2>4 DEF IsSplit
  <2> QED
    BY <1>2, <2>1, <2>2, <2>3, <2>5 DEF ForBuffer
<1>8. CASE k # Len(bs) /\ grown
  <2>1. split[1] = SubSeq(bs, 1, k + 1) /\ split[2] = From(bs, k + 2)
    BY <1>8 DEF SplitNpix, k
  <2>2. k + 2 = (k + 1) + 1
    BY <1>4
  <2>3. IsSplit(bs, split[1], split[2]) /\ SizeOf(split[1]) = UpTo(bs, k + 1)
    BY <1>5, <1>8, <2>1, <2>2, WholeSplit
  <2> QED
    BY <1>5, <1>6, <1>8, <2>3 DEF ForBuffer
<1>9. CASE k # Len(bs) /\ ~grown /\ k >= 2
  <2>1. split[1] = SubSeq(bs, 1, k) /\ split[2] = From(bs, k + 1)
    BY <1>9 DEF SplitNpix, k
  <2>2. k \in 1..Len(bs)
    BY <1>4, <1>9
  <2>3. IsSplit(bs, split[1], split[2]) /\ SizeOf(split[1]) = UpTo(bs, k)
    BY <2>1, <2>2, WholeSplit
  <2>4. 10 * UpTo(bs, k) <= 11 * buf /\ UpTo(bs, k) > 0
    BY <1>4, <1>6, <2>2
  <2> QED
    BY <1>4, <2>3, <2>4 DEF ForBuffer
<1>10. CASE k # Len(bs) /\ ~grown /\ ~(k >= 2)
  <2>1. /\ split[1] = Append(SubSeq(bs, 1, k), [bs[k + 1] EXCEPT !.size = n])
        /\ split[2] = CutBlock(bs, k + 1, n)
    BY <1>10 DEF SplitNpix, k
  <2>2. n < bs[k + 1].size
    BY <1>4, <1>5, <1>10
  <2>3. UpTo(bs, k) + n = buf
    BY <1>4
  <2> HIDE DEF n, split, grown
  <2>4. k + 1 \in 1..Len(bs) /\ n \in Nat /\ k \in Nat
    BY <1>4, <1>5, <1>10
  <2>5. IsSplit(bs, split[1], split[2]) /\ SizeOf(split[1]) = UpTo(bs, k) + n
    BY <2>1, <2>2, <2>4, CutSplit
  <2> QED
    <3>1. SizeOf(split[1]) = buf
      BY <2>3, <2>5
    <3>2. ForBuffer(buf, buf)
      BY DEF ForBuffer
    <3> QED
      BY <2>5, <3>1, <3>2 DEF split
<1> HIDE DEF grown
<1> QED
  BY <1>4, <1>7, <1>8, <1>9, <1>10

(***************************************************************************)
(* The stream of portions.  Where the next portion begins is known from    *)
(* what has been delivered: the place kept for the mex file has as many    *)
(* pixels in front of it, and the blocks Matlab keeps hold the others.     *)
(***************************************************************************)
Delivered(w, g) == Len(g) <= Len(w) /\ \A j \in 1..Len(g) : g[j] = w[j]
Rest(w, n, m) == n + SizeOf(m) = Len(w) /\ \A j \in 1..SizeOf(m) : PixelsOf(m)[j] = w[n + j]

\* What is kept of object h: blocks bs, their pixels w, those delivered g, the
\* flag c, the place a and the blocks left m.
StreamOK(h, bs, w, g, c, a, m) ==
  /\ bs \in Requests \cup {NoRequest} /\ w \in Seq(Nat) /\ g \in Seq(Nat) /\ c \in BOOLEAN
  /\ a \in Nat \X Nat /\ m \in Seq(Block) /\ (h \notin MexHandles => a = <<1, 0>>)
  /\ bs # NoRequest =>
       /\ w = PixelsOf(bs) /\ Delivered(w, g) /\ c = (Len(g) = Len(w))
       /\ IF h \in MexHandles THEN InPlace(bs, a, Len(g)) ELSE Rest(w, Len(g), m)

StreamInv ==
  /\ req \in [Handles -> Requests \cup {NoRequest}]
  /\ want \in [Handles -> Seq(Nat)] /\ got \in [Handles -> Seq(Nat)]
  /\ read_op_completed_ \in [Handles -> BOOLEAN] /\ at \in [Handles -> Nat \X Nat]
  /\ matlab_read_info_cache_ \in [Handles -> Seq(Block)]
  /\ \A h \in Handles : StreamOK(h, req[h], want[h], got[h], read_op_completed_[h], at[h],
                                 matlab_read_info_cache_[h])

LEMMA RequestFacts ==
  ASSUME NEW bs \in Requests
  PROVE  /\ bs \in Seq(Block) /\ bs # NoRequest /\ SizeOf(bs) \in Nat \ {0}
         /\ PixelsOf(bs) \in Seq(Nat) /\ Len(PixelsOf(bs)) = SizeOf(bs)
<1>1. bs \in Seq(Block) /\ bs # << >>
  BY HdfAssumption
<1>2. bs \in Seq(Part) /\ SizeOf(bs) # 0
  BY <1>1, BlocksAreParts
<1>3. SizeOf(bs) \in Nat
  BY <1>2, SumFacts
<1> QED
  BY <1>1, <1>2, <1>3, PositionFacts DEF NoRequest

LEMMA NoBlocks ==
  /\ << >> \in Seq(Block) /\ SizeOf(<< >>) = 0
  /\ PixelsOf(<< >>) \in Seq(Nat) /\ Len(PixelsOf(<< >>)) = 0
<1> DEFINE e == << >>
<1>1. e \in Seq(Block) /\ e = << >>
  OBVIOUS
<1> HIDE DEF e
<1>2. e \in Seq(Part) /\ SizeOf(e) = 0
  BY <1>1, BlocksAreParts
<1> QED
  BY <1>1, <1>2, PositionFacts

\* A place is in a block, or behind them all with nothing left.
LEMMA PlaceFacts ==
  ASSUME NEW bs \in Seq(Block), NEW p, NEW d, InPlace(bs, p, d)
  PROVE  /\ d \in Nat /\ p[1] \in Nat \ {0}
         /\ p[1] <= Len(bs) =>
              p[1] \in 1..Len(bs) /\ p[2] \in 0..(bs[p[1]].size - 1) /\ d < SizeOf(bs)
         /\ p[1] > Len(bs) => p[2] = 0 /\ d = SizeOf(bs)
<1>1. bs \in Seq(Part) /\ Len(bs) \in Nat /\ \A k \in 1..Len(bs) : bs[k].size \in Nat \ {0}
  BY BlocksAreParts
<1>2. /\ \A k \in 0..Len(bs) : UpTo(bs, k) \in Nat
      /\ \A k \in 1..Len(bs) : UpTo(bs, k) = UpTo(bs, k - 1) + bs[k].size
  BY <1>1, SumFacts
<1> DEFINE k == p[1]
<1>3. /\ p[1] \in Nat /\ p[2] \in Nat /\ p[1] \in 1..(Len(bs) + 1)
      /\ p[1] <= Len(bs) => p[2] < bs[p[1]].size
      /\ p[1] > Len(bs) => p[2] = 0
      /\ UpTo(bs, p[1] - 1) + p[2] = d
  BY DEF InPlace
<1>4. p[1] - 1 \in 0..Len(bs) /\ p[1] \in Nat \ {0}
  BY <1>1, <1>3
<1>5. d \in Nat
  BY <1>2, <1>3, <1>4
<1>6. CASE p[1] <= Len(bs)
  <2>1. p[1] \in 1..Len(bs) /\ p[1] \in 0..Len(bs)
    BY <1>1, <1>3, <1>6
  <2>2. p[2] \in 0..(bs[p[1]].size - 1)
    <3>1. bs[p[1]].size \in Nat
      BY <1>1, <2>1
    <3> QED
      BY <1>3, <1>6, <3>1
  <2>3. UpTo(bs, p[1]) <= SizeOf(bs) /\ SizeOf(bs) \in Nat
    <3>1. Len(bs) \in 0..Len(bs)
      BY <1>1
    <3> QED
      BY <1>1, <1>2, <1>3, <1>6, <2>1, <3>1, SumGrows DEF SizeOf
  <2>4. d < SizeOf(bs)
    <3> DEFINE a == UpTo(bs, p[1] - 1)
               b == UpTo(bs, p[1])
               z == bs[p[1]].size
               r == p[2]
               q == SizeOf(bs)
    <3>1. /\ a \in Nat /\ b = a + z /\ z \in Nat /\ r \in Nat /\ r < z /\ b <= q /\ q \in Nat
          /\ a + r = d
      BY <1>1, <1>2, <1>3, <1>4, <1>6, <2>1, <2>3
    <3> HIDE DEF a, b, z, r, q
    <3>2. d < q
      BY <3>1
    <3> QED
      BY <3>2 DEF q
  <2>5. ~(p[1] > Len(bs))
    BY <1>1, <1>3, <1>6
  <2> QED
    BY <1>4, <1>5, <2>1, <2>2, <2>4, <2>5
<1>7. CASE ~(p[1] <= Len(bs))
  <2>1. p[1] > Len(bs) /\ p[1] - 1 = Len(bs)
    BY <1>1, <1>3, <1>7
  <2>2. d = SizeOf(bs)
    BY <1>1, <1>2, <1>3, <1>4, <2>1 DEF SizeOf
  <2> QED
    BY <1>3, <1>4, <1>5, <1>7, <2>1, <2>2
<1> QED
  BY <1>6, <1>7

LEMMA StartPlace ==
  ASSUME NEW bs \in Seq(Block), bs # << >>
  PROVE  InPlace(bs, <<1, 0>>, 0)
<1>1. bs \in Seq(Part) /\ Len(bs) \in Nat \ {0} /\ \A k \in 1..Len(bs) : bs[k].size \in Nat \ {0}
  BY BlocksAreParts
<1>2. UpTo(bs, 0) = 0
  BY <1>1, SumFacts
<1>3. 1 \in 1..Len(bs) /\ 1 \in 1..(Len(bs) + 1) /\ 1 - 1 = 0
  BY <1>1
<1>4. 0 < bs[1].size
  BY <1>1, <1>3
<1> QED
  BY <1>1, <1>2, <1>3, <1>4 DEF InPlace

\* What follows is appended in its order.
LEMMA StreamGrows ==
  ASSUME NEW w \in Seq(Nat), NEW g \in Seq(Nat), NEW q \in Seq(Nat), Delivered(w, g),
         Len(g) + Len(q) <= Len(w), \A j \in 1..Len(q) : q[j] = w[Len(g) + j]
  PROVE  /\ g \o q \in Seq(Nat) /\ Len(g \o q) = Len(g) + Len(q)
         /\ Delivered(w, g \o q)
<1>1. g \o q \in Seq(Nat) /\ Len(g \o q) = Len(g) + Len(q) /\ Len(g) \in Nat /\ Len(q) \in Nat
  OBVIOUS
<1>2. ASSUME NEW j \in 1..(Len(g) + Len(q))
      PROVE  (g \o q)[j] = w[j]
  <2>1. CASE j <= Len(g)
    <3>1. (g \o q)[j] = g[j] /\ j \in 1..Len(g)
      BY <1>1, <2>1
    <3> QED
      BY <3>1 DEF Delivered
  <2>2. CASE ~(j <= Len(g))
    <3>1. (g \o q)[j] = q[j - Len(g)] /\ j - Len(g) \in 1..Len(q) /\ Len(g) + (j - Len(g)) = j
      BY <1>1, <2>2
    <3> QED
      BY <3>1
  <2> QED
    BY <2>1, <2>2
<1> QED
  BY <1>1, <1>2 DEF Delivered

Left(h, op, bs) == IF op THEN bs ELSE matlab_read_info_cache_[h]

\* What a read starts from, if it continues the last one or begins with blocks.
LEMMA HadFacts ==
  ASSUME StreamInv, NEW h \in Handles, NEW op \in BOOLEAN, NEW bs \in Requests, Asks(h, op, bs)
  PROVE  LET w == PixelsOf(bs)
             g == Had(h, op)
         IN  /\ g \in Seq(Nat) /\ Delivered(w, g)
             /\ h \in MexHandles => InPlace(bs, Place(h, op), Len(g))
             /\ h \notin MexHandles => Left(h, op, bs) \in Seq(Block)
                                       /\ Rest(w, Len(g), Left(h, op, bs))
             /\ Place(h, op) \in Nat \X Nat
             /\ ~op => read_op_completed_[h] = (Len(g) = Len(w))
<1>1. /\ bs \in Seq(Block) /\ bs # NoRequest /\ PixelsOf(bs) \in Seq(Nat)
      /\ Len(PixelsOf(bs)) = SizeOf(bs) /\ SizeOf(bs) \in Nat
  BY RequestFacts
<1>2. CASE op
  <2>1. Had(h, op) = << >> /\ Left(h, op, bs) = bs /\ Place(h, op) = <<1, 0>>
    BY <1>2 DEF Had, Left, Place
  <2>2. << >> \in Seq(Nat) /\ Len(<< >>) = 0
    OBVIOUS
  <2>3. Delivered(PixelsOf(bs), << >>)
    BY <1>1 DEF Delivered
  <2>4. InPlace(bs, <<1, 0>>, 0)
    BY <1>1, StartPlace DEF NoRequest
  <2>5. Rest(PixelsOf(bs), 0, bs)
    BY <1>1 DEF Rest
  <2>6. <<1, 0>> \in Nat \X Nat
    OBVIOUS
  <2> HIDE DEF Left, Place, Had
  <2> QED
    BY <1>1, <1>2, <2>1, <2>2, <2>3, <2>4, <2>5, <2>6
<1>3. CASE ~op
  <2>1. bs = req[h] /\ Had(h, op) = got[h] /\ Place(h, op) = at[h]
        /\ Left(h, op, bs) = matlab_read_info_cache_[h]
    BY <1>3 DEF Asks, Had, Place, Left
  <2>2. StreamOK(h, req[h], want[h], got[h], read_op_completed_[h], at[h],
                 matlab_read_info_cache_[h])
    BY DEF StreamInv
  <2> QED
    BY <1>1, <1>3, <2>1, <2>2 DEF StreamOK
<1> QED
  BY <1>2, <1>3

\* A step changes what is kept of one object.
LEMMA OthersKept ==
  ASSUME StreamInv, NEW h \in Handles, NEW bs, NEW w, NEW g, NEW c, NEW a, NEW m,
         StreamOK(h, bs, w, g, c, a, m),
         req' = [req EXCEPT ![h] = bs], want' = [want EXCEPT ![h] = w],
         got' = [got EXCEPT ![h] = g],
         read_op_completed_' = [read_op_completed_ EXCEPT ![h] = c],
         at' = [at EXCEPT ![h] = a],
         matlab_read_info_cache_' = [matlab_read_info_cache_ EXCEPT ![h] = m]
  PROVE  StreamInv'
<1>1. /\ bs \in Requests \cup {NoRequest} /\ w \in Seq(Nat) /\ g \in Seq(Nat) /\ c \in BOOLEAN
      /\ a \in Nat \X Nat /\ m \in Seq(Block)
  BY DEF StreamOK
<1>2. /\ req' \in [Handles -> Requests \cup {NoRequest}]
      /\ want' \in [Handles -> Seq(Nat)] /\ got' \in [Handles -> Seq(Nat)]
      /\ read_op_completed_' \in [Handles -> BOOLEAN] /\ at' \in [Handles -> Nat \X Nat]
      /\ matlab_read_info_cache_' \in [Handles -> Seq(Block)]
  BY <1>1 DEF StreamInv
<1>3. ASSUME NEW o \in Handles
      PROVE  StreamOK(o, req'[o], want'[o], got'[o], read_op_completed_'[o], at'[o],
                      matlab_read_info_cache_'[o])
  <2>1. CASE o = h
    <3>1. /\ req'[o] = bs /\ want'[o] = w /\ got'[o] = g /\ read_op_completed_'[o] = c
          /\ at'[o] = a /\ matlab_read_info_cache_'[o] = m
      BY <2>1 DEF StreamInv
    <3> QED
      BY <2>1, <3>1
  <2>2. CASE o # h
    <3>1. /\ req'[o] = req[o] /\ want'[o] = want[o] /\ got'[o] = got[o]
          /\ read_op_completed_'[o] = read_op_completed_[o] /\ at'[o] = at[o]
          /\ matlab_read_info_cache_'[o] = matlab_read_info_cache_[o]
      BY <2>2 DEF StreamInv
    <3> QED
      BY <3>1 DEF StreamInv
  <2> QED
    BY <2>1, <2>2
<1> QED
  BY <1>2, <1>3 DEF StreamInv

LEMMA InitStream ==
  ASSUME Init
  PROVE  StreamInv
<1>1. /\ << >> \in Seq(Nat) /\ << >> \in Seq(Block) /\ <<1, 0>> \in Nat \X Nat
      /\ NoRequest \in Requests \cup {NoRequest}
  OBVIOUS
<1>2. /\ req \in [Handles -> Requests \cup {NoRequest}]
      /\ want \in [Handles -> Seq(Nat)] /\ got \in [Handles -> Seq(Nat)]
      /\ read_op_completed_ \in [Handles -> BOOLEAN] /\ at \in [Handles -> Nat \X Nat]
      /\ matlab_read_info_cache_ \in [Handles -> Seq(Block)]
  BY <1>1 DEF Init
<1>3. ASSUME NEW h \in Handles
      PROVE  StreamOK(h, req[h], want[h], got[h], read_op_completed_[h], at[h],
                      matlab_read_info_cache_[h])
  <2>1. /\ req[h] = NoRequest /\ want[h] = << >> /\ got[h] = << >>
        /\ read_op_completed_[h] = TRUE /\ at[h] = <<1, 0>>
        /\ matlab_read_info_cache_[h] = << >>
    BY DEF Init
  <2> QED
    BY <1>1, <2>1 DEF StreamOK
<1> QED
  BY <1>2, <1>3 DEF StreamInv

\* What a step with an object that is not remembered leaves.
LEMMA CloseStream ==
  ASSUME StreamInv, NEW h \in Handles, Close(h)
  PROVE  StreamInv'
<1>1. StreamOK(h, NoRequest, << >>, << >>, TRUE, <<1, 0>>, << >>)
  <2>1. /\ << >> \in Seq(Nat) /\ << >> \in Seq(Block) /\ <<1, 0>> \in Nat \X Nat
        /\ NoRequest \in Requests \cup {NoRequest}
    OBVIOUS
  <2> QED
    BY <2>1 DEF StreamOK
<1>2. Forget(h)
  BY DEF Close
<1> QED
  BY <1>1, <1>2, OthersKept DEF Forget

\* A read that is not refused gets on.
GetsOn(h, op, buf) ==
  req'[h] # NoRequest =>
    LET n == Len(got'[h]) - Len(Had(h, op))
    IN  /\ 10 * n <= (IF h \in MexHandles THEN 10 ELSE 11) * buf
        /\ buf > 0 /\ Len(Had(h, op)) < Len(want'[h]) => n > 0

\* Pixels q delivered: what the ghosts say then.
LEMMA DeliverFacts ==
  ASSUME StreamInv, NEW h \in Handles, NEW op \in BOOLEAN, NEW bs \in Requests,
         Asks(h, op, bs), NEW cs, Delivers(h, op, bs, cs)
  PROVE  /\ req' = [req EXCEPT ![h] = bs] /\ req'[h] = bs
         /\ want' = [want EXCEPT ![h] = PixelsOf(bs)] /\ want'[h] = PixelsOf(bs)
         /\ got' = [got EXCEPT ![h] = Had(h, op) \o PixelsOf(cs)]
         /\ got'[h] = Had(h, op) \o PixelsOf(cs)
BY DEF StreamInv, Asks, Delivers

\* The flag the mex file returns, for a place with d pixels in front of it.
LEMMA EndFacts ==
  ASSUME NEW bs \in Seq(Block), NEW p, NEW d, InPlace(bs, p, d)
  PROVE  (p[1] > Len(bs) /\ p[2] = 0) = (d = SizeOf(bs))
<1>1. Len(bs) \in Nat /\ SizeOf(bs) \in Nat
  BY BlocksAreParts, SumFacts
<1> QED
  BY <1>1, PlaceFacts

LEMMA IdleStream ==
  ASSUME StreamInv, NEW h \in Handles, NEW op \in BOOLEAN, NEW bs \in Requests,
         NEW buf \in Bufs, ReadIdle(h, op, bs, buf)
  PROVE  StreamInv' /\ GetsOn(h, op, buf)
<1> DEFINE p == Place(h, op)
           w == PixelsOf(bs)
           g == Had(h, op)
           c == p[1] > Len(bs) /\ p[2] = 0
           m == matlab_read_info_cache_[h]
<1>1. /\ Asks(h, op, bs) /\ Delivers(h, op, bs, << >>) /\ h \in MexHandles
      /\ buf = 0 \/ p[1] > Len(bs)
      /\ at' = [at EXCEPT ![h] = p] /\ Completed(h, c) /\ UNCHANGED matlab_read_info_cache_
  BY DEF ReadIdle
<1>2. /\ g \in Seq(Nat) /\ Delivered(w, g) /\ InPlace(bs, p, Len(g)) /\ p \in Nat \X Nat
  BY <1>1, HadFacts
<1>3. /\ bs \in Seq(Block) /\ w \in Seq(Nat) /\ Len(w) = SizeOf(bs) /\ bs # NoRequest
      /\ Len(w) \in Nat /\ Len(g) \in Nat
  BY <1>2, RequestFacts
<1>4. g \o PixelsOf(<< >>) = g
  <2> DEFINE e == PixelsOf(<< >>)
  <2>1. e \in Seq(Nat) /\ Len(e) = 0
    BY NoBlocks
  <2> HIDE DEF e, g
  <2>2. e = << >>
    BY <2>1
  <2>3. g \o << >> = g
    BY <1>2
  <2> QED
    BY <2>2, <2>3 DEF e
<1>5. c = (Len(g) = Len(w))
  BY <1>2, <1>3, EndFacts
<1>6. m \in Seq(Block) /\ matlab_read_info_cache_' = [matlab_read_info_cache_ EXCEPT ![h] = m]
  BY <1>1 DEF StreamInv
<1>7. /\ req' = [req EXCEPT ![h] = bs] /\ want' = [want EXCEPT ![h] = w] /\ want'[h] = w
      /\ got' = [got EXCEPT ![h] = g] /\ got'[h] = g
      /\ read_op_completed_' = [read_op_completed_ EXCEPT ![h] = c]
  <2>1. /\ req' = [req EXCEPT ![h] = bs] /\ want' = [want EXCEPT ![h] = w] /\ want'[h] = w
        /\ got' = [got EXCEPT ![h] = g \o PixelsOf(<< >>)]
        /\ got'[h] = g \o PixelsOf(<< >>)
    BY <1>1, DeliverFacts
  <2> QED
    BY <1>1, <1>4, <2>1 DEF Completed
<1>8. GetsOn(h, op, buf)
  <2>1. buf \in Nat /\ (buf = 0 \/ Len(g) = Len(w))
    BY <1>1, <1>2, <1>3, PlaceFacts, HdfAssumption
  <2> HIDE DEF g, w
  <2>2. Len(got'[h]) - Len(g) = 0 /\ Len(want'[h]) = Len(w)
    BY <1>3, <1>7
  <2> QED
    BY <1>1, <1>3, <2>1, <2>2 DEF GetsOn, g
<1> HIDE DEF p, w, g, c, m
<1>9. c \in BOOLEAN
  BY <1>5
<1>10. StreamOK(h, bs, w, g, c, p, m)
  BY <1>1, <1>2, <1>3, <1>5, <1>6, <1>9 DEF StreamOK, w
<1>11. StreamInv'
  BY <1>1, <1>6, <1>7, <1>10, OthersKept
<1> QED
  BY <1>8, <1>11

LEMMA RefuseStream ==
  ASSUME StreamInv, NEW h \in Handles, NEW op \in BOOLEAN, NEW bs \in Requests,
         Asks(h, op, bs), Refuses(h, op), Completed(h, op), NEW a \in Nat \X Nat,
         h \notin MexHandles => a = <<1, 0>>, at' = [at EXCEPT ![h] = a],
         UNCHANGED matlab_read_info_cache_, NEW buf
  PROVE  StreamInv' /\ GetsOn(h, op, buf)
<1> DEFINE w == PixelsOf(bs)
           g == Had(h, op)
           m == matlab_read_info_cache_[h]
<1>1. /\ req' = [req EXCEPT ![h] = NoRequest] /\ want' = [want EXCEPT ![h] = w]
      /\ got' = [got EXCEPT ![h] = g]
      /\ read_op_completed_' = [read_op_completed_ EXCEPT ![h] = op]
      /\ m \in Seq(Block) /\ matlab_read_info_cache_' = [matlab_read_info_cache_ EXCEPT ![h] = m]
  BY DEF StreamInv, Asks, Refuses, Completed
<1>2. req'[h] = NoRequest
  BY <1>1 DEF StreamInv
<1>3. w \in Seq(Nat) /\ g \in Seq(Nat)
  BY HadFacts, RequestFacts
<1> HIDE DEF w, g, m
<1>4. StreamOK(h, NoRequest, w, g, op, a, m)
  BY <1>1, <1>3 DEF StreamOK
<1>5. StreamInv'
  BY <1>1, <1>4, OthersKept
<1> QED
  BY <1>2, <1>5 DEF GetsOn

\* Blocks cs are what follows on those that object h had, up to place n; from
\* there it continues, with the flag c, place a and blocks left m.
Follow(h, op, bs, cs, n) ==
  /\ n \in Nat /\ n = Len(Had(h, op)) + SizeOf(cs) /\ n <= SizeOf(bs)
  /\ \A j \in 1..SizeOf(cs) : PixelsOf(cs)[j] = PixelsOf(bs)[Len(Had(h, op)) + j]
Continues(h, bs, n, c, a, m) ==
  /\ a \in Nat \X Nat /\ m \in Seq(Block) /\ c = (n = SizeOf(bs))
  /\ IF h \in MexHandles THEN InPlace(bs, a, n)
     ELSE a = <<1, 0>> /\ Rest(PixelsOf(bs), n, m)

LEMMA DeliverStream ==
  ASSUME StreamInv, NEW h \in Handles, NEW op \in BOOLEAN, NEW bs \in Requests,
         Asks(h, op, bs), NEW cs \in Seq(Part), Delivers(h, op, bs, cs),
         NEW a, NEW m, NEW c, Completed(h, c), at' = [at EXCEPT ![h] = a],
         matlab_read_info_cache_' = [matlab_read_info_cache_ EXCEPT ![h] = m],
         NEW n, Follow(h, op, bs, cs, n), Continues(h, bs, n, c, a, m)
  PROVE  StreamInv' /\ Len(got'[h]) - Len(Had(h, op)) = SizeOf(cs) /\ SizeOf(cs) \in Nat
<1> DEFINE w == PixelsOf(bs)
           g == Had(h, op)
           q == PixelsOf(cs)
           r == g \o q
<1>1. /\ bs \in Seq(Block) /\ w \in Seq(Nat) /\ Len(w) = SizeOf(bs) /\ bs # NoRequest
      /\ g \in Seq(Nat) /\ Delivered(w, g) /\ Len(g) \in Nat
  BY HadFacts, RequestFacts
<1>2. q \in Seq(Nat) /\ Len(q) = SizeOf(cs) /\ SizeOf(cs) \in Nat
  BY PositionFacts, SumFacts
<1>3. /\ req' = [req EXCEPT ![h] = bs] /\ want' = [want EXCEPT ![h] = w]
      /\ got' = [got EXCEPT ![h] = r] /\ got'[h] = r
      /\ read_op_completed_' = [read_op_completed_ EXCEPT ![h] = c]
  BY DeliverFacts DEF Completed
<1>4. \A j \in 1..Len(q) : q[j] = w[Len(g) + j]
  BY <1>2 DEF Follow
<1>5. n = Len(g) + Len(q) /\ Len(g) + Len(q) <= Len(w)
  BY <1>1, <1>2 DEF Follow
<1> HIDE DEF w, g, q
<1>6. r \in Seq(Nat) /\ Len(r) = n /\ Delivered(w, r)
  BY <1>1, <1>2, <1>4, <1>5, StreamGrows
<1> HIDE DEF r
<1>7. c = (Len(r) = Len(w)) /\ c \in BOOLEAN
  BY <1>1, <1>6 DEF Continues
<1>8. StreamOK(h, bs, w, r, c, a, m)
  BY <1>1, <1>6, <1>7 DEF StreamOK, Continues, w
<1>9. StreamInv'
  BY <1>3, <1>8, OthersKept
<1>10. Len(r) - Len(g) = SizeOf(cs)
  BY <1>1, <1>2, <1>5, <1>6
<1> QED
  BY <1>2, <1>3, <1>9, <1>10 DEF g

LEMMA MexStream ==
  ASSUME StreamInv, NEW h \in Handles, NEW op \in BOOLEAN, NEW bs \in Requests,
         NEW buf \in Bufs, ReadMex(h, op, bs, buf)
  PROVE  StreamInv' /\ GetsOn(h, op, buf)
<1> DEFINE p == Place(h, op)
           d == Len(Had(h, op))
           n == NpixToRead(bs, p[1], p[2], buf)
           next == NextAt(bs, p[1], p[2], n)
           cs == Portion(bs, p[1], p[2], n)
           c == next[1] > Len(bs) /\ next[2] = 0
           m == matlab_read_info_cache_[h]
<1>1. /\ Asks(h, op, bs) /\ h \in MexHandles /\ buf > 0 /\ p[1] <= Len(bs)
      /\ UNCHANGED matlab_read_info_cache_
      /\ IF InFile(cs)
         THEN at' = [at EXCEPT ![h] = next] /\ Completed(h, c) /\ Delivers(h, op, bs, cs)
         ELSE at' = [at EXCEPT ![h] = p] /\ Completed(h, op) /\ Refuses(h, op)
  BY DEF ReadMex
<1>2. InPlace(bs, p, d) /\ p \in Nat \X Nat
  BY <1>1, HadFacts
<1>3. bs \in Seq(Block) /\ buf \in Nat \ {0}
  BY <1>1, RequestFacts, HdfAssumption
<1>4. /\ d \in Nat /\ p[1] \in 1..Len(bs) /\ p[2] \in 0..(bs[p[1]].size - 1)
      /\ UpTo(bs, p[1] - 1) + p[2] = d
  BY <1>1, <1>2, <1>3, PlaceFacts DEF InPlace
<1>5. /\ n \in 1..buf /\ d + n \in 0..SizeOf(bs) /\ cs \in Seq(Block) /\ SizeOf(cs) = n
      /\ \A j \in 1..n : PixelsOf(cs)[j] = PixelsOf(bs)[d + j]
      /\ InPlace(bs, next, d + n)
  <2> DEFINE f == p[1]
             l == p[2]
  <2>1. f \in 1..Len(bs) /\ l \in 0..(bs[f].size - 1) /\ UpTo(bs, f - 1) + l = d
    BY <1>4
  <2> HIDE DEF f, l, d
  <2>2. LET k == NpixToRead(bs, f, l, buf)
            q == Portion(bs, f, l, k)
        IN  /\ k \in 1..buf /\ d + k \in 0..SizeOf(bs) /\ q \in Seq(Block) /\ SizeOf(q) = k
            /\ \A j \in 1..k : PixelsOf(q)[j] = PixelsOf(bs)[d + j]
            /\ InPlace(bs, NextAt(bs, f, l, k), d + k)
    BY <1>3, <2>1, PortionFacts
  <2> QED
    BY <2>2 DEF f, l
<1> HIDE DEF n, next, cs
<1>6. m \in Seq(Block) /\ matlab_read_info_cache_' = [matlab_read_info_cache_ EXCEPT ![h] = m]
  BY <1>1 DEF StreamInv
<1>7. CASE InFile(cs)
  <2>1. /\ d + n \in Nat /\ d + n = d + SizeOf(cs) /\ d + n <= SizeOf(bs)
        /\ cs \in Seq(Part) /\ next \in Nat \X Nat
    BY <1>3, <1>4, <1>5, BlocksAreParts DEF InPlace
  <2>2. c = (d + n = SizeOf(bs))
    BY <1>3, <1>5, EndFacts
  <2>3. \A j \in 1..SizeOf(cs) : PixelsOf(cs)[j] = PixelsOf(bs)[d + j]
    BY <1>5
  <2> DEFINE l == d + n
  <2> HIDE DEF m, c, p
  <2>4. /\ at' = [at EXCEPT ![h] = next] /\ Completed(h, c) /\ Delivers(h, op, bs, cs)
    BY <1>1, <1>7
  <2>5. StreamInv' /\ Len(got'[h]) - d = SizeOf(cs)
    <3>1. Follow(h, op, bs, cs, l)
      BY <2>1, <2>3 DEF Follow
    <3>2. Continues(h, bs, l, c, next, m)
      BY <1>1, <1>5, <1>6, <2>1, <2>2 DEF Continues
    <3> HIDE DEF l
    <3> QED
      BY <1>1, <1>6, <2>1, <2>4, <3>1, <3>2, DeliverStream
  <2>6. GetsOn(h, op, buf)
    <3>1. Len(got'[h]) - d = n /\ n \in Nat \ {0} /\ n <= buf
      BY <1>3, <1>5, <2>5
    <3> QED
      BY <1>1, <1>3, <3>1 DEF GetsOn
  <2> QED
    BY <2>5, <2>6
<1>8. CASE ~InFile(cs)
  BY <1>1, <1>2, <1>8, RefuseStream
<1> QED
  BY <1>7, <1>8

LEMMA MatlabStream ==
  ASSUME StreamInv, NEW h \in Handles, NEW op \in BOOLEAN, NEW bs \in Requests,
         NEW buf \in Bufs, ReadMatlab(h, op, bs, buf)
  PROVE  StreamInv' /\ GetsOn(h, op, buf)
<1> DEFINE left == Left(h, op, bs)
           d == Len(Had(h, op))
           a == SplitNpix(left, buf)[1]
           b == SplitNpix(left, buf)[2]
           w == PixelsOf(bs)
           c == b = << >>
<1>1. /\ Asks(h, op, bs) /\ h \notin MexHandles /\ UNCHANGED at
      /\ op \/ matlab_read_info_cache_[h] # << >>
      /\ IF InFile(a)
         THEN /\ matlab_read_info_cache_' = [matlab_read_info_cache_ EXCEPT ![h] = b]
              /\ Completed(h, c) /\ Delivers(h, op, bs, a)
         ELSE Completed(h, op) /\ Refuses(h, op) /\ UNCHANGED matlab_read_info_cache_
  BY DEF ReadMatlab, Left
<1>2. left \in Seq(Block) /\ Rest(w, d, left) /\ d \in Nat
  BY <1>1, HadFacts
<1>3. /\ bs \in Seq(Block) /\ buf \in Nat /\ left # << >>
      /\ w \in Seq(Nat) /\ Len(w) = SizeOf(bs) /\ SizeOf(bs) \in Nat
  BY <1>1, RequestFacts, HdfAssumption DEF Left, NoRequest
<1> HIDE DEF left, d
<1>4. IsSplit(left, a, b) /\ ForBuffer(SizeOf(a), buf)
  BY <1>2, <1>3, SplitFacts
<1> HIDE DEF a, b, w
<1>5. /\ a \in Seq(Part) /\ b \in Seq(Block) /\ SizeOf(a) \in Nat /\ SizeOf(b) \in Nat
      /\ SizeOf(a) + SizeOf(b) = SizeOf(left) /\ SizeOf(left) \in Nat
      /\ (SizeOf(b) = 0 <=> b = << >>)
  BY <1>2, <1>4, BlocksAreParts, SumFacts DEF IsSplit
<1>6. d + SizeOf(left) = SizeOf(bs)
  BY <1>2, <1>3 DEF Rest
<1>7. \A j \in 1..SizeOf(a) : PixelsOf(a)[j] = w[d + j]
  <2> TAKE j \in 1..SizeOf(a)
  <2>1. j \in 1..SizeOf(left) /\ PixelsOf(a)[j] = PixelsOf(left)[j]
    BY <1>4, <1>5 DEF IsSplit
  <2> QED
    BY <1>2, <2>1 DEF Rest
<1>8. Rest(w, d + SizeOf(a), b)
  <2>1. (d + SizeOf(a)) + SizeOf(b) = Len(w)
    BY <1>2, <1>3, <1>5, <1>6
  <2>2. ASSUME NEW j \in 1..SizeOf(b)
        PROVE  PixelsOf(b)[j] = w[(d + SizeOf(a)) + j]
    <3>1. SizeOf(a) + j \in 1..SizeOf(left) /\ d + (SizeOf(a) + j) = (d + SizeOf(a)) + j
      BY <1>2, <1>5
    <3>2. PixelsOf(b)[j] = PixelsOf(left)[SizeOf(a) + j]
      BY <1>4 DEF IsSplit
    <3>3. PixelsOf(left)[SizeOf(a) + j] = w[d + (SizeOf(a) + j)]
      BY <1>2, <3>1 DEF Rest
    <3> QED
      BY <3>1, <3>2, <3>3
  <2> QED
    BY <2>1, <2>2 DEF Rest
<1>9. /\ d + SizeOf(a) \in Nat /\ d + SizeOf(a) <= SizeOf(bs)
      /\ c = (d + SizeOf(a) = SizeOf(bs))
  BY <1>2, <1>3, <1>5, <1>6, SMTT(30)
<1>10. at[h] = <<1, 0>> /\ at[h] \in Nat \X Nat /\ at' = [at EXCEPT ![h] = at[h]]
  BY <1>1 DEF StreamInv, StreamOK
<1>11. CASE InFile(a)
  <2> DEFINE n == d + SizeOf(a)
  <2>1. n \in Nat /\ n <= SizeOf(bs) /\ c = (n = SizeOf(bs)) /\ Rest(w, n, b)
    BY <1>8, <1>9
  <2>2. n = d + SizeOf(a)
    OBVIOUS
  <2> HIDE DEF n, c
  <2>3. StreamInv' /\ Len(got'[h]) - d = SizeOf(a)
    <3>1. Follow(h, op, bs, a, n)
      BY <1>7, <2>1, <2>2 DEF Follow, d, w
    <3>2. Continues(h, bs, n, c, at[h], b)
      BY <1>1, <1>5, <1>10, <2>1 DEF Continues, w
    <3>3. /\ matlab_read_info_cache_' = [matlab_read_info_cache_ EXCEPT ![h] = b]
          /\ Completed(h, c) /\ Delivers(h, op, bs, a) /\ Asks(h, op, bs)
      BY <1>1, <1>11
    <3> DEFINE e == at[h]
    <3>4. Continues(h, bs, n, c, e, b) /\ at' = [at EXCEPT ![h] = e]
      BY <1>10, <3>2
    <3> HIDE DEF e
    <3>5. StreamInv' /\ Len(got'[h]) - Len(Had(h, op)) = SizeOf(a)
      BY <1>5, <3>1, <3>3, <3>4, DeliverStream
    <3> QED
      BY <3>5 DEF d
  <2>4. GetsOn(h, op, buf)
    BY <1>1, <1>3, <1>4, <2>3 DEF GetsOn, ForBuffer, d
  <2> QED
    BY <2>3, <2>4
<1>12. CASE ~InFile(a)
  BY <1>1, <1>10, <1>12, RefuseStream
<1> QED
  BY <1>11, <1>12

LEMMA ReadStream ==
  ASSUME StreamInv, NEW h \in Handles, NEW op \in BOOLEAN, NEW bs \in Requests,
         NEW buf \in Bufs, Read(h, op, bs, buf)
  PROVE  StreamInv' /\ GetsOn(h, op, buf)
BY IdleStream, MexStream, MatlabStream DEF Read

LEMMA NextStream ==
  ASSUME StreamInv, [Next]_vars
  PROVE  StreamInv'
<1>1. ASSUME NEW h \in Handles, OpenHandle(h) \/ OpenFails(h)
      PROVE  StreamInv'
  BY <1>1 DEF OpenHandle, OpenFails, StreamInv
<1>2. CASE UNCHANGED vars
  BY <1>2 DEF vars, StreamInv
<1> QED
  BY <1>1, <1>2, CloseStream, ReadStream DEF Next

\* What a reader keeps has its type, and the place kept is in its block.
THEOREM TypeCorrect == Spec => []TypeOK
<1>1. ASSUME LockInv, StreamInv
      PROVE  TypeOK
  <2>1. /\ open \subseteq Handles /\ num_locks \in [Handles -> {0, 1}]
        /\ locks \in Nat /\ failed \in BOOLEAN
    BY <1>1 DEF LockInv
  <2>2. /\ req \in [Handles -> Requests \cup {NoRequest}]
        /\ read_op_completed_ \in [Handles -> BOOLEAN] /\ at \in [Handles -> Nat \X Nat]
    BY <1>1 DEF StreamInv
  <2>3. ASSUME NEW h \in Handles
        PROVE  /\ want[h] \in Seq(Nat) /\ got[h] \in Seq(Nat)
               /\ matlab_read_info_cache_[h] \in Seq([pos : Nat, size : Nat])
               /\ req[h] # NoRequest /\ at[h][1] <= Len(req[h]) =>
                    at[h][2] < req[h][at[h][1]].size
    <3>1. StreamOK(h, req[h], want[h], got[h], read_op_completed_[h], at[h],
                   matlab_read_info_cache_[h])
      BY <1>1 DEF StreamInv
    <3>2. want[h] \in Seq(Nat) /\ got[h] \in Seq(Nat)
      BY <3>1 DEF StreamOK
    <3>3. matlab_read_info_cache_[h] \in Seq([pos : Nat, size : Nat])
      <4>1. matlab_read_info_cache_[h] \in Seq(Block)
        BY <3>1 DEF StreamOK
      <4> QED
        BY <4>1, BlocksAreParts DEF Part
    <3>4. ASSUME req[h] # NoRequest
          PROVE  InPlace(req[h], at[h], Len(got[h])) \/ InPlace(req[h], at[h], 0)
      <4>1. req[h] \in Seq(Block) /\ req[h] # << >>
        BY <3>1, <3>4, RequestFacts DEF StreamOK, NoRequest
      <4>2. InPlace(req[h], <<1, 0>>, 0)
        BY <4>1, StartPlace
      <4> QED
        BY <3>1, <3>4, <4>2 DEF StreamOK
    <3> QED
      BY <3>2, <3>3, <3>4 DEF InPlace
  <2> QED
    BY <2>1, <2>2, <2>3 DEF TypeOK
<1> QED
  BY InitLocks, NextStep, InitStream, NextStream, <1>1, PTL DEF Spec

\* For any blocks, buffers and readers: the portions of a read that buffers cut
\* short are, put together, the pixels of its blocks in their order, and the
\* read is completed when they are all there and not before.
THEOREM StreamRight == Spec => []StreamInOrder
<1>1. ASSUME LockInv, StreamInv
      PROVE  StreamInOrder
  <2> SUFFICES ASSUME NEW h \in open, req[h] # NoRequest
               PROVE  /\ IsPrefix(got[h], want[h])
                      /\ read_op_completed_[h] <=> got[h] = want[h]
    BY DEF StreamInOrder
  <2>1. h \in Handles
    BY <1>1 DEF LockInv
  <2> DEFINE w == want[h]
             g == got[h]
             c == read_op_completed_[h]
  <2>2. /\ w \in Seq(Nat) /\ g \in Seq(Nat) /\ c \in BOOLEAN
        /\ Delivered(w, g) /\ c = (Len(g) = Len(w))
    BY <1>1, <2>1 DEF StreamInv, StreamOK
  <2> HIDE DEF w, g, c
  <2>3. Len(w) \in Nat /\ Len(g) \in Nat /\ Len(g) <= Len(w) /\ \A j \in 1..Len(g) : g[j] = w[j]
    BY <2>2 DEF Delivered
  <2>4. SubSeq(g, 1, Len(g)) = SubSeq(w, 1, Len(g))
    <3> DEFINE x == SubSeq(g, 1, Len(g))
               y == SubSeq(w, 1, Len(g))
    <3>1. x \in Seq(Nat) /\ Len(x) = Len(g) /\ y \in Seq(Nat) /\ Len(y) = Len(g)
      BY <2>2, <2>3
    <3>2. \A j \in 1..Len(g) : x[j] = y[j]
      BY <2>2, <2>3
    <3> HIDE DEF x, y
    <3>3. x = y
      BY <3>1, <3>2
    <3> QED
      BY <3>3 DEF x, y
  <2>5. IsPrefix(g, w)
    BY <2>3, <2>4 DEF IsPrefix
  <2>6. c <=> g = w
    <3>1. Len(g) = Len(w) => g = w
      BY <2>2, <2>3
    <3> QED
      BY <2>2, <3>1
  <2> QED
    BY <2>5, <2>6 DEF w, g, c
<1> QED
  BY InitLocks, NextStep, InitStream, NextStream, <1>1, PTL DEF Spec

\* A read that is not refused, with room in its buffer and pixels left, returns
\* some, and never more than the buffer holds (a tenth more from Matlab).
THEOREM ReadsGetOn == Spec => ReadDelivers
<1>1. ASSUME LockInv, StreamInv, StreamInv'
      PROVE  \A h \in open, op \in BOOLEAN, buf \in Bufs :
               req'[h] # NoRequest /\ Read(h, op, req'[h], buf) =>
                 LET n == Len(got'[h]) - Len(Had(h, op))
                 IN  /\ 10 * n <= (IF h \in MexHandles THEN 10 ELSE 11) * buf
                     /\ buf > 0 /\ Len(Had(h, op)) < Len(want'[h]) => n > 0
  <2> SUFFICES ASSUME NEW h \in open, NEW op \in BOOLEAN, NEW buf \in Bufs,
                      req'[h] # NoRequest, Read(h, op, req'[h], buf)
               PROVE  GetsOn(h, op, buf)
    BY DEF GetsOn
  <2>1. h \in Handles
    BY <1>1 DEF LockInv
  <2>2. req'[h] \in Requests
    BY <1>1, <2>1 DEF StreamInv
  <2> QED
    BY <1>1, <2>1, <2>2, ReadStream
<1> QED
  BY InitLocks, NextStep, InitStream, NextStream, <1>1, PTL DEF Spec, ReadDelivers
=============================================================================
