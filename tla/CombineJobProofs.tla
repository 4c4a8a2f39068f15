--------------------------- MODULE CombineJobProofs ---------------------------
(***************************************************************************)
(* Combining in Matlab, for any files, buffers and numbers of readers:     *)
(* no pixel is written twice or lost without a word, pixels are written in *)
(* the order of bins, and regular jobs keep all pixels and do not fail.    *)
(***************************************************************************)
EXTENDS CombineJob, FiniteSetTheorems, SequenceTheorems, WellFoundedInduction, TLAPS

(***************************************************************************)
(* The inductive invariant.  Its parts about one reader and one source are *)
(* stated of values rather than of variables, so that what one step does   *)
(* to them is a fact about the operators of CombineJob.                    *)
(*                                                                         *)
(* npix is the input of a reader: npix[i][b] pixels in bin b of file i.    *)
(***************************************************************************)
Row(npix, b) == [i \in DOMAIN npix |-> npix[i][b]]
Size(npix, b) == Total(Row(npix, b))
SizeUpTo(npix, n) == SumTo([b \in 1..NumBins |-> Size(npix, b)], n)

\* The bin a reader is in: per begins with what it has not read of it.
BinLeft(end, per) == IF per = << >> THEN end ELSE end - Len(per) + 1
Left(per, i) == IF per = << >> THEN 0 ELSE per[1][i]

\* The section of a reader, which is not behind the place in its files.
Section(npix, end, per, cum, processed, pos) ==
  /\ end \in 0..NumBins /\ processed \in Nat
  /\ per \in Seq([1..Len(npix) -> Nat]) /\ cum \in Seq(Int)
  /\ Len(cum) = Len(per) /\ Len(per) <= end
  /\ \A k \in 2..Len(per) : per[k] = Row(npix, end - Len(per) + k)
  /\ \A j, k \in 1..Len(cum) : j <= k => cum[j] <= cum[k]
  /\ cum # << >> => cum[1] + processed >= 0
  /\ pos \in [1..Len(npix) -> Nat]
  /\ \A i \in 1..Len(npix) : pos[i] + Left(per, i) <= SumTo(npix[i], BinLeft(end, per))

\* The place in the files is that of the section, and no more is counted as
\* processed than was read.  The sums of bins behind one read in parts still
\* have these parts in them.
Counted(npix, buf, end, per, cum, processed, total, pos) ==
  LET b == BinLeft(end, per)
  IN  /\ \A i \in 1..Len(npix) : pos[i] + Left(per, i) = SumTo(npix[i], b)
      /\ per # << >> =>
           /\ \A i \in 1..Len(npix) : SumTo(npix[i], b - 1) <= pos[i]
           /\ cum[1] <= Total(per[1])
           /\ \A k \in 2..Len(per) :
                /\ cum[k] <= cum[1] + SizeUpTo(npix, b + k - 1) - SizeUpTo(npix, b)
                               + (IF cum[1] > buf THEN processed ELSE 0)
                /\ cum[k] = cum[2] + SizeUpTo(npix, b + k - 1) - SizeUpTo(npix, b + 1)
           /\ processed + Total(per[1]) + SizeUpTo(npix, end) - SizeUpTo(npix, b) <= total

\* With bins that fit, whole bins are read and the sums are exact.
Exact(npix, end, per, cum, processed, total) ==
  LET b == BinLeft(end, per)
  IN  IF per = << >> THEN processed = total
      ELSE /\ per[1] = Row(npix, b) /\ processed < total
           /\ \A k \in 1..Len(per) : cum[k] = SizeUpTo(npix, b + k - 1) - SizeUpTo(npix, b - 1)
           /\ processed + SizeUpTo(npix, end) - SizeUpTo(npix, b - 1) = total

\* What is kept by reader has a value for each.
ShapeInv ==
  /\ input \in Inputs /\ result \in {"running", "done", "warned", "error"}
  /\ first_bin_to_process_ \in Nat
  /\ DOMAIN ibin_end = Readers /\ DOMAIN nbins_start = Readers
  /\ DOMAIN npix_per_bins = Readers /\ DOMAIN npix_in_bins = Readers
  /\ DOMAIN npix_processed = Readers /\ DOMAIN n_pix_2process = Readers
  /\ DOMAIN pos_pixstart = Readers /\ DOMAIN mess = Readers
  /\ DOMAIN bin_range_ = Readers /\ DOMAIN bin_edges_ = Readers
  /\ DOMAIN read_pix_cache_ = Readers /\ DOMAIN last_bin_completed_ = Readers
  /\ \A r \in Readers : nbins_start[r] \in Nat /\ n_pix_2process[r] \in Nat
SectionInv ==
  \A r \in Readers : Section(input.npix[r], ibin_end[r], npix_per_bins[r], npix_in_bins[r],
                             npix_processed[r], pos_pixstart[r])
CountedInv ==
  PartsCounted =>
    \A r \in Readers : Counted(input.npix[r], input.buf, ibin_end[r], npix_per_bins[r],
                               npix_in_bins[r], npix_processed[r], n_pix_2process[r],
                               pos_pixstart[r])

\* Edges say where the pixels of each bin begin, and where the last one ends.
GoodEdges(edges, pix) ==
  /\ edges \in Seq(Nat \ {0}) /\ edges # << >>
  /\ edges[1] = 1 /\ edges[Len(edges)] = Len(pix) + 1
  /\ \A j, k \in 1..Len(edges) : j <= k => edges[j] <= edges[k]
Pixel == Nat \X Nat \X Nat
GoodCache(c) ==
  /\ c \in [range : Nat \X Nat, edges : Seq(Nat \ {0}), pix : Seq(Pixel), completed : BOOLEAN]
  /\ IF c.edges = << >> THEN c.pix = << >> ELSE GoodEdges(c.edges, c.pix)
GoodMessages ==
  {m \in [bin_range : Nat \X Nat, pix_data : Seq(Pixel), bin_edges : Seq(Nat \ {0}),
          last_bin_completed : BOOLEAN] :
     m.pix_data # << >> => GoodEdges(m.bin_edges, m.pix_data)}

CacheInv ==
  \A r \in Readers : GoodCache(Cached(r)) /\ mess[r] \in Seq(GoodMessages)

\* A pixel that was taken from its file is in no more than one place; what a
\* serial job has taken is written.
TakenBy(r) == UNION {{<<r, i, k>> : k \in 1..pos_pixstart[r][i]} : i \in Files(r)}
Apart(taken, cache, ms, written) ==
  /\ IsInjective(cache) /\ Range(cache) \subseteq taken /\ Range(cache) \cap written = {}
  /\ \A j \in 1..Len(ms) :
       /\ IsInjective(ms[j].pix_data) /\ Range(ms[j].pix_data) \subseteq taken
       /\ Range(ms[j].pix_data) \cap written = {}
       /\ Range(ms[j].pix_data) \cap Range(cache) = {}
       /\ \A k \in 1..Len(ms) :
            k # j => Range(ms[j].pix_data) \cap Range(ms[k].pix_data) = {}
PlaceInv ==
  /\ file \in Seq(Pixel) /\ IsInjective(file) /\ Range(file) \subseteq PixelsTaken
  /\ input.serial => PixelsTaken \subseteq Range(file)
  /\ \A r \in Readers : Apart(TakenBy(r), read_pix_cache_[r], mess[r], Range(file))

\* Pixels are written bin by bin; all is the input of all readers.
BinIn(all, p) == Min({b \in 1..NumBins : SumTo(all[p[1]][p[2]], b) >= p[3]})
InOrder(all, pix) ==
  \A j, k \in 1..Len(pix) : j <= k => BinIn(all, pix[j]) <= BinIn(all, pix[k])
SerialInv ==
  input.serial /\ PartsCounted =>
    /\ InOrder(input.npix, file)
    /\ \A r \in Readers, p \in Range(file) :
         BinIn(input.npix, p) \in 0..BinLeft(ibin_end[r], npix_per_bins[r])

\* In a parallel job messages say which bins their pixels are of, and follow one
\* another from the cache to the reader without a gap.  A source whose cache is
\* empty is waited for.
Labelled(all, pix, edges, range) ==
  /\ Len(edges) = range[2] - range[1] + 2 /\ range[1] <= range[2] /\ range[2] <= NumBins
  /\ \A k \in 1..(Len(edges) - 1) : \A x \in edges[k]..(edges[k + 1] - 1) :
       BinIn(all, pix[x]) = range[1] + k - 1
LabelledMessage(all, m) ==
  /\ m.pix_data # << >> /\ m.last_bin_completed
  /\ Labelled(all, m.pix_data, m.bin_edges, m.bin_range)
InTurn(all, ms, received, start) ==
  /\ \A j \in 1..Len(ms) :
       /\ LabelledMessage(all, ms[j])
       /\ ms[j].bin_range[1] = 1 + IF j = 1 THEN received ELSE ms[j - 1].bin_range[2]
  /\ start = 1 + IF ms = << >> THEN received ELSE ms[Len(ms)].bin_range[2]
Received(c, first) == IF c.edges = << >> THEN first - 1 ELSE c.range[2]
Awaited(c) == c.range[2] < NumBins \/ ~c.completed
CacheInTurn(all, c, first) ==
  IF c.edges = << >> THEN first <= NumBins => Awaited(c)
  ELSE first <= c.range[1] /\ c.completed /\ Labelled(all, c.pix, c.edges, c.range)
ReaderInTurn(r) ==
  /\ Exact(input.npix[r], ibin_end[r], npix_per_bins[r], npix_in_bins[r], npix_processed[r],
           n_pix_2process[r])
  /\ nbins_start[r] = ibin_end[r] - Len(npix_per_bins[r]) + 1
  /\ ibin_end[r] = NumBins \/ \E k \in Nat : ibin_end[r] = k * SectionSize(r)
SourceInTurn(r) ==
  /\ InTurn(input.npix, mess[r], Received(Cached(r), first_bin_to_process_), nbins_start[r])
  /\ CacheInTurn(input.npix, Cached(r), first_bin_to_process_)
ParallelInv ==
  ~input.serial /\ BinsFit /\ SectionsFilled =>
    /\ InOrder(input.npix, file)
    /\ \A p \in Range(file) : BinIn(input.npix, p) \in 0..(first_bin_to_process_ - 1)
    /\ \A r \in Readers : ReaderInTurn(r) /\ SourceInTurn(r)

(***************************************************************************)
(* Numbers and recursive functions.                                        *)
(***************************************************************************)
\* A set of numbers has a least one.
LEMMA LeastOfNats ==
  ASSUME NEW S \in SUBSET Nat, S # {}
  PROVE  \E x \in S : \A y \in S : x <= y
<1>1. PICK x \in S : \A y \in S : ~ (<<y, x>> \in OpToRel(<, Nat))
  BY WFMin, NatLessThanWellFounded
<1>2. \A y \in S : ~ (y < x)
  BY <1>1 DEF OpToRel
<1> QED
  BY <1>2

\* That is its Min.
LEMMA MinOfNats ==
  ASSUME NEW S \in SUBSET Nat, S # {}
  PROVE  Min(S) \in S /\ \A y \in S : Min(S) <= y
BY LeastOfNats DEF Min

\* What holds of 0, and of k when it holds of k - 1, holds up to n.
IsStepwise(T, n) == 0 \in T /\ \A k \in 1..n : k - 1 \in T => k \in T

\* A set that has zero, and a number with the one before it.
LEMMA Stepwise ==
  ASSUME NEW n \in Nat, NEW T, IsStepwise(T, n)
  PROVE  \A k \in 0..n : k \in T
<1> DEFINE N == {k \in 0..n : k \notin T}
<1>1. SUFFICES ASSUME N # {} PROVE FALSE
  OBVIOUS
<1>2. PICK k \in N : \A l \in N : k <= l
  <2>1. N \in SUBSET Nat
    OBVIOUS
  <2> QED
    BY <1>1, <2>1, LeastOfNats
<1>3. k \in 1..n /\ k - 1 \in 0..n /\ ~(k <= k - 1)
  BY <1>2 DEF IsStepwise
<1> QED
  BY <1>2, <1>3 DEF IsStepwise

\* f is what the steps make of a, one for each k; they stay in S.
IsStep(step, n, S) == step \in [S \X (1..n) -> S]
Iterates(f, n, S, a, step) ==
  f \in [0..n -> S] /\ f[0] = a /\ \A k \in 1..n : f[k] = step[<<f[k - 1], k>>]

\* A function that follows a step from a start exists.
LEMMA RecursionExists ==
  ASSUME NEW n \in Nat, NEW S, NEW a \in S, NEW step, IsStep(step, n, S)
  PROVE  \E f : Iterates(f, n, S, a, step)
<1> DEFINE Is(f, m) == Iterates(f, m, S, a, step)
           N == {m \in 0..n : ~ \E f : Is(f, m)}
<1> USE DEF Iterates, IsStep
<1>1. SUFFICES N = {}
  OBVIOUS
<1>2. SUFFICES ASSUME N # {} PROVE FALSE
  OBVIOUS
<1>3. PICK m \in N : \A l \in N : m <= l
  <2>1. N \in SUBSET Nat
    OBVIOUS
  <2> QED
    BY <1>2, <2>1, LeastOfNats
<1>4. m \in 0..n /\ m \in Nat /\ ~ \E f : Is(f, m)
  BY <1>3
<1>5. CASE m = 0
  <2>1. Is([k \in 0..0 |-> a], 0)
    OBVIOUS
  <2> QED
    BY <1>4, <1>5, <2>1
<1>6. CASE m # 0
  <2>1. m - 1 \in 0..n /\ m - 1 \notin N
    <3>1. m - 1 \in 0..n /\ ~(m <= m - 1)
      BY <1>4, <1>6
    <3> QED
      BY <1>3, <3>1
  <2>2. PICK f : Is(f, m - 1)
    BY <2>1
  <2>3. f[m - 1] \in S /\ <<f[m - 1], m>> \in S \X (1..n)
    BY <1>4, <1>6, <2>2
  <2> DEFINE g == [k \in 0..m |-> IF k = m THEN step[<<f[m - 1], m>>] ELSE f[k]]
  <2>4. g \in [0..m -> S] /\ g[0] = a /\ \A k \in 0..(m - 1) : g[k] = f[k]
    BY <1>4, <1>6, <2>2, <2>3
  <2>5. g[m] = step[<<g[m - 1], m>>]
    <3>1. m \in 0..m /\ m - 1 \in 0..(m - 1)
      BY <1>4, <1>6
    <3>2. g[m] = step[<<f[m - 1], m>>]
      BY <3>1
    <3> HIDE DEF g
    <3> QED
      BY <2>4, <3>1, <3>2
  <2>6. ASSUME NEW k \in 1..m, k # m
        PROVE  g[k] = step[<<g[k - 1], k>>]
    <3>1. k \in 1..(m - 1) /\ k - 1 \in 0..(m - 1) /\ k \in 0..(m - 1)
      BY <1>4, <2>6
    <3> QED
      BY <2>2, <2>4, <3>1
  <2> HIDE DEF g
  <2>7. Is(g, m)
    BY <2>4, <2>5, <2>6
  <2> QED
    BY <1>4, <2>7
<1> QED
  BY <1>5, <1>6

\* f and g begin alike and are made by the same steps.
Alike(f, g, n) == f[0] = g[0] /\ \A k \in 1..n : f[k - 1] = g[k - 1] => f[k] = g[k]

\* There is but one.
LEMMA RecursionUnique ==
  ASSUME NEW n \in Nat, NEW f, NEW g, Alike(f, g, n)
  PROVE  \A k \in 0..n : f[k] = g[k]
<1> DEFINE N == {k \in 0..n : f[k] # g[k]}
<1>1. SUFFICES ASSUME N # {} PROVE FALSE
  OBVIOUS
<1>2. PICK k \in N : \A l \in N : k <= l
  <2>1. N \in SUBSET Nat
    OBVIOUS
  <2> QED
    BY <1>1, <2>1, LeastOfNats
<1>3. k \in 1..n /\ k - 1 \in 0..n /\ ~(k <= k - 1)
  BY <1>2 DEF Alike
<1> QED
  BY <1>2, <1>3 DEF Alike

(***************************************************************************)
(* Sums.                                                                   *)
(***************************************************************************)
\* What adds up the numbers f[1], f[2], ..., f[n].
AddsUp(g, f, n) == g[0] = 0 /\ \A k \in 1..n : f[k] \in Nat /\ g[k] = g[k - 1] + f[k]

\* A function that adds up is the sum.
LEMMA SumToIs ==
  ASSUME NEW n \in Nat, NEW f, NEW g, AddsUp(g, f, n)
  PROVE  SumTo(f, n) = g[n] /\ g[n] \in Nat
<1> DEFINE step == [x \in Nat \X (1..n) |-> x[1] + f[x[2]]]
           Sums(h) == h = [k \in 0..n |-> IF k = 0 THEN 0 ELSE h[k - 1] + f[k]]
           c == CHOOSE h : Sums(h)
<1>1. IsStep(step, n, Nat)
  BY DEF IsStep, AddsUp
<1>2. PICK h : Iterates(h, n, Nat, 0, step)
  <2> HIDE DEF step
  <2> QED
    BY <1>1, RecursionExists
<1>3. \A k \in 1..n : h[k] = h[k - 1] + f[k]
  <2> TAKE k \in 1..n
  <2>1. k - 1 \in 0..n /\ h[k - 1] \in Nat /\ <<h[k - 1], k>> \in Nat \X (1..n)
    BY <1>2 DEF Iterates
  <2> QED
    BY <1>2, <2>1 DEF Iterates
<1>4. Sums(h)
  <2>1. \A k \in 0..n : h[k] = IF k = 0 THEN 0 ELSE h[k - 1] + f[k]
    BY <1>2, <1>3 DEF Iterates
  <2>2. h = [k \in 0..n |-> h[k]]
    BY <1>2 DEF Iterates
  <2> QED
    BY <2>1, <2>2
<1>5. Sums(c)
  BY <1>4
<1>6. SumTo(f, n) = c[n]
  BY DEF SumTo
<1> HIDE DEF c, step
<1>7. c[0] = 0 /\ \A k \in 1..n : c[k] = c[k - 1] + f[k]
  <2>1. \A k \in 0..n : c[k] = IF k = 0 THEN 0 ELSE c[k - 1] + f[k]
    BY <1>5
  <2> QED
    BY <2>1
<1> HIDE DEF Sums
<1>8. c[n] = h[n] /\ g[n] = h[n]
  <2>1. Alike(c, h, n)
    BY <1>2, <1>3, <1>7 DEF Iterates, Alike
  <2>2. Alike(g, h, n)
    BY <1>2, <1>3 DEF Iterates, Alike, AddsUp
  <2>3. \A k \in 0..n : c[k] = h[k]
    BY <2>1, RecursionUnique
  <2>4. \A k \in 0..n : g[k] = h[k]
    BY <2>2, RecursionUnique
  <2> QED
    BY <2>3, <2>4
<1> QED
  BY <1>2, <1>6, <1>8 DEF Iterates

\* A sum begins at zero and grows by one term.
LEMMA SumToFacts ==
  ASSUME NEW m \in Nat, NEW f, \A k \in 1..m : f[k] \in Nat
  PROVE  /\ SumTo(f, 0) = 0
         /\ \A n \in 0..m : SumTo(f, n) \in Nat
         /\ \A n \in 1..m : SumTo(f, n) = SumTo(f, n - 1) + f[n]
<1> DEFINE step == [x \in Nat \X (1..m) |-> x[1] + f[x[2]]]
<1>1. IsStep(step, m, Nat)
  BY DEF IsStep
<1>2. PICK g : Iterates(g, m, Nat, 0, step)
  <2> HIDE DEF step
  <2> QED
    BY <1>1, RecursionExists
<1>3. \A k \in 1..m : g[k] = g[k - 1] + f[k]
  <2> TAKE k \in 1..m
  <2>1. k - 1 \in 0..m /\ g[k - 1] \in Nat /\ <<g[k - 1], k>> \in Nat \X (1..m)
    BY <1>2 DEF Iterates
  <2> QED
    BY <1>2, <2>1 DEF Iterates
<1> HIDE DEF step
<1>4. \A n \in 0..m : SumTo(f, n) = g[n]
  <2> TAKE n \in 0..m
  <2>1. n \in Nat /\ \A k \in 1..n : k \in 1..m
    OBVIOUS
  <2>2. AddsUp(g, f, n)
    BY <1>2, <1>3, <2>1 DEF Iterates, AddsUp
  <2> QED
    BY <2>1, <2>2, SumToIs
<1>5. \A n \in 1..m : n \in 0..m /\ n - 1 \in 0..m
  OBVIOUS
<1> QED
  BY <1>2, <1>3, <1>4, <1>5 DEF Iterates

\* It never falls, and is no less than a term.
LEMMA SumToGrows ==
  ASSUME NEW m \in Nat, NEW f, \A k \in 1..m : f[k] \in Nat,
         NEW j \in 0..m, NEW k \in 0..m, j <= k
  PROVE  SumTo(f, j) <= SumTo(f, k)
<1> DEFINE T == {l \in 0..m : j <= l => SumTo(f, j) <= SumTo(f, l)}
<1>1. ASSUME NEW l \in 1..m, l - 1 \in T
      PROVE  l \in T
  <2>1. l \in 0..m /\ l - 1 \in 0..m /\ SumTo(f, l) = SumTo(f, l - 1) + f[l] /\ f[l] \in Nat
    BY SumToFacts
  <2>2. SumTo(f, l) \in Nat /\ SumTo(f, l - 1) \in Nat /\ SumTo(f, j) \in Nat
    BY <2>1, SumToFacts
  <2> QED
    BY <1>1, <2>1, <2>2
<1>2. 0 \in T
  BY SumToFacts
<1> HIDE DEF T
<1>3. k \in T
  BY <1>1, <1>2, Stepwise DEF IsStepwise
<1> QED
  BY <1>3 DEF T

LEMMA TermBelowSum ==
  ASSUME NEW m \in Nat, NEW f, \A k \in 1..m : f[k] \in Nat, NEW k \in 1..m
  PROVE  f[k] <= SumTo(f, m) /\ (SumTo(f, m) <= 0 => f[k] = 0)
<1>1. SumTo(f, k) = SumTo(f, k - 1) + f[k] /\ k \in 0..m /\ k - 1 \in 0..m /\ m \in 0..m
  BY SumToFacts
<1>2. SumTo(f, k) \in Nat /\ SumTo(f, k - 1) \in Nat /\ SumTo(f, m) \in Nat /\ f[k] \in Nat
  BY <1>1, SumToFacts
<1>3. SumTo(f, k) <= SumTo(f, m)
  BY <1>1, SumToGrows
<1> QED
  BY <1>1, <1>2, <1>3

\* Smaller terms have a smaller sum.
LEMMA SumToBelow ==
  ASSUME NEW m \in Nat, NEW f, NEW g,
         \A k \in 1..m : f[k] \in Nat /\ g[k] \in Nat /\ f[k] <= g[k]
  PROVE  \A k \in 0..m : SumTo(f, k) <= SumTo(g, k)
<1> DEFINE T == {l \in 0..m : SumTo(f, l) <= SumTo(g, l)}
<1>1. ASSUME NEW l \in 1..m, l - 1 \in T
      PROVE  l \in T
  <2>1. /\ l \in 0..m /\ l - 1 \in 0..m /\ f[l] \in Nat /\ g[l] \in Nat /\ f[l] <= g[l]
        /\ SumTo(f, l) = SumTo(f, l - 1) + f[l] /\ SumTo(g, l) = SumTo(g, l - 1) + g[l]
    BY SumToFacts
  <2>2. SumTo(f, l - 1) \in Nat /\ SumTo(g, l - 1) \in Nat
    BY <2>1, SumToFacts
  <2> QED
    BY <1>1, <2>1, <2>2
<1>2. 0 \in T
  BY SumToFacts
<1> HIDE DEF T
<1>3. \A k \in 0..m : k \in T
  BY <1>1, <1>2, Stepwise DEF IsStepwise
<1> QED
  BY <1>3 DEF T

\* The same terms have the same sum.
LEMMA SumToSame ==
  ASSUME NEW m \in Nat, NEW f, NEW g, \A k \in 1..m : f[k] \in Nat /\ g[k] = f[k]
  PROVE  \A k \in 0..m : SumTo(g, k) = SumTo(f, k)
<1>1. \A k \in 0..m : SumTo(f, k) <= SumTo(g, k) /\ SumTo(g, k) <= SumTo(f, k)
  BY SumToBelow
<1>2. \A k \in 0..m : SumTo(f, k) \in Nat /\ SumTo(g, k) \in Nat
  BY SumToFacts
<1> QED
  BY <1>1, <1>2

\* Every number up to a sum is in the range of one term.
LEMMA PlaceInSum ==
  ASSUME NEW m \in Nat, NEW f, \A k \in 1..m : f[k] \in Nat, NEW j \in 1..SumTo(f, m)
  PROVE  \E k \in 1..m : \E x \in 1..f[k] : j = SumTo(f, k - 1) + x
<1> DEFINE S == {k \in 0..m : j <= SumTo(f, k)}
<1>1. m \in S /\ j \in Nat /\ j >= 1
  BY SumToFacts
<1>2. PICK k \in S : \A l \in S : k <= l
  <2>1. S \in SUBSET Nat
    OBVIOUS
  <2> QED
    BY <1>1, <2>1, LeastOfNats
<1>3. k \in 1..m /\ k - 1 \in 0..m /\ k - 1 \notin S
  BY <1>1, <1>2, SumToFacts
<1>4. SumTo(f, k) = SumTo(f, k - 1) + f[k] /\ SumTo(f, k - 1) \in Nat /\ f[k] \in Nat
  BY <1>3, SumToFacts
<1>5. SumTo(f, k - 1) < j /\ j <= SumTo(f, k)
  BY <1>1, <1>2, <1>3, <1>4
<1> DEFINE x == j - SumTo(f, k - 1)
<1>6. x \in 1..f[k] /\ j = SumTo(f, k - 1) + x
  BY <1>1, <1>4, <1>5
<1> QED
  BY <1>3, <1>6

(***************************************************************************)
(* Sequences of sequences, one after the other.                            *)
(***************************************************************************)
Lengths(ss) == [k \in 1..Len(ss) |-> Len(ss[k])]
EndOf(ss, k) == SumTo(Lengths(ss), k)

\* Where each one ends.
LEMMA EndFacts ==
  ASSUME NEW S, NEW ss \in Seq(Seq(S))
  PROVE  /\ Len(ss) \in Nat /\ EndOf(ss, 0) = 0 /\ \A k \in 0..Len(ss) : EndOf(ss, k) \in Nat
         /\ \A k \in 1..Len(ss) : /\ EndOf(ss, k) = EndOf(ss, k - 1) + Len(ss[k])
                                  /\ ss[k] \in Seq(S) /\ Len(ss[k]) \in Nat
         /\ \A j, k \in 0..Len(ss) : j <= k => EndOf(ss, j) <= EndOf(ss, k)
<1>1. Len(ss) \in Nat /\ \A k \in 1..Len(ss) : ss[k] \in Seq(S) /\ Len(ss[k]) \in Nat
  OBVIOUS
<1>2. \A k \in 1..Len(ss) : Lengths(ss)[k] \in Nat /\ Lengths(ss)[k] = Len(ss[k])
  BY <1>1 DEF Lengths
<1>3. \A j, k \in 0..Len(ss) : j <= k => EndOf(ss, j) <= EndOf(ss, k)
  BY <1>1, <1>2, SumToGrows DEF EndOf
<1>4. /\ EndOf(ss, 0) = 0 /\ \A k \in 0..Len(ss) : EndOf(ss, k) \in Nat
      /\ \A k \in 1..Len(ss) : EndOf(ss, k) = EndOf(ss, k - 1) + Lengths(ss)[k]
  BY <1>1, <1>2, SumToFacts DEF EndOf
<1> QED
  BY <1>1, <1>2, <1>3, <1>4

\* Element x of sequence k comes x places after the end of the one before, and
\* there are no others.
LEMMA FlattenFacts ==
  ASSUME NEW S, NEW ss \in Seq(Seq(S))
  PROVE  /\ FlattenSeq(ss) \in Seq(S) /\ Len(FlattenSeq(ss)) = EndOf(ss, Len(ss))
         /\ \A k \in 1..Len(ss) : \A x \in 1..Len(ss[k]) :
              /\ EndOf(ss, k - 1) + x \in 1..Len(FlattenSeq(ss))
              /\ FlattenSeq(ss)[EndOf(ss, k - 1) + x] = ss[k][x]
         /\ \A j \in 1..Len(FlattenSeq(ss)) :
              \E k \in 1..Len(ss) : \E x \in 1..Len(ss[k]) : j = EndOf(ss, k - 1) + x
<1>0. PICK n \in Nat : n = Len(ss)
  BY EndFacts
<1> DEFINE Flat(h) == h = [i \in 1..n |-> IF i = 1 THEN ss[i] ELSE h[i - 1] \o ss[i]]
           c == CHOOSE h : Flat(h)
<1>1. n \in Nat /\ \A k \in 1..n : ss[k] \in Seq(S) /\ Len(ss[k]) \in Nat
  <2>1. \A k \in 1..Len(ss) : ss[k] \in Seq(S) /\ Len(ss[k]) \in Nat
    BY EndFacts
  <2> QED
    BY <1>0, <2>1
<1>a. /\ EndOf(ss, 0) = 0 /\ \A k \in 0..n : EndOf(ss, k) \in Nat
      /\ \A k \in 1..n : EndOf(ss, k) = EndOf(ss, k - 1) + Len(ss[k])
  <2>1. /\ EndOf(ss, 0) = 0 /\ \A k \in 0..Len(ss) : EndOf(ss, k) \in Nat
        /\ \A k \in 1..Len(ss) : EndOf(ss, k) = EndOf(ss, k - 1) + Len(ss[k])
    BY EndFacts
  <2> QED
    BY <1>0, <2>1
<1>2. \A j \in 1..EndOf(ss, n) :
        \E k \in 1..n : \E x \in 1..Len(ss[k]) : j = EndOf(ss, k - 1) + x
  <2>1. \A k \in 1..n : Lengths(ss)[k] = Len(ss[k]) /\ Lengths(ss)[k] \in Nat
    BY <1>0, <1>1 DEF Lengths
  <2>2. \A j \in 1..SumTo(Lengths(ss), n) :
          \E k \in 1..n : \E x \in 1..Lengths(ss)[k] : j = SumTo(Lengths(ss), k - 1) + x
    BY <1>1, <2>1, PlaceInSum
  <2> QED
    BY <2>1, <2>2 DEF EndOf
<1>3. CASE n = 0
  <2>0. Len(ss) = 0 /\ EndOf(ss, 0) = 0
    BY <1>0, <1>3, <1>a
  <2>1. ss = << >>
    BY <2>0
  <2>2. FlattenSeq(ss) = << >>
    BY <2>0, <2>1 DEF FlattenSeq
  <2>3. FlattenSeq(ss) \in Seq(S) /\ Len(FlattenSeq(ss)) = 0 /\ EndOf(ss, Len(ss)) = 0
    BY <2>0, <2>2
  <2> QED
    BY <2>0, <2>3
<1>4. CASE n # 0
  <2> DEFINE step == [x \in Seq(S) \X (1..n) |-> x[1] \o ss[x[2]]]
  <2> HIDE DEF Flat, c
  <2>1. IsStep(step, n, Seq(S))
    BY <1>1 DEF IsStep
  <2>2. PICK f : Iterates(f, n, Seq(S), << >>, step)
    <3> HIDE DEF step
    <3> QED
      BY <2>1, EmptySeq, RecursionExists
  <2>3. \A k \in 1..n : f[k - 1] \in Seq(S) /\ f[k] = f[k - 1] \o ss[k]
    <3> TAKE k \in 1..n
    <3>0. k - 1 \in 0..n
      OBVIOUS
    <3>1. f[k - 1] \in Seq(S) /\ f[k] = step[<<f[k - 1], k>>]
      BY <2>2, <3>0 DEF Iterates
    <3> QED
      BY <3>1
  <2>4. f[1] = ss[1]
    <3>1. 1 \in 1..n /\ 1 - 1 = 0
      BY <1>4
    <3>2. f[1] = f[0] \o ss[1] /\ f[0] = << >> /\ ss[1] \in Seq(S)
      BY <1>1, <2>2, <2>3, <3>1 DEF Iterates
    <3> QED
      BY <3>2
  <2>5. Flat([i \in 1..n |-> f[i]])
    <3>1. \A i \in 1..n : f[i] = IF i = 1 THEN ss[i] ELSE f[i - 1] \o ss[i]
      BY <2>3, <2>4
    <3>2. \A i \in 1..n : i # 1 => i - 1 \in 1..n
      OBVIOUS
    <3> QED
      BY <3>1, <3>2 DEF Flat
  <2>6. Flat(c)
    BY <2>5 DEF c
  <2>7. FlattenSeq(ss) = c[n]
    BY <1>0, <1>4 DEF FlattenSeq, c, Flat
  <2> HIDE DEF step
  <2>8. c[1] = ss[1] /\ \A k \in 2..n : c[k] = c[k - 1] \o ss[k]
    <3>1. \A i \in 1..n : c[i] = IF i = 1 THEN ss[i] ELSE c[i - 1] \o ss[i]
      BY <2>6 DEF Flat
    <3>2. 1 \in 1..n /\ \A k \in 2..n : k \in 1..n /\ k # 1
      BY <1>4
    <3> QED
      BY <3>1, <3>2
  <2> DEFINE Holds(k) == /\ c[k] \in Seq(S) /\ Len(c[k]) = EndOf(ss, k)
                         /\ \A l \in 1..k : \A x \in 1..Len(ss[l]) :
                              /\ EndOf(ss, l - 1) + x \in 1..EndOf(ss, k)
                              /\ c[k][EndOf(ss, l - 1) + x] = ss[l][x]
             T == {k \in 0..n : k = 0 \/ Holds(k)}
  <2>9. ASSUME NEW k \in 1..n, k - 1 \in T
        PROVE  Holds(k)
    <3>1. /\ EndOf(ss, k) = EndOf(ss, k - 1) + Len(ss[k]) /\ ss[k] \in Seq(S)
          /\ EndOf(ss, k) \in Nat /\ EndOf(ss, k - 1) \in Nat /\ EndOf(ss, 0) = 0
      BY <1>1, <1>a
    <3>2. CASE k = 1
      BY <2>8, <3>1, <3>2
    <3>3. CASE k # 1
      <4>1. k \in 2..n /\ k - 1 \in 1..n /\ Holds(k - 1)
        BY <2>9, <3>3
      <4>2. c[k] = c[k - 1] \o ss[k]
        BY <2>8, <4>1
      <4>a. c[k - 1] \in Seq(S) /\ Len(c[k - 1]) = EndOf(ss, k - 1)
        BY <4>1
      <4>3. /\ c[k] \in Seq(S) /\ Len(c[k]) = EndOf(ss, k)
            /\ \A x \in 1..EndOf(ss, k - 1) : c[k][x] = c[k - 1][x]
            /\ \A x \in 1..Len(ss[k]) : c[k][EndOf(ss, k - 1) + x] = ss[k][x]
        <5>1. /\ c[k - 1] \o ss[k] \in Seq(S)
              /\ Len(c[k - 1] \o ss[k]) = EndOf(ss, k - 1) + Len(ss[k])
              /\ \A x \in 1..EndOf(ss, k - 1) : (c[k - 1] \o ss[k])[x] = c[k - 1][x]
              /\ \A x \in 1..Len(ss[k]) : (c[k - 1] \o ss[k])[EndOf(ss, k - 1) + x] = ss[k][x]
          <6>1. PICK a \in Seq(S) : a = c[k - 1]
            BY <4>a
          <6>2. PICK b \in Seq(S) : b = ss[k]
            BY <3>1
          <6>3. /\ a \o b \in Seq(S) /\ Len(a \o b) = Len(a) + Len(b)
                /\ \A x \in 1..Len(a) : (a \o b)[x] = a[x]
                /\ \A x \in 1..Len(b) : (a \o b)[Len(a) + x] = b[x]
            OBVIOUS
          <6> QED
            BY <4>a, <6>1, <6>2, <6>3
        <5> QED
          BY <3>1, <4>2, <5>1
      <4>4. ASSUME NEW l \in 1..k, NEW x \in 1..Len(ss[l])
            PROVE  /\ EndOf(ss, l - 1) + x \in 1..EndOf(ss, k)
                   /\ c[k][EndOf(ss, l - 1) + x] = ss[l][x]
        <5>1. CASE l = k
          BY <3>1, <4>3, <4>4, <5>1
        <5>2. CASE l # k
          <6>1. l \in 1..(k - 1)
            BY <5>2
          <6>2. /\ EndOf(ss, l - 1) + x \in 1..EndOf(ss, k - 1)
                /\ c[k - 1][EndOf(ss, l - 1) + x] = ss[l][x]
            BY <4>1, <4>4, <6>1
          <6> QED
            <7>1. EndOf(ss, l - 1) + x \in 1..EndOf(ss, k)
              BY <1>1, <3>1, <6>2
            <7> QED
              BY <4>3, <6>2, <7>1
        <5> QED
          BY <5>1, <5>2
      <4> QED
        BY <4>3, <4>4
    <3> QED
      BY <3>2, <3>3
  <2> HIDE DEF Holds
  <2>10. 0 \in T /\ \A k \in 1..n : k - 1 \in T => k \in T
    BY <1>1, <2>9
  <2> HIDE DEF T
  <2>11. n \in T
    <3>1. IsStepwise(T, n) /\ n \in 0..n
      BY <2>10 DEF IsStepwise
    <3> QED
      BY <3>1, Stepwise
  <2>12. Holds(n)
    BY <1>4, <2>11 DEF T
  <2> QED
    BY <1>0, <1>2, <2>7, <2>12 DEF Holds
<1> QED
  BY <1>3, <1>4

\* The elements are those of the sequences.
LEMMA FlattenRange ==
  ASSUME NEW S, NEW ss \in Seq(Seq(S))
  PROVE  Range(FlattenSeq(ss)) = UNION {Range(ss[k]) : k \in 1..Len(ss)}
<1> DEFINE f == FlattenSeq(ss)
<1>1. f \in Seq(S) /\ DOMAIN f = 1..Len(f)
  BY FlattenFacts
<1>2. \A k \in 1..Len(ss) : DOMAIN ss[k] = 1..Len(ss[k])
  BY EndFacts
<1>3. ASSUME NEW k \in 1..Len(ss), NEW x \in 1..Len(ss[k])
      PROVE  ss[k][x] \in Range(f)
  <2>1. EndOf(ss, k - 1) + x \in 1..Len(f) /\ f[EndOf(ss, k - 1) + x] = ss[k][x]
    BY FlattenFacts
  <2> HIDE DEF f
  <2> QED
    BY <1>1, <2>1 DEF Range
<1>4. ASSUME NEW j \in 1..Len(f)
      PROVE  \E k \in 1..Len(ss) : f[j] \in Range(ss[k])
  <2>0. PICK k \in 1..Len(ss) : \E x \in 1..Len(ss[k]) : j = EndOf(ss, k - 1) + x
    BY FlattenFacts
  <2>1. PICK x \in 1..Len(ss[k]) : j = EndOf(ss, k - 1) + x
    BY <2>0
  <2>2. f[j] = ss[k][x]
    BY <2>1, FlattenFacts
  <2> QED
    BY <1>2, <2>2 DEF Range
<1> HIDE DEF f
<1>5. ASSUME NEW p \in Range(f)
      PROVE  \E k \in 1..Len(ss) : p \in Range(ss[k])
  <2>1. PICK j \in 1..Len(f) : p = f[j]
    BY <1>1, <1>5 DEF Range
  <2> QED
    BY <1>4, <2>1
<1>6. ASSUME NEW k \in 1..Len(ss), NEW p \in Range(ss[k])
      PROVE  p \in Range(f)
  <2>1. PICK x \in 1..Len(ss[k]) : p = ss[k][x]
    BY <1>2, <1>6 DEF Range
  <2> QED
    BY <1>3, <2>1
<1> QED
  BY <1>5, <1>6 DEF f

\* What is in different places of one sequence, and in different sequences, is in
\* different places of all of them.
LEMMA FlattenInjective ==
  ASSUME NEW S, NEW ss \in Seq(Seq(S)), \A k \in 1..Len(ss) : IsInjective(ss[k]),
         \A k, l \in 1..Len(ss) : k # l => Range(ss[k]) \cap Range(ss[l]) = {}
  PROVE  IsInjective(FlattenSeq(ss))
<1> DEFINE f == FlattenSeq(ss)
<1>c. /\ f \in Seq(S)
      /\ \A m \in 1..Len(ss) : \A z \in 1..Len(ss[m]) : f[EndOf(ss, m - 1) + z] = ss[m][z]
      /\ \A j \in 1..Len(f) :
           \E k \in 1..Len(ss) : \E x \in 1..Len(ss[k]) : j = EndOf(ss, k - 1) + x
  <2> HIDE DEF f
  <2> QED
    BY FlattenFacts DEF f
<1> HIDE DEF f
<1>1. DOMAIN f = 1..Len(f) /\ \A k \in 1..Len(ss) : DOMAIN ss[k] = 1..Len(ss[k])
  BY <1>c, EndFacts
<1>2. SUFFICES ASSUME NEW i \in 1..Len(f), NEW j \in 1..Len(f), f[i] = f[j]
               PROVE  i = j
  BY <1>1 DEF IsInjective, f
<1>a. PICK k \in 1..Len(ss) : \E x \in 1..Len(ss[k]) : i = EndOf(ss, k - 1) + x
  BY <1>c
<1>b. PICK l \in 1..Len(ss) : \E y \in 1..Len(ss[l]) : j = EndOf(ss, l - 1) + y
  BY <1>c
<1>3. PICK x \in 1..Len(ss[k]) : i = EndOf(ss, k - 1) + x
  BY <1>a
<1>4. PICK y \in 1..Len(ss[l]) : j = EndOf(ss, l - 1) + y
  BY <1>b
<1> HIDE DEF f
<1>5. f[i] = ss[k][x] /\ f[j] = ss[l][y]
  BY <1>c, <1>3, <1>4
<1>6. ss[k][x] \in Range(ss[k]) /\ ss[k][x] \in Range(ss[l])
  BY <1>1, <1>2, <1>5 DEF Range
<1>7. k = l
  BY <1>6
<1>8. x = y
  BY <1>1, <1>2, <1>5, <1>7 DEF IsInjective
<1> QED
  BY <1>3, <1>4, <1>7, <1>8

\* Sequences of pixels of one bin each, of the bins after b, one after another.
InBins(all, ss, b) ==
  \A k \in 1..Len(ss) : \A x \in 1..Len(ss[k]) : BinIn(all, ss[k][x]) = b + k
OrderedIn(all, pix, b, n) ==
  InOrder(all, pix) /\ \A j \in 1..Len(pix) : \E k \in 1..n : BinIn(all, pix[j]) = b + k

LEMMA FlattenInOrder ==
  ASSUME NEW all, NEW S, NEW ss \in Seq(Seq(S)), NEW b \in Int, InBins(all, ss, b)
  PROVE  OrderedIn(all, FlattenSeq(ss), b, Len(ss))
<1> DEFINE f == FlattenSeq(ss)
<1>1. ASSUME NEW j \in 1..Len(f)
      PROVE  \E k \in 1..Len(ss) : /\ BinIn(all, f[j]) = b + k
                                   /\ EndOf(ss, k - 1) < j /\ j <= EndOf(ss, k)
  <2>0. PICK k \in 1..Len(ss) : \E x \in 1..Len(ss[k]) : j = EndOf(ss, k - 1) + x
    BY FlattenFacts
  <2>1. PICK x \in 1..Len(ss[k]) : j = EndOf(ss, k - 1) + x
    BY <2>0
  <2>2. f[j] = ss[k][x]
    BY <2>1, FlattenFacts
  <2>3. /\ EndOf(ss, k) = EndOf(ss, k - 1) + Len(ss[k]) /\ Len(ss[k]) \in Nat
        /\ k - 1 \in 0..Len(ss)
    BY EndFacts
  <2>4. EndOf(ss, k - 1) \in Nat
    BY <2>3, EndFacts
  <2>5. EndOf(ss, k - 1) < j /\ j <= EndOf(ss, k)
    BY <2>1, <2>3, <2>4
  <2>6. BinIn(all, ss[k][x]) = b + k
    BY DEF InBins
  <2> QED
    BY <2>2, <2>5, <2>6
<1>2. ASSUME NEW i \in 1..Len(f), NEW j \in 1..Len(f), i <= j
      PROVE  BinIn(all, f[i]) <= BinIn(all, f[j])
  <2>1. PICK k \in 1..Len(ss) : /\ BinIn(all, f[i]) = b + k
                                /\ EndOf(ss, k - 1) < i /\ i <= EndOf(ss, k)
    BY <1>1
  <2>2. PICK l \in 1..Len(ss) : /\ BinIn(all, f[j]) = b + l
                                /\ EndOf(ss, l - 1) < j /\ j <= EndOf(ss, l)
    BY <1>1
  <2>3. k - 1 \in 0..Len(ss) /\ l \in 0..Len(ss) /\ i \in Nat /\ j \in Nat /\ k \in Nat /\ l \in Nat
    BY EndFacts
  <2>4. EndOf(ss, k - 1) \in Nat /\ EndOf(ss, l) \in Nat
    BY <2>3, EndFacts
  <2>5. ~(l <= k - 1)
    <3>1. l <= k - 1 => EndOf(ss, l) <= EndOf(ss, k - 1)
      BY <2>3, EndFacts
    <3> QED
      BY <1>2, <2>1, <2>2, <2>3, <2>4, <3>1
  <2> QED
    BY <2>1, <2>2, <2>3, <2>5
<1> HIDE DEF f
<1>3. InOrder(all, f)
  BY <1>2 DEF InOrder
<1>4. \A j \in 1..Len(f) : \E k \in 1..Len(ss) : BinIn(all, f[j]) = b + k
  BY <1>1
<1> QED
  BY <1>3, <1>4 DEF f, OrderedIn

(***************************************************************************)
(* The input of a reader.                                                  *)
(***************************************************************************)
IsInput(npix) ==
  /\ npix \in Seq(Seq(Nat)) /\ Len(npix) \in Nat \ {0}
  /\ \A i \in 1..Len(npix) : Len(npix[i]) = NumBins

\* A row of numbers is a sequence; its total is no less than each of them.
LEMMA TotalFacts ==
  ASSUME NEW n \in Nat, NEW s \in [1..n -> Nat]
  PROVE  /\ s \in Seq(Nat) /\ Len(s) = n /\ Total(s) = SumTo(s, n) /\ Total(s) \in Nat
         /\ \A k \in 1..n : s[k] <= Total(s) /\ (Total(s) <= 0 => s[k] = 0)
<1>1. s \in Seq(Nat) /\ Len(s) = n
  OBVIOUS
<1>2. Total(s) = SumTo(s, n)
  BY <1>1 DEF Total
<1>3. n \in 0..n /\ \A k \in 1..n : s[k] \in Nat
  OBVIOUS
<1>4. SumTo(s, n) \in Nat
  BY <1>3, SumToFacts
<1>5. \A k \in 1..n : s[k] <= SumTo(s, n) /\ (SumTo(s, n) <= 0 => s[k] = 0)
  BY <1>3, TermBelowSum
<1> QED
  BY <1>1, <1>2, <1>4, <1>5

\* Smaller rows have a smaller total.
LEMMA TotalBelow ==
  ASSUME NEW n \in Nat, NEW s \in [1..n -> Nat], NEW t \in [1..n -> Nat],
         \A k \in 1..n : s[k] <= t[k]
  PROVE  Total(s) <= Total(t)
<1>1. n \in 0..n /\ \A k \in 1..n : s[k] \in Nat /\ t[k] \in Nat /\ s[k] <= t[k]
  OBVIOUS
<1>2. SumTo(s, n) <= SumTo(t, n)
  BY <1>1, SumToBelow
<1> QED
  BY <1>2, TotalFacts

\* What is taken off a row is taken off its total.
LEMMA TotalMinus ==
  ASSUME NEW n \in Nat, NEW s \in [1..n -> Nat], NEW t \in [1..n -> Nat],
         \A k \in 1..n : s[k] <= t[k]
  PROVE  /\ [k \in 1..n |-> t[k] - s[k]] \in [1..n -> Nat]
         /\ Total([k \in 1..n |-> t[k] - s[k]]) = Total(t) - Total(s)
<1> DEFINE d == [k \in 1..n |-> t[k] - s[k]]
           T == {k \in 0..n : SumTo(d, k) = SumTo(t, k) - SumTo(s, k)}
<1>1. d \in [1..n -> Nat]
  OBVIOUS
<1>2. \A k \in 1..n : s[k] \in Nat /\ t[k] \in Nat /\ d[k] \in Nat /\ d[k] = t[k] - s[k]
  OBVIOUS
<1> HIDE DEF d
<1>a. /\ SumTo(d, 0) = 0 /\ \A k \in 0..n : SumTo(d, k) \in Nat
      /\ \A k \in 1..n : SumTo(d, k) = SumTo(d, k - 1) + d[k]
  BY <1>2, SumToFacts
<1>b. /\ SumTo(t, 0) = 0 /\ \A k \in 0..n : SumTo(t, k) \in Nat
      /\ \A k \in 1..n : SumTo(t, k) = SumTo(t, k - 1) + t[k]
  BY <1>2, SumToFacts
<1>c. /\ SumTo(s, 0) = 0 /\ \A k \in 0..n : SumTo(s, k) \in Nat
      /\ \A k \in 1..n : SumTo(s, k) = SumTo(s, k - 1) + s[k]
  BY <1>2, SumToFacts
<1>3. ASSUME NEW k \in 1..n, k - 1 \in T
      PROVE  k \in T
  <2>1. k \in 0..n /\ k - 1 \in 0..n
    OBVIOUS
  <2>2. /\ SumTo(d, k) = SumTo(d, k - 1) + d[k] /\ SumTo(t, k) = SumTo(t, k - 1) + t[k]
        /\ SumTo(s, k) = SumTo(s, k - 1) + s[k]
        /\ SumTo(d, k - 1) \in Nat /\ SumTo(t, k - 1) \in Nat /\ SumTo(s, k - 1) \in Nat
    BY <1>a, <1>b, <1>c, <2>1
  <2> QED
    BY <1>2, <1>3, <2>1, <2>2
<1>4. 0 \in T
  BY <1>a, <1>b, <1>c
<1> HIDE DEF T
<1>5. n \in T
  <2>1. IsStepwise(T, n) /\ n \in 0..n
    BY <1>3, <1>4 DEF IsStepwise
  <2> QED
    BY <2>1, Stepwise
<1>6. Total(d) = SumTo(d, n) /\ Total(t) = SumTo(t, n) /\ Total(s) = SumTo(s, n)
  BY <1>1, TotalFacts
<1> QED
  BY <1>1, <1>5, <1>6 DEF T, d

\* What an input says of its rows.
LEMMA RowFacts ==
  ASSUME NEW npix, IsInput(npix), NEW b \in 1..NumBins
  PROVE  /\ DOMAIN npix = 1..Len(npix) /\ Row(npix, b) \in [1..Len(npix) -> Nat]
         /\ \A i \in 1..Len(npix) : Row(npix, b)[i] = npix[i][b] /\ npix[i][b] \in Nat
         /\ Size(npix, b) \in Nat /\ \A i \in 1..Len(npix) : npix[i][b] <= Size(npix, b)
<1>0. NumBins \in Nat
  BY JobAssumption
<1>1. DOMAIN npix = 1..Len(npix) /\ Len(npix) \in Nat
  BY DEF IsInput
<1>2. \A i \in 1..Len(npix) : npix[i] \in Seq(Nat) /\ Len(npix[i]) = NumBins
  BY DEF IsInput
<1>3. \A i \in 1..Len(npix) : npix[i][b] \in Nat
  BY <1>0, <1>2
<1>4. Row(npix, b) \in [1..Len(npix) -> Nat] /\ \A i \in 1..Len(npix) : Row(npix, b)[i] = npix[i][b]
  BY <1>1, <1>3 DEF Row
<1> QED
  BY <1>1, <1>3, <1>4, TotalFacts DEF Size

\* The pixels of the bins up to each one: of a file, and of all files.
LEMMA UpToFacts ==
  ASSUME NEW npix, IsInput(npix)
  PROVE  /\ \A i \in 1..Len(npix) :
              /\ SumTo(npix[i], 0) = 0 /\ \A b \in 0..NumBins : SumTo(npix[i], b) \in Nat
              /\ \A b \in 1..NumBins : SumTo(npix[i], b) = SumTo(npix[i], b - 1) + npix[i][b]
              /\ \A b, c \in 0..NumBins : b <= c => SumTo(npix[i], b) <= SumTo(npix[i], c)
              /\ Total(npix[i]) = SumTo(npix[i], NumBins)
         /\ SizeUpTo(npix, 0) = 0 /\ \A b \in 0..NumBins : SizeUpTo(npix, b) \in Nat
         /\ \A b \in 1..NumBins : SizeUpTo(npix, b) = SizeUpTo(npix, b - 1) + Size(npix, b)
         /\ \A b, c \in 0..NumBins : b <= c => SizeUpTo(npix, b) <= SizeUpTo(npix, c)
<1>0. NumBins \in Nat
  BY JobAssumption
<1>1. ASSUME NEW i \in 1..Len(npix)
      PROVE  npix[i] \in Seq(Nat) /\ Len(npix[i]) = NumBins
                /\ \A b \in 1..NumBins : npix[i][b] \in Nat
  BY <1>0, RowFacts DEF IsInput
<1>2. ASSUME NEW i \in 1..Len(npix)
      PROVE  /\ SumTo(npix[i], 0) = 0 /\ \A b \in 0..NumBins : SumTo(npix[i], b) \in Nat
             /\ \A b \in 1..NumBins : SumTo(npix[i], b) = SumTo(npix[i], b - 1) + npix[i][b]
             /\ \A b, c \in 0..NumBins : b <= c => SumTo(npix[i], b) <= SumTo(npix[i], c)
             /\ Total(npix[i]) = SumTo(npix[i], NumBins)
  <2>1. \A b \in 1..NumBins : npix[i][b] \in Nat
    BY <1>1
  <2>2. /\ SumTo(npix[i], 0) = 0 /\ \A b \in 0..NumBins : SumTo(npix[i], b) \in Nat
        /\ \A b \in 1..NumBins : SumTo(npix[i], b) = SumTo(npix[i], b - 1) + npix[i][b]
    BY <1>0, <2>1, SumToFacts
  <2>3. \A b, c \in 0..NumBins : b <= c => SumTo(npix[i], b) <= SumTo(npix[i], c)
    BY <1>0, <2>1, SumToGrows
  <2> QED
    BY <1>1, <2>2, <2>3 DEF Total
<1> DEFINE s == [b \in 1..NumBins |-> Size(npix, b)]
<1>3. \A b \in 1..NumBins : s[b] \in Nat /\ s[b] = Size(npix, b)
  BY RowFacts
<1>4. \A b : SizeUpTo(npix, b) = SumTo(s, b)
  BY DEF SizeUpTo
<1> HIDE DEF s
<1>5. /\ SumTo(s, 0) = 0 /\ \A b \in 0..NumBins : SumTo(s, b) \in Nat
      /\ \A b \in 1..NumBins : SumTo(s, b) = SumTo(s, b - 1) + s[b]
  BY <1>0, <1>3, SumToFacts
<1>6. \A b, c \in 0..NumBins : b <= c => SumTo(s, b) <= SumTo(s, c)
  BY <1>0, <1>3, SumToGrows
<1> QED
  BY <1>2, <1>3, <1>4, <1>5, <1>6

\* Bins that have no pixels have none of any file.
LEMMA FileWithinAll ==
  ASSUME NEW npix, IsInput(npix), NEW i \in 1..Len(npix),
         NEW b \in 0..NumBins, NEW c \in 0..NumBins, b <= c
  PROVE  SumTo(npix[i], c) - SumTo(npix[i], b) <= SizeUpTo(npix, c) - SizeUpTo(npix, b)
<1> DEFINE In(k) == SumTo(npix[i], k) - SumTo(npix[i], b) <= SizeUpTo(npix, k) - SizeUpTo(npix, b)
           T == {k \in 0..NumBins : k < b \/ In(k)}
<1>0. NumBins \in Nat
  BY JobAssumption
<1>1. In(b)
  BY UpToFacts
<1>2. ASSUME NEW k \in 1..NumBins, k - 1 \in T
      PROVE  k \in T
  <2>1. /\ SumTo(npix[i], k) = SumTo(npix[i], k - 1) + npix[i][k]
        /\ SizeUpTo(npix, k) = SizeUpTo(npix, k - 1) + Size(npix, k)
        /\ npix[i][k] <= Size(npix, k) /\ npix[i][k] \in Nat /\ Size(npix, k) \in Nat
    BY UpToFacts, RowFacts
  <2>2. k - 1 \in 0..NumBins /\ k \in 0..NumBins
    BY <1>0
  <2>3. /\ SumTo(npix[i], k - 1) \in Nat /\ SizeUpTo(npix, k - 1) \in Nat
        /\ SumTo(npix[i], b) \in Nat /\ SizeUpTo(npix, b) \in Nat
    BY <2>2, UpToFacts
  <2>4. In(k - 1) => In(k)
    BY <2>1, <2>3, SMTT(30)
  <2>5. k < b \/ k = b \/ ~(k - 1 < b)
    BY <1>0, <2>2
  <2> HIDE DEF In
  <2> QED
    BY <1>1, <1>2, <2>2, <2>4, <2>5
<1>3. 0 \in T
  <2>1. 0 < b \/ b = 0
    OBVIOUS
  <2> HIDE DEF In
  <2> QED
    BY <1>0, <1>1, <2>1
<1> HIDE DEF T, In
<1>4. c \in T
  <2>1. IsStepwise(T, NumBins)
    BY <1>2, <1>3 DEF IsStepwise
  <2> QED
    BY <1>0, <2>1, Stepwise
<1> QED
  BY <1>4 DEF T, In

(***************************************************************************)
(* Pieces of sequences.                                                    *)
(***************************************************************************)
LEMMA FromFacts ==
  ASSUME NEW S, NEW s \in Seq(S), NEW n \in 1..(Len(s) + 1)
  PROVE  /\ From(s, n) \in Seq(S) /\ Len(From(s, n)) = Len(s) - n + 1
         /\ \A k \in 1..(Len(s) - n + 1) : From(s, n)[k] = s[n + k - 1]
<1>1. CASE n = Len(s) + 1
  BY <1>1, SubSeqProperties, EmptySeq DEF From
<1>2. CASE n # Len(s) + 1
  BY <1>2, SubSeqProperties DEF From
<1> QED
  BY <1>1, <1>2

LEMMA UpToNFacts ==
  ASSUME NEW S, NEW s \in Seq(S), NEW n \in 0..Len(s)
  PROVE  /\ SubSeq(s, 1, n) \in Seq(S) /\ Len(SubSeq(s, 1, n)) = n
         /\ \A k \in 1..n : SubSeq(s, 1, n)[k] = s[k]
<1>1. CASE n = 0
  BY <1>1, SubSeqProperties, EmptySeq
<1>2. CASE n # 0
  BY <1>2, SubSeqProperties
<1> QED
  BY <1>1, <1>2

LEMMA LessFacts ==
  ASSUME NEW s \in Seq(Int), NEW n \in Int
  PROVE  /\ Less(s, n) \in Seq(Int) /\ Len(Less(s, n)) = Len(s)
         /\ \A k \in 1..Len(s) : Less(s, n)[k] = s[k] - n
<1>1. DOMAIN s = 1..Len(s) /\ Len(s) \in Nat /\ \A k \in 1..Len(s) : s[k] \in Int
  OBVIOUS
<1>2. Less(s, n) = [k \in 1..Len(s) |-> s[k] - n]
  BY <1>1 DEF Less
<1> QED
  BY <1>1, <1>2

(***************************************************************************)
(* A step of nbin_for_pixels.                                              *)
(***************************************************************************)
\* It takes n bins, the sums of the others become less by d.
TakesBins(step, per, cum, processed, n, d) ==
  /\ n \in 1..Len(per) /\ d \in Int /\ step.read = SubSeq(per, 1, n)
  /\ step.per = From(per, n + 1) /\ step.cum = Less(From(cum, n + 1), d)
  /\ step.processed = processed + cum[n] /\ step.bins = n

\* All bins, those that fit the buffer, one larger bin, or a part of one.
LEMMA StepShape ==
  ASSUME NEW S, NEW per \in Seq(S), NEW cum \in Seq(Int), Len(cum) = Len(per), cum # << >>,
         NEW processed \in Nat, NEW buf \in Nat, buf # 0,
         \A j, k \in 1..Len(cum) : j <= k => cum[j] <= cum[k]
  PROVE  LET step == NbinForPixels(per, cum, processed, buf)
         IN  \/ /\ cum[1] <= buf
                /\ \E n \in 1..Len(per) :
                     /\ TakesBins(step, per, cum, processed, n, cum[n]) /\ cum[n] <= buf
                     /\ n # Len(per) => cum[n + 1] > buf
             \/ /\ cum[1] > buf /\ cum[1] <= 2 * buf
                /\ TakesBins(step, per, cum, processed, 1, processed + cum[1])
             \/ cum[1] > 2 * buf /\ step = PartOfBin(per, cum, processed, buf)
<1> DEFINE step == NbinForPixels(per, cum, processed, buf)
<1>1. PICK l \in Nat : l = Len(cum) /\ l = Len(per) /\ l >= 1
  BY EmptySeq
<1>2. Last(cum) = cum[l] /\ cum[l] \in Int /\ cum[1] \in Int /\ cum[1] <= cum[l]
  BY <1>1 DEF Last
<1>3. CASE cum[l] <= buf
  <2>1. step = Everything(per, cum, processed) /\ cum[1] <= buf
    BY <1>2, <1>3 DEF NbinForPixels
  <2>2. From(per, l + 1) = << >> /\ SubSeq(per, 1, l) = per
    <3>1. l + 1 \in 1..(Len(per) + 1) /\ l \in 0..Len(per)
      BY <1>1
    <3>2. From(per, l + 1) \in Seq(S) /\ Len(From(per, l + 1)) = 0
      BY <1>1, <3>1, FromFacts
    <3>3. /\ SubSeq(per, 1, l) \in Seq(S) /\ Len(SubSeq(per, 1, l)) = l
          /\ \A k \in 1..l : SubSeq(per, 1, l)[k] = per[k]
      BY <3>1, UpToNFacts
    <3>4. SubSeq(per, 1, l) = per
      <4>1. PICK a \in Seq(S) : a = SubSeq(per, 1, l)
        BY <3>3
      <4> QED
        BY <1>1, <3>3, <4>1
    <3>5. From(per, l + 1) = << >>
      BY <3>2, EmptySeq
    <3> QED
      BY <3>4, <3>5
  <2>3. Less(From(cum, l + 1), cum[l]) = << >>
    <3>1. From(cum, l + 1) \in Seq(Int) /\ Len(From(cum, l + 1)) = 0
      BY <1>1, FromFacts
    <3>2. Less(From(cum, l + 1), cum[l]) \in Seq(Int) /\ Len(Less(From(cum, l + 1), cum[l])) = 0
      BY <1>2, <3>1, LessFacts
    <3> QED
      BY <3>2, EmptySeq
  <2>4. TakesBins(step, per, cum, processed, l, cum[l])
    BY <1>1, <1>2, <2>1, <2>2, <2>3 DEF TakesBins, Everything, Step
  <2> QED
    BY <1>1, <1>3, <2>1, <2>4
<1>4. CASE cum[l] > buf /\ cum[1] <= buf
  <2> DEFINE K == {k \in DOMAIN cum : cum[k] > buf}
  <2>1. step = BinsThatFit(per, cum, processed, buf)
    BY <1>2, <1>4 DEF NbinForPixels
  <2>2. K \in SUBSET Nat /\ K # {} /\ K = {k \in 1..l : cum[k] > buf}
    BY <1>1, <1>4
  <2>3. Min(K) \in K /\ \A k \in K : Min(K) <= k
    <3> HIDE DEF K
    <3> QED
      BY <2>2, MinOfNats
  <2>4. PICK m \in K : m = Min(K)
    BY <2>3
  <2>5. m \in 2..l /\ cum[m] > buf /\ cum[m - 1] <= buf /\ cum[m - 1] \in Int
    <3>1. m \in 1..l /\ cum[m] > buf /\ m # 1
      BY <1>4, <2>2, <2>4
    <3>2. m - 1 \in 1..l /\ ~(m <= m - 1)
      BY <1>1, <3>1
    <3>3. m - 1 \notin K
      BY <2>3, <2>4, <3>2
    <3> QED
      BY <1>1, <2>2, <3>1, <3>2, <3>3
  <2> DEFINE n == m - 1
  <2>6. step = Step(SubSeq(per, 1, n), From(per, n + 1), Less(From(cum, n + 1), cum[n]),
                    processed + cum[n], n)
    BY <2>1, <2>4 DEF BinsThatFit
  <2>7. n \in 1..Len(per) /\ n + 1 = m /\ n # Len(per) /\ cum[n] \in Int
    BY <1>1, <2>5
  <2>8. TakesBins(step, per, cum, processed, n, cum[n]) /\ cum[n] <= buf /\ cum[n + 1] > buf
    <3> HIDE DEF step, n, K
    <3>1. TakesBins(step, per, cum, processed, n, cum[n])
      BY <2>6, <2>7 DEF TakesBins, Step
    <3> QED
      BY <2>5, <2>7, <3>1 DEF n
  <2> HIDE DEF step, n, K
  <2> QED
    BY <1>4, <2>7, <2>8 DEF step
<1>5. CASE cum[1] > buf /\ cum[1] <= 2 * buf
  <2>1. step = WholeBin(per, cum, processed)
    BY <1>2, <1>5 DEF NbinForPixels
  <2>2. Tail(per) = From(per, 2) /\ Tail(cum) = From(cum, 2) /\ SubSeq(per, 1, 1) = <<per[1]>>
    <3>1. Tail(per) = From(per, 2) /\ Tail(cum) = From(cum, 2)
      BY DEF From
    <3>2. /\ SubSeq(per, 1, 1) \in Seq(S) /\ Len(SubSeq(per, 1, 1)) = 1
          /\ SubSeq(per, 1, 1)[1] = per[1]
      BY <1>1, UpToNFacts
    <3>3. PICK a \in Seq(S) : a = SubSeq(per, 1, 1)
      BY <3>2
    <3>4. a = <<a[1]>>
      <4>1. /\ Len(a) = 1 /\ <<a[1]>> \in Seq(S) /\ Len(<<a[1]>>) = 1
            /\ \A i \in 1..1 : a[i] = <<a[1]>>[i]
        BY <3>2, <3>3
      <4> QED
        BY <4>1, SeqEqual
    <3> QED
      BY <3>1, <3>2, <3>3, <3>4
  <2>3. 1 \in 1..Len(per) /\ processed + cum[1] \in Int /\ 1 + 1 = 2
    BY <1>1, <1>2
  <2>4. TakesBins(step, per, cum, processed, 1, processed + cum[1])
    <3>1. step = Step(SubSeq(per, 1, 1), From(per, 1 + 1),
                      Less(From(cum, 1 + 1), processed + cum[1]), processed + cum[1], 1)
      BY <2>1, <2>2, <2>3 DEF WholeBin
    <3> HIDE DEF step
    <3> QED
      BY <2>3, <3>1 DEF TakesBins, Step
  <2> QED
    BY <1>5, <2>4
<1>6. CASE cum[1] > 2 * buf
  BY <1>2, <1>6 DEF NbinForPixels
<1> QED
  BY <1>2, <1>3, <1>4, <1>5, <1>6

\* The pixels of file i in the first n bins that are read.
FileSums(F, read, i) ==
  /\ FromFile(read, i, 0) = 0 /\ \A n \in 0..Len(read) : FromFile(read, i, n) \in Nat
  /\ \A n \in 1..Len(read) : /\ FromFile(read, i, n) = FromFile(read, i, n - 1) + read[n][i]
                             /\ read[n] \in [1..F -> Nat] /\ read[n][i] \in Nat
  /\ \A m, n \in 0..Len(read) : m <= n => FromFile(read, i, m) <= FromFile(read, i, n)

LEMMA FromFileFacts ==
  ASSUME NEW F \in Nat, NEW read \in Seq([1..F -> Nat]), NEW i \in 1..F
  PROVE  FileSums(F, read, i)
<1> DEFINE f == [b \in DOMAIN read |-> read[b][i]]
<1>1. PICK l \in Nat : l = Len(read) /\ DOMAIN read = 1..l
  OBVIOUS
<1>2. \A n \in 1..l : read[n] \in [1..F -> Nat] /\ read[n][i] \in Nat
  BY <1>1
<1>3. \A n \in 1..l : f[n] = read[n][i] /\ f[n] \in Nat
  BY <1>1, <1>2
<1>4. \A n : FromFile(read, i, n) = SumTo(f, n)
  BY DEF FromFile
<1> HIDE DEF f
<1>5. /\ SumTo(f, 0) = 0 /\ \A n \in 0..l : SumTo(f, n) \in Nat
      /\ \A n \in 1..l : SumTo(f, n) = SumTo(f, n - 1) + f[n]
  BY <1>3, SumToFacts
<1>6. \A m, n \in 0..l : m <= n => SumTo(f, m) <= SumTo(f, n)
  BY <1>3, SumToGrows
<1> QED
  BY <1>1, <1>2, <1>3, <1>4, <1>5, <1>6 DEF FileSums

\* The bin a reader is in, when it is in one.
LEMMA PlaceFacts ==
  ASSUME NEW npix, IsInput(npix), NEW end, NEW per, NEW cum, NEW processed, NEW pos,
         Section(npix, end, per, cum, processed, pos)
  PROVE  /\ Len(per) \in Nat /\ Len(cum) = Len(per) /\ end \in Nat /\ BinLeft(end, per) \in 0..NumBins
         /\ BinLeft(end, per) <= end
         /\ Len(per) # 0 =>
              /\ BinLeft(end, per) \in 1..NumBins /\ BinLeft(end, per) + Len(per) = end + 1
              /\ per[1] \in [1..Len(npix) -> Nat]
              /\ \A i \in 1..Len(npix) : per[1][i] \in Nat /\ Left(per, i) = per[1][i]
              /\ \A k \in 2..Len(per) : per[k] = Row(npix, BinLeft(end, per) + k - 1)
                                          /\ BinLeft(end, per) + k - 1 \in 1..NumBins
         /\ Len(per) = 0 =>
              BinLeft(end, per) = end /\ \A i \in 1..Len(npix) : Left(per, i) = 0
<1>1. /\ per \in Seq([1..Len(npix) -> Nat]) /\ Len(per) \in Nat /\ end \in 0..NumBins /\ end \in Nat
      /\ Len(per) <= end /\ NumBins \in Nat /\ Len(cum) = Len(per)
  BY JobAssumption DEF Section
<1>2. \A k \in 2..Len(per) : per[k] = Row(npix, end - Len(per) + k)
  BY DEF Section
<1>3. CASE Len(per) = 0
  <2>1. per = << >>
    BY <1>1, <1>3, EmptySeq
  <2>2. BinLeft(end, per) = end /\ \A i \in 1..Len(npix) : Left(per, i) = 0
    BY <2>1 DEF BinLeft, Left
  <2> QED
    BY <1>1, <1>3, <2>2
<1>4. CASE Len(per) # 0
  <2>1. per # << >>
    BY <1>4
  <2>2. BinLeft(end, per) = end - Len(per) + 1 /\ \A i \in 1..Len(npix) : Left(per, i) = per[1][i]
    BY <2>1 DEF BinLeft, Left
  <2>3. BinLeft(end, per) \in 1..NumBins /\ BinLeft(end, per) + Len(per) = end + 1
          /\ BinLeft(end, per) <= end
    BY <1>1, <1>4, <2>2
  <2>4. per[1] \in [1..Len(npix) -> Nat]
    BY <1>1, <1>4
  <2>5. ASSUME NEW k \in 2..Len(per)
        PROVE  per[k] = Row(npix, BinLeft(end, per) + k - 1) /\ BinLeft(end, per) + k - 1 \in 1..NumBins
    <3>1. BinLeft(end, per) + k - 1 = end - Len(per) + k
      BY <1>1, <2>2
    <3>2. end - Len(per) + k \in 1..NumBins
      BY <1>1
    <3> QED
      BY <1>2, <3>1, <3>2
  <2> QED
    BY <1>1, <1>4, <2>2, <2>3, <2>4, <2>5, SMTT(30)
<1> QED
  BY <1>3, <1>4

\* What is read of a file when n bins are taken.
ReadIs(npix, end, per, read, n) ==
  /\ read \in Seq([1..Len(npix) -> Nat]) /\ Len(read) = n /\ read[1] = per[1]
  /\ \A k \in 2..n : read[k] = Row(npix, BinLeft(end, per) + k - 1)
  /\ \A i \in 1..Len(npix) : \A m \in 1..n :
       FromFile(read, i, m) = per[1][i] + SumTo(npix[i], BinLeft(end, per) + m - 1)
                                - SumTo(npix[i], BinLeft(end, per))

LEMMA ReadOfBins ==
  ASSUME NEW npix, IsInput(npix), NEW end, NEW per, NEW cum, NEW processed, NEW pos,
         Section(npix, end, per, cum, processed, pos), NEW step, NEW n, NEW d,
         TakesBins(step, per, cum, processed, n, d)
  PROVE  ReadIs(npix, end, per, step.read, n)
<1> DEFINE read == step.read
           b == BinLeft(end, per)
<1>1. per \in Seq([1..Len(npix) -> Nat]) /\ Len(per) \in Nat /\ Len(npix) \in Nat
  BY DEF Section, IsInput
<1>2. n \in 1..Len(per) /\ n \in 0..Len(per) /\ n \in Nat /\ read = SubSeq(per, 1, n)
  BY <1>1 DEF TakesBins
<1> HIDE DEF read
<1>3. read \in Seq([1..Len(npix) -> Nat]) /\ Len(read) = n /\ \A k \in 1..n : read[k] = per[k]
  BY <1>1, <1>2, UpToNFacts
<1>4. /\ b \in 1..NumBins /\ \A k \in 2..n : read[k] = Row(npix, b + k - 1) /\ b + k - 1 \in 1..NumBins
      /\ b + n - 1 \in 1..NumBins /\ \A i \in 1..Len(npix) : per[1][i] \in Nat
  <2>1. /\ b \in 1..NumBins /\ b + Len(per) = end + 1 /\ end \in 0..NumBins
        /\ \A k \in 2..Len(per) : per[k] = Row(npix, b + k - 1) /\ b + k - 1 \in 1..NumBins
        /\ \A i \in 1..Len(npix) : per[1][i] \in Nat
    <3>1. Len(per) # 0 /\ end \in 0..NumBins
      BY <1>2 DEF Section
    <3> HIDE DEF b
    <3> QED
      BY <3>1, PlaceFacts DEF b
  <2>2. \A k \in 2..n : k \in 1..n /\ k \in 2..Len(per)
    BY <1>1, <1>2
  <2>3. b + n - 1 \in 1..NumBins
    BY <1>1, <1>2, <2>1, JobAssumption
  <2> HIDE DEF b
  <2> QED
    BY <1>3, <2>1, <2>2, <2>3
<1> HIDE DEF b
<1>5. ASSUME NEW i \in 1..Len(npix)
      PROVE  \A m \in 1..n : FromFile(read, i, m) = per[1][i] + SumTo(npix[i], b + m - 1)
                                                      - SumTo(npix[i], b)
  <2> DEFINE Is(m) == FromFile(read, i, m) = per[1][i] + SumTo(npix[i], b + m - 1) - SumTo(npix[i], b)
             T == {m \in 0..n : m = 0 \/ Is(m)}
  <2>a. FileSums(Len(npix), read, i)
    BY <1>1, <1>3, FromFileFacts
  <2>1. \A m \in 1..n : FromFile(read, i, m) = FromFile(read, i, m - 1) + read[m][i]
    BY <1>3, <2>a DEF FileSums
  <2>2. FromFile(read, i, 0) = 0
    BY <2>a DEF FileSums
  <2>3. SumTo(npix[i], b) \in Nat /\ b \in Nat /\ b + 1 - 1 = b
    BY <1>4, UpToFacts
  <2>4. Is(1)
    <3>1. 1 \in 1..n /\ 1 - 1 = 0
      BY <1>2
    <3>2. FromFile(read, i, 1) = per[1][i]
      BY <1>3, <1>4, <2>1, <2>2, <3>1
    <3> QED
      BY <1>4, <2>3, <3>2
  <2>5. ASSUME NEW m \in 1..n, m - 1 \in T
        PROVE  m \in T
    <3>1. CASE m = 1
      BY <2>4, <3>1
    <3>2. CASE m # 1
      <4>1. m \in 2..n /\ m - 1 # 0 /\ Is(m - 1)
        BY <2>5, <3>2
      <4>2. read[m] = Row(npix, b + m - 1) /\ b + m - 1 \in 1..NumBins
        BY <1>4, <4>1
      <4>3. read[m][i] = npix[i][b + m - 1] /\ npix[i][b + m - 1] \in Nat
        BY <4>2, RowFacts
      <4>a. b \in 1..NumBins /\ m \in Int /\ b \in Int
        BY <1>4, <2>3
      <4>4. SumTo(npix[i], b + m - 1) = SumTo(npix[i], b + m - 1 - 1) + npix[i][b + m - 1]
        <5>1. PICK c \in 1..NumBins : c = b + m - 1
          BY <4>2
        <5>2. SumTo(npix[i], c) = SumTo(npix[i], c - 1) + npix[i][c]
          BY UpToFacts
        <5> QED
          BY <4>a, <5>1, <5>2
      <4>5. b + m - 1 - 1 = b + (m - 1) - 1 /\ b + m - 1 - 1 \in 0..NumBins
        <5>1. NumBins \in Nat /\ m \in Nat /\ m >= 2
          BY <4>1, JobAssumption
        <5>2. b \in Nat /\ b >= 1
          BY <2>3, <4>a
        <5>3. b + m - 1 <= NumBins
          BY <4>2, <5>1
        <5> QED
          BY <5>1, <5>2, <5>3
      <4>6. SumTo(npix[i], b + m - 1 - 1) \in Nat
        BY <4>5, UpToFacts
      <4>7. FromFile(read, i, m - 1) = per[1][i] + SumTo(npix[i], b + m - 1 - 1) - SumTo(npix[i], b)
        BY <4>1, <4>5
      <4>8. Is(m)
        BY <1>4, <2>1, <2>3, <4>3, <4>4, <4>6, <4>7
      <4> QED
        BY <4>8
    <3> QED
      BY <3>1, <3>2
  <2>6. 0 \in T
    BY <1>2
  <2> HIDE DEF T, Is
  <2>7. \A m \in 0..n : m \in T
    <3>1. IsStepwise(T, n)
      BY <2>5, <2>6 DEF IsStepwise
    <3> QED
      BY <1>2, <3>1, Stepwise
  <2>8. \A m \in 1..n : Is(m)
    BY <2>7 DEF T
  <2> QED
    BY <2>8 DEF Is
<1> QED
  BY <1>2, <1>3, <1>4, <1>5 DEF read, b, ReadIs

\* What remains when n bins are taken.
RestIs(npix, end, per, cum, processed, step, n, d) ==
  /\ n \in 1..Len(per) /\ Len(per) \in Nat /\ d \in Int /\ processed \in Nat
  /\ step.per \in Seq([1..Len(npix) -> Nat]) /\ Len(step.per) = Len(per) - n
  /\ step.cum \in Seq(Int) /\ Len(step.cum) = Len(per) - n
  /\ step.processed = processed + cum[n] /\ \A k \in 1..Len(per) : cum[k] \in Int
  /\ \A j, k \in 1..Len(per) : j <= k => cum[j] <= cum[k]
  /\ \A k \in 1..(Len(per) - n) :
       step.per[k] = Row(npix, BinLeft(end, per) + n + k - 1) /\ step.cum[k] = cum[n + k] - d
  /\ BinLeft(end, step.per) = IF n = Len(per) THEN end ELSE BinLeft(end, per) + n

LEMMA RestOfBins ==
  ASSUME NEW npix, IsInput(npix), NEW end, NEW per, NEW cum, NEW processed, NEW pos,
         Section(npix, end, per, cum, processed, pos), NEW step, NEW n, NEW d,
         TakesBins(step, per, cum, processed, n, d)
  PROVE  RestIs(npix, end, per, cum, processed, step, n, d)
<1>1. /\ per \in Seq([1..Len(npix) -> Nat]) /\ Len(per) \in Nat /\ cum \in Seq(Int)
      /\ Len(cum) = Len(per) /\ processed \in Nat /\ end \in 0..NumBins
      /\ \A j, k \in 1..Len(per) : j <= k => cum[j] <= cum[k]
  BY DEF Section
<1>2. /\ n \in 1..Len(per) /\ d \in Int /\ step.processed = processed + cum[n]
      /\ step.per = From(per, n + 1) /\ step.cum = Less(From(cum, n + 1), d)
  BY DEF TakesBins
<1>3. n + 1 \in 1..(Len(per) + 1) /\ n \in Nat /\ Len(per) - (n + 1) + 1 = Len(per) - n
        /\ Len(per) - n \in Nat
  BY <1>1, <1>2
<1>4. /\ step.per \in Seq([1..Len(npix) -> Nat]) /\ Len(step.per) = Len(per) - n
      /\ \A k \in 1..(Len(per) - n) : step.per[k] = per[n + 1 + k - 1]
  BY <1>1, <1>2, <1>3, FromFacts
<1>5. /\ From(cum, n + 1) \in Seq(Int) /\ Len(From(cum, n + 1)) = Len(per) - n
      /\ \A k \in 1..(Len(per) - n) : From(cum, n + 1)[k] = cum[n + 1 + k - 1]
  BY <1>1, <1>3, FromFacts
<1>6. /\ step.cum \in Seq(Int) /\ Len(step.cum) = Len(per) - n
      /\ \A k \in 1..(Len(per) - n) : step.cum[k] = cum[n + 1 + k - 1] - d
  <2>1. PICK c \in Seq(Int) : c = From(cum, n + 1)
    BY <1>5
  <2>2. /\ Less(c, d) \in Seq(Int) /\ Len(Less(c, d)) = Len(c)
        /\ \A k \in 1..Len(c) : Less(c, d)[k] = c[k] - d
    BY <1>2, LessFacts
  <2> QED
    BY <1>2, <1>5, <2>1, <2>2
<1>7. /\ BinLeft(end, per) \in 1..NumBins /\ BinLeft(end, per) + Len(per) = end + 1
      /\ \A k \in 2..Len(per) : per[k] = Row(npix, BinLeft(end, per) + k - 1)
  <2>1. Len(per) # 0
    BY <1>1, <1>2
  <2> QED
    BY <2>1, PlaceFacts
<1>a. BinLeft(end, per) \in Nat /\ end \in Nat
  BY <1>1, <1>7, JobAssumption
<1>8. ASSUME NEW k \in 1..(Len(per) - n)
      PROVE  /\ step.per[k] = Row(npix, BinLeft(end, per) + n + k - 1)
             /\ step.cum[k] = cum[n + k] - d
  <2>1. n + 1 + k - 1 = n + k /\ n + k \in 2..Len(per) /\ k \in Nat
    BY <1>1, <1>2, <1>3
  <2>2. per[n + k] = Row(npix, BinLeft(end, per) + (n + k) - 1)
    BY <1>7, <2>1
  <2>3. BinLeft(end, per) + (n + k) - 1 = BinLeft(end, per) + n + k - 1
    BY <1>3, <1>a, <2>1
  <2> QED
    BY <1>4, <1>6, <2>1, <2>2, <2>3
<1>9. BinLeft(end, step.per) = IF n = Len(per) THEN end ELSE BinLeft(end, per) + n
  <2>1. CASE n = Len(per)
    <3>1. step.per = << >>
      BY <1>1, <1>4, <2>1, EmptySeq
    <3> QED
      BY <2>1, <3>1 DEF BinLeft
  <2>2. CASE n # Len(per)
    <3>1. step.per # << >> /\ BinLeft(end, step.per) = end - (Len(per) - n) + 1
      <4>1. Len(step.per) # 0
        BY <1>1, <1>3, <1>4, <2>2
      <4> QED
        BY <1>4, <4>1 DEF BinLeft
    <3>2. end - (Len(per) - n) + 1 = BinLeft(end, per) + n
      <4>0. PICK b \in Nat : b = BinLeft(end, per)
        BY <1>a
      <4>1. b + Len(per) = end + 1
        BY <1>7, <4>0
      <4>2. end \in Nat /\ n \in Nat /\ Len(per) \in Nat
        BY <1>1, <1>3, <1>a
      <4> QED
        BY <4>0, <4>1, <4>2
    <3> QED
      BY <2>2, <3>1, <3>2
  <2> QED
    BY <2>1, <2>2
<1> QED
  <2>1. \A k \in 1..Len(per) : cum[k] \in Int
    BY <1>1
  <2> QED
    BY <1>1, <1>2, <1>4, <1>6, <1>8, <1>9, <2>1 DEF RestIs

PosAfter(pos, read) == [i \in DOMAIN pos |-> pos[i] + FromFile(read, i, Len(read))]

\* n bins taken leave the reader at the next one.
LEMMA TakesBinsSection ==
  ASSUME NEW npix, IsInput(npix), NEW end, NEW per, NEW cum, NEW processed, NEW pos,
         Section(npix, end, per, cum, processed, pos), NEW step, NEW n, NEW d,
         TakesBins(step, per, cum, processed, n, d),
         d = cum[n] \/ (n = 1 /\ d = processed + cum[1] /\ cum[1] >= 0)
  PROVE  Section(npix, end, step.per, step.cum, step.processed, PosAfter(pos, step.read))
<1> DEFINE b == BinLeft(end, per)
           pos1 == PosAfter(pos, step.read)
<1>0. RestIs(npix, end, per, cum, processed, step, n, d) /\ ReadIs(npix, end, per, step.read, n)
  BY RestOfBins, ReadOfBins
<1>1. /\ n \in 1..Len(per) /\ Len(per) \in Nat /\ d \in Int /\ processed \in Nat
      /\ step.per \in Seq([1..Len(npix) -> Nat]) /\ Len(step.per) = Len(per) - n
      /\ step.cum \in Seq(Int) /\ Len(step.cum) = Len(per) - n
      /\ step.processed = processed + cum[n] /\ \A k \in 1..Len(per) : cum[k] \in Int
      /\ \A j, k \in 1..Len(per) : j <= k => cum[j] <= cum[k]
  BY <1>0 DEF RestIs
<1>2. /\ \A k \in 1..(Len(per) - n) : step.per[k] = Row(npix, b + n + k - 1)
                                       /\ step.cum[k] = cum[n + k] - d
      /\ BinLeft(end, step.per) = IF n = Len(per) THEN end ELSE b + n
  BY <1>0 DEF RestIs
<1>3. /\ pos \in [1..Len(npix) -> Nat] /\ end \in 0..NumBins /\ Len(per) <= end /\ NumBins \in Nat
      /\ cum[1] + processed >= 0 /\ \A i \in 1..Len(npix) : pos[i] + Left(per, i) <= SumTo(npix[i], b)
  <2>1. cum # << >>
    BY <1>1 DEF Section
  <2> QED
    BY <2>1, JobAssumption DEF Section
<1>4. /\ b \in 1..NumBins /\ b + Len(per) = end + 1
      /\ \A i \in 1..Len(npix) : per[1][i] \in Nat /\ Left(per, i) = per[1][i]
  <2>1. Len(per) # 0
    BY <1>1
  <2> HIDE DEF b
  <2>2. /\ BinLeft(end, per) \in 1..NumBins /\ BinLeft(end, per) + Len(per) = end + 1
        /\ \A i \in 1..Len(npix) : per[1][i] \in Nat /\ Left(per, i) = per[1][i]
    BY <2>1, PlaceFacts
  <2> QED
    BY <2>2 DEF b
<1>5. /\ Len(step.read) = n
      /\ \A i \in 1..Len(npix) :
           FromFile(step.read, i, n) = per[1][i] + SumTo(npix[i], b + n - 1) - SumTo(npix[i], b)
  <2>1. n \in 1..n
    BY <1>1
  <2> QED
    BY <1>0, <2>1 DEF ReadIs
<1> HIDE DEF b
<1>6. step.processed \in Nat
  <2>1. 1 \in 1..Len(per) /\ cum[1] <= cum[n] /\ cum[1] \in Int /\ cum[n] \in Int
    BY <1>1
  <2> QED
    BY <1>1, <1>3, <2>1
<1>7. Len(step.per) <= end
  BY <1>1, <1>3
<1>8. \A k \in 2..Len(step.per) : step.per[k] = Row(npix, end - Len(step.per) + k)
  <2> TAKE k \in 2..Len(step.per)
  <2>1. k \in 1..(Len(per) - n) /\ k \in Nat /\ n \in Nat /\ b \in Nat /\ end \in Nat
    BY <1>1, <1>3, <1>4
  <2>2. end - Len(step.per) + k = b + n + k - 1
    <3>1. b + Len(per) = end + 1 /\ Len(step.per) = Len(per) - n /\ Len(per) \in Nat
      BY <1>1, <1>4
    <3> QED
      BY <2>1, <3>1
  <2> QED
    BY <1>2, <2>1, <2>2
<1>9. \A j, k \in 1..Len(step.cum) : j <= k => step.cum[j] <= step.cum[k]
  <2> SUFFICES ASSUME NEW j \in 1..Len(step.cum), NEW k \in 1..Len(step.cum), j <= k
               PROVE  step.cum[j] <= step.cum[k]
    OBVIOUS
  <2>1. n + j \in 1..Len(per) /\ n + k \in 1..Len(per) /\ n + j <= n + k
    BY <1>1
  <2>2. cum[n + j] <= cum[n + k] /\ cum[n + j] \in Int /\ cum[n + k] \in Int
    BY <1>1, <2>1
  <2>3. step.cum[j] = cum[n + j] - d /\ step.cum[k] = cum[n + k] - d
    BY <1>1, <1>2
  <2>4. PICK x \in Int, y \in Int : x = cum[n + j] /\ y = cum[n + k]
    BY <2>2
  <2>5. x <= y /\ d \in Int
    BY <1>1, <2>2, <2>4
  <2>6. x - d <= y - d
    BY <2>4, <2>5
  <2> QED
    BY <2>3, <2>4, <2>6
<1>10. step.cum # << >> => step.cum[1] + step.processed >= 0
  <2> HAVE step.cum # << >>
  <2>1. 1 \in 1..(Len(per) - n) /\ n + 1 \in 1..Len(per)
    BY <1>1, EmptySeq
  <2>2. step.cum[1] = cum[n + 1] - d /\ cum[n + 1] \in Int /\ cum[n] \in Int /\ cum[1] \in Int
    BY <1>1, <1>2, <2>1
  <2>3. cum[1] <= cum[n + 1]
    BY <1>1, <2>1, SMTT(30)
  <2>4. step.processed = processed + cum[n] /\ processed \in Nat /\ cum[1] + processed >= 0
        /\ d \in Int
    BY <1>1, <1>3
  <2>5. step.cum[1] + step.processed = cum[n + 1] - d + (processed + cum[n])
    BY <2>2, <2>4
  <2>6. CASE d = cum[n]
    BY <2>2, <2>3, <2>4, <2>5, <2>6
  <2>7. CASE n = 1 /\ d = processed + cum[1] /\ cum[1] >= 0
    BY <2>2, <2>3, <2>4, <2>5, <2>7
  <2> QED
    BY <2>6, <2>7
<1>11. DOMAIN pos1 = 1..Len(npix) /\ \A i \in 1..Len(npix) :
          pos1[i] = pos[i] + per[1][i] + SumTo(npix[i], b + n - 1) - SumTo(npix[i], b)
  <2>1. \A i \in 1..Len(npix) : pos1[i] = pos[i] + FromFile(step.read, i, n)
    BY <1>3, <1>5 DEF PosAfter
  <2> SUFFICES ASSUME NEW i \in 1..Len(npix)
               PROVE  pos1[i] = pos[i] + per[1][i] + SumTo(npix[i], b + n - 1) - SumTo(npix[i], b)
    BY <1>3 DEF PosAfter
  <2>2. b \in 0..NumBins /\ b + n - 1 \in 0..NumBins
    BY <1>1, <1>3, <1>4, SMTT(30)
  <2>3. SumTo(npix[i], b + n - 1) \in Nat /\ SumTo(npix[i], b) \in Nat /\ pos[i] \in Nat
    BY <1>3, <2>2, UpToFacts
  <2> HIDE DEF pos1
  <2>4. PICK x \in Nat, y \in Nat, z \in Nat, w \in Nat :
          /\ x = SumTo(npix[i], b + n - 1) /\ y = SumTo(npix[i], b)
          /\ z = pos[i] /\ w = per[1][i]
    BY <1>4, <2>3
  <2>5. FromFile(step.read, i, n) = w + x - y
    BY <1>5, <2>4
  <2>6. pos1[i] = z + (w + x - y)
    BY <2>1, <2>4, <2>5
  <2>7. z + (w + x - y) = z + w + x - y
    BY <2>4
  <2> QED
    BY <2>4, <2>6, <2>7
<1> HIDE DEF pos1
<1>12. ASSUME NEW i \in 1..Len(npix)
       PROVE  pos1[i] \in Nat /\ pos1[i] + Left(step.per, i) <= SumTo(npix[i], BinLeft(end, step.per))
  <2>1. pos[i] \in Nat /\ pos[i] + per[1][i] <= SumTo(npix[i], b) /\ per[1][i] \in Nat
    BY <1>3, <1>4
  <2>2. PICK c \in 1..NumBins : c = b + n - 1
    BY <1>1, <1>3, <1>4
  <2>3. c \in 0..NumBins /\ b \in 0..NumBins /\ b <= c
    BY <1>1, <1>4, <2>2
  <2>4. SumTo(npix[i], b) <= SumTo(npix[i], c) /\ SumTo(npix[i], b) \in Nat /\ SumTo(npix[i], c) \in Nat
    BY <2>3, UpToFacts
  <2>5. pos1[i] \in Nat /\ pos1[i] <= SumTo(npix[i], c)
    BY <1>11, <2>1, <2>2, <2>4
  <2>6. CASE n = Len(per)
    <3>1. step.per = << >> /\ BinLeft(end, step.per) = end
      BY <1>1, <1>2, <2>6, EmptySeq
    <3>2. Left(step.per, i) = 0 /\ end = c
      BY <1>3, <1>4, <2>2, <2>6, <3>1 DEF Left
    <3> QED
      BY <2>5, <3>1, <3>2
  <2>7. CASE n # Len(per)
    <3>1. 1 \in 1..(Len(per) - n) /\ step.per # << >> /\ BinLeft(end, step.per) = b + n
      BY <1>1, <1>2, <2>7
    <3>2. b + n = c + 1 /\ c + 1 \in 1..NumBins /\ b + n + 1 - 1 = c + 1
      BY <1>1, <1>3, <1>4, <2>2, <2>7
    <3>3. step.per[1] = Row(npix, c + 1) /\ Left(step.per, i) = step.per[1][i]
      BY <1>2, <3>1, <3>2 DEF Left
    <3>4. PICK e \in 1..NumBins : e = c + 1
      BY <3>2
    <3>5. Left(step.per, i) = npix[i][e] /\ npix[i][e] \in Nat
      BY <3>3, <3>4, RowFacts
    <3>6. SumTo(npix[i], e) = SumTo(npix[i], e - 1) + npix[i][e] /\ e - 1 = c
      BY <3>4, UpToFacts
    <3> QED
      BY <2>4, <2>5, <3>1, <3>2, <3>4, <3>5, <3>6
  <2> QED
    BY <2>5, <2>6, <2>7
<1>13. pos1 \in [1..Len(npix) -> Nat]
  BY <1>11, <1>12 DEF pos1, PosAfter
<1> QED
  BY <1>1, <1>3, <1>6, <1>7, <1>8, <1>9, <1>10, <1>12, <1>13 DEF Section, pos1

\* A part of a bin: of each file no more than it has, and a buffer is counted.
PartIs(F, per, buf) ==
  LET read == ReadOfBin(per, buf)
  IN  /\ read \in [1..F -> Nat] /\ \A i \in 1..F : read[i] <= per[1][i]
      /\ Processed(per, buf) \in Nat /\ Processed(per, buf) >= buf
      /\ OfThatFit(per, buf) \in [1..F -> Nat] /\ Total(OfThatFit(per, buf)) \in Nat
      /\ Room(per, buf) = buf - Total(OfThatFit(per, buf))
      /\ <<read>> \in Seq([1..F -> Nat]) /\ Len(<<read>>) = 1
      /\ \A i \in 1..F : FromFile(<<read>>, i, 1) = read[i]

LEMMA PartFacts ==
  ASSUME NEW F \in Nat, NEW per, per[1] \in [1..F -> Nat], NEW buf \in Nat
  PROVE  PartIs(F, per, buf)
<1> DEFINE fit == FilesThatFit(per, buf)
           of == OfThatFit(per, buf)
           read == ReadOfBin(per, buf)
           room == Room(per, buf)
<1>0. PICK p \in [1..F -> Nat] : p = per[1]
  OBVIOUS
<1>1. fit = {i \in 1..F : p[i] <= buf}
  BY <1>0 DEF FilesThatFit
<1>2. of = [i \in 1..F |-> IF i \in fit THEN p[i] ELSE 0]
  BY <1>0 DEF OfThatFit
<1> HIDE DEF fit, of
<1>3. of \in [1..F -> Nat] /\ \A i \in 1..F : of[i] \in Nat /\ of[i] <= p[i]
  BY <1>2
<1>4. Total(of) \in Nat
  BY <1>3, TotalFacts
<1>5. room = buf - Total(of) /\ room \in Int /\ room <= buf
  BY <1>4 DEF Room, of
<1>6. read = [i \in 1..F |-> IF room > 0 /\ (1..i) \ fit = {i} THEN room ELSE of[i]]
  BY <1>0 DEF ReadOfBin, of, fit
<1> HIDE DEF room, read
<1>7. ASSUME NEW i \in 1..F
      PROVE  read[i] \in Nat /\ read[i] <= p[i]
  <2>1. CASE room > 0 /\ (1..i) \ fit = {i}
    <3>1. read[i] = room /\ i \notin fit
      BY <1>6, <2>1
    <3>2. p[i] > buf /\ p[i] \in Nat
      BY <1>0, <1>1, <3>1
    <3> QED
      BY <1>5, <2>1, <3>1, <3>2
  <2>2. CASE ~(room > 0 /\ (1..i) \ fit = {i})
    BY <1>3, <1>6, <2>2
  <2> QED
    BY <2>1, <2>2
<1>8. read \in [1..F -> Nat]
  BY <1>6, <1>7
<1>9. Processed(per, buf) \in Nat /\ Processed(per, buf) >= buf
  BY <1>5 DEF Processed, Fewest, room
<1>10. /\ <<read>> \in Seq([1..F -> Nat]) /\ Len(<<read>>) = 1 /\ <<read>>[1] = read
  BY <1>8
<1>11. ASSUME NEW i \in 1..F
       PROVE  FromFile(<<read>>, i, 1) = read[i]
  <2>1. PICK s \in Seq([1..F -> Nat]) : s = <<read>>
    BY <1>10
  <2>2. Len(s) = 1 /\ s[1] = read
    BY <1>10, <2>1
  <2>a. FileSums(F, s, i)
    BY FromFileFacts
  <2>3. FromFile(s, i, 0) = 0
    BY <2>a DEF FileSums
  <2>4. FromFile(s, i, 1) = FromFile(s, i, 0) + s[1][i]
    <3>1. \A n \in 1..Len(s) : FromFile(s, i, n) = FromFile(s, i, n - 1) + s[n][i]
      BY <2>a DEF FileSums
    <3>2. 1 \in 1..Len(s) /\ 1 - 1 = 0
      BY <2>2
    <3> QED
      BY <3>1, <3>2
  <2> QED
    BY <1>7, <2>1, <2>2, <2>3, <2>4
<1> QED
  BY <1>0, <1>3, <1>4, <1>5, <1>7, <1>8, <1>9, <1>10, <1>11 DEF PartIs, of, read, room

\* Of two files with more than two buffers, a buffer is read, and counted.
LEMMA PartOfTwo ==
  ASSUME NEW F \in 1..2, NEW per, per[1] \in [1..F -> Nat], NEW buf \in Nat, buf # 0,
         Total(per[1]) > 2 * buf
  PROVE  Total(ReadOfBin(per, buf)) = buf /\ Processed(per, buf) = buf
<1> DEFINE fit == FilesThatFit(per, buf)
           of == OfThatFit(per, buf)
           read == ReadOfBin(per, buf)
           room == Room(per, buf)
<1>0. PICK p \in [1..F -> Nat] : p = per[1]
  OBVIOUS
<1>1. fit = {i \in 1..F : p[i] <= buf}
  BY <1>0 DEF FilesThatFit
<1>2. of = [i \in 1..F |-> IF i \in fit THEN p[i] ELSE 0]
  BY <1>0 DEF OfThatFit
<1>3. read = [i \in 1..F |-> IF room > 0 /\ (1..i) \ fit = {i} THEN room ELSE of[i]]
  BY <1>0 DEF ReadOfBin
<1>4. /\ read \in [1..F -> Nat] /\ of \in [1..F -> Nat] /\ room = buf - Total(of)
      /\ F \in Nat /\ 1 \in 1..F
  <2>1. PartIs(F, per, buf)
    BY PartFacts, SMTT(30)
  <2> QED
    BY <2>1 DEF PartIs
<1>5. SUFFICES Total(read) = buf /\ Total(of) <= buf
  <2>1. Total(of) \in Nat
    BY <1>4, TotalFacts
  <2> QED
    BY <1>4, <2>1 DEF Processed, Fewest
<1> HIDE DEF fit, of, read, room
<1>6. ASSUME NEW s \in [1..F -> Nat]
      PROVE  Total(s) = IF F = 1 THEN s[1] ELSE s[1] + s[2]
  <2>1. Total(s) = SumTo(s, F) /\ \A k \in 1..F : s[k] \in Nat
    BY <1>4, TotalFacts
  <2>2. SumTo(s, 0) = 0 /\ \A k \in 1..F : SumTo(s, k) = SumTo(s, k - 1) + s[k]
    BY <1>4, <2>1, SumToFacts
  <2>3. SumTo(s, 1) = s[1]
    <3>1. SumTo(s, 1) = SumTo(s, 0) + s[1] /\ s[1] \in Nat
      BY <1>4, <2>1, <2>2
    <3> QED
      BY <2>2, <3>1
  <2>4. CASE F = 1
    BY <2>1, <2>3, <2>4
  <2>5. CASE F = 2
    <3>1. SumTo(s, 2) = SumTo(s, 1) + s[2]
      BY <2>2, <2>5
    <3> QED
      BY <2>1, <2>3, <2>5, <3>1
  <2> QED
    BY <2>4, <2>5
<1>7. p[1] \in Nat /\ (F = 2 => p[2] \in Nat) /\ Total(p) > 2 * buf
  BY <1>0, <1>4
<1>8. CASE F = 1
  <2>1. Total(p) = p[1] /\ Total(of) = of[1] /\ Total(read) = read[1]
    BY <1>0, <1>4, <1>6, <1>8
  <2>2. 1 \notin fit /\ of[1] = 0 /\ 1..1 = {1}
    BY <1>1, <1>2, <1>7, <1>8, <2>1
  <2>3. read[1] = room /\ room = buf
    BY <1>3, <1>4, <1>8, <2>1, <2>2
  <2> QED
    BY <2>1, <2>2, <2>3
<1>9. CASE F = 2
  <2>1. /\ Total(p) = p[1] + p[2] /\ Total(of) = of[1] + of[2] /\ Total(read) = read[1] + read[2]
        /\ 1..1 = {1} /\ 1..2 = {1, 2}
    BY <1>0, <1>4, <1>6, <1>9
  <2>2. ~(1 \in fit /\ 2 \in fit)
    BY <1>1, <1>7, <1>9, <2>1
  <2>3. /\ of[1] = IF 1 \in fit THEN p[1] ELSE 0
        /\ of[2] = IF 2 \in fit THEN p[2] ELSE 0
        /\ 1 \in fit <=> p[1] <= buf
        /\ 2 \in fit <=> p[2] <= buf
    BY <1>1, <1>2, <1>9
  <2>4. /\ read[1] = IF room > 0 /\ (1..1) \ fit = {1} THEN room ELSE of[1]
        /\ read[2] = IF room > 0 /\ (1..2) \ fit = {2} THEN room ELSE of[2]
    BY <1>3, <1>9
  <2>5. CASE 1 \in fit
    <3>1. 2 \notin fit /\ (1..2) \ fit = {2} /\ (1..1) \ fit # {1}
      BY <2>1, <2>2, <2>5
    <3>2. Total(of) = p[1] /\ p[1] <= buf /\ room = buf - p[1] /\ of[2] = 0
      BY <1>4, <1>7, <2>1, <2>3, <2>5, <3>1
    <3>3. read[1] = p[1] /\ read[2] = room
      BY <1>7, <2>3, <2>4, <2>5, <3>1, <3>2
    <3> QED
      BY <1>7, <2>1, <3>2, <3>3
  <2>6. CASE 1 \notin fit /\ 2 \in fit
    <3>1. (1..2) \ fit # {2} /\ (1..1) \ fit = {1}
      BY <2>1, <2>6
    <3>2. Total(of) = p[2] /\ p[2] <= buf /\ room = buf - p[2] /\ of[1] = 0
      BY <1>4, <1>7, <1>9, <2>1, <2>3, <2>6
    <3>3. read[2] = p[2] /\ read[1] = room
      BY <1>7, <1>9, <2>3, <2>4, <2>6, <3>1, <3>2
    <3> QED
      BY <1>7, <1>9, <2>1, <3>2, <3>3
  <2>7. CASE 1 \notin fit /\ 2 \notin fit
    <3>1. (1..2) \ fit # {2} /\ (1..1) \ fit = {1}
      BY <2>1, <2>7
    <3>2. Total(of) = 0 /\ room = buf /\ of[1] = 0 /\ of[2] = 0
      BY <1>4, <2>1, <2>3, <2>7
    <3>3. read[2] = 0 /\ read[1] = room
      BY <2>3, <2>4, <3>1, <3>2
    <3> QED
      BY <2>1, <3>2, <3>3
  <2> QED
    BY <2>5, <2>6, <2>7
<1> QED
  BY <1>8, <1>9

\* A part of a bin leaves the reader in it.
LEMMA PartSection ==
  ASSUME NEW npix, IsInput(npix), NEW end, NEW per, NEW cum, NEW processed, NEW pos,
         Section(npix, end, per, cum, processed, pos), cum # << >>, NEW buf \in Nat, NEW step,
         step = PartOfBin(per, cum, processed, buf)
  PROVE  /\ Section(npix, end, step.per, step.cum, step.processed, PosAfter(pos, step.read))
         /\ BinLeft(end, step.per) = BinLeft(end, per) /\ step.per # << >>
         /\ step.read = <<ReadOfBin(per, buf)>>
         /\ \A i \in 1..Len(npix) :
              /\ PosAfter(pos, step.read)[i] = pos[i] + ReadOfBin(per, buf)[i]
              /\ Left(step.per, i) = per[1][i] - ReadOfBin(per, buf)[i]
<1> DEFINE read == ReadOfBin(per, buf)
           p == Processed(per, buf)
           F == Len(npix)
           rest == [i \in 1..F |-> per[1][i] - read[i]]
           pos1 == PosAfter(pos, step.read)
<1>1. /\ per \in Seq([1..F -> Nat]) /\ cum \in Seq(Int) /\ Len(cum) = Len(per) /\ Len(per) \in Nat
      /\ processed \in Nat /\ cum[1] + processed >= 0 /\ pos \in [1..F -> Nat] /\ F \in Nat
      /\ end \in 0..NumBins /\ Len(per) <= end
      /\ \A k \in 2..Len(per) : per[k] = Row(npix, end - Len(per) + k)
      /\ \A j, k \in 1..Len(cum) : j <= k => cum[j] <= cum[k]
      /\ \A i \in 1..F : pos[i] + Left(per, i) <= SumTo(npix[i], BinLeft(end, per))
  BY DEF Section, IsInput
<1>2. Len(per) # 0 /\ 1 \in 1..Len(per) /\ per # << >> /\ per[1] \in [1..F -> Nat] /\ cum[1] \in Int
        /\ DOMAIN per = 1..Len(per) /\ DOMAIN cum = 1..Len(per)
  BY <1>1, EmptySeq
<1>3. PartIs(F, per, buf)
  BY <1>1, <1>2, PartFacts
<1>4. /\ read \in [1..F -> Nat] /\ \A i \in 1..F : read[i] <= per[1][i] /\ read[i] \in Nat
      /\ p \in Nat /\ Len(<<read>>) = 1 /\ \A i \in 1..F : FromFile(<<read>>, i, 1) = read[i]
  BY <1>3 DEF PartIs
<1>5. /\ step.read = <<read>> /\ step.processed = processed + p
      /\ step.per = [per EXCEPT ![1] = [i \in DOMAIN @ |-> @[i] - read[i]]]
      /\ step.cum = [cum EXCEPT ![1] = @ - p]
  BY DEF PartOfBin, Step
<1> HIDE DEF read, p, F
<1>6. rest \in [1..F -> Nat] /\ \A i \in 1..F : rest[i] \in Nat /\ rest[i] = per[1][i] - read[i]
  <2>1. PICK q \in [1..F -> Nat] : q = per[1]
    BY <1>2
  <2>2. \A i \in 1..F : q[i] \in Nat /\ read[i] \in Nat /\ read[i] <= q[i]
    BY <1>4, <2>1
  <2>3. \A i \in 1..F : q[i] - read[i] \in Nat
    BY <2>2
  <2> QED
    BY <2>1, <2>3
<1>7. step.per = [per EXCEPT ![1] = rest]
  BY <1>2, <1>5
<1> HIDE DEF rest
<1>8. /\ step.per \in Seq([1..F -> Nat]) /\ Len(step.per) = Len(per) /\ step.per[1] = rest
      /\ \A k \in 2..Len(per) : step.per[k] = per[k]
  BY <1>1, <1>2, <1>6, <1>7
<1>9. /\ step.cum \in Seq(Int) /\ Len(step.cum) = Len(per) /\ step.cum[1] = cum[1] - p
      /\ \A k \in 2..Len(per) : step.cum[k] = cum[k]
  BY <1>1, <1>2, <1>4, <1>5
<1>10. step.per # << >> /\ BinLeft(end, step.per) = BinLeft(end, per)
         /\ \A i \in 1..F : Left(step.per, i) = per[1][i] - read[i] /\ Left(per, i) = per[1][i]
  BY <1>2, <1>6, <1>8 DEF BinLeft, Left
<1>11. \A i \in 1..F : pos1[i] = pos[i] + read[i] /\ pos1[i] \in Nat
  <2> TAKE i \in 1..F
  <2>1. pos1[i] = pos[i] + FromFile(<<read>>, i, Len(<<read>>))
    BY <1>1, <1>5 DEF PosAfter
  <2>2. pos[i] \in Nat /\ read[i] \in Nat /\ FromFile(<<read>>, i, Len(<<read>>)) = read[i]
    BY <1>1, <1>4
  <2> HIDE DEF pos1
  <2> QED
    BY <2>1, <2>2
<1>12. pos1 \in [1..F -> Nat]
  BY <1>1, <1>11 DEF PosAfter
<1> HIDE DEF pos1
<1>13. \A j, k \in 1..Len(step.cum) : j <= k => step.cum[j] <= step.cum[k]
  <2> SUFFICES ASSUME NEW j \in 1..Len(per), NEW k \in 1..Len(per), j <= k
               PROVE  step.cum[j] <= step.cum[k]
    BY <1>9
  <2>1. cum[j] <= cum[k] /\ cum[j] \in Int /\ cum[k] \in Int
    BY <1>1
  <2>2. CASE j = 1 /\ k = 1
    BY <1>2, <1>4, <1>9, <2>2
  <2>3. CASE j = 1 /\ k # 1
    <3>1. step.cum[k] = cum[k] /\ step.cum[j] = cum[1] - p
      BY <1>9, <2>3
    <3> QED
      BY <1>2, <1>4, <2>1, <2>3, <3>1
  <2>4. CASE j # 1
    <3>1. step.cum[k] = cum[k] /\ step.cum[j] = cum[j]
      BY <1>9, <2>4
    <3> QED
      BY <2>1, <3>1
  <2> QED
    BY <2>2, <2>3, <2>4
<1>14. step.processed \in Nat /\ step.cum[1] + step.processed >= 0
  BY <1>1, <1>2, <1>4, <1>5, <1>9
<1>15. \A i \in 1..F : pos1[i] + Left(step.per, i) <= SumTo(npix[i], BinLeft(end, step.per))
  <2> TAKE i \in 1..F
  <2>1. pos1[i] = pos[i] + read[i] /\ Left(step.per, i) = per[1][i] - read[i]
          /\ pos[i] + per[1][i] <= SumTo(npix[i], BinLeft(end, per))
    BY <1>1, <1>10, <1>11
  <2>2. pos[i] \in Nat /\ read[i] \in Nat /\ per[1][i] \in Nat
    BY <1>1, <1>2, <1>4
  <2>3. pos1[i] + Left(step.per, i) = pos[i] + per[1][i]
    BY <2>1, <2>2
  <2> QED
    BY <1>10, <2>1, <2>3
<1>16. Section(npix, end, step.per, step.cum, step.processed, pos1)
  BY <1>1, <1>8, <1>9, <1>12, <1>13, <1>14, <1>15 DEF Section, F
<1> QED
  BY <1>5, <1>10, <1>11, <1>16 DEF read, F, pos1

\* Whatever is read next, the section remains one.
LEMMA StepSection ==
  ASSUME NEW npix, IsInput(npix), NEW end, NEW per, NEW cum, NEW processed, NEW pos,
         Section(npix, end, per, cum, processed, pos), cum # << >>, NEW buf \in Nat, buf # 0,
         NEW step, step = NbinForPixels(per, cum, processed, buf)
  PROVE  /\ Section(npix, end, step.per, step.cum, step.processed, PosAfter(pos, step.read))
         /\ step.read \in Seq([1..Len(npix) -> Nat]) /\ step.read # << >>
<1>1. /\ per \in Seq([1..Len(npix) -> Nat]) /\ cum \in Seq(Int) /\ Len(cum) = Len(per)
      /\ processed \in Nat /\ Len(npix) \in Nat
      /\ \A j, k \in 1..Len(cum) : j <= k => cum[j] <= cum[k]
  BY DEF Section, IsInput
<1>2. \/ /\ cum[1] <= buf
         /\ \E n \in 1..Len(per) :
              /\ TakesBins(step, per, cum, processed, n, cum[n]) /\ cum[n] <= buf
              /\ n # Len(per) => cum[n + 1] > buf
      \/ /\ cum[1] > buf /\ cum[1] <= 2 * buf
         /\ TakesBins(step, per, cum, processed, 1, processed + cum[1])
      \/ cum[1] > 2 * buf /\ step = PartOfBin(per, cum, processed, buf)
  BY <1>1, StepShape
<1>3. ASSUME NEW n, NEW d, TakesBins(step, per, cum, processed, n, d),
             d = cum[n] \/ (n = 1 /\ d = processed + cum[1] /\ cum[1] >= 0)
      PROVE  /\ Section(npix, end, step.per, step.cum, step.processed, PosAfter(pos, step.read))
             /\ step.read \in Seq([1..Len(npix) -> Nat]) /\ step.read # << >>
  <2>1. Section(npix, end, step.per, step.cum, step.processed, PosAfter(pos, step.read))
    BY <1>3, TakesBinsSection
  <2>2. ReadIs(npix, end, per, step.read, n)
    BY <1>3, ReadOfBins
  <2>3. step.read \in Seq([1..Len(npix) -> Nat]) /\ Len(step.read) = n /\ n # 0
    BY <1>3, <2>2 DEF ReadIs, TakesBins
  <2> QED
    BY <2>1, <2>3
<1>4. CASE \E n \in 1..Len(per) : TakesBins(step, per, cum, processed, n, cum[n])
  BY <1>3, <1>4
<1>5. CASE cum[1] > buf /\ TakesBins(step, per, cum, processed, 1, processed + cum[1])
  <2>1. cum[1] >= 0
    <3>1. cum[1] \in Int
      BY <1>1, EmptySeq
    <3> QED
      BY <1>5, <3>1
  <2> QED
    BY <1>3, <1>5, <2>1
<1>6. CASE step = PartOfBin(per, cum, processed, buf)
  <2>1. /\ Section(npix, end, step.per, step.cum, step.processed, PosAfter(pos, step.read))
        /\ step.read = <<ReadOfBin(per, buf)>>
    BY <1>6, PartSection
  <2>2. PartIs(Len(npix), per, buf)
    <3>1. per[1] \in [1..Len(npix) -> Nat]
      BY <1>1, EmptySeq
    <3> QED
      BY <1>1, <3>1, PartFacts
  <2>3. <<ReadOfBin(per, buf)>> \in Seq([1..Len(npix) -> Nat])
    BY <2>2 DEF PartIs
  <2> QED
    BY <2>1, <2>3
<1> QED
  BY <1>2, <1>4, <1>5, <1>6

\* The sums over files and bins.
TotalsIs(read) ==
  /\ BinTotals(read) \in Seq(Nat) /\ Len(BinTotals(read)) = Len(read)
  /\ \A k \in 1..Len(read) : BinTotals(read)[k] = Total(read[k]) /\ BinTotals(read)[k] \in Nat
  /\ Cumsum(BinTotals(read)) \in Seq(Nat) /\ Len(Cumsum(BinTotals(read))) = Len(read)
  /\ SumTo(BinTotals(read), 0) = 0
  /\ \A k \in 1..Len(read) : /\ Cumsum(BinTotals(read))[k] = SumTo(BinTotals(read), k)
                             /\ SumTo(BinTotals(read), k) \in Nat
                             /\ SumTo(BinTotals(read), k) = SumTo(BinTotals(read), k - 1)
                                                              + BinTotals(read)[k]
  /\ \A j, k \in 0..Len(read) : j <= k => SumTo(BinTotals(read), j) <= SumTo(BinTotals(read), k)

LEMMA TotalsFacts ==
  ASSUME NEW F \in Nat, NEW read \in Seq([1..F -> Nat])
  PROVE  TotalsIs(read)
<1> DEFINE t == BinTotals(read)
           c == Cumsum(t)
<1>1. PICK l \in Nat : l = Len(read) /\ DOMAIN read = 1..l
  OBVIOUS
<1>2. \A k \in 1..l : read[k] \in [1..F -> Nat] /\ Total(read[k]) \in Nat
  <2> TAKE k \in 1..l
  <2>1. read[k] \in [1..F -> Nat]
    BY <1>1
  <2> QED
    BY <2>1, TotalFacts
<1>3. t = [k \in 1..l |-> Total(read[k])]
  BY <1>1 DEF BinTotals
<1> HIDE DEF t
<1>4. t \in [1..l -> Nat] /\ \A k \in 1..l : t[k] = Total(read[k]) /\ t[k] \in Nat
  BY <1>2, <1>3
<1>5. t \in Seq(Nat) /\ Len(t) = l /\ DOMAIN t = 1..l
  BY <1>4
<1>6. /\ SumTo(t, 0) = 0 /\ \A k \in 0..l : SumTo(t, k) \in Nat
      /\ \A k \in 1..l : SumTo(t, k) = SumTo(t, k - 1) + t[k]
  BY <1>4, SumToFacts
<1>7. \A j, k \in 0..l : j <= k => SumTo(t, j) <= SumTo(t, k)
  BY <1>4, SumToGrows
<1>8. c = [k \in 1..l |-> SumTo(t, k)] /\ \A k \in 1..l : SumTo(t, k) \in Nat
  BY <1>5, <1>6 DEF Cumsum
<1> HIDE DEF c
<1>9. c \in Seq(Nat) /\ Len(c) = l /\ \A k \in 1..l : c[k] = SumTo(t, k)
  <2>1. c \in [1..l -> Nat]
    BY <1>8
  <2> QED
    BY <1>8, <2>1
<1> QED
  BY <1>1, <1>4, <1>5, <1>6, <1>7, <1>8, <1>9 DEF TotalsIs, t, c

\* The next m bins are a section, of which nothing is read.
NewIs(npix, end, m, per, cum, pos) ==
  /\ Section(npix, end + m, per, cum, 0, pos) /\ Len(cum) = m /\ cum # << >>
  /\ \A k \in 1..m : cum[k] = SizeUpTo(npix, end + k) - SizeUpTo(npix, end)
  /\ BinLeft(end + m, per) = end + 1 /\ per # << >>

LEMMA NewSection ==
  ASSUME NEW npix, IsInput(npix), NEW end \in 0..NumBins, NEW m \in 1..(NumBins - end),
         NEW per \in Seq([1..Len(npix) -> Nat]), Len(per) = m,
         \A k \in 1..m : per[k] = Row(npix, end + k), NEW cum, cum = Cumsum(BinTotals(per)),
         NEW pos \in [1..Len(npix) -> Nat], \A i \in 1..Len(npix) : pos[i] <= SumTo(npix[i], end)
  PROVE  NewIs(npix, end, m, per, cum, pos)
<1>0. NumBins \in Nat /\ end \in Nat /\ m \in Nat /\ Len(npix) \in Nat /\ m >= 1
  BY JobAssumption DEF IsInput
<1> DEFINE t == BinTotals(per)
<1>1. TotalsIs(per)
  BY <1>0, TotalsFacts
<1>2. /\ SumTo(t, 0) = 0 /\ cum \in Seq(Nat) /\ Len(cum) = m
      /\ \A k \in 1..m : /\ cum[k] = SumTo(t, k) /\ cum[k] \in Nat /\ t[k] = Total(per[k])
                         /\ SumTo(t, k) = SumTo(t, k - 1) + t[k]
      /\ \A j, k \in 0..m : j <= k => SumTo(t, j) <= SumTo(t, k)
  BY <1>1 DEF TotalsIs
<1> HIDE DEF t
<1> DEFINE Is(k) == SumTo(t, k) = SizeUpTo(npix, end + k) - SizeUpTo(npix, end)
           T == {k \in 0..m : Is(k)}
<1>3. SizeUpTo(npix, end) \in Nat
  BY UpToFacts
<1>4. 0 \in T
  BY <1>0, <1>2, <1>3
<1>5. ASSUME NEW k \in 1..m, k - 1 \in T
      PROVE  k \in T
  <2>1. PICK b \in 1..NumBins : b = end + k
    BY <1>0
  <2>2. b - 1 \in 0..NumBins /\ b - 1 = end + (k - 1)
    BY <1>0, <2>1
  <2>3. SizeUpTo(npix, b) = SizeUpTo(npix, b - 1) + Size(npix, b) /\ SizeUpTo(npix, b - 1) \in Nat
    BY <2>2, UpToFacts
  <2>4. SumTo(t, k) = SumTo(t, k - 1) + Size(npix, b) /\ Size(npix, b) \in Nat
    BY <1>2, <2>1, RowFacts DEF Size
  <2>5. SumTo(t, k - 1) = SizeUpTo(npix, b - 1) - SizeUpTo(npix, end)
    BY <1>5, <2>2
  <2>6. Is(k)
    BY <1>3, <2>1, <2>3, <2>4, <2>5
  <2> QED
    BY <2>6
<1> HIDE DEF Is, T
<1>6. \A k \in 0..m : k \in T
  BY <1>0, <1>4, <1>5, Stepwise DEF IsStepwise
<1>7. \A k \in 1..m : cum[k] = SizeUpTo(npix, end + k) - SizeUpTo(npix, end)
  BY <1>2, <1>6 DEF T, Is
<1>8. per # << >> /\ cum # << >> /\ BinLeft(end + m, per) = end + 1
  <2>1. per # << >> /\ cum # << >>
    BY <1>0, <1>2
  <2> QED
    BY <1>0, <2>1 DEF BinLeft
<1>9. \A j, k \in 1..Len(cum) : j <= k => cum[j] <= cum[k]
  BY <1>2
<1>10. cum[1] + 0 >= 0 /\ cum \in Seq(Int)
  BY <1>0, <1>2
<1>11. \A k \in 2..Len(per) : per[k] = Row(npix, end + m - Len(per) + k)
  <2> TAKE k \in 2..Len(per)
  <2>1. k \in 1..m /\ end + m - Len(per) + k = end + k
    BY <1>0
  <2> QED
    BY <2>1
<1>12. \A i \in 1..Len(npix) : pos[i] + Left(per, i) <= SumTo(npix[i], BinLeft(end + m, per))
  <2> TAKE i \in 1..Len(npix)
  <2>1. PICK b \in 1..NumBins : b = end + 1
    BY <1>0
  <2>2. per[1] = Row(npix, b)
    BY <1>0, <2>1
  <2>3. Left(per, i) = npix[i][b] /\ npix[i][b] \in Nat
    BY <1>8, <2>2, RowFacts DEF Left
  <2>4. SumTo(npix[i], b) = SumTo(npix[i], b - 1) + npix[i][b] /\ SumTo(npix[i], b - 1) \in Nat
          /\ b - 1 = end
    <3>1. b - 1 \in 0..NumBins /\ b - 1 = end
      BY <1>0, <2>1
    <3> QED
      BY <3>1, UpToFacts
  <2> QED
    BY <1>8, <2>1, <2>3, <2>4
<1>13. end + m \in 0..NumBins /\ 0 \in Nat /\ Len(cum) = Len(per) /\ Len(per) <= end + m
  BY <1>0, <1>2
<1>14. Section(npix, end + m, per, cum, 0, pos)
  BY <1>9, <1>10, <1>11, <1>12, <1>13 DEF Section
<1> QED
  BY <1>2, <1>7, <1>8, <1>14 DEF NewIs

\* When whole bins are taken, the place and the counts agree as before.
LEMMA TakesBinsCounted ==
  ASSUME NEW npix, IsInput(npix), NEW end, NEW per, NEW cum, NEW processed, NEW pos,
         Section(npix, end, per, cum, processed, pos), NEW step, NEW n, NEW d,
         TakesBins(step, per, cum, processed, n, d), NEW buf \in Nat, NEW total \in Int,
         Counted(npix, buf, end, per, cum, processed, total, pos),
         \/ d = cum[n] /\ cum[1] <= buf
         \/ n = 1 /\ d = processed + cum[1] /\ cum[1] > buf
  PROVE  Counted(npix, buf, end, step.per, step.cum, step.processed, total,
                 PosAfter(pos, step.read))
<1> DEFINE b == BinLeft(end, per)
           b1 == BinLeft(end, step.per)
           pos1 == PosAfter(pos, step.read)
           Up(k) == SizeUpTo(npix, k)
<1>0. RestIs(npix, end, per, cum, processed, step, n, d) /\ ReadIs(npix, end, per, step.read, n)
  BY RestOfBins, ReadOfBins
<1>1. /\ n \in 1..Len(per) /\ Len(per) \in Nat /\ d \in Int /\ processed \in Nat
      /\ Len(step.per) = Len(per) - n /\ step.per \in Seq([1..Len(npix) -> Nat])
      /\ step.processed = processed + cum[n] /\ \A k \in 1..Len(per) : cum[k] \in Int
      /\ \A k \in 1..(Len(per) - n) : step.per[k] = Row(npix, b + n + k - 1)
                                       /\ step.cum[k] = cum[n + k] - d
      /\ b1 = IF n = Len(per) THEN end ELSE b + n
  BY <1>0 DEF RestIs
<1>2. Len(per) # 0 /\ per # << >> /\ 1 \in 1..Len(per) /\ n \in Nat
  BY <1>1, EmptySeq
<1>3. PICK bb \in 1..NumBins : bb = b /\ bb + Len(per) = end + 1
  <2> HIDE DEF b
  <2>1. b \in 1..NumBins /\ b + Len(per) = end + 1
    BY <1>2, PlaceFacts DEF b
  <2> QED
    BY <2>1
<1>4. /\ bb \in Nat /\ NumBins \in Nat /\ end \in 0..NumBins /\ end \in Nat
      /\ pos \in [1..Len(npix) -> Nat] /\ per[1] \in [1..Len(npix) -> Nat] /\ Len(npix) \in Nat
  BY <1>2, <1>3, JobAssumption, PlaceFacts, SMTT(30) DEF Section, IsInput
<1>5. /\ \A i \in 1..Len(npix) : /\ pos[i] + per[1][i] = SumTo(npix[i], bb)
                                 /\ SumTo(npix[i], bb - 1) <= pos[i]
      /\ cum[1] <= Total(per[1])
      /\ \A k \in 2..Len(per) :
           /\ cum[k] <= cum[1] + Up(bb + k - 1) - Up(bb) + (IF cum[1] > buf THEN processed ELSE 0)
           /\ cum[k] = cum[2] + Up(bb + k - 1) - Up(bb + 1)
      /\ processed + Total(per[1]) + Up(end) - Up(bb) <= total
  <2>1. \A i \in 1..Len(npix) : Left(per, i) = per[1][i]
    BY <1>2 DEF Left
  <2> QED
    BY <1>2, <1>3, <2>1 DEF Counted
<1>6. \A i \in 1..Len(npix) :
        FromFile(step.read, i, n) = per[1][i] + SumTo(npix[i], bb + n - 1) - SumTo(npix[i], bb)
  BY <1>0, <1>1, <1>3 DEF ReadIs
<1>7. PICK c \in 1..NumBins : c = bb + n - 1 /\ bb <= c
  BY <1>1, <1>3, <1>4, SMTT(30)
<1>8. \A i \in 1..Len(npix) : pos1[i] = SumTo(npix[i], c)
  <2> TAKE i \in 1..Len(npix)
  <2>1. Len(step.read) = n
    BY <1>0 DEF ReadIs
  <2>2. pos1[i] = pos[i] + FromFile(step.read, i, n)
    BY <1>4, <2>1 DEF PosAfter
  <2>3. c \in 0..NumBins /\ bb \in 0..NumBins
    BY <1>3, <1>4
  <2>4. SumTo(npix[i], c) \in Nat /\ SumTo(npix[i], bb) \in Nat /\ pos[i] \in Nat /\ per[1][i] \in Nat
    BY <1>4, <2>3, UpToFacts
  <2>5. FromFile(step.read, i, n) = per[1][i] + SumTo(npix[i], c) - SumTo(npix[i], bb)
    BY <1>6, <1>7
  <2> HIDE DEF pos1
  <2> QED
    BY <1>5, <2>2, <2>4, <2>5
<1> HIDE DEF b, b1, pos1
<1>9. CASE n = Len(per)
  <2>1. step.per = << >> /\ b1 = end /\ end = c
    BY <1>1, <1>3, <1>4, <1>7, <1>9, EmptySeq
  <2>2. \A i \in 1..Len(npix) : pos1[i] + Left(step.per, i) = SumTo(npix[i], b1)
    <3> TAKE i \in 1..Len(npix)
    <3>1. SumTo(npix[i], c) \in Nat
      <4>1. c \in 0..NumBins
        BY <1>4
      <4> QED
        BY <4>1, UpToFacts
    <3> QED
      BY <1>8, <2>1, <3>1 DEF Left
  <2> QED
    BY <2>1, <2>2 DEF Counted, b1, pos1
<1>10. CASE n # Len(per)
  <2>0. /\ n \in Nat /\ Len(per) \in Nat /\ n < Len(per) /\ end \in Nat /\ end <= NumBins
        /\ bb \in Nat /\ bb + Len(per) = end + 1 /\ NumBins \in Nat /\ bb >= 1
    BY <1>1, <1>3, <1>4, <1>10, SMTT(30)
  <2>1. PICK e \in 1..NumBins : e = c + 1 /\ e = bb + n
    <3>1. bb + n \in 1..NumBins /\ c + 1 = bb + n
      BY <1>7, <2>0
    <3> QED
      BY <3>1
  <2>2. /\ b1 = e /\ step.per # << >> /\ 1 \in 1..(Len(per) - n) /\ step.per[1] = Row(npix, e)
        /\ e - 1 = c
    <3>1. Len(step.per) # 0 /\ 1 \in 1..(Len(per) - n) /\ b + n + 1 - 1 = e
      BY <1>1, <1>2, <1>3, <1>4, <1>10, <2>1
    <3>2. step.per # << >> /\ step.per[1] = Row(npix, e)
      BY <1>1, <3>1
    <3> QED
      BY <1>1, <1>3, <1>10, <2>1, <3>1, <3>2
  <2>3. \A i \in 1..Len(npix) : pos1[i] + Left(step.per, i) = SumTo(npix[i], b1)
    <3> TAKE i \in 1..Len(npix)
    <3>1. Left(step.per, i) = npix[i][e] /\ npix[i][e] \in Nat
      BY <2>2, RowFacts DEF Left
    <3>2. SumTo(npix[i], e) = SumTo(npix[i], e - 1) + npix[i][e] /\ SumTo(npix[i], e - 1) \in Nat
      <4>1. e - 1 \in 0..NumBins
        BY <1>4
      <4> QED
        BY <4>1, UpToFacts
    <3> QED
      BY <1>8, <2>2, <3>1, <3>2
  <2>4. \A i \in 1..Len(npix) : SumTo(npix[i], b1 - 1) <= pos1[i]
    <3> TAKE i \in 1..Len(npix)
    <3>1. c \in 0..NumBins
      BY <1>4
    <3>2. SumTo(npix[i], c) \in Nat
      BY <3>1, UpToFacts
    <3> QED
      BY <1>8, <2>2, <3>2
  <2>5. PICK ub \in Nat, uc \in Nat, ue \in Nat, un \in Nat, se \in Nat :
          /\ ub = Up(bb) /\ uc = Up(c) /\ ue = Up(e) /\ un = Up(end) /\ se = Size(npix, e)
          /\ ue = uc + se /\ Total(step.per[1]) = se
    <3>1. bb \in 0..NumBins /\ c \in 0..NumBins /\ e \in 0..NumBins
      BY <1>4
    <3>2. Up(e) = Up(e - 1) + Size(npix, e) /\ Size(npix, e) \in Nat
      BY RowFacts, UpToFacts
    <3>3. Up(bb) \in Nat /\ Up(c) \in Nat /\ Up(e) \in Nat /\ Up(end) \in Nat
      BY <1>4, <3>1, UpToFacts
    <3>4. Total(step.per[1]) = Size(npix, e)
      BY <2>2 DEF Size
    <3> QED
      BY <2>2, <3>2, <3>3, <3>4
  <2> HIDE DEF Up
  <2>a. PICK c1 \in Int, cn \in Int, t1 \in Nat, l \in Nat :
          c1 = cum[1] /\ cn = cum[n] /\ t1 = Total(per[1]) /\ l = Len(per)
    BY <1>1, <1>2, <1>4, TotalFacts
  <2>b. /\ c1 <= t1 /\ processed + t1 + un - ub <= total /\ processed \in Nat /\ d \in Int
        /\ (d = cn /\ c1 <= buf) \/ (n = 1 /\ d = processed + c1 /\ c1 > buf)
    BY <1>1, <1>5, <2>5, <2>a
  <2>c. n \in 1..(l - 1) /\ bb + l = end + 1 /\ e = bb + n
    BY <1>1, <1>3, <1>10, <2>1, <2>a
  <2>6. ASSUME NEW k \in 1..(l - n)
        PROVE  /\ step.cum[k] = cum[n + k] - d /\ n + k \in 2..Len(per)
               /\ bb + (n + k) - 1 = e + k - 1 /\ cum[n + k] \in Int /\ Up(e + k - 1) \in Nat
    <3>1. n + k \in 2..l /\ bb + (n + k) - 1 = e + k - 1 /\ n + k \in 1..l
      BY <1>2, <1>4, <2>c
    <3>2. PICK x \in 0..NumBins : x = e + k - 1
      BY <1>2, <1>4, <2>c
    <3>3. Up(x) \in Nat
      BY UpToFacts DEF Up
    <3> QED
      BY <1>1, <2>a, <3>1, <3>2, <3>3
  <2>d. PICK c2 \in Int, u1 \in Nat : c2 = cum[2] /\ u1 = Up(bb + 1)
    <3>1. 2 \in 1..Len(per)
      BY <2>a, <2>c
    <3>2. PICK x \in 0..NumBins : x = bb + 1
      BY <1>4, <2>c
    <3>3. Up(x) \in Nat
      BY UpToFacts DEF Up
    <3> QED
      BY <1>1, <3>1, <3>2, <3>3
  <2>e. ASSUME NEW k \in 1..(l - n)
        PROVE  step.cum[k] = c2 + Up(e + k - 1) - u1 - d
    <3>1. /\ step.cum[k] = cum[n + k] - d /\ n + k \in 2..Len(per)
          /\ bb + (n + k) - 1 = e + k - 1
      BY <2>6
    <3>2. cum[n + k] = c2 + Up(e + k - 1) - u1
      BY <1>5, <2>d, <3>1
    <3>3. PICK x \in Nat, y \in Int : x = Up(e + k - 1) /\ y = cum[n + k]
      BY <2>6
    <3>4. y = c2 + x - u1 /\ step.cum[k] = y - d
      BY <3>1, <3>2, <3>3
    <3>5. y - d = c2 + x - u1 - d
      BY <2>b, <3>4
    <3> QED
      BY <3>3, <3>4, <3>5
  <2>f. 1 \in 1..(l - n) /\ e + 1 - 1 = e
    BY <2>c
  <2>g. PICK s1 \in Int, m1 \in Int : s1 = step.cum[1] /\ m1 = cum[n + 1] /\ s1 = m1 - d
    <3>1. step.cum[1] = cum[n + 1] - d /\ cum[n + 1] \in Int
      BY <2>6, <2>f
    <3>2. PICK m1 \in Int : m1 = cum[n + 1]
      BY <3>1
    <3>3. m1 - d \in Int /\ step.cum[1] = m1 - d
      BY <2>b, <3>1, <3>2
    <3> QED
      BY <3>2, <3>3
  <2>h. s1 = c2 + ue - u1 - d
    BY <2>5, <2>e, <2>f, <2>g
  <2>i. m1 <= c1 + ue - ub + (IF c1 > buf THEN processed ELSE 0)
    <3>1. n + 1 \in 2..Len(per) /\ bb + (n + 1) - 1 = e
      BY <2>6, <2>f
    <3>2. cum[n + 1] <= cum[1] + Up(bb + (n + 1) - 1) - Up(bb)
                          + (IF cum[1] > buf THEN processed ELSE 0)
      BY <1>5, <3>1
    <3> QED
      BY <2>5, <2>a, <2>g, <3>1, <3>2
  <2>j. n = 1 => uc = ub /\ cn = c1
    BY <1>7, <2>5, <2>a, <1>4
  <2>k. n # 1 => cn = c2 + uc - u1 /\ cn <= c1 + uc - ub /\ d = cn /\ c1 <= buf
    <3> HAVE n # 1
    <3>1. n \in 2..Len(per) /\ bb + n - 1 = c
      BY <1>1, <1>7
    <3>2. /\ cum[n] <= cum[1] + Up(bb + n - 1) - Up(bb) + (IF cum[1] > buf THEN processed ELSE 0)
          /\ cum[n] = cum[2] + Up(bb + n - 1) - Up(bb + 1)
      BY <1>5, <3>1
    <3>3. ~(c1 > buf) /\ d = cn /\ c1 <= buf
      BY <2>b
    <3>4. cn <= c1 + uc - ub + (IF c1 > buf THEN processed ELSE 0)
      BY <2>5, <2>a, <3>1, <3>2
    <3>5. cn <= c1 + uc - ub
      BY <3>3, <3>4
    <3>6. cn = c2 + uc - u1
      BY <2>5, <2>a, <2>d, <3>1, <3>2
    <3> QED
      BY <3>3, <3>5, <3>6
  <2>7. s1 <= se
    BY <2>5, <2>b, <2>g, <2>h, <2>i, <2>j, <2>k
  <2>8. ASSUME NEW k \in 1..(l - n)
        PROVE  step.cum[k] = s1 + Up(e + k - 1) - ue
    <3>1. PICK x \in Nat : x = Up(e + k - 1)
      BY <2>6
    <3>2. step.cum[k] = c2 + x - u1 - d
      BY <2>e, <3>1
    <3> QED
      BY <2>h, <2>b, <3>1, <3>2
  <2>9. cn <= t1 + uc - ub
    BY <2>b, <2>j, <2>k
  <2>10. step.processed + Total(step.per[1]) + Up(end) - Up(b1) <= total
    <3>1. step.processed = processed + cn /\ Total(step.per[1]) = se /\ Up(end) = un /\ Up(b1) = ue
      BY <1>1, <2>2, <2>5, <2>a
    <3>2. processed + cn + se + un - ue <= total
      BY <2>5, <2>9, <2>b
    <3> QED
      BY <3>1, <3>2
  <2>11. PICK p1 \in Nat : p1 = step.processed
    <3>1. Section(npix, end, step.per, step.cum, step.processed, PosAfter(pos, step.read))
      <4>1. d = cum[n] \/ (n = 1 /\ d = processed + cum[1] /\ cum[1] >= 0)
        BY <2>a, <2>b
      <4> QED
        BY <4>1, TakesBinsSection
    <3> QED
      BY <3>1 DEF Section
  <2>12. ASSUME NEW k \in 2..Len(step.per)
         PROVE  /\ step.cum[k] <= step.cum[1] + Up(b1 + k - 1) - Up(b1)
                                    + (IF step.cum[1] > buf THEN step.processed ELSE 0)
                /\ step.cum[k] = step.cum[2] + Up(b1 + k - 1) - Up(b1 + 1)
    <3>a. Len(step.per) = Len(per) - n
      BY <1>1
    <3>b. Len(step.per) = l - n
      BY <2>a, <2>c, <3>a
    <3>0. Len(step.per) = l - n /\ l - n \in Nat /\ b1 = e /\ e \in Int
      BY <2>2, <2>c, <3>b
    <3>1. k \in 1..(l - n) /\ 2 \in 1..(l - n) /\ e + 2 - 1 = e + 1 /\ b1 = e
      BY <3>0
    <3>2. PICK x \in Nat, y \in Nat : x = Up(e + k - 1) /\ y = Up(e + 1)
      BY <2>6, <3>1
    <3>3. step.cum[k] = s1 + x - ue /\ step.cum[2] = s1 + y - ue
      BY <2>8, <3>1, <3>2
    <3>4. /\ s1 + x - ue <= s1 + x - ue + (IF s1 > buf THEN p1 ELSE 0)
          /\ s1 + x - ue = (s1 + y - ue) + x - y
      BY <3>2, SMTT(30)
    <3> QED
      BY <2>5, <2>11, <2>g, <3>1, <3>2, <3>3, <3>4
  <2>13. step.cum[1] <= Total(step.per[1])
    BY <2>5, <2>7, <2>g
  <2> QED
    BY <2>3, <2>4, <2>10, <2>12, <2>13 DEF Counted, b1, pos1, Up
<1> QED
  BY <1>9, <1>10

\* So they are when a part of a bin is read, of no more than two files.
LEMMA PartCounted ==
  ASSUME NEW npix, IsInput(npix), NEW end, NEW per, NEW cum, NEW processed, NEW pos,
         Section(npix, end, per, cum, processed, pos), cum # << >>, NEW buf \in Nat, buf # 0,
         NEW step, step = PartOfBin(per, cum, processed, buf), NEW total \in Int,
         Counted(npix, buf, end, per, cum, processed, total, pos), cum[1] > 2 * buf,
         Len(npix) <= 2 \/ \A b \in 1..NumBins : Size(npix, b) <= 2 * buf
  PROVE  Counted(npix, buf, end, step.per, step.cum, step.processed, total,
                 PosAfter(pos, step.read))
<1> DEFINE read == ReadOfBin(per, buf)
           F == Len(npix)
           pos1 == PosAfter(pos, step.read)
           Up(k) == SizeUpTo(npix, k)
<1>1. /\ per \in Seq([1..F -> Nat]) /\ cum \in Seq(Int) /\ Len(cum) = Len(per) /\ Len(per) \in Nat
      /\ processed \in Nat /\ pos \in [1..F -> Nat] /\ F \in Nat /\ F # 0
  BY DEF Section, IsInput
<1>2. /\ Len(per) # 0 /\ 1 \in 1..Len(per) /\ per # << >> /\ per[1] \in [1..F -> Nat]
      /\ DOMAIN cum = 1..Len(per) /\ DOMAIN per = 1..Len(per)
  BY <1>1, EmptySeq
<1>3. PICK b \in 1..NumBins : b = BinLeft(end, per) /\ b + Len(per) = end + 1
  BY <1>2, PlaceFacts
<1>4. /\ \A i \in 1..F : pos[i] + per[1][i] = SumTo(npix[i], b) /\ SumTo(npix[i], b - 1) <= pos[i]
      /\ cum[1] <= Total(per[1])
      /\ \A k \in 2..Len(per) :
           /\ cum[k] <= cum[1] + Up(b + k - 1) - Up(b) + (IF cum[1] > buf THEN processed ELSE 0)
           /\ cum[k] = cum[2] + Up(b + k - 1) - Up(b + 1)
      /\ processed + Total(per[1]) + Up(end) - Up(b) <= total
  <2>1. \A i \in 1..F : Left(per, i) = per[1][i]
    BY <1>2 DEF Left
  <2> QED
    BY <1>2, <1>3, <2>1 DEF Counted
<1>5. PICK p \in [1..F -> Nat] : p = per[1]
  BY <1>2
<1>6. PICK c1 \in Int, t1 \in Nat : c1 = cum[1] /\ t1 = Total(p) /\ c1 <= t1 /\ c1 > 2 * buf
  <2>1. cum[1] \in Int
    BY <1>1, <1>2
  <2>2. Total(p) \in Nat
    BY <1>1, TotalFacts
  <2> QED
    BY <1>4, <1>5, <2>1, <2>2
\* per[1] is a part of bin b, so there are no more than two files.
<1>7. F \in 1..2
  <2>1. ASSUME NEW i \in 1..F
        PROVE  p[i] <= Row(npix, b)[i]
    <3>1. SumTo(npix[i], b) = SumTo(npix[i], b - 1) + npix[i][b]
      BY UpToFacts
    <3>2. SumTo(npix[i], b - 1) \in Nat
      <4>1. b - 1 \in 0..NumBins
        BY JobAssumption
      <4> QED
        BY <4>1, UpToFacts
    <3>3. PICK x \in Nat, y \in Nat, q \in Nat, z \in Nat :
            x = SumTo(npix[i], b - 1) /\ y = npix[i][b] /\ q = pos[i] /\ z = p[i]
      BY <1>1, <1>5, <3>2, RowFacts
    <3>4. q + z = x + y /\ x <= q
      BY <1>4, <1>5, <3>1, <3>3
    <3>5. z <= y
      BY <3>4
    <3> QED
      BY <3>3, <3>5, RowFacts
  <2>2. Row(npix, b) \in [1..F -> Nat] /\ Size(npix, b) \in Nat
    BY RowFacts
  <2>3. t1 <= Size(npix, b)
    BY <1>1, <1>6, <2>1, <2>2, TotalBelow DEF Size
  <2>4. ~(Size(npix, b) <= 2 * buf)
    <3>1. PICK z \in Nat : z = Size(npix, b)
      BY <2>2
    <3> QED
      BY <1>6, <2>3, <3>1
  <2>5. F <= 2
    BY <2>4
  <2>6. \A f \in Nat : f # 0 /\ f <= 2 => f \in 1..2
    OBVIOUS
  <2> HIDE DEF F
  <2> QED
    BY <1>1, <2>5, <2>6
<1>8. Total(read) = buf /\ Processed(per, buf) = buf /\ read \in [1..F -> Nat]
        /\ \A i \in 1..F : read[i] <= p[i]
  <2>1. Total(per[1]) > 2 * buf
    BY <1>5, <1>6
  <2>2. PartIs(F, per, buf)
    BY <1>1, <1>2, PartFacts
  <2> QED
    BY <1>2, <1>5, <1>7, <2>1, <2>2, PartOfTwo DEF PartIs
<1>9. /\ step.processed = processed + buf /\ step.cum = [cum EXCEPT ![1] = @ - buf]
      /\ step.per = [per EXCEPT ![1] = [i \in 1..F |-> p[i] - read[i]]]
  BY <1>2, <1>5, <1>8 DEF PartOfBin, Step
<1>10. /\ BinLeft(end, step.per) = b /\ step.per # << >>
       /\ \A i \in 1..F : pos1[i] = pos[i] + read[i] /\ Left(step.per, i) = p[i] - read[i]
  BY <1>3, <1>5, PartSection
<1> HIDE DEF read, pos1, F
<1>11. /\ step.per[1] = [i \in 1..F |-> p[i] - read[i]] /\ Len(step.per) = Len(per)
       /\ step.cum[1] = c1 - buf /\ \A k \in 2..Len(per) : step.cum[k] = cum[k]
  <2>1. [i \in 1..F |-> p[i] - read[i]] \in [1..F -> Nat]
    BY <1>1, <1>8, TotalMinus
  <2> QED
    BY <1>1, <1>2, <1>6, <1>9, <2>1
<1>12. Total(step.per[1]) = t1 - buf
  <2>1. Total([i \in 1..F |-> p[i] - read[i]]) = Total(p) - Total(read)
    BY <1>1, <1>8, TotalMinus
  <2> QED
    BY <1>6, <1>8, <1>11, <2>1
<1>13. \A i \in 1..F : /\ pos1[i] + Left(step.per, i) = SumTo(npix[i], b)
                       /\ SumTo(npix[i], b - 1) <= pos1[i]
  <2> TAKE i \in 1..F
  <2>1. PICK q \in Nat, z \in Nat, y \in Nat, x \in Nat :
          q = pos[i] /\ z = p[i] /\ y = read[i] /\ x = SumTo(npix[i], b - 1)
    <3>1. b - 1 \in 0..NumBins
      BY JobAssumption
    <3>2. SumTo(npix[i], b - 1) \in Nat
      BY <3>1, UpToFacts DEF F
    <3> QED
      BY <1>1, <1>8, <3>2
  <2>2. pos1[i] = q + y /\ Left(step.per, i) = z - y /\ q + z = SumTo(npix[i], b) /\ x <= q
    BY <1>4, <1>5, <1>10, <2>1
  <2>3. (q + y) + (z - y) = q + z /\ x <= q + y
    BY <2>2
  <2> QED
    BY <2>1, <2>2, <2>3
<1>14. step.cum[1] <= Total(step.per[1])
  BY <1>6, <1>11, <1>12
<1>15. ASSUME NEW k \in 2..Len(step.per)
       PROVE  /\ step.cum[k] <= step.cum[1] + Up(b + k - 1) - Up(b)
                                  + (IF step.cum[1] > buf THEN step.processed ELSE 0)
              /\ step.cum[k] = step.cum[2] + Up(b + k - 1) - Up(b + 1)
  <2>1. k \in 2..Len(per) /\ 2 \in 2..Len(per)
    BY <1>1, <1>11
  <2>2. PICK u \in Nat, v \in Nat, ck \in Int : u = Up(b + k - 1) /\ v = Up(b) /\ ck = cum[k]
    <3>0. NumBins \in Nat /\ end \in 0..NumBins /\ k \in Nat /\ k <= Len(per) /\ b \in Nat
      BY <1>1, <2>1, JobAssumption DEF Section
    <3>1. PICK x \in 0..NumBins : x = b + k - 1
      BY <1>1, <1>3, <2>1, <3>0, SMTT(30)
    <3>2. b \in 0..NumBins
      BY <3>0
    <3>3. Up(x) \in Nat /\ Up(b) \in Nat
      BY <3>2, UpToFacts
    <3>4. cum[k] \in Int
      BY <1>1, <2>1
    <3> QED
      BY <3>1, <3>3, <3>4
  <2> HIDE DEF Up
  <2>3. ck <= c1 + u - v + (IF c1 > buf THEN processed ELSE 0)
    BY <1>4, <1>6, <2>1, <2>2
  <2>4. ck <= (c1 - buf) + u - v + (IF c1 - buf > buf THEN processed + buf ELSE 0)
    <3>0. processed \in Nat
      BY <1>1
    <3>a. c1 \in Int /\ c1 > 2 * buf /\ 2 * buf = buf + buf
      BY <1>6
    <3>1. c1 > buf /\ c1 - buf > buf /\ processed \in Nat
      BY <3>0, <3>a
    <3>2. ck <= c1 + u - v + processed
      BY <2>3, <3>1
    <3>3. ck <= (c1 - buf) + u - v + (processed + buf)
      BY <3>1, <3>2
    <3> QED
      BY <3>1, <3>3
  <2>5. step.cum[k] = ck /\ step.cum[1] = c1 - buf /\ step.processed = processed + buf
    BY <1>9, <1>11, <2>1, <2>2
  <2>6. step.cum[k] = step.cum[2] + Up(b + k - 1) - Up(b + 1)
    BY <1>4, <1>11, <2>1
  <2> QED
    BY <2>2, <2>4, <2>5, <2>6
<1>16. step.processed + Total(step.per[1]) + Up(end) - Up(b) <= total
  <2>1. PICK v \in Nat, u \in Nat : u = Up(end) /\ v = Up(b)
    <3>1. b \in 0..NumBins /\ end \in 0..NumBins
      BY JobAssumption DEF Section
    <3> QED
      BY <3>1, UpToFacts
  <2> HIDE DEF Up
  <2>2. processed + t1 + u - v <= total
    BY <1>4, <1>5, <1>6, <2>1
  <2>3. (processed + buf) + (t1 - buf) + u - v <= total
    BY <1>1, <2>2
  <2> QED
    BY <1>9, <1>12, <2>1, <2>3
<1> QED
  BY <1>10, <1>13, <1>14, <1>15, <1>16 DEF Counted, F, pos1

\* When as many are processed as a section has, all its pixels are read.
LEMMA AllOfSection ==
  ASSUME NEW npix, IsInput(npix), NEW end, NEW per, NEW cum, NEW processed, NEW pos,
         Section(npix, end, per, cum, processed, pos), NEW buf, NEW total \in Int,
         Counted(npix, buf, end, per, cum, processed, total, pos), processed >= total
  PROVE  \A i \in 1..Len(npix) : pos[i] = SumTo(npix[i], end)
<1>1. Len(per) \in Nat /\ end \in 0..NumBins /\ processed \in Nat /\ Len(npix) \in Nat
        /\ pos \in [1..Len(npix) -> Nat] /\ per \in Seq([1..Len(npix) -> Nat])
  BY DEF Section, IsInput
<1>2. TAKE i \in 1..Len(npix)
<1>3. CASE Len(per) = 0
  <2>1. BinLeft(end, per) = end /\ Left(per, i) = 0
    BY <1>3, PlaceFacts
  <2>2. pos[i] + Left(per, i) = SumTo(npix[i], BinLeft(end, per))
    BY DEF Counted
  <2> QED
    BY <1>1, <2>1, <2>2
<1>4. CASE Len(per) # 0
  <2>1. PICK b \in 1..NumBins : b = BinLeft(end, per) /\ b <= end
    BY <1>4, PlaceFacts
  <2>2. per # << >> /\ Left(per, i) = per[1][i] /\ per[1] \in [1..Len(npix) -> Nat]
    BY <1>1, <1>4, EmptySeq DEF Left
  <2>3. PICK t1 \in Nat : t1 = Total(per[1]) /\ per[1][i] <= t1 /\ per[1][i] \in Nat
    BY <1>1, <2>2, TotalFacts
  <2>4. PICK u \in Nat, v \in Nat, x \in Nat, y \in Nat :
          /\ u = SizeUpTo(npix, end) /\ v = SizeUpTo(npix, b) /\ v <= u
          /\ x = SumTo(npix[i], end) /\ y = SumTo(npix[i], b) /\ y <= x
          /\ x - y <= u - v
    <3>1. b \in 0..NumBins /\ b <= end
      BY <2>1, JobAssumption
    <3>2. SizeUpTo(npix, end) \in Nat /\ SizeUpTo(npix, b) \in Nat
            /\ SizeUpTo(npix, b) <= SizeUpTo(npix, end)
      BY <1>1, <3>1, UpToFacts
    <3>3. SumTo(npix[i], end) \in Nat /\ SumTo(npix[i], b) \in Nat
            /\ SumTo(npix[i], b) <= SumTo(npix[i], end)
      BY <1>1, <3>1, UpToFacts
    <3>4. SumTo(npix[i], end) - SumTo(npix[i], b) <= SizeUpTo(npix, end) - SizeUpTo(npix, b)
      BY <1>1, <3>1, FileWithinAll
    <3> QED
      BY <3>2, <3>3, <3>4
  <2>5. processed + t1 + u - v <= total
    BY <2>1, <2>2, <2>3, <2>4 DEF Counted
  <2>6. t1 = 0 /\ x = y
    <3>1. processed \in Nat /\ v <= u /\ y <= x /\ x - y <= u - v
      BY <1>1, <2>4
    <3> QED
      BY <2>5, <3>1
  <2>7. pos[i] + per[1][i] = y /\ pos[i] \in Nat
    BY <1>1, <2>1, <2>2, <2>4 DEF Counted
  <2> QED
    BY <2>3, <2>4, <2>6, <2>7
<1> QED
  BY <1>3, <1>4

\* A new section has all its pixels to be counted.
LEMMA NewCounted ==
  ASSUME NEW npix, IsInput(npix), NEW end \in 0..NumBins, NEW m \in 1..(NumBins - end),
         NEW per \in Seq([1..Len(npix) -> Nat]), Len(per) = m,
         \A k \in 1..m : per[k] = Row(npix, end + k), NEW cum, cum = Cumsum(BinTotals(per)),
         NEW pos \in [1..Len(npix) -> Nat], \A i \in 1..Len(npix) : pos[i] = SumTo(npix[i], end),
         NEW buf \in Nat
  PROVE  Counted(npix, buf, end + m, per, cum, 0, Last(cum), pos)
<1> DEFINE Up(k) == SizeUpTo(npix, k)
<1>0. NumBins \in Nat /\ end \in Nat /\ m \in Nat /\ Len(npix) \in Nat /\ m >= 1
  BY JobAssumption DEF IsInput
<1>1. \A i \in 1..Len(npix) : pos[i] <= SumTo(npix[i], end)
  BY <1>0
<1>2. /\ Section(npix, end + m, per, cum, 0, pos) /\ Len(cum) = m /\ cum # << >>
      /\ \A k \in 1..m : cum[k] = Up(end + k) - Up(end)
      /\ BinLeft(end + m, per) = end + 1 /\ per # << >>
  <2>1. NewIs(npix, end, m, per, cum, pos)
    BY <1>1, NewSection
  <2> QED
    BY <2>1 DEF NewIs
<1>3. PICK b \in 1..NumBins : b = end + 1 /\ b - 1 = end
  BY <1>0
<1>4. per[1] = Row(npix, b)
  BY <1>0, <1>3
<1>5. PICK u \in Nat, v \in Nat, s \in Nat :
        u = Up(end) /\ v = Up(b) /\ s = Size(npix, b) /\ v = u + s /\ Total(per[1]) = s
  <2>1. Up(b) = Up(b - 1) + Size(npix, b) /\ Size(npix, b) \in Nat
    BY UpToFacts, RowFacts
  <2>2. Up(end) \in Nat
    BY UpToFacts
  <2>3. Total(per[1]) = Size(npix, b)
    BY <1>4 DEF Size
  <2> QED
    BY <1>3, <2>1, <2>2, <2>3
<1>6. ASSUME NEW k \in 1..m
      PROVE  Up(b + k - 1) \in Nat /\ cum[k] = Up(b + k - 1) - u /\ b + k - 1 = end + k
  <2>1. PICK x \in 0..NumBins : x = end + k /\ x = b + k - 1
    BY <1>0, <1>3
  <2>2. Up(x) \in Nat
    BY UpToFacts
  <2> HIDE DEF Up
  <2> QED
    BY <1>2, <1>5, <2>1, <2>2
<1> HIDE DEF Up
<1>7. cum[1] = s /\ Last(cum) = Up(end + m) - u
  <2>1. 1 \in 1..m /\ m \in 1..m /\ b + 1 - 1 = b
    BY <1>0
  <2>2. cum[1] = v - u
    BY <1>5, <1>6, <2>1
  <2> QED
    BY <1>2, <1>5, <1>6, <2>1, <2>2 DEF Last
<1>8. \A i \in 1..Len(npix) : /\ pos[i] + Left(per, i) = SumTo(npix[i], b)
                              /\ SumTo(npix[i], b - 1) <= pos[i]
  <2> TAKE i \in 1..Len(npix)
  <2>1. Left(per, i) = npix[i][b] /\ npix[i][b] \in Nat
    BY <1>2, <1>4, RowFacts DEF Left
  <2>2. SumTo(npix[i], b) = SumTo(npix[i], b - 1) + npix[i][b]
    BY UpToFacts
  <2> QED
    BY <1>3, <2>1, <2>2, SMTT(30)
<1>9. ASSUME NEW k \in 2..Len(per)
      PROVE  /\ cum[k] <= cum[1] + Up(b + k - 1) - Up(b) + (IF cum[1] > buf THEN 0 ELSE 0)
             /\ cum[k] = cum[2] + Up(b + k - 1) - Up(b + 1)
  <2>1. k \in 1..m /\ 2 \in 1..m /\ b + 2 - 1 = b + 1
    BY <1>0
  <2>2. PICK x \in Nat, y \in Nat : x = Up(b + k - 1) /\ y = Up(b + 1)
    BY <1>6, <2>1
  <2>3. cum[k] = x - u /\ cum[2] = y - u
    BY <1>6, <2>1, <2>2
  <2>4. x - u <= s + x - v + (IF s > buf THEN 0 ELSE 0) /\ x - u = (y - u) + x - y
    <3>1. v = u + s
      BY <1>5
    <3> QED
      BY <3>1
  <2>5. Up(b) = v /\ cum[1] = s
    BY <1>5, <1>7
  <2> QED
    BY <2>2, <2>3, <2>4, <2>5
<1>10. 0 + Total(per[1]) + Up(end + m) - Up(b) <= Last(cum)
  <2>1. PICK x \in Nat : x = Up(end + m)
    <3>1. m \in 1..m
      BY <1>0
    <3> QED
      BY <1>6, <3>1
  <2>2. 0 + s + x - v <= x - u
    BY <1>5
  <2> QED
    BY <1>5, <1>7, <2>1, <2>2
<1>11. cum[1] <= Total(per[1])
  BY <1>5, <1>7
<1> QED
  BY <1>2, <1>3, <1>8, <1>9, <1>10, <1>11 DEF Counted, Up

(***************************************************************************)
(* The readers and their inputs.                                           *)
(***************************************************************************)
LEMMA InputFacts ==
  ASSUME input \in Inputs
  PROVE  /\ input.buf \in Nat /\ input.buf # 0 /\ input.serial \in BOOLEAN
         /\ Len(input.npix) \in Nat /\ Readers = 1..Len(input.npix)
         /\ input.serial => Readers \subseteq {1}
         /\ \A r \in Readers : /\ IsInput(input.npix[r]) /\ Len(input.npix[r]) <= input.buf
                               /\ Files(r) = 1..Len(input.npix[r]) /\ Len(input.npix[r]) \in Nat \ {0}
<1>1. input \in Input
  BY JobAssumption
<1>2. input.npix \in Seq(Seq(Seq(Nat))) /\ input.buf \in Nat \ {0} /\ input.serial \in BOOLEAN
  BY <1>1 DEF Input
<1>3. Readers = 1..Len(input.npix) /\ Len(input.npix) \in Nat
  BY <1>2 DEF Readers
<1>4. ASSUME NEW r \in Readers
      PROVE  /\ IsInput(input.npix[r]) /\ Len(input.npix[r]) <= input.buf
             /\ Files(r) = 1..Len(input.npix[r]) /\ Len(input.npix[r]) \in Nat \ {0}
             /\ input.serial => Len(input.npix) = 1
  <2>1. /\ Len(input.npix[r]) \in 1..input.buf
        /\ input.serial => Len(input.npix) = 1
        /\ \A i \in DOMAIN input.npix[r] : Len(input.npix[r][i]) = NumBins
    BY JobAssumption DEF Readers
  <2>2. input.npix[r] \in Seq(Seq(Nat))
    BY <1>2, <1>3
  <2>3. DOMAIN input.npix[r] = 1..Len(input.npix[r])
    BY <2>2
  <2>4. Len(input.npix[r]) \in Nat \ {0} /\ Len(input.npix[r]) <= input.buf
    BY <1>2, <2>1
  <2> QED
    BY <2>1, <2>2, <2>3, <2>4 DEF IsInput, Files
<1>5. input.serial => Readers \subseteq {1}
  <2> SUFFICES ASSUME input.serial, NEW r \in Readers
               PROVE  r = 1
    OBVIOUS
  <2>1. Len(input.npix) = 1
    BY <1>4
  <2> QED
    BY <1>3, <2>1
<1> QED
  BY <1>2, <1>3, <1>4, <1>5

\* What get_npix_section leaves.
NewSectionOf(r, m) ==
  /\ m \in 1..(NumBins - ibin_end[r]) /\ m <= SectionSize(r)
  /\ ibin_end[r] + m = NumBins \/ m = SectionSize(r)
  /\ ibin_end'[r] = ibin_end[r] + m /\ nbins_start'[r] = ibin_end[r] + 1
  /\ npix_per_bins'[r] \in Seq([1..Len(input.npix[r]) -> Nat]) /\ Len(npix_per_bins'[r]) = m
  /\ \A k \in 1..m : npix_per_bins'[r][k] = Row(input.npix[r], ibin_end[r] + k)
  /\ npix_in_bins'[r] = Cumsum(BinTotals(npix_per_bins'[r])) /\ npix_processed'[r] = 0
  /\ n_pix_2process'[r] = Last(npix_in_bins'[r])
  /\ \A q \in Readers \ {r} :
       /\ ibin_end'[q] = ibin_end[q] /\ nbins_start'[q] = nbins_start[q]
       /\ npix_per_bins'[q] = npix_per_bins[q] /\ npix_in_bins'[q] = npix_in_bins[q]
       /\ npix_processed'[q] = npix_processed[q] /\ n_pix_2process'[q] = n_pix_2process[q]

LEMMA ReadSectionFacts ==
  ASSUME ShapeInv, SectionInv, NEW r \in Readers, ReadSection(r)
  PROVE  \E m : NewSectionOf(r, m)
<1> DEFINE npix == input.npix[r]
           m == Fewest(input.buf \div Len(input.npix[r]), NumBins - ibin_end[r])
           start == ibin_end[r] + 1
           end == ibin_end[r] + m
           per == [k \in 1..(end - start + 1) |-> [i \in Files(r) |-> input.npix[r][i][start + k - 1]]]
           cum == Cumsum(BinTotals(per))
<1>1. /\ input.buf \in Nat /\ input.buf # 0 /\ IsInput(npix) /\ Len(npix) <= input.buf
      /\ Files(r) = 1..Len(npix) /\ Len(npix) \in Nat \ {0}
  BY InputFacts DEF ShapeInv
<1>2. ibin_end[r] \in 0..NumBins /\ ibin_end[r] < NumBins /\ NumBins \in Nat
  BY JobAssumption DEF SectionInv, Section, ReadSection
<1>3. /\ ibin_end' = [ibin_end EXCEPT ![r] = end] /\ nbins_start' = [nbins_start EXCEPT ![r] = start]
      /\ npix_per_bins' = [npix_per_bins EXCEPT ![r] = per]
      /\ npix_in_bins' = [npix_in_bins EXCEPT ![r] = cum]
      /\ npix_processed' = [npix_processed EXCEPT ![r] = 0]
      /\ n_pix_2process' = [n_pix_2process EXCEPT ![r] = Last(cum)]
  BY DEF ReadSection
<1>4. PICK s \in Nat : s = input.buf \div Len(npix) /\ s >= 1 /\ s = SectionSize(r)
  <2>1. \A a \in Nat, b \in Nat \ {0} : b <= a => a \div b \in Nat /\ a \div b >= 1
    OBVIOUS
  <2> QED
    BY <1>1, <2>1 DEF SectionSize
<1>5. m = IF s < NumBins - ibin_end[r] THEN s ELSE NumBins - ibin_end[r]
  BY <1>4 DEF Fewest
<1> HIDE DEF m
<1>6. m \in 1..(NumBins - ibin_end[r]) /\ m <= s /\ (ibin_end[r] + m = NumBins \/ m = s)
  BY <1>2, <1>4, <1>5
<1>7. end - start + 1 = m /\ \A k \in 1..m : start + k - 1 = ibin_end[r] + k
  BY <1>2, <1>6
<1>8. per = [k \in 1..m |-> Row(npix, ibin_end[r] + k)]
  <2>1. DOMAIN npix = 1..Len(npix)
    BY <1>1 DEF IsInput
  <2>2. \A k \in 1..m : [i \in Files(r) |-> npix[i][start + k - 1]] = Row(npix, ibin_end[r] + k)
    BY <1>1, <1>7, <2>1 DEF Row
  <2> QED
    BY <1>7, <2>2
<1> HIDE DEF per
<1>9. /\ per \in Seq([1..Len(npix) -> Nat]) /\ Len(per) = m
      /\ \A k \in 1..m : per[k] = Row(npix, ibin_end[r] + k)
  <2>1. \A k \in 1..m : Row(npix, ibin_end[r] + k) \in [1..Len(npix) -> Nat]
    <3> TAKE k \in 1..m
    <3>1. PICK b \in 1..NumBins : b = ibin_end[r] + k
      BY <1>2, <1>6
    <3> QED
      BY <1>1, <3>1, RowFacts
  <2>2. m \in Nat
    BY <1>2, <1>6
  <2> QED
    BY <1>8, <2>1, <2>2
<1> HIDE DEF start, end, cum
<1>10. /\ ibin_end'[r] = end /\ nbins_start'[r] = start /\ npix_per_bins'[r] = per
       /\ npix_in_bins'[r] = cum /\ npix_processed'[r] = 0 /\ n_pix_2process'[r] = Last(cum)
       /\ \A q \in Readers \ {r} :
            /\ ibin_end'[q] = ibin_end[q] /\ nbins_start'[q] = nbins_start[q]
            /\ npix_per_bins'[q] = npix_per_bins[q] /\ npix_in_bins'[q] = npix_in_bins[q]
            /\ npix_processed'[q] = npix_processed[q] /\ n_pix_2process'[q] = n_pix_2process[q]
  BY <1>3 DEF ShapeInv
<1> QED
  BY <1>4, <1>6, <1>9, <1>10 DEF NewSectionOf, start, end, cum

\* A new section is one, and it begins with everything before it read.
LEMMA SectionStep ==
  ASSUME ShapeInv, SectionInv, CountedInv, NEW r \in Readers, ReadSection(r)
  PROVE  ShapeInv' /\ SectionInv' /\ CountedInv'
<1>1. PICK m : NewSectionOf(r, m)
  BY ReadSectionFacts
<1> DEFINE npix == input.npix[r]
           end == ibin_end[r]
           pos == pos_pixstart[r]
<1>2. /\ UNCHANGED <<input, pos_pixstart, cacheVars, file, result>> /\ Readers' = Readers
      /\ PartsCounted' = PartsCounted /\ \A q : Files(q)' = Files(q)
      /\ npix_processed[r] >= n_pix_2process[r]
  BY DEF ReadSection, Readers, Files, PartsCounted, BinSize
<1>3. /\ IsInput(npix) /\ input.buf \in Nat /\ Len(npix) \in Nat
      /\ Section(npix, end, npix_per_bins[r], npix_in_bins[r], npix_processed[r], pos)
      /\ n_pix_2process[r] \in Nat
  BY InputFacts DEF ShapeInv, SectionInv
<1>4. end \in 0..NumBins /\ pos \in [1..Len(npix) -> Nat]
  BY <1>3 DEF Section
<1>5. \A i \in 1..Len(npix) : pos[i] <= SumTo(npix[i], end)
  <2> TAKE i \in 1..Len(npix)
  <2>1. PICK b \in 0..NumBins : b = BinLeft(end, npix_per_bins[r]) /\ b <= end
    BY <1>3, PlaceFacts
  <2>2. PICK x \in Nat : x = Left(npix_per_bins[r], i)
    <3>1. Left(npix_per_bins[r], i) \in Nat
      <4>1. Len(npix_per_bins[r]) # 0 => Left(npix_per_bins[r], i) \in Nat
        <5>1. Len(npix_per_bins[r]) # 0 =>
                \A j \in 1..Len(npix) : npix_per_bins[r][1][j] \in Nat
                                         /\ Left(npix_per_bins[r], j) = npix_per_bins[r][1][j]
          BY <1>3, PlaceFacts
        <5> QED
          BY <5>1
      <4>2. Len(npix_per_bins[r]) = 0 => Left(npix_per_bins[r], i) = 0
        BY <1>3, PlaceFacts
      <4> QED
        BY <4>1, <4>2
    <3> QED
      BY <3>1
  <2>3. pos[i] + Left(npix_per_bins[r], i) <= SumTo(npix[i], b)
    BY <1>3, <2>1 DEF Section
  <2>4. SumTo(npix[i], b) \in Nat /\ SumTo(npix[i], end) \in Nat
          /\ SumTo(npix[i], b) <= SumTo(npix[i], end)
    BY <1>3, <1>4, <2>1, UpToFacts
  <2>5. pos[i] \in Nat
    BY <1>4
  <2> HIDE DEF pos, end, npix
  <2> QED
    BY <2>2, <2>3, <2>4, <2>5
<1>6. /\ m \in 1..(NumBins - end) /\ npix_per_bins'[r] \in Seq([1..Len(npix) -> Nat])
      /\ Len(npix_per_bins'[r]) = m
      /\ \A k \in 1..m : npix_per_bins'[r][k] = Row(npix, end + k)
      /\ npix_in_bins'[r] = Cumsum(BinTotals(npix_per_bins'[r]))
      /\ ibin_end'[r] = end + m /\ npix_processed'[r] = 0 /\ nbins_start'[r] = end + 1
      /\ n_pix_2process'[r] = Last(npix_in_bins'[r])
  BY <1>1 DEF NewSectionOf
<1> HIDE DEF npix, end, pos
<1>7. NewIs(npix, end, m, npix_per_bins'[r], npix_in_bins'[r], pos)
  BY <1>3, <1>4, <1>5, <1>6, NewSection
<1>8. Section(npix, end + m, npix_per_bins'[r], npix_in_bins'[r], 0, pos)
  BY <1>7 DEF NewIs
<1>9. SectionInv'
  <2> SUFFICES ASSUME NEW q \in Readers
               PROVE  Section(input.npix[q], ibin_end'[q], npix_per_bins'[q], npix_in_bins'[q],
                              npix_processed'[q], pos_pixstart[q])
    BY <1>2 DEF SectionInv
  <2>1. CASE q = r
    BY <1>6, <1>8, <2>1 DEF npix, pos
  <2>2. CASE q # r
    BY <1>1, <2>2 DEF NewSectionOf, SectionInv
  <2> QED
    BY <2>1, <2>2
<1>10. CountedInv'
  <2> SUFFICES ASSUME PartsCounted, NEW q \in Readers
               PROVE  Counted(input.npix[q], input.buf, ibin_end'[q], npix_per_bins'[q],
                              npix_in_bins'[q], npix_processed'[q], n_pix_2process'[q],
                              pos_pixstart[q])
    BY <1>2 DEF CountedInv
  <2>1. CASE q = r
    <3>1. Counted(npix, input.buf, end, npix_per_bins[r], npix_in_bins[r], npix_processed[r],
                  n_pix_2process[r], pos)
      BY DEF CountedInv, npix, end, pos
    <3>2. \A i \in 1..Len(npix) : pos[i] = SumTo(npix[i], end)
      <4>1. n_pix_2process[r] \in Int
        BY <1>3
      <4> QED
        BY <1>2, <1>3, <3>1, <4>1, AllOfSection
    <3>3. Counted(npix, input.buf, end + m, npix_per_bins'[r], npix_in_bins'[r], 0,
                  Last(npix_in_bins'[r]), pos)
      BY <1>3, <1>4, <1>6, <3>2, NewCounted
    <3> QED
      BY <1>6, <2>1, <3>3 DEF npix, pos
  <2>2. CASE q # r
    BY <1>1, <2>2 DEF NewSectionOf, CountedInv
  <2> QED
    BY <2>1, <2>2
<1>11. Last(npix_in_bins'[r]) \in Nat /\ end + 1 \in Nat
  <2>1. TotalsIs(npix_per_bins'[r])
    BY <1>3, <1>6, TotalsFacts
  <2>2. /\ npix_in_bins'[r] \in Seq(Nat) /\ Len(npix_in_bins'[r]) = m
    BY <1>6, <2>1 DEF TotalsIs
  <2>3. m \in 1..m /\ end \in Nat
    BY <1>4, <1>6, JobAssumption
  <2> QED
    BY <2>2, <2>3 DEF Last
<1>12. ShapeInv'
  <2>1. /\ DOMAIN ibin_end' = Readers /\ DOMAIN nbins_start' = Readers
        /\ DOMAIN npix_per_bins' = Readers /\ DOMAIN npix_in_bins' = Readers
        /\ DOMAIN npix_processed' = Readers /\ DOMAIN n_pix_2process' = Readers
    BY DEF ReadSection, ShapeInv
  <2>2. DOMAIN mess' = Readers
    BY DEF ReadSection, ShapeInv
  <2>3. \A q \in Readers : nbins_start'[q] \in Nat /\ n_pix_2process'[q] \in Nat
    <3> TAKE q \in Readers
    <3>1. CASE q = r
      BY <1>6, <1>11, <3>1
    <3>2. CASE q # r
      BY <1>1, <3>2 DEF NewSectionOf, ShapeInv
    <3> QED
      BY <3>1, <3>2
  <2> QED
    BY <1>2, <2>1, <2>2, <2>3 DEF ShapeInv, cacheVars
<1> QED
  BY <1>9, <1>10, <1>12

\* A pass that ends the job with an error.
CannotPass(r) ==
  \/ npix_in_bins[r] = << >>
  \/ CannotRead(r, NbinForPixels(npix_per_bins[r], npix_in_bins[r], npix_processed[r], input.buf))

\* What one pass of the inner loop leaves.
LastBin(r, step) == IF step.bins = 0 THEN nbins_start[r] ELSE nbins_start[r] + step.bins - 1
BlockOf(r, step) ==
  /\ result = "running" /\ npix_processed[r] < n_pix_2process[r]
  /\ step = NbinForPixels(npix_per_bins[r], npix_in_bins[r], npix_processed[r], input.buf)
  /\ npix_in_bins[r] # << >> /\ ~CannotRead(r, step)
  /\ npix_per_bins'[r] = step.per /\ npix_in_bins'[r] = step.cum
  /\ npix_processed'[r] = step.processed /\ nbins_start'[r] = LastBin(r, step) + 1
  /\ pos_pixstart'[r] = PosAfter(pos_pixstart[r], step.read)
  /\ UNCHANGED <<input, ibin_end, n_pix_2process, cacheVars, result>>
  /\ \A q \in Readers \ {r} :
       /\ nbins_start'[q] = nbins_start[q] /\ npix_per_bins'[q] = npix_per_bins[q]
       /\ npix_in_bins'[q] = npix_in_bins[q] /\ npix_processed'[q] = npix_processed[q]
       /\ pos_pixstart'[q] = pos_pixstart[q]
  /\ DOMAIN nbins_start' = Readers /\ DOMAIN npix_per_bins' = Readers
  /\ DOMAIN npix_in_bins' = Readers /\ DOMAIN npix_processed' = Readers
  /\ DOMAIN pos_pixstart' = Readers
  /\ IF input.serial THEN file' = file \o PixelsOf(r, step.read) /\ UNCHANGED mess
     ELSE /\ mess' = [mess EXCEPT ![r] =
                        Append(@, Message(<<nbins_start[r], LastBin(r, step)>>,
                                          PixelsOf(r, step.read), EdgesOf(step.read),
                                          step.bins > 0))]
          /\ UNCHANGED file

LEMMA ReadBlockFacts ==
  ASSUME ShapeInv, SectionInv, NEW r \in Readers, ReadBlock(r)
  PROVE  \/ Fail /\ npix_processed[r] < n_pix_2process[r] /\ CannotPass(r)
         \/ \E step : BlockOf(r, step)
<1> DEFINE step == NbinForPixels(npix_per_bins[r], npix_in_bins[r], npix_processed[r], input.buf)
           last == LastBin(r, step)
<1>1. /\ result = "running" /\ npix_processed[r] < n_pix_2process[r]
      /\ IF npix_in_bins[r] = << >> \/ CannotRead(r, step) THEN Fail
         ELSE /\ npix_per_bins' = [npix_per_bins EXCEPT ![r] = step.per]
              /\ npix_in_bins' = [npix_in_bins EXCEPT ![r] = step.cum]
              /\ npix_processed' = [npix_processed EXCEPT ![r] = step.processed]
              /\ pos_pixstart' = [pos_pixstart EXCEPT ![r] =
                   [i \in Files(r) |-> @[i] + FromFile(step.read, i, Len(step.read))]]
              /\ nbins_start' = [nbins_start EXCEPT ![r] = last + 1]
              /\ IF input.serial THEN file' = file \o PixelsOf(r, step.read) /\ UNCHANGED mess
                 ELSE /\ mess' = [mess EXCEPT ![r] =
                                    Append(@, Message(<<nbins_start[r], last>>,
                                                      PixelsOf(r, step.read), EdgesOf(step.read),
                                                      step.bins > 0))]
                      /\ UNCHANGED file
              /\ UNCHANGED <<input, ibin_end, n_pix_2process, cacheVars, result>>
  BY DEF ReadBlock, LastBin
<1> HIDE DEF step, last
<1>2. SUFFICES ASSUME ~(npix_in_bins[r] = << >> \/ CannotRead(r, step))
               PROVE  BlockOf(r, step)
  BY <1>1 DEF CannotPass, step
<1>3. DOMAIN pos_pixstart[r] = Files(r)
  <2>1. Files(r) = 1..Len(input.npix[r])
    BY InputFacts DEF ShapeInv
  <2> QED
    BY <2>1 DEF SectionInv, Section
<1>4. pos_pixstart' = [pos_pixstart EXCEPT ![r] = PosAfter(pos_pixstart[r], step.read)]
  BY <1>1, <1>2, <1>3 DEF PosAfter, ShapeInv
<1>5. /\ npix_per_bins'[r] = step.per /\ npix_in_bins'[r] = step.cum
      /\ npix_processed'[r] = step.processed /\ nbins_start'[r] = last + 1
      /\ pos_pixstart'[r] = PosAfter(pos_pixstart[r], step.read)
      /\ \A q \in Readers \ {r} :
           /\ nbins_start'[q] = nbins_start[q] /\ npix_per_bins'[q] = npix_per_bins[q]
           /\ npix_in_bins'[q] = npix_in_bins[q] /\ npix_processed'[q] = npix_processed[q]
           /\ pos_pixstart'[q] = pos_pixstart[q]
      /\ DOMAIN nbins_start' = Readers /\ DOMAIN npix_per_bins' = Readers
      /\ DOMAIN npix_in_bins' = Readers /\ DOMAIN npix_processed' = Readers
      /\ DOMAIN pos_pixstart' = Readers
  BY <1>1, <1>2, <1>4 DEF ShapeInv
<1> QED
  BY <1>1, <1>2, <1>5 DEF BlockOf, step, last

\* A pass leaves the section one, and counts what it reads.
LEMMA BlockStep ==
  ASSUME ShapeInv, SectionInv, CountedInv, NEW r \in Readers, NEW step, BlockOf(r, step)
  PROVE  ShapeInv' /\ SectionInv' /\ CountedInv'
<1> DEFINE npix == input.npix[r]
           end == ibin_end[r]
           per == npix_per_bins[r]
           cum == npix_in_bins[r]
           processed == npix_processed[r]
           pos == pos_pixstart[r]
           total == n_pix_2process[r]
           buf == input.buf
<1>1. /\ UNCHANGED <<input, ibin_end, n_pix_2process, cacheVars, result>> /\ Readers' = Readers
      /\ PartsCounted' = PartsCounted /\ \A q : Files(q)' = Files(q)
  BY DEF BlockOf, Readers, Files, PartsCounted, BinSize
<1>2. /\ step = NbinForPixels(per, cum, processed, buf) /\ cum # << >>
      /\ npix_per_bins'[r] = step.per /\ npix_in_bins'[r] = step.cum
      /\ npix_processed'[r] = step.processed /\ nbins_start'[r] = LastBin(r, step) + 1
      /\ pos_pixstart'[r] = PosAfter(pos, step.read)
  BY DEF BlockOf
<1>3. /\ \A q \in Readers \ {r} :
           /\ nbins_start'[q] = nbins_start[q] /\ npix_per_bins'[q] = npix_per_bins[q]
           /\ npix_in_bins'[q] = npix_in_bins[q] /\ npix_processed'[q] = npix_processed[q]
           /\ pos_pixstart'[q] = pos_pixstart[q]
      /\ DOMAIN nbins_start' = Readers /\ DOMAIN npix_per_bins' = Readers
      /\ DOMAIN npix_in_bins' = Readers /\ DOMAIN npix_processed' = Readers
      /\ DOMAIN pos_pixstart' = Readers
  BY DEF BlockOf
<1>4. /\ IsInput(npix) /\ buf \in Nat /\ buf # 0 /\ Section(npix, end, per, cum, processed, pos)
      /\ total \in Int /\ Len(npix) \in Nat /\ Files(r) = 1..Len(npix)
  BY InputFacts DEF ShapeInv, SectionInv
<1>5. /\ per \in Seq([1..Len(npix) -> Nat]) /\ cum \in Seq(Int) /\ Len(cum) = Len(per)
      /\ processed \in Nat /\ \A j, k \in 1..Len(cum) : j <= k => cum[j] <= cum[k]
  BY <1>4 DEF Section
<1> HIDE DEF npix, end, per, cum, processed, pos, total, buf
<1>6. Section(npix, end, step.per, step.cum, step.processed, PosAfter(pos, step.read))
  BY <1>2, <1>4, StepSection
<1>7. \/ /\ cum[1] <= buf
         /\ \E n \in 1..Len(per) :
              /\ TakesBins(step, per, cum, processed, n, cum[n]) /\ cum[n] <= buf
              /\ n # Len(per) => cum[n + 1] > buf
      \/ /\ cum[1] > buf /\ cum[1] <= 2 * buf
         /\ TakesBins(step, per, cum, processed, 1, processed + cum[1])
      \/ cum[1] > 2 * buf /\ step = PartOfBin(per, cum, processed, buf)
  BY <1>2, <1>4, <1>5, StepShape
<1>8. SectionInv'
  <2> SUFFICES ASSUME NEW q \in Readers
               PROVE  Section(input.npix[q], ibin_end[q], npix_per_bins'[q], npix_in_bins'[q],
                              npix_processed'[q], pos_pixstart'[q])
    BY <1>1 DEF SectionInv
  <2>1. CASE q = r
    BY <1>2, <1>6, <2>1 DEF npix, pos, end
  <2>2. CASE q # r
    BY <1>3, <2>2 DEF SectionInv
  <2> QED
    BY <2>1, <2>2
<1>9. PartsCounted => Counted(npix, buf, end, step.per, step.cum, step.processed, total,
                              PosAfter(pos, step.read))
  <2> HAVE PartsCounted
  <2>1. Counted(npix, buf, end, per, cum, processed, total, pos)
    BY DEF CountedInv, npix, buf, end, per, cum, processed, total, pos
  <2>2. Len(npix) <= 2 \/ \A b \in 1..NumBins : Size(npix, b) <= 2 * buf
    <3>1. \A b : BinSize(r, b) = Size(npix, b)
      BY DEF BinSize, Size, Row, Files, npix
    <3> QED
      BY <3>1 DEF PartsCounted, npix, buf
  <2>3. CASE cum[1] <= buf /\ \E n \in 1..Len(per) : TakesBins(step, per, cum, processed, n, cum[n])
    BY <1>4, <2>1, <2>3, TakesBinsCounted
  <2>4. CASE cum[1] > buf /\ TakesBins(step, per, cum, processed, 1, processed + cum[1])
    BY <1>4, <2>1, <2>4, TakesBinsCounted
  <2>5. CASE cum[1] > 2 * buf /\ step = PartOfBin(per, cum, processed, buf)
    BY <1>2, <1>4, <2>1, <2>2, <2>5, PartCounted
  <2> QED
    BY <1>7, <2>3, <2>4, <2>5
<1>10. CountedInv'
  <2> SUFFICES ASSUME PartsCounted, NEW q \in Readers
               PROVE  Counted(input.npix[q], input.buf, ibin_end[q], npix_per_bins'[q],
                              npix_in_bins'[q], npix_processed'[q], n_pix_2process[q],
                              pos_pixstart'[q])
    BY <1>1 DEF CountedInv
  <2>1. CASE q = r
    BY <1>2, <1>9, <2>1 DEF npix, pos, end, buf, total
  <2>2. CASE q # r
    BY <1>3, <2>2 DEF CountedInv
  <2> QED
    BY <2>1, <2>2
<1>11. LastBin(r, step) + 1 \in Nat
  <2>1. nbins_start[r] \in Nat
    BY DEF ShapeInv
  <2>2. step.bins \in Nat
    <3>1. ASSUME NEW n, NEW d, TakesBins(step, per, cum, processed, n, d)
          PROVE  step.bins \in Nat
      BY <1>5, <3>1 DEF TakesBins
    <3>2. step = PartOfBin(per, cum, processed, buf) => step.bins = 0
      BY DEF PartOfBin, Step
    <3> QED
      BY <1>7, <3>1, <3>2
  <2> QED
    BY <2>1, <2>2 DEF LastBin
<1>12. ShapeInv'
  <2>1. DOMAIN mess' = Readers
    BY DEF BlockOf, ShapeInv
  <2>2. \A q \in Readers : nbins_start'[q] \in Nat
    BY <1>2, <1>3, <1>11 DEF ShapeInv
  <2> QED
    BY <1>1, <1>3, <2>1, <2>2 DEF ShapeInv, cacheVars
<1> QED
  BY <1>8, <1>10, <1>12

(***************************************************************************)
(* The pixels that are read.                                               *)
(***************************************************************************)
\* Pixel p is one of bin b of what is read.
IsOfBin(r, read, b, p) ==
  \E i \in Files(r) : \E k \in 1..read[b][i] :
    p = <<r, i, pos_pixstart[r][i] + FromFile(read, i, b - 1) + k>>
OfBin(r, read, b) == FlattenSeq([i \in Files(r) |-> TakenFrom(r, i, read, b)])
\* A reader whose files F are read from.
ReadsFrom(r, F, read) ==
  /\ r \in Nat /\ F \in Nat /\ Files(r) = 1..F /\ pos_pixstart[r] \in [1..F -> Nat]
  /\ read \in Seq([1..F -> Nat])

LEMMA OfBinFacts ==
  ASSUME NEW r, NEW F, NEW read, ReadsFrom(r, F, read), NEW b \in 1..Len(read)
  PROVE  /\ OfBin(r, read, b) \in Seq(Pixel) /\ Len(OfBin(r, read, b)) = Total(read[b])
         /\ IsInjective(OfBin(r, read, b))
         /\ \A p \in Range(OfBin(r, read, b)) : IsOfBin(r, read, b, p)
         /\ \A p : IsOfBin(r, read, b, p) => p \in Range(OfBin(r, read, b))
<1> DEFINE pos == pos_pixstart[r]
           from(i) == TakenFrom(r, i, read, b)
           ss == [i \in 1..F |-> from(i)]
           before(i) == pos[i] + FromFile(read, i, b - 1)
<1>1. /\ r \in Nat /\ F \in Nat /\ Files(r) = 1..F /\ pos \in [1..F -> Nat]
      /\ read \in Seq([1..F -> Nat]) /\ read[b] \in [1..F -> Nat]
  BY DEF ReadsFrom
<1>2. ASSUME NEW i \in 1..F
      PROVE  /\ read[b][i] \in Nat /\ before(i) \in Nat /\ i \in Nat
             /\ from(i) = [k \in 1..read[b][i] |-> <<r, i, before(i) + k>>]
  <2>1. FileSums(F, read, i)
    BY <1>1, FromFileFacts
  <2>2. b - 1 \in 0..Len(read)
    BY <1>1
  <2>3. FromFile(read, i, b - 1) \in Nat
    BY <2>1, <2>2 DEF FileSums
  <2>4. pos[i] \in Nat /\ read[b][i] \in Nat
    BY <1>1
  <2> QED
    BY <2>3, <2>4 DEF TakenFrom
<1> HIDE DEF from, before
<1>3. ASSUME NEW i \in 1..F
      PROVE  /\ from(i) \in Seq(Pixel) /\ Len(from(i)) = read[b][i] /\ DOMAIN from(i) = 1..read[b][i]
             /\ \A k \in 1..read[b][i] : from(i)[k] = <<r, i, before(i) + k>>
  <2>1. \A k \in 1..read[b][i] : <<r, i, before(i) + k>> \in Pixel
    <3> TAKE k \in 1..read[b][i]
    <3>1. PICK x \in Nat : x = before(i)
      BY <1>2
    <3>2. PICK y \in Nat : y = read[b][i]
      BY <1>2
    <3>3. x + k \in Nat
      BY <3>2
    <3>4. r \in Nat /\ i \in Nat
      BY <1>1, <1>2
    <3> QED
      BY <3>1, <3>3, <3>4 DEF Pixel
  <2> QED
    BY <1>2, <2>1
<1>4. ss \in Seq(Seq(Pixel)) /\ Len(ss) = F /\ \A i \in 1..F : ss[i] = from(i)
  BY <1>1, <1>3
<1> HIDE DEF ss
<1>5. OfBin(r, read, b) = FlattenSeq(ss)
  BY <1>1 DEF OfBin, ss, from
<1>6. FlattenSeq(ss) \in Seq(Pixel) /\ Len(FlattenSeq(ss)) = EndOf(ss, Len(ss))
  BY <1>4, FlattenFacts
<1>7. EndOf(ss, F) = Total(read[b])
  <2>1. \A i \in 1..F : read[b][i] \in Nat /\ Lengths(ss)[i] = read[b][i]
    BY <1>2, <1>3, <1>4 DEF Lengths
  <2>2. F \in 0..F
    BY <1>1
  <2>3. SumTo(Lengths(ss), F) = SumTo(read[b], F)
    <3>1. F \in Nat /\ \A i \in 1..F : Lengths(ss)[i] \in Nat /\ Lengths(ss)[i] = read[b][i]
      BY <1>1, <2>1
    <3> QED
      BY <2>2, <3>1, SumToSame
  <2> QED
    BY <1>1, <2>3, TotalFacts DEF EndOf
<1>8. \A i \in 1..Len(ss) : IsInjective(ss[i])
  <2> TAKE i \in 1..Len(ss)
  <2>1. ASSUME NEW k \in 1..read[b][i], NEW l \in 1..read[b][i], ss[i][k] = ss[i][l]
        PROVE  k = l
    <3>1. <<r, i, before(i) + k>> = <<r, i, before(i) + l>>
      BY <1>3, <1>4, <2>1
    <3>2. before(i) + k = before(i) + l
      BY <3>1
    <3>3. PICK x \in Nat : x = before(i)
      BY <1>2, <1>4
    <3> QED
      BY <3>2, <3>3
  <2> QED
    BY <1>3, <1>4, <2>1 DEF IsInjective
<1>9. ASSUME NEW i \in 1..F, NEW p \in Range(ss[i])
      PROVE  \E k \in 1..read[b][i] : p = <<r, i, before(i) + k>>
  BY <1>3, <1>4, <1>9 DEF Range
<1>10. ASSUME NEW i \in 1..F, NEW k \in 1..read[b][i]
       PROVE  <<r, i, before(i) + k>> \in Range(ss[i])
  BY <1>3, <1>4 DEF Range
<1>11. \A i, j \in 1..Len(ss) : i # j => Range(ss[i]) \cap Range(ss[j]) = {}
  <2> SUFFICES ASSUME NEW i \in 1..F, NEW j \in 1..F, NEW p, p \in Range(ss[i]), p \in Range(ss[j])
               PROVE  i = j
    BY <1>4
  <2>1. PICK k : p = <<r, i, before(i) + k>>
    BY <1>9
  <2>2. PICK l : p = <<r, j, before(j) + l>>
    BY <1>9
  <2> QED
    BY <2>1, <2>2
<1>12. IsInjective(FlattenSeq(ss))
  BY <1>4, <1>8, <1>11, FlattenInjective
<1>13. Range(FlattenSeq(ss)) = UNION {Range(ss[i]) : i \in 1..F}
  BY <1>4, FlattenRange
<1>14. \A p : IsOfBin(r, read, b, p) <=> \E i \in 1..F : \E k \in 1..read[b][i] :
                                              p = <<r, i, before(i) + k>>
  BY <1>1 DEF IsOfBin, before
<1>15. \A p \in Range(FlattenSeq(ss)) : IsOfBin(r, read, b, p)
  <2> TAKE p \in Range(FlattenSeq(ss))
  <2>1. PICK i \in 1..F : p \in Range(ss[i])
    BY <1>13
  <2>2. PICK k \in 1..read[b][i] : p = <<r, i, before(i) + k>>
    BY <1>9, <2>1
  <2> QED
    BY <1>14, <2>2
<1>16. \A p : IsOfBin(r, read, b, p) => p \in Range(FlattenSeq(ss))
  <2> SUFFICES ASSUME NEW p, IsOfBin(r, read, b, p)
               PROVE  p \in Range(FlattenSeq(ss))
    OBVIOUS
  <2>1. PICK i \in 1..F : \E k \in 1..read[b][i] : p = <<r, i, before(i) + k>>
    BY <1>14
  <2>2. p \in Range(ss[i])
    BY <1>10, <2>1
  <2> QED
    BY <1>13, <2>2
<1> QED
  BY <1>4, <1>5, <1>6, <1>7, <1>12, <1>15, <1>16

\* All that is read, with its edges.
PixelsIs(r, read) ==
  LET pix == PixelsOf(r, read)
      edges == EdgesOf(read)
  IN  /\ pix \in Seq(Pixel) /\ IsInjective(pix)
      /\ \A p \in Range(pix) : \E i \in Files(r) : \E k \in 1..FromFile(read, i, Len(read)) :
           p = <<r, i, pos_pixstart[r][i] + k>>
      /\ \A i \in Files(r) : \A k \in 1..FromFile(read, i, Len(read)) :
           <<r, i, pos_pixstart[r][i] + k>> \in Range(pix)
      /\ GoodEdges(edges, pix) /\ Len(edges) = Len(read) + 1
      /\ Len(pix) = SumTo(BinTotals(read), Len(read))
      /\ \A b \in 1..Len(read) : \A x \in edges[b]..(edges[b + 1] - 1) :
           IsOfBin(r, read, b, pix[x])
      /\ \A j \in 1..Len(pix) : \E b \in 1..Len(read) :
           edges[b] <= j /\ j < edges[b + 1]

LEMMA PixelsFacts ==
  ASSUME NEW r, NEW F, NEW read, ReadsFrom(r, F, read)
  PROVE  PixelsIs(r, read)
<1> DEFINE pos == pos_pixstart[r]
           pix == PixelsOf(r, read)
           edges == EdgesOf(read)
           ss == [b \in DOMAIN read |-> OfBin(r, read, b)]
           t == BinTotals(read)
<1>1. PICK l \in Nat : l = Len(read) /\ DOMAIN read = 1..l
  BY DEF ReadsFrom
<1>2. /\ r \in Nat /\ F \in Nat /\ Files(r) = 1..F /\ pos \in [1..F -> Nat]
      /\ read \in Seq([1..F -> Nat])
  BY DEF ReadsFrom
<1>3. ASSUME NEW b \in 1..l
      PROVE  /\ OfBin(r, read, b) \in Seq(Pixel) /\ Len(OfBin(r, read, b)) = Total(read[b])
             /\ IsInjective(OfBin(r, read, b))
             /\ \A p \in Range(OfBin(r, read, b)) : IsOfBin(r, read, b, p)
             /\ \A p : IsOfBin(r, read, b, p) => p \in Range(OfBin(r, read, b))
  BY <1>1, OfBinFacts
<1>4. ss \in Seq(Seq(Pixel)) /\ Len(ss) = l /\ \A b \in 1..l : ss[b] = OfBin(r, read, b)
  BY <1>1, <1>3
<1>5. pix = FlattenSeq(ss)
  BY DEF PixelsOf, OfBin
<1> HIDE DEF pix, ss
<1>6. /\ pix \in Seq(Pixel) /\ Len(pix) = EndOf(ss, l)
      /\ \A k \in 1..l : \A x \in 1..Len(ss[k]) :
           /\ EndOf(ss, k - 1) + x \in 1..Len(pix)
           /\ pix[EndOf(ss, k - 1) + x] = ss[k][x]
      /\ \A j \in 1..Len(pix) : \E k \in 1..l : \E x \in 1..Len(ss[k]) : j = EndOf(ss, k - 1) + x
  <2>1. /\ pix \in Seq(Pixel) /\ Len(pix) = EndOf(ss, Len(ss))
        /\ \A k \in 1..Len(ss) : \A x \in 1..Len(ss[k]) :
             /\ EndOf(ss, k - 1) + x \in 1..Len(pix)
             /\ pix[EndOf(ss, k - 1) + x] = ss[k][x]
        /\ \A j \in 1..Len(pix) : \E k \in 1..Len(ss) : \E x \in 1..Len(ss[k]) :
             j = EndOf(ss, k - 1) + x
    BY <1>4, <1>5, FlattenFacts
  <2> QED
    BY <1>4, <2>1
<1>7. TotalsIs(read)
  BY <1>2, TotalsFacts
<1>8. \A k \in 0..l : EndOf(ss, k) = SumTo(t, k) /\ SumTo(t, k) \in Nat
  <2>1. \A k \in 1..l : t[k] \in Nat /\ Lengths(ss)[k] = t[k]
    BY <1>1, <1>3, <1>4, <1>7 DEF TotalsIs, Lengths
  <2>2. \A k \in 0..l : SumTo(Lengths(ss), k) = SumTo(t, k)
    BY <2>1, SumToSame
  <2>3. \A k \in 0..l : SumTo(t, k) \in Nat
    BY <2>1, SumToFacts
  <2> QED
    BY <2>2, <2>3 DEF EndOf
\* Edges.
<1>9. /\ edges \in Seq(Nat \ {0}) /\ Len(edges) = l + 1
      /\ \A k \in 0..l : edges[k + 1] = 1 + SumTo(t, k)
  <2> DEFINE e == [b \in 1..l |-> 1 + Cumsum(t)[b]]
  <2>1. edges = <<1>> \o e
    BY <1>1 DEF EdgesOf
  <2>2. \A k \in 1..l : Cumsum(t)[k] = SumTo(t, k) /\ k \in 0..l
    BY <1>1, <1>7 DEF TotalsIs
  <2>3. \A k \in 1..l : e[k] = 1 + SumTo(t, k) /\ e[k] \in Nat \ {0}
    BY <1>8, <2>2
  <2>4. e \in Seq(Nat \ {0}) /\ Len(e) = l
    BY <2>3
  <2> HIDE DEF e
  <2>5. /\ edges \in Seq(Nat \ {0}) /\ Len(edges) = 1 + l /\ edges[1] = 1
        /\ \A k \in 1..l : edges[1 + k] = e[k]
    BY <2>1, <2>4
  <2>6. SumTo(t, 0) = 0
    BY <1>7 DEF TotalsIs
  <2> HIDE DEF edges
  <2>7. \A k \in 0..l : edges[k + 1] = 1 + SumTo(t, k)
    <3> TAKE k \in 0..l
    <3>1. CASE k = 0
      BY <2>5, <2>6, <3>1
    <3>2. CASE k # 0
      <4>1. k \in 1..l /\ 1 + k = k + 1
        BY <3>2
      <4> QED
        BY <2>3, <2>5, <4>1
    <3> QED
      BY <3>1, <3>2
  <2> QED
    BY <2>5, <2>7
<1> HIDE DEF edges, t
<1>10. GoodEdges(edges, pix)
  <2>1. edges # << >> /\ edges[1] = 1
    <3>1. SumTo(t, 0) = 0
      BY <1>7 DEF TotalsIs, t
    <3>2. 0 \in 0..l /\ 0 + 1 = 1
      OBVIOUS
    <3>3. edges[0 + 1] = 1 + SumTo(t, 0)
      BY <1>9, <3>2
    <3> QED
      BY <1>9, <3>1, <3>2, <3>3
  <2>2. edges[Len(edges)] = Len(pix) + 1
    <3>1. l \in 0..l
      OBVIOUS
    <3>2. edges[l + 1] = 1 + SumTo(t, l) /\ EndOf(ss, l) = SumTo(t, l) /\ SumTo(t, l) \in Nat
      BY <1>8, <1>9, <3>1
    <3> QED
      BY <1>6, <1>9, <3>2
  <2>3. \A j, k \in 1..Len(edges) : j <= k => edges[j] <= edges[k]
    <3> SUFFICES ASSUME NEW j \in 1..(l + 1), NEW k \in 1..(l + 1), j <= k
                 PROVE  edges[j] <= edges[k]
      BY <1>9
    <3>1. PICK j1 \in 0..l, k1 \in 0..l : j = j1 + 1 /\ k = k1 + 1 /\ j1 <= k1
      <4>1. j - 1 \in 0..l /\ k - 1 \in 0..l /\ j = (j - 1) + 1 /\ k = (k - 1) + 1 /\ j - 1 <= k - 1
        OBVIOUS
      <4> QED
        BY <4>1
    <3>2. SumTo(t, j1) <= SumTo(t, k1)
      BY <1>1, <1>7, <3>1 DEF TotalsIs, t
    <3>3. edges[j] = 1 + SumTo(t, j1) /\ edges[k] = 1 + SumTo(t, k1)
      BY <1>9, <3>1
    <3>4. SumTo(t, j1) \in Nat /\ SumTo(t, k1) \in Nat
      BY <1>8
    <3> QED
      BY <3>2, <3>3, <3>4
  <2> QED
    BY <1>9, <2>1, <2>2, <2>3 DEF GoodEdges
<1>11. \A b \in 1..l : /\ edges[b] = 1 + EndOf(ss, b - 1) /\ EndOf(ss, b - 1) \in Nat
                       /\ edges[b + 1] = 1 + EndOf(ss, b - 1) + Len(ss[b]) /\ Len(ss[b]) \in Nat
                       /\ DOMAIN ss[b] = 1..Len(ss[b])
  <2> TAKE b \in 1..l
  <2>1. b \in 0..l /\ b - 1 \in 0..l /\ (b - 1) + 1 = b
    OBVIOUS
  <2>2. edges[b] = 1 + EndOf(ss, b - 1) /\ edges[b + 1] = 1 + EndOf(ss, b)
    BY <1>8, <1>9, <2>1
  <2>3. /\ EndOf(ss, b) = EndOf(ss, b - 1) + Len(ss[b]) /\ Len(ss[b]) \in Nat
        /\ EndOf(ss, b - 1) \in Nat
    BY <1>4, <2>1, EndFacts
  <2>4. DOMAIN ss[b] = 1..Len(ss[b])
    BY <1>4
  <2> QED
    BY <2>2, <2>3, <2>4
<1>12. \A b \in 1..l : \A x \in edges[b]..(edges[b + 1] - 1) : IsOfBin(r, read, b, pix[x])
  <2> TAKE b \in 1..l
  <2> TAKE x \in edges[b]..(edges[b + 1] - 1)
  <2>1. PICK m \in Nat, n \in Nat : /\ m = EndOf(ss, b - 1) /\ n = Len(ss[b])
                                    /\ edges[b] = 1 + m /\ edges[b + 1] = 1 + m + n
    BY <1>11
  <2>2. PICK y \in 1..n : x = m + y
    <3>1. x \in (1 + m)..(m + n)
      BY <2>1
    <3>2. x - m \in 1..n /\ x = m + (x - m)
      BY <3>1
    <3> QED
      BY <3>2
  <2>3. pix[x] = ss[b][y]
    BY <1>6, <2>1, <2>2
  <2>4. ss[b][y] \in Range(ss[b])
    BY <1>11, <2>1 DEF Range
  <2> QED
    BY <1>3, <1>4, <2>3, <2>4
<1>13. \A j \in 1..Len(pix) : \E b \in 1..l : edges[b] <= j /\ j < edges[b + 1]
  <2> TAKE j \in 1..Len(pix)
  <2>1. PICK b \in 1..l : \E x \in 1..Len(ss[b]) : j = EndOf(ss, b - 1) + x
    BY <1>6
  <2>2. PICK m \in Nat, n \in Nat : /\ m = EndOf(ss, b - 1) /\ n = Len(ss[b])
                                    /\ edges[b] = 1 + m /\ edges[b + 1] = 1 + m + n
    BY <1>11
  <2>3. PICK x \in 1..n : j = m + x
    BY <2>1, <2>2
  <2>4. 1 + m <= j /\ j < 1 + m + n
    BY <2>3
  <2> QED
    BY <2>2, <2>4
\* The pixels, and that each is read once.
<1>14. ASSUME NEW i \in 1..F
       PROVE  /\ \A b \in 1..l : /\ FromFile(read, i, b) = FromFile(read, i, b - 1) + read[b][i]
                                 /\ FromFile(read, i, b - 1) \in Nat /\ read[b][i] \in Nat
                                 /\ FromFile(read, i, b) <= FromFile(read, i, l)
              /\ \A b, c \in 1..l : b < c => FromFile(read, i, b) <= FromFile(read, i, c - 1)
              /\ FromFile(read, i, l) \in Nat /\ pos[i] \in Nat
  <2>1. FileSums(F, read, i)
    BY <1>2, FromFileFacts
  <2>2. /\ \A b \in 0..l : FromFile(read, i, b) \in Nat
        /\ \A b \in 1..l : /\ FromFile(read, i, b) = FromFile(read, i, b - 1) + read[b][i]
                           /\ read[b][i] \in Nat
        /\ \A b, c \in 0..l : b <= c => FromFile(read, i, b) <= FromFile(read, i, c)
    BY <1>1, <2>1 DEF FileSums
  <2>3. \A b \in 1..l : b \in 0..l /\ b - 1 \in 0..l /\ b <= l
    OBVIOUS
  <2>4. l \in 0..l /\ \A b, c \in 1..l : b < c => b <= c - 1
    OBVIOUS
  <2>5. pos[i] \in Nat
    BY <1>2
  <2> QED
    BY <2>2, <2>3, <2>4, <2>5
<1>15. Range(pix) = UNION {Range(ss[b]) : b \in 1..l}
  BY <1>4, <1>5, FlattenRange
<1>16. ASSUME NEW p, NEW b \in 1..l, p \in Range(ss[b])
       PROVE  \E i \in 1..F : \E k \in 1..read[b][i] : p = <<r, i, pos[i] + FromFile(read, i, b - 1) + k>>
  <2>1. IsOfBin(r, read, b, p)
    BY <1>3, <1>4, <1>16
  <2> QED
    BY <1>2, <2>1 DEF IsOfBin
<1>17. IsInjective(pix)
  <2>1. \A b \in 1..Len(ss) : IsInjective(ss[b])
    BY <1>3, <1>4
  <2>2. ASSUME NEW b \in 1..l, NEW c \in 1..l, NEW p, p \in Range(ss[b]), p \in Range(ss[c]), b < c
        PROVE  FALSE
    <3>1. PICK i \in 1..F : \E k \in 1..read[b][i] : p = <<r, i, pos[i] + FromFile(read, i, b - 1) + k>>
      BY <1>16, <2>2
    <3>2. PICK k \in 1..read[b][i] : p = <<r, i, pos[i] + FromFile(read, i, b - 1) + k>>
      BY <3>1
    <3>3. PICK j \in 1..F : \E m \in 1..read[c][j] : p = <<r, j, pos[j] + FromFile(read, j, c - 1) + m>>
      BY <1>16, <2>2
    <3>4. PICK m \in 1..read[c][j] : p = <<r, j, pos[j] + FromFile(read, j, c - 1) + m>>
      BY <3>3
    <3>5. i = j /\ pos[i] + FromFile(read, i, b - 1) + k = pos[i] + FromFile(read, i, c - 1) + m
      BY <3>2, <3>4
    <3>6. PICK q \in Nat, x \in Nat, y \in Nat, z \in Nat, w \in Nat :
            /\ q = pos[i] /\ x = FromFile(read, i, b - 1) /\ y = FromFile(read, i, c - 1)
            /\ z = read[b][i] /\ w = read[c][i] /\ x + z <= y
      <4>1. FromFile(read, i, b) <= FromFile(read, i, c - 1)
        BY <1>14, <2>2
      <4>2. FromFile(read, i, b) = FromFile(read, i, b - 1) + read[b][i]
        BY <1>14
      <4>3. pos[i] \in Nat /\ FromFile(read, i, b - 1) \in Nat /\ read[b][i] \in Nat
        BY <1>14
      <4>4. FromFile(read, i, c - 1) \in Nat /\ read[c][i] \in Nat
        BY <1>14
      <4> QED
        BY <4>1, <4>2, <4>3, <4>4
    <3>7. k \in 1..z /\ m \in 1..w /\ q + x + k = q + y + m
      BY <3>5, <3>6
    <3> QED
      BY <3>6, <3>7
  <2>3. \A b, c \in 1..Len(ss) : b # c => Range(ss[b]) \cap Range(ss[c]) = {}
    <3>1. \A b, c \in 1..l : b # c => b < c \/ c < b
      OBVIOUS
    <3> QED
      BY <1>4, <2>2, <3>1
  <2> QED
    BY <1>4, <1>5, <2>1, <2>3, FlattenInjective
<1>18. \A p \in Range(pix) : \E i \in 1..F : \E k \in 1..FromFile(read, i, l) : p = <<r, i, pos[i] + k>>
  <2> TAKE p \in Range(pix)
  <2>1. PICK b \in 1..l : p \in Range(ss[b])
    BY <1>15
  <2>2. PICK i \in 1..F : \E k \in 1..read[b][i] : p = <<r, i, pos[i] + FromFile(read, i, b - 1) + k>>
    BY <1>16, <2>1
  <2>3. PICK k \in 1..read[b][i] : p = <<r, i, pos[i] + FromFile(read, i, b - 1) + k>>
    BY <2>2
  <2>4. PICK x \in Nat, z \in Nat, y \in Nat, q \in Nat :
          x = FromFile(read, i, b - 1) /\ z = read[b][i] /\ y = FromFile(read, i, l) /\ x + z <= y
            /\ q = pos[i]
    BY <1>14
  <2>5. x + k \in 1..y /\ q + x + k = q + (x + k)
    BY <2>4
  <2> QED
    BY <2>3, <2>4, <2>5
<1>19. \A i \in 1..F : \A k \in 1..FromFile(read, i, l) : <<r, i, pos[i] + k>> \in Range(pix)
  <2> TAKE i \in 1..F
  <2> TAKE k \in 1..FromFile(read, i, l)
  <2> DEFINE f == [b \in 1..l |-> read[b][i]]
  <2>1. \A b \in 1..l : f[b] \in Nat /\ f[b] = read[b][i]
    BY <1>14
  <2>2. \A b : FromFile(read, i, b) = SumTo(f, b)
    BY <1>1 DEF FromFile
  <2> HIDE DEF f
  <2>3. k \in 1..SumTo(f, l)
    BY <2>2
  <2>4. PICK b \in 1..l : \E x \in 1..f[b] : k = SumTo(f, b - 1) + x
    BY <2>1, <2>3, PlaceInSum
  <2>5. PICK x \in 1..read[b][i] : k = FromFile(read, i, b - 1) + x
    BY <2>1, <2>2, <2>4
  <2>6. pos[i] + k = pos[i] + FromFile(read, i, b - 1) + x
    <3>1. PICK q \in Nat, y \in Nat : q = pos[i] /\ y = FromFile(read, i, b - 1)
      BY <1>14
    <3>2. q + (y + x) = q + y + x
      BY <3>1
    <3> QED
      BY <2>5, <3>1, <3>2
  <2>7. IsOfBin(r, read, b, <<r, i, pos[i] + k>>)
    BY <1>2, <2>6 DEF IsOfBin
  <2>8. <<r, i, pos[i] + k>> \in Range(ss[b])
    BY <1>3, <1>4, <2>7
  <2> QED
    BY <1>15, <2>8
<1>20. Len(pix) = SumTo(t, l)
  BY <1>6, <1>8
<1> QED
  <2>1. /\ \A p \in Range(pix) : \E i \in Files(r) : \E k \in 1..FromFile(read, i, Len(read)) :
             p = <<r, i, pos[i] + k>>
        /\ \A i \in Files(r) : \A k \in 1..FromFile(read, i, Len(read)) :
             <<r, i, pos[i] + k>> \in Range(pix)
    BY <1>1, <1>2, <1>18, <1>19
  <2>2. /\ Len(edges) = Len(read) + 1 /\ Len(pix) = SumTo(t, Len(read))
        /\ \A b \in 1..Len(read) : \A x \in edges[b]..(edges[b + 1] - 1) :
             IsOfBin(r, read, b, pix[x])
        /\ \A j \in 1..Len(pix) : \E b \in 1..Len(read) : edges[b] <= j /\ j < edges[b + 1]
    BY <1>1, <1>9, <1>12, <1>13, <1>20
  <2>3. pix \in Seq(Pixel)
    BY <1>6
  <2> HIDE DEF pos
  <2>4. /\ \A p \in Range(PixelsOf(r, read)) :
             \E i \in Files(r) : \E k \in 1..FromFile(read, i, Len(read)) :
               p = <<r, i, pos_pixstart[r][i] + k>>
        /\ \A i \in Files(r) : \A k \in 1..FromFile(read, i, Len(read)) :
             <<r, i, pos_pixstart[r][i] + k>> \in Range(PixelsOf(r, read))
    BY ONLY <2>1 DEF pix, pos
  <2>5. GoodEdges(EdgesOf(read), PixelsOf(r, read)) /\ PixelsOf(r, read) \in Seq(Pixel)
          /\ IsInjective(PixelsOf(r, read))
    BY ONLY <1>10, <1>17, <2>3 DEF pix, edges
  <2>6. /\ Len(EdgesOf(read)) = Len(read) + 1
        /\ Len(PixelsOf(r, read)) = SumTo(BinTotals(read), Len(read))
        /\ \A b \in 1..Len(read) : \A x \in EdgesOf(read)[b]..(EdgesOf(read)[b + 1] - 1) :
             IsOfBin(r, read, b, PixelsOf(r, read)[x])
        /\ \A j \in 1..Len(PixelsOf(r, read)) : \E b \in 1..Len(read) :
             EdgesOf(read)[b] <= j /\ j < EdgesOf(read)[b + 1]
    BY ONLY <2>2 DEF pix, edges, t
  <2> QED
    BY <2>4, <2>5, <2>6 DEF PixelsIs

\* They are put at the end of another sequence, or a slice of one is taken.
LEMMA ConcatFacts ==
  ASSUME NEW S, NEW s \in Seq(S), NEW t \in Seq(S)
  PROVE  /\ s \o t \in Seq(S) /\ Range(s \o t) = Range(s) \cup Range(t)
         /\ IsInjective(s) /\ IsInjective(t) /\ Range(s) \cap Range(t) = {} =>
              IsInjective(s \o t)
<1>1. PICK m \in Nat, n \in Nat : m = Len(s) /\ n = Len(t)
  OBVIOUS
<1> DEFINE u == s \o t
<1>2. /\ u \in Seq(S) /\ Len(u) = m + n /\ DOMAIN u = 1..(m + n)
      /\ DOMAIN s = 1..m /\ DOMAIN t = 1..n
      /\ \A k \in 1..(m + n) : u[k] = IF k <= m THEN s[k] ELSE t[k - m]
  BY <1>1
<1> HIDE DEF u
<1>3. \A k \in 1..m : k \in 1..(m + n) /\ u[k] = s[k]
  BY <1>2
<1>4. \A k \in 1..n : m + k \in 1..(m + n) /\ u[m + k] = t[k]
  <2> TAKE k \in 1..n
  <2>1. m + k \in 1..(m + n) /\ ~(m + k <= m) /\ (m + k) - m = k
    OBVIOUS
  <2> QED
    BY <1>2, <2>1
<1>5. \A k \in 1..(m + n) : k \in 1..m \/ k - m \in 1..n
  OBVIOUS
<1>6. \A k \in 1..(m + n) : \/ k \in 1..m /\ u[k] = s[k] /\ u[k] \in Range(s)
                            \/ k - m \in 1..n /\ u[k] = t[k - m] /\ u[k] \in Range(t)
  <2> TAKE k \in 1..(m + n)
  <2>1. CASE k <= m
    <3>1. k \in 1..m /\ u[k] = s[k]
      BY <1>3, <2>1
    <3>2. s[k] \in Range(s)
      BY <1>2, <3>1 DEF Range
    <3> QED
      BY <3>1, <3>2
  <2>2. CASE ~(k <= m)
    <3>1. PICK x \in 1..n : x = k - m
      BY <2>2
    <3>2. u[k] = t[x]
      BY <1>2, <2>2, <3>1
    <3>3. t[x] \in Range(t)
      BY <1>2 DEF Range
    <3> QED
      BY <3>1, <3>2, <3>3
  <2> QED
    BY <2>1, <2>2
<1>7. Range(u) = Range(s) \cup Range(t)
  <2>1. \A x \in Range(u) : x \in Range(s) \cup Range(t)
    BY <1>2, <1>6 DEF Range
  <2>2. \A x \in Range(s) : x \in Range(u)
    BY <1>2, <1>3 DEF Range
  <2>3. \A x \in Range(t) : x \in Range(u)
    BY <1>2, <1>4 DEF Range
  <2> QED
    BY <2>1, <2>2, <2>3
<1>8. ASSUME IsInjective(s), IsInjective(t), Range(s) \cap Range(t) = {}
      PROVE  IsInjective(u)
  <2> SUFFICES ASSUME NEW j \in 1..(m + n), NEW k \in 1..(m + n), u[j] = u[k]
               PROVE  j = k
    BY <1>2 DEF IsInjective
  <2>1. CASE u[j] \in Range(s)
    <3>1. j \in 1..m /\ u[j] = s[j] /\ k \in 1..m /\ u[k] = s[k]
      BY <1>6, <1>8, <2>1
    <3> QED
      BY <1>2, <1>8, <3>1 DEF IsInjective
  <2>2. CASE u[j] \notin Range(s)
    <3>1. j - m \in 1..n /\ u[j] = t[j - m] /\ k - m \in 1..n /\ u[k] = t[k - m]
      BY <1>6, <2>2
    <3>2. j - m = k - m
      BY <1>2, <1>8, <3>1 DEF IsInjective
    <3> QED
      BY <3>2
  <2> QED
    BY <2>1, <2>2
<1> QED
  BY <1>2, <1>7, <1>8 DEF u

SliceIs(S, s, a, b) ==
  LET t == SubSeq(s, a, b)
  IN  /\ t \in Seq(S) /\ Len(t) = b - a + 1 /\ \A k \in 1..Len(t) : t[k] = s[a + k - 1]
      /\ \A x \in Range(t) : \E k \in a..b : x = s[k]
      /\ Range(t) \subseteq Range(s) /\ (IsInjective(s) => IsInjective(t))

LEMMA SliceFacts ==
  ASSUME NEW S, NEW s \in Seq(S), NEW a \in Nat \ {0}, NEW b \in Nat, a <= b + 1, b <= Len(s)
  PROVE  SliceIs(S, s, a, b)
<1> DEFINE t == SubSeq(s, a, b)
<1>1. PICK n \in Nat : n = b - a + 1
  OBVIOUS
<1>2. /\ t \in Seq(S) /\ Len(t) = n /\ DOMAIN t = 1..n /\ DOMAIN s = 1..Len(s)
      /\ \A k \in 1..n : t[k] = s[a + k - 1]
  BY <1>1
<1> HIDE DEF t
<1>3. \A k \in 1..n : a + k - 1 \in a..b /\ a + k - 1 \in 1..Len(s)
  BY <1>1
<1>4. \A x \in Range(t) : \E k \in a..b : k \in 1..Len(s) /\ x = s[k]
  BY <1>2, <1>3 DEF Range
<1>5. Range(t) \subseteq Range(s)
  BY <1>2, <1>4 DEF Range
<1>6. ASSUME IsInjective(s)
      PROVE  IsInjective(t)
  <2> SUFFICES ASSUME NEW j \in 1..n, NEW k \in 1..n, t[j] = t[k]
               PROVE  j = k
    BY <1>2 DEF IsInjective
  <2>1. a + j - 1 = a + k - 1
    BY <1>2, <1>3, <1>6 DEF IsInjective
  <2> QED
    BY <2>1
<1> QED
  BY <1>1, <1>2, <1>4, <1>5, <1>6 DEF SliceIs, t

(***************************************************************************)
(* The place of a pixel.                                                   *)
(***************************************************************************)
\* The pixels taken from the files of a reader are those of the files before the
\* pass and the ones it reads, which were not taken before.
BlockTakes(r, step) ==
  LET pix == PixelsOf(r, step.read)
  IN  /\ ReadsFrom(r, Len(input.npix[r]), step.read) /\ step.read # << >>
      /\ TakenBy(r)' = TakenBy(r) \cup Range(pix) /\ TakenBy(r) \cap Range(pix) = {}
      /\ \A q \in Readers \ {r} : TakenBy(q)' = TakenBy(q)

LEMMA BlockTakesFacts ==
  ASSUME ShapeInv, SectionInv, NEW r \in Readers, NEW step, BlockOf(r, step)
  PROVE  BlockTakes(r, step) /\ PixelsIs(r, step.read)
<1> DEFINE npix == input.npix[r]
           pos == pos_pixstart[r]
           read == step.read
           pix == PixelsOf(r, read)
<1>1. /\ input.buf \in Nat /\ input.buf # 0 /\ IsInput(npix) /\ Len(npix) \in Nat
      /\ Files(r) = 1..Len(npix) /\ r \in Nat
  BY InputFacts DEF ShapeInv
<1>2. Section(npix, ibin_end[r], npix_per_bins[r], npix_in_bins[r], npix_processed[r], pos)
  BY DEF SectionInv
<1>3. read \in Seq([1..Len(npix) -> Nat]) /\ read # << >>
  BY <1>1, <1>2, StepSection, SMTT(30) DEF BlockOf
<1>4. pos \in [1..Len(npix) -> Nat]
  BY <1>2 DEF Section
<1>5. ReadsFrom(r, Len(npix), read)
  BY <1>1, <1>3, <1>4 DEF ReadsFrom
<1>6. PixelsIs(r, read)
  BY <1>5, PixelsFacts
<1> DEFINE n(i) == FromFile(read, i, Len(read))
<1>7. \A i \in Files(r) : n(i) \in Nat /\ pos[i] \in Nat
  <2> TAKE i \in Files(r)
  <2>1. FileSums(Len(npix), read, i)
    BY <1>1, <1>3, FromFileFacts
  <2>2. Len(read) \in 0..Len(read)
    BY <1>3
  <2> QED
    BY <1>1, <1>4, <2>1, <2>2 DEF FileSums
<1>8. /\ Files(r)' = Files(r) /\ \A i \in Files(r) : pos_pixstart'[r][i] = pos[i] + n(i)
      /\ Readers' = Readers /\ input' = input
  <2>1. pos_pixstart'[r] = PosAfter(pos, read) /\ input' = input
    BY DEF BlockOf
  <2>2. Files(r)' = Files(r) /\ Readers' = Readers
    BY <2>1 DEF Files, Readers
  <2> QED
    BY <1>1, <1>4, <2>1, <2>2 DEF PosAfter
<1>9. /\ \A p \in Range(pix) : \E i \in Files(r) : \E k \in 1..n(i) : p = <<r, i, pos[i] + k>>
      /\ \A i \in Files(r) : \A k \in 1..n(i) : <<r, i, pos[i] + k>> \in Range(pix)
  BY <1>6 DEF PixelsIs
<1> HIDE DEF pix, n, pos
<1>10. \A p \in Range(pix) : \E i \in Files(r) : \E k \in 1..n(i) : p = <<r, i, pos[i] + k>>
  BY <1>9
<1>11. \A p : p \in TakenBy(r) <=> \E i \in Files(r) : \E k \in 1..pos[i] : p = <<r, i, k>>
  BY DEF TakenBy, pos
<1>12. \A p : p \in TakenBy(r)' <=> \E i \in Files(r) : \E k \in 1..(pos[i] + n(i)) : p = <<r, i, k>>
  <2>1. TakenBy(r)' = UNION {{<<r, i, k>> : k \in 1..pos_pixstart'[r][i]} : i \in Files(r)}
    BY <1>8 DEF TakenBy
  <2>2. TakenBy(r)' = UNION {{<<r, i, k>> : k \in 1..(pos[i] + n(i))} : i \in Files(r)}
    BY <1>8, <2>1
  <2> QED
    BY <2>2
<1>13. ASSUME NEW p \in Range(pix)
       PROVE  p \in TakenBy(r)' /\ p \notin TakenBy(r)
  <2>1. PICK i \in Files(r) : \E k \in 1..n(i) : p = <<r, i, pos[i] + k>>
    BY <1>10
  <2>2. PICK k \in 1..n(i) : p = <<r, i, pos[i] + k>>
    BY <2>1
  <2>3. PICK x \in Nat, y \in Nat : x = pos[i] /\ y = n(i)
    BY <1>7
  <2>4. x + k \in 1..(x + y) /\ x + k \notin 1..x
    BY <2>3
  <2> QED
    BY <1>11, <1>12, <2>2, <2>3, <2>4
<1>14. ASSUME NEW p \in TakenBy(r)
       PROVE  p \in TakenBy(r)'
  <2>1. PICK i \in Files(r) : \E k \in 1..pos[i] : p = <<r, i, k>>
    BY <1>11
  <2>2. PICK x \in Nat, y \in Nat : x = pos[i] /\ y = n(i)
    BY <1>7
  <2>3. PICK k \in 1..x : p = <<r, i, k>>
    BY <2>1, <2>2
  <2>4. k \in 1..(x + y)
    BY <2>2
  <2> QED
    BY <1>12, <2>2, <2>3, <2>4
<1>15. ASSUME NEW p \in TakenBy(r)', p \notin TakenBy(r)
       PROVE  p \in Range(pix)
  <2>1. PICK i \in Files(r) : \E k \in 1..(pos[i] + n(i)) : p = <<r, i, k>>
    BY <1>12
  <2>2. PICK x \in Nat, y \in Nat : x = pos[i] /\ y = n(i)
    BY <1>7
  <2>3. PICK k \in 1..(x + y) : p = <<r, i, k>>
    BY <2>1, <2>2
  <2>4. k \notin 1..x
    BY <1>11, <1>15, <2>2, <2>3
  <2>5. k - x \in 1..y /\ x + (k - x) = k
    BY <2>2, <2>4
  <2>6. <<r, i, x + (k - x)>> \in Range(pix)
    BY <1>9, <2>2, <2>5 DEF pix, pos, n
  <2> QED
    BY <2>3, <2>5, <2>6
<1>16. \A q \in Readers \ {r} : TakenBy(q)' = TakenBy(q)
  <2> TAKE q \in Readers \ {r}
  <2>1. pos_pixstart'[q] = pos_pixstart[q] /\ Files(q)' = Files(q)
    BY DEF BlockOf, Files
  <2> QED
    BY <2>1 DEF TakenBy
<1>17. TakenBy(r)' = TakenBy(r) \cup Range(pix) /\ TakenBy(r) \cap Range(pix) = {}
  BY <1>13, <1>14, <1>15
<1> QED
  BY <1>3, <1>5, <1>6, <1>16, <1>17 DEF BlockTakes, pix

\* What a pass reads is all bins, those that fit, one bin or a part of one.
Shaped(per, cum, processed, buf, step) ==
  \/ /\ cum[1] <= buf
     /\ \E n \in 1..Len(per) :
          /\ TakesBins(step, per, cum, processed, n, cum[n]) /\ cum[n] <= buf
          /\ n # Len(per) => cum[n + 1] > buf
  \/ /\ cum[1] > buf /\ cum[1] <= 2 * buf
     /\ TakesBins(step, per, cum, processed, 1, processed + cum[1])
  \/ cum[1] > 2 * buf /\ step = PartOfBin(per, cum, processed, buf)

LEMMA BlockShape ==
  ASSUME ShapeInv, SectionInv, NEW r \in Readers, npix_in_bins[r] # << >>, NEW step,
         step = NbinForPixels(npix_per_bins[r], npix_in_bins[r], npix_processed[r], input.buf)
  PROVE  /\ Shaped(npix_per_bins[r], npix_in_bins[r], npix_processed[r], input.buf, step)
         /\ step.bins \in Nat /\ LastBin(r, step) \in Nat
<1> DEFINE npix == input.npix[r]
           per == npix_per_bins[r]
           cum == npix_in_bins[r]
           processed == npix_processed[r]
           buf == input.buf
<1>1. step = NbinForPixels(per, cum, processed, buf) /\ cum # << >>
  OBVIOUS
<1>2. IsInput(npix) /\ buf \in Nat /\ buf # 0 /\ nbins_start[r] \in Nat
  BY InputFacts DEF ShapeInv
<1>3. Section(npix, ibin_end[r], per, cum, processed, pos_pixstart[r])
  BY DEF SectionInv
<1>4. /\ per \in Seq([1..Len(npix) -> Nat]) /\ cum \in Seq(Int) /\ Len(cum) = Len(per)
      /\ processed \in Nat /\ \A j, k \in 1..Len(cum) : j <= k => cum[j] <= cum[k]
  BY <1>3 DEF Section
<1> HIDE DEF npix, per, cum, processed, buf
<1>5. \/ /\ cum[1] <= buf
         /\ \E n \in 1..Len(per) :
              /\ TakesBins(step, per, cum, processed, n, cum[n]) /\ cum[n] <= buf
              /\ n # Len(per) => cum[n + 1] > buf
      \/ /\ cum[1] > buf /\ cum[1] <= 2 * buf
         /\ TakesBins(step, per, cum, processed, 1, processed + cum[1])
      \/ cum[1] > 2 * buf /\ step = PartOfBin(per, cum, processed, buf)
  BY <1>1, <1>2, <1>4, StepShape
<1>6. step.bins \in Nat
  <2>1. ASSUME NEW n, NEW d, TakesBins(step, per, cum, processed, n, d)
        PROVE  step.bins \in Nat
    BY <1>4, <2>1 DEF TakesBins
  <2>2. step = PartOfBin(per, cum, processed, buf) => step.bins = 0
    BY DEF PartOfBin, Step
  <2> QED
    BY <1>5, <2>1, <2>2
<1>7. LastBin(r, step) \in Nat
  <2>1. PICK n \in Nat, b \in Nat : n = step.bins /\ b = nbins_start[r]
    BY <1>2, <1>6
  <2>2. LastBin(r, step) = IF n = 0 THEN b ELSE b + n - 1
    BY <2>1 DEF LastBin
  <2> QED
    BY <2>2
<1>8. Shaped(per, cum, processed, buf, step)
  BY <1>5 DEF Shaped
<1> QED
  BY <1>6, <1>7, <1>8 DEF per, cum, processed, buf

\* The message of a pass is a good one.
BlockMessage(r, step) ==
  Message(<<nbins_start[r], LastBin(r, step)>>, PixelsOf(r, step.read), EdgesOf(step.read),
          step.bins > 0)

LEMMA BlockMessageFacts ==
  ASSUME ShapeInv, SectionInv, NEW r \in Readers, NEW step, BlockOf(r, step)
  PROVE  /\ BlockMessage(r, step) \in GoodMessages
         /\ BlockMessage(r, step).pix_data = PixelsOf(r, step.read)
<1>1. nbins_start[r] \in Nat /\ LastBin(r, step) \in Nat /\ step.bins \in Nat
  BY BlockShape DEF ShapeInv, BlockOf
<1>2. PixelsIs(r, step.read)
  BY BlockTakesFacts
<1>3. GoodEdges(EdgesOf(step.read), PixelsOf(r, step.read)) /\ PixelsOf(r, step.read) \in Seq(Pixel)
  BY <1>2 DEF PixelsIs
<1>4. EdgesOf(step.read) \in Seq(Nat \ {0})
  BY <1>3 DEF GoodEdges
<1>5. <<nbins_start[r], LastBin(r, step)>> \in Nat \X Nat /\ (step.bins > 0) \in BOOLEAN
  BY <1>1
<1> QED
  BY <1>3, <1>4, <1>5 DEF BlockMessage, Message, GoodMessages

\* What is apart stays apart when more is taken, written of others, or sent.
LEMMA ApartStays ==
  ASSUME NEW T, NEW U, NEW c, NEW ms, NEW W, NEW X, Apart(T, c, ms, W), T \subseteq U,
         X \cap T \subseteq W
  PROVE  Apart(U, c, ms, X)
BY DEF Apart

LEMMA ApartSent ==
  ASSUME NEW T, NEW c, NEW ms \in Seq(GoodMessages), NEW W, Apart(T, c, ms, W),
         NEW m \in GoodMessages, IsInjective(m.pix_data), Range(m.pix_data) \cap T = {},
         Range(m.pix_data) \cap W = {}
  PROVE  Apart(T \cup Range(m.pix_data), c, Append(ms, m), W)
<1> DEFINE X == Range(m.pix_data)
           new == Append(ms, m)
<1>1. PICK n \in Nat : n = Len(ms)
  OBVIOUS
<1>2. /\ Len(new) = n + 1 /\ new[n + 1] = m /\ \A j \in 1..n : new[j] = ms[j]
  BY <1>1
<1>3. \A j \in 1..(n + 1) : j \in 1..n \/ j = n + 1
  OBVIOUS
<1> HIDE DEF new
<1>4. /\ IsInjective(c) /\ Range(c) \subseteq T \cup X /\ Range(c) \cap W = {}
      /\ Range(c) \cap X = {}
  BY DEF Apart
<1>5. ASSUME NEW j \in 1..n
      PROVE  /\ IsInjective(ms[j].pix_data) /\ Range(ms[j].pix_data) \subseteq T
             /\ Range(ms[j].pix_data) \cap W = {} /\ Range(ms[j].pix_data) \cap Range(c) = {}
             /\ \A k \in 1..n : k # j => Range(ms[j].pix_data) \cap Range(ms[k].pix_data) = {}
  BY <1>1 DEF Apart
<1>6. ASSUME NEW j \in 1..(n + 1)
      PROVE  /\ IsInjective(new[j].pix_data) /\ Range(new[j].pix_data) \subseteq T \cup X
             /\ Range(new[j].pix_data) \cap W = {} /\ Range(new[j].pix_data) \cap Range(c) = {}
  <2>1. CASE j \in 1..n
    BY <1>2, <1>5, <2>1
  <2>2. CASE j = n + 1
    BY <1>2, <1>4, <2>2
  <2> QED
    BY <1>3, <2>1, <2>2
<1>7. ASSUME NEW j \in 1..(n + 1), NEW k \in 1..(n + 1), k # j
      PROVE  Range(new[j].pix_data) \cap Range(new[k].pix_data) = {}
  <2>1. CASE j \in 1..n /\ k \in 1..n
    BY <1>2, <1>5, <1>7, <2>1
  <2>2. CASE j \in 1..n /\ k = n + 1
    BY <1>2, <1>5, <2>2
  <2>3. CASE j = n + 1 /\ k \in 1..n
    BY <1>2, <1>5, <2>3
  <2> QED
    BY <1>3, <1>7, <2>1, <2>2, <2>3
<1>8. Apart(T \cup X, c, new, W)
  BY <1>2, <1>4, <1>6, <1>7 DEF Apart
<1> QED
  BY <1>8 DEF new

\* Pixels of different readers differ.
LEMMA TakenByReaders ==
  /\ PixelsTaken = UNION {TakenBy(r) : r \in Readers}
  /\ \A r : \A p \in TakenBy(r) : p[1] = r
  /\ \A q, r : q # r => TakenBy(q) \cap TakenBy(r) = {}
<1>1. PixelsTaken = UNION {TakenBy(r) : r \in Readers}
  BY DEF PixelsTaken, TakenBy
<1>2. ASSUME NEW r, NEW p \in TakenBy(r)
      PROVE  p[1] = r
  <2>1. PICK i \in Files(r) : \E k \in 1..pos_pixstart[r][i] : p = <<r, i, k>>
    BY DEF TakenBy
  <2> QED
    BY <2>1
<1> QED
  BY <1>1, <1>2

\* A pass puts its pixels in the file or in a message.
LEMMA BlockPlace ==
  ASSUME ShapeInv, SectionInv, CacheInv, PlaceInv, NEW r \in Readers, NEW step, BlockOf(r, step)
  PROVE  CacheInv' /\ PlaceInv'
<1> DEFINE pix == PixelsOf(r, step.read)
           m == BlockMessage(r, step)
<1>1. /\ UNCHANGED <<input, cacheVars>> /\ Readers' = Readers /\ r \in Readers
      /\ IF input.serial THEN file' = file \o pix /\ UNCHANGED mess
         ELSE mess' = [mess EXCEPT ![r] = Append(@, m)] /\ UNCHANGED file
  BY DEF BlockOf, Readers, BlockMessage
<1>2. /\ TakenBy(r)' = TakenBy(r) \cup Range(pix) /\ TakenBy(r) \cap Range(pix) = {}
      /\ \A q \in Readers \ {r} : TakenBy(q)' = TakenBy(q)
      /\ pix \in Seq(Pixel) /\ IsInjective(pix)
  BY BlockTakesFacts DEF BlockTakes, PixelsIs
<1>3. m \in GoodMessages /\ m.pix_data = pix
  BY BlockMessageFacts
<1> HIDE DEF pix, m
<1>4. PixelsTaken = UNION {TakenBy(q) : q \in Readers}
  BY TakenByReaders
<1>5. PixelsTaken' = UNION {TakenBy(q)' : q \in Readers}
  BY <1>1 DEF PixelsTaken, TakenBy
<1>6. \A q \in Readers : TakenBy(q) \subseteq TakenBy(q)'
  BY <1>2
<1>7. PixelsTaken' = PixelsTaken \cup Range(pix)
  <2>1. \A p \in PixelsTaken' : p \in PixelsTaken \cup Range(pix)
    BY <1>2, <1>4, <1>5
  <2>2. \A p \in PixelsTaken \cup Range(pix) : p \in PixelsTaken'
    BY <1>1, <1>2, <1>4, <1>5, <1>6
  <2> QED
    BY <2>1, <2>2
<1>8. \A q \in Readers \ {r} : TakenBy(q) \cap Range(pix) = {}
  <2>1. \A p \in Range(pix) : p[1] = r
    <3>1. ASSUME NEW p \in Range(pix)
          PROVE  p[1] = r
      <4>1. p \in TakenBy(r)'
        BY <1>2
      <4>2. TakenBy(r)' = UNION {{<<r, i, k>> : k \in 1..pos_pixstart'[r][i]} : i \in Files(r)'}
        BY DEF TakenBy
      <4> QED
        BY <4>1, <4>2
    <3> QED
      BY <3>1
  <2> QED
    BY <2>1, TakenByReaders
<1>9. PixelsTaken \cap Range(pix) = {}
  BY <1>2, <1>4, <1>8
<1>10. /\ file \in Seq(Pixel) /\ IsInjective(file) /\ Range(file) \subseteq PixelsTaken
       /\ input.serial => PixelsTaken \subseteq Range(file)
       /\ \A q \in Readers : Apart(TakenBy(q), read_pix_cache_[q], mess[q], Range(file))
  BY DEF PlaceInv
<1>11. \A q \in Readers : Cached(q)' = Cached(q)
  BY <1>1 DEF Cached, cacheVars
<1>12. CASE input.serial
  <2>1. file' = file \o pix /\ mess' = mess /\ read_pix_cache_' = read_pix_cache_
    BY <1>1, <1>12 DEF cacheVars
  <2>2. /\ file' \in Seq(Pixel) /\ Range(file') = Range(file) \cup Range(pix)
        /\ IsInjective(file')
    BY <1>2, <1>9, <1>10, <2>1, ConcatFacts
  <2>3. ASSUME NEW q \in Readers
        PROVE  Apart(TakenBy(q)', read_pix_cache_[q], mess[q], Range(file'))
    <3>1. Range(file') \cap TakenBy(q) \subseteq Range(file)
      BY <1>2, <1>8, <2>2
    <3> QED
      BY <1>6, <1>10, <3>1, ApartStays
  <2>4. PlaceInv'
    BY <1>1, <1>7, <1>10, <2>1, <2>2, <2>3 DEF PlaceInv
  <2>5. CacheInv'
    BY <1>1, <1>11, <2>1 DEF CacheInv
  <2> QED
    BY <2>4, <2>5
<1>13. CASE ~input.serial
  <2>1. /\ mess' = [mess EXCEPT ![r] = Append(@, m)] /\ file' = file
        /\ read_pix_cache_' = read_pix_cache_
    BY <1>1, <1>13 DEF cacheVars
  <2>2. mess'[r] = Append(mess[r], m) /\ \A q \in Readers \ {r} : mess'[q] = mess[q]
    BY <1>1, <2>1 DEF ShapeInv
  <2>3. mess[r] \in Seq(GoodMessages)
    BY DEF CacheInv
  <2>4. Range(m.pix_data) \cap Range(file) = {}
    BY <1>3, <1>9, <1>10
  <2>5. Apart(TakenBy(r) \cup Range(m.pix_data), read_pix_cache_[r], Append(mess[r], m), Range(file))
    BY <1>2, <1>3, <1>10, <2>3, <2>4, ApartSent
  <2>6. \A q \in Readers : Apart(TakenBy(q)', read_pix_cache_'[q], mess'[q], Range(file'))
    <3>1. Apart(TakenBy(r)', read_pix_cache_'[r], mess'[r], Range(file'))
      BY <1>2, <1>3, <2>1, <2>2, <2>5
    <3>2. \A q \in Readers \ {r} : Apart(TakenBy(q)', read_pix_cache_'[q], mess'[q], Range(file'))
      BY <1>2, <1>10, <2>1, <2>2
    <3> QED
      BY <3>1, <3>2
  <2>7. PlaceInv'
    <3>1. input' = input /\ ~input.serial /\ Range(file') \subseteq PixelsTaken'
      BY <1>1, <1>7, <1>10, <1>13, <2>1
    <3> QED
      BY <1>1, <1>10, <2>1, <2>6, <3>1 DEF PlaceInv
  <2>8. \A q \in Readers : mess'[q] \in Seq(GoodMessages)
    <3>1. Append(mess[r], m) \in Seq(GoodMessages)
      BY <1>3, <2>3
    <3> QED
      BY <2>2, <3>1 DEF CacheInv
  <2>9. CacheInv'
    BY <1>1, <1>11, <2>8 DEF CacheInv
  <2> QED
    BY <2>7, <2>9
<1> QED
  BY <1>12, <1>13

\* A new section leaves the pixels where they are.
LEMMA SectionPlace ==
  ASSUME ShapeInv, SectionInv, CacheInv, PlaceInv, NEW r \in Readers, ReadSection(r)
  PROVE  CacheInv' /\ PlaceInv'
<1> DEFINE m == Message(<<nbins_start'[r], ibin_end'[r]>>, << >>, << >>, TRUE)
<1>1. /\ UNCHANGED <<input, pos_pixstart, cacheVars, file>> /\ Readers' = Readers
      /\ mess' = mess \/ mess' = [mess EXCEPT ![r] = Append(@, m)]
  BY DEF ReadSection, Readers, ShapeInv
<1>2. m \in GoodMessages /\ m.pix_data = << >>
  <2>1. PICK n : NewSectionOf(r, n)
    BY ReadSectionFacts
  <2>2. ibin_end[r] \in Nat /\ NumBins \in Nat
    <3>1. ibin_end[r] \in 0..NumBins
      BY DEF SectionInv, Section
    <3> QED
      BY <3>1, JobAssumption
  <2>3. nbins_start'[r] \in Nat /\ ibin_end'[r] \in Nat
    BY <2>1, <2>2 DEF NewSectionOf
  <2> HIDE DEF m
  <2>4. m = [bin_range |-> <<nbins_start'[r], ibin_end'[r]>>, pix_data |-> << >>,
             bin_edges |-> << >>, last_bin_completed |-> TRUE]
    BY DEF m, Message
  <2>5. << >> \in Seq(Pixel) /\ << >> \in Seq(Nat \ {0})
    OBVIOUS
  <2> QED
    BY <2>3, <2>4, <2>5 DEF GoodMessages
<1> HIDE DEF m
<1>3. /\ \A q \in Readers : TakenBy(q)' = TakenBy(q) /\ Cached(q)' = Cached(q)
      /\ PixelsTaken' = PixelsTaken
  BY <1>1 DEF TakenBy, PixelsTaken, Cached, cacheVars, Files
<1>4. IsInjective(m.pix_data) /\ Range(m.pix_data) = {}
  BY <1>2 DEF IsInjective, Range
<1>5. ASSUME NEW q \in Readers
      PROVE  /\ Apart(TakenBy(q), read_pix_cache_[q], mess'[q], Range(file))
             /\ mess'[q] \in Seq(GoodMessages)
  <2>1. mess[q] \in Seq(GoodMessages) /\ Apart(TakenBy(q), read_pix_cache_[q], mess[q], Range(file))
    BY DEF CacheInv, PlaceInv
  <2>2. CASE mess'[q] = mess[q]
    BY <2>1, <2>2
  <2>3. CASE mess'[q] = Append(mess[q], m)
    <3>1. Apart(TakenBy(q) \cup Range(m.pix_data), read_pix_cache_[q], Append(mess[q], m), Range(file))
      BY <1>2, <1>4, <2>1, ApartSent
    <3>2. Append(mess[q], m) \in Seq(GoodMessages)
      BY <1>2, <2>1
    <3> QED
      BY <1>4, <2>3, <3>1, <3>2
  <2> QED
    BY <1>1, <2>2, <2>3 DEF ShapeInv
<1>6. PlaceInv'
  BY <1>1, <1>3, <1>5 DEF PlaceInv, cacheVars
<1>7. CacheInv'
  BY <1>1, <1>3, <1>5 DEF CacheInv
<1> QED
  BY <1>6, <1>7

(***************************************************************************)
(* The writer's cache.                                                     *)
(***************************************************************************)
\* Where pixels have edges, there are two at least, each in range.
LEMMA EdgesFacts ==
  ASSUME NEW edges, NEW pix \in Seq(Pixel), GoodEdges(edges, pix)
  PROVE  /\ Len(edges) \in Nat /\ Len(edges) >= 1 /\ (pix # << >> => Len(edges) >= 2)
         /\ \A k \in 1..Len(edges) : edges[k] \in Nat /\ edges[k] >= 1 /\ edges[k] <= Len(pix) + 1
<1>1. /\ edges \in Seq(Nat \ {0}) /\ edges # << >> /\ edges[1] = 1
      /\ edges[Len(edges)] = Len(pix) + 1
      /\ \A j, k \in 1..Len(edges) : j <= k => edges[j] <= edges[k]
  BY DEF GoodEdges
<1>2. Len(edges) \in Nat /\ Len(edges) >= 1
  BY <1>1, EmptySeq
<1>3. ASSUME pix # << >>
      PROVE  Len(edges) >= 2
  <2>1. Len(pix) \in Nat /\ Len(pix) # 0
    BY <1>3, EmptySeq
  <2>2. PICK l \in Nat : l = Len(edges) /\ l >= 1
    BY <1>2
  <2>3. l # 1
    BY <1>1, <2>1, <2>2
  <2>4. l >= 2
    BY <2>2, <2>3
  <2> QED
    BY <2>2, <2>4
<1>4. ASSUME NEW k \in 1..Len(edges)
      PROVE  edges[k] \in Nat /\ edges[k] >= 1 /\ edges[k] <= Len(pix) + 1
  <2>1. edges[k] \in Nat \ {0}
    BY <1>1
  <2>2. k <= Len(edges) /\ Len(edges) \in 1..Len(edges)
    BY <1>2
  <2>3. edges[k] <= edges[Len(edges)]
    BY <1>1, <2>2
  <2> QED
    BY <1>1, <2>1, <2>3
<1> QED
  BY <1>2, <1>3, <1>4

\* The edges e of pixels s and f of pixels t, joined: without the first of f when
\* o is 1.
Joined(e, f, o) ==
  LET more == IF o = 1 THEN Tail(f) ELSE f
  IN  Front(e) \o [k \in DOMAIN more |-> more[k] + Last(e) - 1]
JoinIs(e, f, s, t, o) ==
  LET new == Joined(e, f, o)
  IN  /\ GoodEdges(new, s \o t) /\ Len(new) = Len(e) - 1 + Len(f) - o
      /\ \A j \in 1..(Len(e) - 1) : new[j] = e[j]
      /\ \A k \in 1..(Len(f) - o) : new[Len(e) - 1 + k] = f[k + o] + Len(s)

LEMMA JoinFacts ==
  ASSUME NEW e, NEW s \in Seq(Pixel), GoodEdges(e, s), s # << >>,
         NEW f, NEW t \in Seq(Pixel), GoodEdges(f, t), t # << >>, NEW o \in {0, 1}
  PROVE  JoinIs(e, f, s, t, o)
<1>1. PICK x \in Nat, y \in Nat, m \in Nat, n \in Nat :
        x = Len(e) /\ y = Len(f) /\ x >= 2 /\ y >= 2 /\ m = Len(s) /\ n = Len(t)
  BY EdgesFacts
<1>2. /\ e \in Seq(Nat \ {0}) /\ e[1] = 1 /\ e[x] = m + 1
      /\ \A j, k \in 1..x : j <= k => e[j] <= e[k]
      /\ f \in Seq(Nat \ {0}) /\ f[1] = 1 /\ f[y] = n + 1
      /\ \A j, k \in 1..y : j <= k => f[j] <= f[k]
  BY <1>1 DEF GoodEdges
<1>3. /\ \A j \in 1..x : e[j] \in Nat /\ e[j] >= 1 /\ e[j] <= m + 1
      /\ \A j \in 1..y : f[j] \in Nat /\ f[j] >= 1 /\ f[j] <= n + 1
  BY <1>1, EdgesFacts
<1> DEFINE more == IF o = 1 THEN Tail(f) ELSE f
<1>4. /\ more \in Seq(Nat \ {0}) /\ Len(more) = y - o /\ y - o \in Nat
      /\ \A k \in 1..(y - o) : more[k] = f[k + o]
  <2>1. CASE o = 1
    <3>1. /\ Tail(f) \in Seq(Nat \ {0}) /\ Len(Tail(f)) = y - 1 /\ y - 1 \in Nat
          /\ \A k \in 1..(y - 1) : Tail(f)[k] = f[k + 1]
      BY <1>1, <1>2
    <3> QED
      BY <2>1, <3>1
  <2>2. CASE o = 0
    <3>1. Len(f) = y /\ \A k \in 1..(y - o) : f[k] = f[k + o]
      BY <1>1, <2>2
    <3> QED
      BY <1>1, <1>2, <2>2, <3>1
  <2> QED
    BY <2>1, <2>2
<1>5. Last(e) = m + 1
  BY <1>1, <1>2 DEF Last
<1> DEFINE g == [k \in DOMAIN more |-> more[k] + Last(e) - 1]
           new == Joined(e, f, o)
<1>6. new = Front(e) \o g
  BY DEF Joined
<1> HIDE DEF more, new
<1>7. \A k \in 1..(y - o) : k + o \in 1..y /\ more[k] = f[k + o] /\ f[k + o] \in Nat /\ f[k + o] >= 1
  BY <1>1, <1>3, <1>4
<1>8. g \in Seq(Nat \ {0}) /\ Len(g) = y - o /\ \A k \in 1..(y - o) : g[k] = f[k + o] + m
  <2>1. DOMAIN more = 1..(y - o)
    BY <1>4
  <2>2. \A k \in 1..(y - o) : g[k] = f[k + o] + m /\ g[k] \in Nat \ {0}
    BY <1>5, <1>7, <2>1, SMTT(30)
  <2> QED
    BY <1>4, <2>1, <2>2
<1> HIDE DEF g
<1>9. /\ Front(e) \in Seq(Nat \ {0}) /\ Len(Front(e)) = x - 1
      /\ \A j \in 1..(x - 1) : Front(e)[j] = e[j]
  <2>1. x - 1 \in 0..Len(e)
    BY <1>1
  <2> QED
    BY <1>1, <1>2, <2>1, UpToNFacts DEF Front
<1>10. PICK a \in Nat, b \in Nat : a = x - 1 /\ b = y - o /\ a >= 1 /\ b >= 1 /\ a + b = x - 1 + y - o
  <2>1. x - 1 \in Nat /\ x - 1 >= 1 /\ y - o \in Nat /\ y - o >= 1
    BY <1>1
  <2>2. (x - 1) + (y - o) = x - 1 + y - o
    BY <1>1
  <2> QED
    BY <2>1, <2>2
<1>11. /\ new \in Seq(Nat \ {0}) /\ Len(new) = a + b
       /\ \A j \in 1..a : new[j] = e[j] /\ j \in 1..x
       /\ \A k \in 1..b : new[a + k] = f[k + o] + m
  <2>1. Len(Front(e)) = a /\ Len(g) = b
    BY <1>8, <1>9, <1>10
  <2>2. /\ new \in Seq(Nat \ {0}) /\ Len(new) = a + b
        /\ \A j \in 1..a : new[j] = Front(e)[j]
        /\ \A k \in 1..b : new[a + k] = g[k]
    <3>1. /\ new \in Seq(Nat \ {0}) /\ Len(new) = a + b
          /\ \A i \in 1..(a + b) : new[i] = IF i <= a THEN Front(e)[i] ELSE g[i - a]
      BY <1>6, <1>8, <1>9, <2>1, ConcatProperties
    <3>2. \A j \in 1..a : j \in 1..(a + b) /\ j <= a
      BY <1>10
    <3>3. \A k \in 1..b : a + k \in 1..(a + b) /\ ~(a + k <= a) /\ (a + k) - a = k
      BY <1>10
    <3> QED
      BY <3>1, <3>2, <3>3
  <2>3. \A j \in 1..a : j \in 1..(x - 1) /\ j \in 1..x
    BY <1>10
  <2>4. \A j \in 1..a : new[j] = e[j]
    BY <1>9, <2>2, <2>3
  <2>5. \A k \in 1..b : new[a + k] = f[k + o] + m
    BY <1>8, <1>10, <2>2
  <2> QED
    BY <2>2, <2>3, <2>4, <2>5
<1>12. ASSUME NEW j \in 1..(a + b), NEW k \in 1..(a + b), j <= k
       PROVE  new[j] <= new[k]
  <2>1. CASE k <= a
    <3>1. j \in 1..a /\ k \in 1..a
      BY <1>12, <2>1
    <3> QED
      BY <1>2, <1>11, <1>12, <3>1
  <2>2. CASE j <= a /\ k > a
    <3>1. PICK l \in 1..b : k = a + l
      <4>1. k - a \in 1..b /\ k = a + (k - a)
        BY <2>2
      <4> QED
        BY <4>1
    <3>2. l \in 1..(y - o) /\ j \in 1..a /\ j \in 1..x
      BY <1>10, <2>2
    <3>3. new[k] = f[l + o] + m /\ f[l + o] \in Nat /\ f[l + o] >= 1
      BY <1>7, <1>11, <3>1, <3>2
    <3>4. new[j] = e[j] /\ e[j] \in Nat /\ e[j] <= m + 1
      BY <1>3, <1>11, <3>2
    <3> QED
      BY <3>3, <3>4
  <2>3. CASE j > a
    <3>1. PICK i \in 1..b, l \in 1..b : j = a + i /\ k = a + l /\ i <= l
      <4>1. j - a \in 1..b /\ k - a \in 1..b /\ j = a + (j - a) /\ k = a + (k - a) /\ j - a <= k - a
        BY <1>12, <2>3
      <4> QED
        BY <4>1
    <3>2. i \in 1..(y - o) /\ l \in 1..(y - o)
      BY <1>10
    <3>3. /\ new[j] = f[i + o] + m /\ f[i + o] \in Nat /\ i + o \in 1..y
          /\ new[k] = f[l + o] + m /\ f[l + o] \in Nat /\ l + o \in 1..y
      BY <1>7, <1>11, <3>1, <3>2
    <3>4. f[i + o] <= f[l + o]
      BY <1>2, <3>1, <3>3
    <3> QED
      BY <3>3, <3>4
  <2> QED
    BY <2>1, <2>2, <2>3
<1>13. new # << >> /\ new[1] = 1
  <2>1. 1 \in 1..a /\ a + b # 0
    BY <1>10
  <2>2. new[1] = e[1]
    BY <1>11, <2>1
  <2>3. new # << >>
    BY <1>11, <2>1
  <2> QED
    BY <1>2, <2>2, <2>3
<1>14. new[a + b] = m + n + 1
  <2>1. b \in 1..b /\ b + o = y
    BY <1>10, <1>1
  <2>2. new[a + b] = f[y] + m
    BY <1>11, <2>1
  <2> QED
    BY <1>2, <2>2
<1>15. Len(s \o t) = m + n
  BY <1>1
<1>16. GoodEdges(new, s \o t)
  BY <1>11, <1>12, <1>13, <1>14, <1>15 DEF GoodEdges
<1> QED
  BY <1>1, <1>10, <1>11, <1>16 DEF JoinIs, new

\* A message pushed into the cache adds its pixels.
LEMMA PushedFacts ==
  ASSUME NEW c, GoodCache(c), NEW m \in GoodMessages, first_bin_to_process_ \in Nat
  PROVE  GoodCache(Pushed(c, m)) /\ Pushed(c, m).pix = c.pix \o m.pix_data
<1> DEFINE p == Pushed(c, m)
           Caches == [range : Nat \X Nat, edges : Seq(Nat \ {0}), pix : Seq(Pixel),
                      completed : BOOLEAN]
<1>1. /\ c \in Caches /\ (c.edges = << >> => c.pix = << >>)
      /\ c.edges # << >> => GoodEdges(c.edges, c.pix)
  BY DEF GoodCache
<1>2. /\ m.bin_range \in Nat \X Nat /\ m.pix_data \in Seq(Pixel) /\ m.bin_edges \in Seq(Nat \ {0})
      /\ m.last_bin_completed \in BOOLEAN
      /\ m.pix_data # << >> => GoodEdges(m.bin_edges, m.pix_data)
  BY DEF GoodMessages
<1>3. CASE m.pix_data = << >>
  <2>1. p = [c EXCEPT !.range = <<first_bin_to_process_, m.bin_range[2]>>]
    BY <1>3 DEF Pushed
  <2>2. <<first_bin_to_process_, m.bin_range[2]>> \in Nat \X Nat
    BY <1>2
  <2>3. p \in Caches /\ p.edges = c.edges /\ p.pix = c.pix
    BY <1>1, <2>1, <2>2
  <2>4. c.pix \o << >> = c.pix
    BY <1>1
  <2> HIDE DEF p
  <2>5. GoodCache(p)
    BY <1>1, <2>3 DEF GoodCache
  <2> QED
    BY <1>3, <2>3, <2>4, <2>5 DEF p
<1>4. CASE m.pix_data # << >> /\ c.pix = << >>
  <2>1. p = [range |-> m.bin_range, edges |-> m.bin_edges, pix |-> m.pix_data,
             completed |-> m.last_bin_completed]
    BY <1>4 DEF Pushed
  <2>2. p \in Caches /\ p.edges = m.bin_edges /\ p.pix = m.pix_data
    BY <1>2, <2>1
  <2>3. m.bin_edges # << >> /\ << >> \o m.pix_data = m.pix_data
    BY <1>2, <1>4 DEF GoodEdges
  <2> HIDE DEF p
  <2>4. GoodCache(p)
    BY <1>2, <1>4, <2>2, <2>3 DEF GoodCache
  <2> QED
    BY <1>4, <2>2, <2>3, <2>4 DEF p
<1>5. CASE m.pix_data # << >> /\ c.pix # << >>
  <2> DEFINE o == IF c.range[2] = m.bin_range[1] THEN 1 ELSE 0
             new == Joined(c.edges, m.bin_edges, o)
  <2> DEFINE more == IF c.range[2] = m.bin_range[1] THEN Tail(m.bin_edges) ELSE m.bin_edges
             moved == Front(c.edges) \o [k \in DOMAIN more |-> more[k] + Last(c.edges) - 1]
  <2>0. new = moved
    <3>1. CASE c.range[2] = m.bin_range[1]
      BY <3>1 DEF Joined
    <3>2. CASE c.range[2] # m.bin_range[1]
      BY <3>2 DEF Joined
    <3> QED
      BY <3>1, <3>2
  <2>1. p = [range |-> <<c.range[1], m.bin_range[2]>>, completed |-> m.last_bin_completed,
             pix |-> c.pix \o m.pix_data, edges |-> new]
    <3>1. p = [range |-> <<c.range[1], m.bin_range[2]>>, completed |-> m.last_bin_completed,
               pix |-> c.pix \o m.pix_data, edges |-> moved]
      BY <1>5 DEF Pushed
    <3> QED
      BY <2>0, <3>1
  <2>2. JoinIs(c.edges, m.bin_edges, c.pix, m.pix_data, o)
    BY <1>1, <1>2, <1>5, JoinFacts
  <2>3. GoodEdges(new, c.pix \o m.pix_data)
    BY <2>2 DEF JoinIs
  <2>4. new \in Seq(Nat \ {0}) /\ new # << >>
    BY <2>3 DEF GoodEdges
  <2>5. <<c.range[1], m.bin_range[2]>> \in Nat \X Nat /\ c.pix \o m.pix_data \in Seq(Pixel)
    BY <1>1, <1>2
  <2> HIDE DEF new, o, p
  <2>6. p \in Caches /\ p.edges = new /\ p.pix = c.pix \o m.pix_data
    <3>1. PICK u \in Nat \X Nat, w \in Seq(Nat \ {0}), v \in Seq(Pixel), z \in BOOLEAN :
            /\ u = <<c.range[1], m.bin_range[2]>> /\ w = new /\ v = c.pix \o m.pix_data
            /\ z = m.last_bin_completed
      BY <1>2, <2>4, <2>5
    <3>2. p = [range |-> u, edges |-> w, pix |-> v, completed |-> z]
      BY <2>1, <3>1
    <3> QED
      BY <3>1, <3>2
  <2>7. GoodCache(p)
    BY <2>3, <2>4, <2>6 DEF GoodCache
  <2> QED
    BY <2>6, <2>7 DEF p
<1> QED
  BY <1>3, <1>4, <1>5

\* What remains of a source when n of its bins are popped and others stay.
KeptIs(c, last, n) ==
  LET d == Kept(c, last, n)
  IN  /\ d.range = <<last + 1, c.range[2]>> /\ d.completed = c.completed
      /\ GoodCache(d) /\ d.edges # << >>
      /\ Len(d.edges) = Len(c.edges) - n
      /\ \A k \in 1..Len(d.edges) : d.edges[k] = c.edges[n + k] - c.edges[n + 1] + 1
      /\ Len(d.pix) = Len(c.pix) - c.edges[n + 1] + 1
      /\ \A j \in 1..Len(d.pix) : d.pix[j] = c.pix[c.edges[n + 1] + j - 1]

LEMMA KeptFacts ==
  ASSUME NEW c, GoodCache(c), c.edges # << >>, NEW last \in Nat, NEW n \in Nat,
         n + 1 <= Len(c.edges)
  PROVE  KeptIs(c, last, n)
<1> DEFINE Caches == [range : Nat \X Nat, edges : Seq(Nat \ {0}), pix : Seq(Pixel),
                      completed : BOOLEAN]
           d == Kept(c, last, n)
<1>1. c \in Caches /\ GoodEdges(c.edges, c.pix)
  BY DEF GoodCache
<1>2. PICK e \in Seq(Nat \ {0}), s \in Seq(Pixel) : e = c.edges /\ s = c.pix
  BY <1>1
<1>3. PICK l \in Nat, m \in Nat : l = Len(e) /\ m = Len(s)
  BY <1>2
<1>4. /\ n + 1 \in 1..l /\ e # << >> /\ e[1] = 1 /\ e[l] = m + 1
      /\ \A j, k \in 1..l : j <= k => e[j] <= e[k]
      /\ \A k \in 1..l : e[k] \in Nat /\ e[k] >= 1 /\ e[k] <= m + 1
  <2>1. GoodEdges(e, s)
    BY <1>1, <1>2
  <2>2. /\ e # << >> /\ e[1] = 1 /\ e[Len(e)] = Len(s) + 1
        /\ \A j, k \in 1..Len(e) : j <= k => e[j] <= e[k]
    BY <2>1 DEF GoodEdges
  <2>3. \A k \in 1..Len(e) : e[k] \in Nat /\ e[k] >= 1 /\ e[k] <= Len(s) + 1
    BY <2>1, EdgesFacts
  <2>4. n + 1 \in 1..l
    BY <1>2, <1>3
  <2> QED
    BY <1>3, <2>2, <2>3, <2>4
<1>5. PICK a \in Nat : a = e[n + 1] /\ a >= 1 /\ a <= m + 1
  BY <1>4
<1> DEFINE edges == Less(From(e, n + 1), a - 1)
           pix == From(s, a)
<1>6. pix \in Seq(Pixel) /\ Len(pix) = m - a + 1 /\ \A j \in 1..Len(pix) : pix[j] = s[a + j - 1]
  <2>1. a \in 1..(Len(s) + 1)
    BY <1>3, <1>5
  <2> QED
    BY <1>3, <2>1, FromFacts
<1>7. /\ edges \in Seq(Int) /\ Len(edges) = l - n
      /\ \A k \in 1..(l - n) : edges[k] = e[n + k] - (a - 1)
  <2>1. n + 1 \in 1..(Len(e) + 1) /\ l - (n + 1) + 1 = l - n
    BY <1>3, <1>4
  <2>2. /\ From(e, n + 1) \in Seq(Nat \ {0}) /\ Len(From(e, n + 1)) = l - n
        /\ \A k \in 1..(l - n) : From(e, n + 1)[k] = e[(n + 1) + k - 1]
    BY <1>3, <2>1, FromFacts
  <2>3. From(e, n + 1) \in Seq(Int) /\ a - 1 \in Int
    BY <2>2
  <2>4. \A k \in 1..(l - n) : (n + 1) + k - 1 = n + k
    OBVIOUS
  <2>5. /\ edges \in Seq(Int) /\ Len(edges) = l - n
        /\ \A k \in 1..(l - n) : edges[k] = From(e, n + 1)[k] - (a - 1)
    BY <2>2, <2>3, LessFacts
  <2> QED
    BY <2>2, <2>4, <2>5
<1> HIDE DEF edges, pix
<1>8. \A k \in 1..(l - n) : /\ n + k \in 1..l /\ edges[k] = e[n + k] - a + 1
                            /\ e[n + k] \in Nat /\ a <= e[n + k] /\ edges[k] \in Nat \ {0}
  <2> TAKE k \in 1..(l - n)
  <2>1. n + k \in 1..l /\ n + 1 <= n + k
    BY <1>4
  <2>2. e[n + k] \in Nat /\ a <= e[n + k]
    BY <1>4, <1>5, <2>1
  <2>3. PICK q \in Nat : q = e[n + k] /\ a <= q
    BY <2>2
  <2>4. edges[k] = q - (a - 1)
    BY <1>7, <2>3
  <2>5. q - (a - 1) = q - a + 1 /\ q - a + 1 \in Nat \ {0}
    BY <2>3
  <2> QED
    BY <2>1, <2>3, <2>4, <2>5
<1>9. edges \in Seq(Nat \ {0})
  BY <1>7, <1>8
<1>10. GoodEdges(edges, pix)
  <2>1. edges # << >>
    BY <1>4, <1>7
  <2>2. edges[1] = 1
    <3>1. 1 \in 1..(l - n)
      BY <1>4
    <3> QED
      BY <1>5, <1>8, <3>1, SMTT(30)
  <2>3. edges[Len(edges)] = Len(pix) + 1
    <3>1. l - n \in 1..(l - n) /\ n + (l - n) = l
      BY <1>4
    <3>2. edges[l - n] = e[l] - a + 1
      BY <1>8, <3>1
    <3> QED
      BY <1>4, <1>6, <1>7, <3>2
  <2>4. ASSUME NEW j \in 1..(l - n), NEW k \in 1..(l - n), j <= k
        PROVE  edges[j] <= edges[k]
    <3>1. e[n + j] <= e[n + k]
      <4>1. n + j <= n + k
        BY <2>4
      <4> QED
        BY <1>4, <1>8, <4>1
    <3> QED
      BY <1>8, <3>1, SMTT(30)
  <2> QED
    BY <1>7, <1>9, <2>1, <2>2, <2>3, <2>4 DEF GoodEdges
<1>11. d = [c EXCEPT !.range[1] = last + 1, !.pix = pix, !.edges = edges]
  BY <1>2, <1>5 DEF Kept, pix, edges
<1>12. PICK x \in Nat, y \in Nat : c.range = <<x, y>>
  BY <1>1
<1>13. d = [range |-> <<last + 1, y>>, edges |-> edges, pix |-> pix, completed |-> c.completed]
  <2>1. [c.range EXCEPT ![1] = last + 1] = <<last + 1, y>>
    BY <1>12
  <2>2. d = [c EXCEPT !.range = [c.range EXCEPT ![1] = last + 1], !.pix = pix, !.edges = edges]
    BY <1>11
  <2> HIDE DEF d
  <2>3. d = [c EXCEPT !.range = <<last + 1, y>>, !.pix = pix, !.edges = edges]
    BY <2>1, <2>2
  <2> QED
    BY <1>1, <2>3
<1>14. d \in Caches /\ d.range = <<last + 1, c.range[2]>> /\ d.edges = edges /\ d.pix = pix
         /\ d.completed = c.completed
  <2>0. last + 1 \in Nat
    OBVIOUS
  <2>1. PICK u \in Nat \X Nat : u = <<last + 1, y>>
    BY <2>0
  <2>2. d = [range |-> u, edges |-> edges, pix |-> pix, completed |-> c.completed]
    BY <1>13, <2>1
  <2> HIDE DEF d
  <2>3. c.completed \in BOOLEAN /\ c.range[2] = y
    BY <1>1, <1>12
  <2> QED
    BY <1>6, <1>9, <2>1, <2>2, <2>3
<1> HIDE DEF d
<1>15. GoodCache(d) /\ d.edges # << >>
  BY <1>10, <1>14 DEF GoodCache, GoodEdges
<1>16. /\ Len(d.edges) = Len(c.edges) - n
       /\ \A k \in 1..Len(d.edges) : d.edges[k] = c.edges[n + k] - c.edges[n + 1] + 1
       /\ Len(d.pix) = Len(c.pix) - c.edges[n + 1] + 1
       /\ \A j \in 1..Len(d.pix) : d.pix[j] = c.pix[c.edges[n + 1] + j - 1]
  BY <1>2, <1>3, <1>5, <1>6, <1>7, <1>8, <1>14
<1> QED
  BY <1>14, <1>15, <1>16 DEF KeptIs, d

\* What remains of a source when the bins up to last are popped from it.
Remains(c, last, d) ==
  LET n == Taken(c, last)
  IN  \/ c.edges = << >> /\ \E x \in Nat : d = [c EXCEPT !.range = <<x, x>>]
      \/ c.edges # << >> /\ n > 0 /\ Len(c.edges) >= n + 1 /\ d = Popped(c, last, n)
      \/ c.edges # << >> /\ ~(n > 0) /\ d = c

\* A bin of the cache is a slice of its pixels, and is not in what remains.
BinsOf(c, last, d) ==
  /\ GoodCache(d) /\ Range(d.pix) \subseteq Range(c.pix)
  /\ IsInjective(c.pix) => IsInjective(d.pix)
  /\ \A b \in Nat : b <= last =>
       /\ BinOfCache(c, b) \in Seq(Pixel) /\ Range(BinOfCache(c, b)) \subseteq Range(c.pix)
       /\ IsInjective(c.pix) =>
            /\ IsInjective(BinOfCache(c, b))
            /\ Range(BinOfCache(c, b)) \cap Range(d.pix) = {}
            /\ \A a \in Nat : a < b => Range(BinOfCache(c, a)) \cap Range(BinOfCache(c, b)) = {}

\* The slice, and its place.
SliceOf(c, last, b) ==
  LET k == b - c.range[1] + 1
      pix == BinOfCache(c, b)
  IN  \/ pix = << >>
      \/ /\ c.edges # << >> /\ k \in 1..Taken(c, last) /\ Taken(c, b) = k
         /\ SliceIs(Pixel, c.pix, c.edges[k], c.edges[k + 1] - 1)
         /\ pix = SubSeq(c.pix, c.edges[k], c.edges[k + 1] - 1)

LEMMA SliceOfFacts ==
  ASSUME NEW c, GoodCache(c), NEW last \in Nat, c.edges = << >> \/ Len(c.edges) >= Taken(c, last) + 1,
         NEW b \in Nat, b <= last
  PROVE  SliceOf(c, last, b)
<1>1. CASE c.edges = << >>
  <2>1. BinOfCache(c, b) = << >>
    BY <1>1 DEF BinOfCache
  <2> QED
    BY <2>1 DEF SliceOf
<1>2. CASE c.edges # << >> /\ ~(b - c.range[1] + 1 \in 1..Taken(c, b))
  <2>1. BinOfCache(c, b) = << >>
    BY <1>2 DEF BinOfCache
  <2> QED
    BY <2>1 DEF SliceOf
<1>3. CASE c.edges # << >> /\ b - c.range[1] + 1 \in 1..Taken(c, b)
  <2>1. GoodEdges(c.edges, c.pix) /\ c.range \in Nat \X Nat /\ c.pix \in Seq(Pixel)
    BY <1>3 DEF GoodCache
  <2>2. PICK x \in Nat : x = c.range[1]
    BY <2>1
  <2>3. PICK k \in Nat : k = b - x + 1 /\ k \in 1..Taken(c, b)
    BY <1>3, <2>2
  <2>4. x <= b /\ Taken(c, b) = k /\ Taken(c, last) = last - x + 1
    BY <2>2, <2>3 DEF Taken
  <2>5. k \in 1..Taken(c, last)
    BY <2>3, <2>4
  <2>6. PICK l \in Nat, m \in Nat : l = Len(c.edges) /\ m = Len(c.pix)
    BY <2>1, EdgesFacts
  <2>7. k \in 1..l /\ k + 1 \in 1..l
    BY <1>3, <2>3, <2>4, <2>5, <2>6
  <2>8. PICK u \in Nat, v \in Nat : /\ u = c.edges[k] /\ v = c.edges[k + 1] /\ u <= v /\ u >= 1
                                    /\ v <= m + 1 /\ v >= 1
    <3>1. /\ \A j \in 1..l : c.edges[j] \in Nat /\ c.edges[j] >= 1 /\ c.edges[j] <= m + 1
          /\ \A i, j \in 1..l : i <= j => c.edges[i] <= c.edges[j]
      BY <2>1, <2>6, EdgesFacts DEF GoodEdges
    <3>2. k <= k + 1
      OBVIOUS
    <3> QED
      BY <2>7, <3>1, <3>2
  <2>9. v - 1 \in Nat /\ u \in Nat \ {0} /\ u <= (v - 1) + 1 /\ v - 1 <= m
    BY <2>8
  <2>10. SliceIs(Pixel, c.pix, u, v - 1)
    BY <2>1, <2>6, <2>9, SliceFacts
  <2>11. BinOfCache(c, b) = SubSeq(c.pix, u, v - 1)
    BY <1>3, <2>2, <2>3, <2>8 DEF BinOfCache
  <2> QED
    BY <1>3, <2>2, <2>3, <2>4, <2>5, <2>8, <2>10, <2>11 DEF SliceOf
<1> QED
  BY <1>1, <1>2, <1>3

\* Popping leaves a good cache, whose pixels come after those of the bins.
LEMMA RemainsFacts ==
  ASSUME NEW c, GoodCache(c), NEW last \in Nat, NEW d, Remains(c, last, d)
  PROVE  /\ GoodCache(d) /\ d.pix \in Seq(Pixel)
         /\ c.edges = << >> \/ Len(c.edges) >= Taken(c, last) + 1
         /\ \/ c.edges = << >> /\ d.pix = c.pix
            \/ d.pix = << >>
            \/ c.edges # << >> /\ Taken(c, last) = 0 /\ d = c
            \/ c.edges # << >> /\ Taken(c, last) > 0 /\ KeptIs(c, last, Taken(c, last))
                 /\ d = Kept(c, last, Taken(c, last))
<1> DEFINE n == Taken(c, last)
           Caches == [range : Nat \X Nat, edges : Seq(Nat \ {0}), pix : Seq(Pixel),
                      completed : BOOLEAN]
<1>1. c \in Caches /\ (c.edges = << >> => c.pix = << >>)
  BY DEF GoodCache
<1>2. PICK x \in Nat, y \in Nat : c.range = <<x, y>>
  BY <1>1
<1>3. n \in Nat
  BY <1>2 DEF Taken
<1> HIDE DEF n
<1>4. CASE c.edges = << >> /\ \E z \in Nat : d = [c EXCEPT !.range = <<z, z>>]
  <2>1. PICK z \in Nat : d = [c EXCEPT !.range = <<z, z>>]
    BY <1>4
  <2>2. d \in Caches /\ d.edges = c.edges /\ d.pix = c.pix
    BY <1>1, <2>1
  <2>3. GoodCache(d)
    BY <1>1, <1>4, <2>2 DEF GoodCache
  <2> QED
    BY <1>4, <2>2, <2>3 DEF n
<1>5. CASE c.edges # << >> /\ n > 0 /\ Len(c.edges) >= n + 1 /\ d = Popped(c, last, n)
  <2>1. CASE last < c.range[2]
    <3>1. d = Kept(c, last, n)
      BY <1>5, <2>1 DEF Popped
    <3>2. n + 1 <= Len(c.edges)
      <4>1. Len(c.edges) \in Nat
        BY <1>1
      <4> QED
        BY <1>3, <1>5, <4>1
    <3>3. KeptIs(c, last, n)
      BY <1>3, <1>5, <3>2, KeptFacts
    <3>4. GoodCache(d) /\ d.pix \in Seq(Pixel)
      BY <3>1, <3>3 DEF KeptIs, GoodCache
    <3> QED
      BY <1>5, <3>1, <3>3, <3>4 DEF n
  <2>2. CASE ~(last < c.range[2])
    <3> DEFINE next == IF c.completed THEN c.range[2] + 1 ELSE c.range[2]
               z == c.completed /\ next > NumBins
    <3>1. next \in Nat
      BY <1>2
    <3>2. d = [range |-> <<next, next>>, edges |-> << >>, pix |-> << >>, completed |-> z]
      BY <1>5, <2>2 DEF Popped
    <3>3. z \in BOOLEAN
      BY <1>1
    <3> HIDE DEF next, z
    <3>4. d \in Caches /\ d.edges = << >> /\ d.pix = << >>
      <4>1. << >> \in Seq(Pixel) /\ << >> \in Seq(Nat \ {0})
        OBVIOUS
      <4> QED
        BY <3>1, <3>2, <3>3, <4>1
    <3>5. GoodCache(d)
      BY <3>4 DEF GoodCache
    <3> QED
      BY <1>5, <3>4, <3>5 DEF n
  <2> QED
    BY <2>1, <2>2
<1>6. CASE c.edges # << >> /\ ~(n > 0) /\ d = c
  <2>1. n = 0
    BY <1>3, <1>6
  <2>2. Len(c.edges) \in Nat /\ Len(c.edges) # 0
    BY <1>1, <1>6, EmptySeq
  <2>3. Len(c.edges) >= n + 1
    BY <2>1, <2>2
  <2> QED
    BY <1>1, <1>6, <2>1, <2>3 DEF n
<1> QED
  BY <1>4, <1>5, <1>6 DEF Remains, n

LEMMA BinsOfFacts ==
  ASSUME NEW c, GoodCache(c), NEW last \in Nat, NEW d, Remains(c, last, d)
  PROVE  BinsOf(c, last, d)
<1> DEFINE n == Taken(c, last)
           e == c.edges
           s == c.pix
<1>1. s \in Seq(Pixel) /\ c.range \in Nat \X Nat /\ (e # << >> => GoodEdges(e, s))
  BY DEF GoodCache
<1>2. PICK x \in Nat, m \in Nat : x = c.range[1] /\ m = Len(s) /\ DOMAIN s = 1..m
  BY <1>1
<1>3. /\ GoodCache(d) /\ d.pix \in Seq(Pixel)
      /\ e = << >> \/ Len(e) >= n + 1
      /\ \/ e = << >> /\ d.pix = s
         \/ d.pix = << >>
         \/ e # << >> /\ n = 0 /\ d = c
         \/ e # << >> /\ n > 0 /\ KeptIs(c, last, n) /\ d = Kept(c, last, n)
  BY RemainsFacts
<1>4. n \in Nat
  BY <1>2 DEF Taken
<1> HIDE DEF n
<1>5. ASSUME e # << >>
      PROVE  \A j, k \in 1..(n + 1) : /\ e[j] \in Nat /\ e[j] >= 1 /\ e[j] <= m + 1
                                      /\ j <= k => e[j] <= e[k]
  <2>1. PICK l \in Nat : l = Len(e)
    BY <1>1, <1>5, EdgesFacts
  <2>2. \A j \in 1..(n + 1) : j \in 1..l
    BY <1>3, <1>4, <1>5, <2>1
  <2>3. \A j \in 1..l : e[j] \in Nat /\ e[j] >= 1 /\ e[j] <= m + 1
    BY <1>1, <1>2, <1>5, <2>1, EdgesFacts
  <2>4. \A i, j \in 1..l : i <= j => e[i] <= e[j]
    BY <1>1, <1>5, <2>1 DEF GoodEdges
  <2> QED
    BY <2>2, <2>3, <2>4
\* The pixels of a bin, by their places in the cache.
<1>6. ASSUME NEW b \in Nat, b <= last
      PROVE  /\ BinOfCache(c, b) \in Seq(Pixel) /\ Range(BinOfCache(c, b)) \subseteq Range(s)
             /\ IsInjective(s) => IsInjective(BinOfCache(c, b))
             /\ \A p \in Range(BinOfCache(c, b)) :
                  /\ e # << >> /\ b - x + 1 \in 1..n
                  /\ \E j \in e[b - x + 1]..(e[b - x + 2] - 1) : p = s[j]
  <2>1. SliceOf(c, last, b)
    BY <1>3, <1>6, SliceOfFacts DEF n
  <2>2. CASE BinOfCache(c, b) = << >>
    <3>1. << >> \in Seq(Pixel) /\ Range(<< >>) = {} /\ IsInjective(<< >>)
      BY DEF Range, IsInjective
    <3> QED
      BY <2>2, <3>1
  <2>3. CASE BinOfCache(c, b) # << >>
    <3>1. PICK k \in 1..n : k = b - x + 1
      BY <1>2, <2>1, <2>3 DEF SliceOf, n
    <3>2. /\ e # << >> /\ SliceIs(Pixel, s, e[k], e[k + 1] - 1)
          /\ BinOfCache(c, b) = SubSeq(s, e[k], e[k + 1] - 1)
      BY <1>2, <2>1, <2>3, <3>1 DEF SliceOf
    <3>3. k + 1 = b - x + 2
      BY <3>1
    <3> QED
      BY <3>1, <3>2, <3>3 DEF SliceIs
  <2> QED
    BY <2>2, <2>3
<1>7. ASSUME NEW p \in Range(d.pix), e # << >>
      PROVE  /\ p \in Range(s)
             /\ \E j \in 1..m : p = s[j] /\ (e[n + 1] <= j \/ n = 0)
  <2>1. PICK q \in Nat : q = Len(d.pix) /\ DOMAIN d.pix = 1..q
    BY <1>3
  <2>2. PICK j \in 1..q : p = d.pix[j]
    BY <2>1 DEF Range
  <2>3. d.pix # << >>
    BY <2>1, <2>2
  <2>4. CASE n = 0 /\ d = c
    <3>1. j \in 1..m /\ p = s[j]
      BY <1>2, <2>1, <2>2, <2>4
    <3> QED
      BY <1>2, <2>4, <3>1 DEF Range
  <2>5. CASE n > 0 /\ KeptIs(c, last, n) /\ d = Kept(c, last, n)
    <3>1. PICK a \in Nat : a = e[n + 1] /\ a >= 1 /\ a <= m + 1
      BY <1>4, <1>5, <1>7
    <3>2. q = m - a + 1 /\ p = s[a + j - 1]
      BY <1>2, <2>1, <2>2, <2>5, <3>1 DEF KeptIs
    <3>3. a + j - 1 \in 1..m /\ a <= a + j - 1
      BY <3>1, <3>2
    <3>4. p \in Range(s)
      BY <1>2, <3>2, <3>3 DEF Range
    <3> QED
      BY <3>1, <3>2, <3>3, <3>4
  <2> QED
    BY <1>3, <1>7, <2>3, <2>4, <2>5
<1>8. Range(d.pix) \subseteq Range(s)
  <2>1. CASE e # << >>
    BY <1>7, <2>1
  <2>2. CASE e = << >>
    <3>1. d.pix = s \/ d.pix = << >>
      BY <1>3, <2>2
    <3> QED
      BY <3>1 DEF Range
  <2> QED
    BY <2>1, <2>2
<1>9. ASSUME IsInjective(s)
      PROVE  IsInjective(d.pix)
  <2>1. CASE d.pix = s \/ d.pix = << >>
    BY <1>9, <2>1 DEF IsInjective
  <2>2. CASE e # << >> /\ KeptIs(c, last, n) /\ d = Kept(c, last, n)
    <3>1. PICK q \in Nat : q = Len(d.pix) /\ DOMAIN d.pix = 1..q
      BY <1>3
    <3>2. PICK a \in Nat : a = e[n + 1] /\ a >= 1 /\ a <= m + 1
      BY <1>4, <1>5, <2>2
    <3>3. q = m - a + 1 /\ \A j \in 1..q : d.pix[j] = s[a + j - 1]
      BY <1>2, <2>2, <3>1, <3>2 DEF KeptIs
    <3>4. ASSUME NEW j \in 1..q, NEW k \in 1..q, d.pix[j] = d.pix[k]
          PROVE  j = k
      <4>1. a + j - 1 \in 1..m /\ a + k - 1 \in 1..m
        BY <3>2, <3>3
      <4>2. s[a + j - 1] = s[a + k - 1]
        BY <3>3, <3>4
      <4>3. a + j - 1 = a + k - 1
        BY <1>2, <1>9, <4>1, <4>2 DEF IsInjective
      <4> QED
        BY <4>3
    <3> QED
      BY <3>1, <3>4 DEF IsInjective
  <2> QED
    BY <1>3, <2>1, <2>2
<1>10. ASSUME IsInjective(s), NEW b \in Nat, b <= last
       PROVE  Range(BinOfCache(c, b)) \cap Range(d.pix) = {}
  <2> SUFFICES ASSUME NEW p \in Range(BinOfCache(c, b)), p \in Range(d.pix)
               PROVE  FALSE
    OBVIOUS
  <2>1. PICK k \in 1..n : k = b - x + 1
    BY <1>6, <1>10
  <2>2. PICK u \in Nat, v \in Nat, w \in Nat :
          u = e[k] /\ v = e[k + 1] /\ w = e[n + 1] /\ u >= 1 /\ v <= w /\ v <= m + 1
    <3>1. k \in 1..(n + 1) /\ k + 1 \in 1..(n + 1) /\ n + 1 \in 1..(n + 1) /\ k + 1 <= n + 1
      BY <1>4
    <3>2. e # << >>
      BY <1>6, <1>10
    <3> QED
      BY <1>5, <3>1, <3>2
  <2>3. k + 1 = b - x + 2
    BY <2>1
  <2>4. PICK j \in u..(v - 1) : p = s[j]
    <3>1. \E j \in e[b - x + 1]..(e[b - x + 2] - 1) : p = s[j]
      BY <1>6, <1>10
    <3> QED
      BY <2>1, <2>2, <2>3, <3>1
  <2>5. PICK i \in 1..m : p = s[i] /\ (w <= i \/ n = 0)
    BY <1>6, <1>7, <1>10, <2>2
  <2>6. j \in 1..m
    BY <2>2
  <2>7. i = j
    BY <1>2, <1>10, <2>4, <2>5, <2>6 DEF IsInjective
  <2> QED
    BY <2>1, <2>2, <2>4, <2>5, <2>7
<1>11. ASSUME IsInjective(s), NEW a \in Nat, NEW b \in Nat, a < b, b <= last
       PROVE  Range(BinOfCache(c, a)) \cap Range(BinOfCache(c, b)) = {}
  <2> SUFFICES ASSUME NEW p \in Range(BinOfCache(c, a)), p \in Range(BinOfCache(c, b))
               PROVE  FALSE
    OBVIOUS
  <2>1. a <= last
    BY <1>11
  <2>2. PICK k \in 1..n, l \in 1..n : k = a - x + 1 /\ l = b - x + 1 /\ k + 1 <= l
    <3>1. a - x + 1 \in 1..n /\ b - x + 1 \in 1..n
      BY <1>6, <1>11, <2>1
    <3>2. (a - x + 1) + 1 <= b - x + 1
      BY <1>11
    <3> QED
      BY <3>1, <3>2
  <2>3. PICK u \in Nat, v \in Nat, y \in Nat, z \in Nat :
          /\ u = e[k] /\ v = e[k + 1] /\ y = e[l] /\ z = e[l + 1]
          /\ u >= 1 /\ v <= y /\ z <= m + 1 /\ y >= 1 /\ v <= m + 1
    <3>1. /\ k \in 1..(n + 1) /\ k + 1 \in 1..(n + 1) /\ l \in 1..(n + 1) /\ l + 1 \in 1..(n + 1)
      BY <1>4
    <3>2. e # << >>
      BY <1>6, <1>11
    <3> QED
      BY <1>5, <2>2, <3>1, <3>2
  <2>4. k + 1 = a - x + 2 /\ l + 1 = b - x + 2
    BY <2>2
  <2>5. PICK i \in u..(v - 1) : p = s[i]
    BY <1>6, <2>1, <2>2, <2>3, <2>4
  <2>6. PICK j \in y..(z - 1) : p = s[j]
    BY <1>6, <1>11, <2>2, <2>3, <2>4
  <2>7. i \in 1..m /\ j \in 1..m /\ i # j
    BY <2>3
  <2> QED
    BY <1>2, <1>11, <2>5, <2>6, <2>7 DEF IsInjective
<1> QED
  BY <1>3, <1>6, <1>8, <1>9, <1>10, <1>11 DEF BinsOf

\* receive_data_write_output, with its intermediate values named.
PushedAll == [r \in Readers |-> IF r \in Providers THEN Pushed(Cached(r), Head(mess[r]))
                                ELSE Cached(r)]
FirstBin == Min({PushedAll[r].range[1] : r \in Readers})
UpTo == Min({PushedAll[r].range[2] : r \in Readers})
BinsTaken == [r \in Readers |-> Taken(PushedAll[r], UpTo)]
Pops == {r \in Readers : PushedAll[r].edges # << >> /\ BinsTaken[r] > 0}
NextBin(k) == Min({UpTo + 1} \cup {Popped(PushedAll[r], UpTo, BinsTaken[r]).range[1] :
                                     r \in {q \in Pops : q < k}})
PoppedAll == [r \in Readers |->
                CASE PushedAll[r].edges = << >> ->
                       [PushedAll[r] EXCEPT !.range = <<NextBin(r), NextBin(r)>>]
                  [] r \in Pops -> Popped(PushedAll[r], UpTo, BinsTaken[r])
                  [] OTHER -> PushedAll[r]]
WrittenOf(b) == FlattenSeq([r \in Readers |-> BinOfCache(PushedAll[r], FirstBin + b - 1)])
Written == FlattenSeq([b \in 1..Taken([range |-> <<FirstBin>>], UpTo) |-> WrittenOf(b)])
\* The messages that are asked for, and when they or the cache are refused.
Asked ==
  ~input.serial /\ (Providers # {} \/ InCache) /\ \A r \in Providers : mess[r] # << >>
CannotPush ==
  \/ \E r \in Providers : ~Consistent(Cached(r), Head(mess[r]), PushedAll[r])
  \/ \E r \in Pops : Len(PushedAll[r].edges) < BinsTaken[r] + 1
Receives ==
  /\ result = "running" /\ ~input.serial /\ (Providers # {} \/ InCache)
  /\ \A r \in Providers : mess[r] # << >>
  /\ \A r \in Pops : ~(Len(PushedAll[r].edges) < BinsTaken[r] + 1)
  /\ mess' = [r \in Readers |-> IF r \in Providers THEN Tail(mess[r]) ELSE mess[r]]
  /\ file' = file \o Written
  /\ bin_range_' = [r \in Readers |-> PoppedAll[r].range]
  /\ bin_edges_' = [r \in Readers |-> PoppedAll[r].edges]
  /\ read_pix_cache_' = [r \in Readers |-> PoppedAll[r].pix]
  /\ last_bin_completed_' = [r \in Readers |-> PoppedAll[r].completed]
  /\ first_bin_to_process_' = NextBin(Len(input.npix) + 1)
  /\ UNCHANGED <<input, sectionVars, pos_pixstart, result>>

LEMMA ReceiveFacts ==
  ASSUME ReceiveAndWrite
  PROVE  \/ Fail /\ Asked /\ CannotPush
         \/ Receives
<1> DEFINE pushed == [r \in Readers |-> IF r \in Providers THEN Pushed(Cached(r), Head(mess[r]))
                                        ELSE Cached(r)]
           first == Min({pushed[r].range[1] : r \in Readers})
           last == Min({pushed[r].range[2] : r \in Readers})
           n == [r \in Readers |-> Taken(pushed[r], last)]
           pops == {r \in Readers : pushed[r].edges # << >> /\ n[r] > 0}
           next(k) == Min({last + 1} \cup {Popped(pushed[r], last, n[r]).range[1] :
                                             r \in {q \in pops : q < k}})
           popped == [r \in Readers |->
                        CASE pushed[r].edges = << >> ->
                               [pushed[r] EXCEPT !.range = <<next(r), next(r)>>]
                          [] r \in pops -> Popped(pushed[r], last, n[r])
                          [] OTHER -> pushed[r]]
<1>1. /\ result = "running" /\ ~input.serial
      /\ Providers # {} \/ InCache
      /\ \A r \in Providers : mess[r] # << >>
      /\ IF \/ \E r \in Providers : ~Consistent(Cached(r), Head(mess[r]), pushed[r])
            \/ \E r \in pops : Len(pushed[r].edges) < n[r] + 1
         THEN Fail
         ELSE /\ mess' = [r \in Readers |-> IF r \in Providers THEN Tail(mess[r]) ELSE mess[r]]
              /\ file' = file \o FlattenSeq([b \in 1..Taken([range |-> <<first>>], last) |->
                           FlattenSeq([r \in Readers |->
                             BinOfCache(pushed[r], first + b - 1)])])
              /\ bin_range_' = [r \in Readers |-> popped[r].range]
              /\ bin_edges_' = [r \in Readers |-> popped[r].edges]
              /\ read_pix_cache_' = [r \in Readers |-> popped[r].pix]
              /\ last_bin_completed_' = [r \in Readers |-> popped[r].completed]
              /\ first_bin_to_process_' = next(Len(input.npix) + 1)
              /\ UNCHANGED <<input, sectionVars, pos_pixstart, result>>
  BY Zenon DEF ReceiveAndWrite
<1>2. PushedAll = pushed
  BY DEF PushedAll
<1> HIDE DEF pushed
<1>3. FirstBin = first /\ UpTo = last
  BY <1>2 DEF FirstBin, UpTo
<1> HIDE DEF first, last
<1>4. BinsTaken = n
  BY <1>2, <1>3 DEF BinsTaken
<1> HIDE DEF n
<1>5. Pops = pops
  BY <1>2, <1>4 DEF Pops
<1> HIDE DEF pops
<1>6. \A k : NextBin(k) = next(k)
  BY <1>2, <1>3, <1>4, <1>5 DEF NextBin
<1> HIDE DEF next
<1>7. PoppedAll = popped
  BY <1>2, <1>3, <1>4, <1>5, <1>6 DEF PoppedAll
<1> HIDE DEF popped
<1>8. Written = FlattenSeq([b \in 1..Taken([range |-> <<first>>], last) |->
                  FlattenSeq([r \in Readers |-> BinOfCache(pushed[r], first + b - 1)])])
  BY <1>2, <1>3 DEF Written, WrittenOf
<1> QED
  BY <1>1, <1>2, <1>4, <1>5, <1>6, <1>7, <1>8 DEF Receives, Asked, CannotPush

\* What the cache holds when the messages are in it, and what is left in it.
ReceivesOf(r) ==
  /\ GoodCache(PushedAll[r]) /\ Remains(PushedAll[r], UpTo, PoppedAll[r])
  /\ PushedAll[r].pix = read_pix_cache_[r]
       \o (IF r \in Providers THEN Head(mess[r]).pix_data ELSE << >>)
  /\ PushedAll[r].range[1] \in Nat /\ PushedAll[r].range[2] \in Nat
  /\ FirstBin <= PushedAll[r].range[1] /\ UpTo <= PushedAll[r].range[2]
  /\ Cached(r)' = PoppedAll[r] /\ BinsTaken[r] = Taken(PushedAll[r], UpTo)

LEMMA ReceivesFacts ==
  ASSUME ShapeInv, CacheInv, Receives
  PROVE  /\ FirstBin \in Nat /\ UpTo \in Nat /\ \A k : NextBin(k) \in Nat
         /\ \A r \in Readers : ReceivesOf(r)
<1>1. Readers # {} /\ Providers \subseteq Readers /\ first_bin_to_process_ \in Nat
  BY DEF Receives, InCache, Providers, ShapeInv
<1>2. ASSUME NEW r \in Readers
      PROVE  /\ GoodCache(PushedAll[r])
             /\ PushedAll[r].pix = read_pix_cache_[r]
                  \o (IF r \in Providers THEN Head(mess[r]).pix_data ELSE << >>)
             /\ PushedAll[r].range[1] \in Nat /\ PushedAll[r].range[2] \in Nat
  <2>1. GoodCache(Cached(r)) /\ mess[r] \in Seq(GoodMessages) /\ Cached(r).pix = read_pix_cache_[r]
    BY DEF CacheInv, Cached
  <2>2. GoodCache(PushedAll[r]) /\ PushedAll[r].pix = read_pix_cache_[r]
          \o (IF r \in Providers THEN Head(mess[r]).pix_data ELSE << >>)
    <3>1. CASE r \in Providers
      <4>1. mess[r] # << >>
        BY <3>1 DEF Receives
      <4>2. Head(mess[r]) \in GoodMessages
        BY <2>1, <4>1
      <4>3. PushedAll[r] = Pushed(Cached(r), Head(mess[r]))
        BY <3>1 DEF PushedAll
      <4> QED
        BY <1>1, <2>1, <3>1, <4>2, <4>3, PushedFacts
    <3>2. CASE r \notin Providers
      <4>1. PushedAll[r] = Cached(r)
        BY <3>2 DEF PushedAll
      <4>2. read_pix_cache_[r] \in Seq(Pixel)
        BY <2>1 DEF GoodCache
      <4>3. read_pix_cache_[r] \o << >> = read_pix_cache_[r]
        BY <4>2
      <4> QED
        BY <2>1, <3>2, <4>1, <4>3
    <3> QED
      BY <3>1, <3>2
  <2>3. PushedAll[r].range \in Nat \X Nat
    BY <2>2 DEF GoodCache
  <2> QED
    BY <2>2, <2>3
<1>3. FirstBin \in Nat /\ \A r \in Readers : FirstBin <= PushedAll[r].range[1]
  <2> DEFINE S == {PushedAll[r].range[1] : r \in Readers}
  <2>1. S \in SUBSET Nat /\ S # {}
    BY <1>1, <1>2
  <2>2. Min(S) \in S /\ \A y \in S : Min(S) <= y
    <3> HIDE DEF S
    <3> QED
      BY <2>1, MinOfNats
  <2>3. FirstBin = Min(S)
    BY DEF FirstBin
  <2> QED
    BY <2>1, <2>2, <2>3
<1>4. UpTo \in Nat /\ \A r \in Readers : UpTo <= PushedAll[r].range[2]
  <2> DEFINE S == {PushedAll[r].range[2] : r \in Readers}
  <2>1. S \in SUBSET Nat /\ S # {}
    BY <1>1, <1>2
  <2>2. Min(S) \in S /\ \A y \in S : Min(S) <= y
    <3> HIDE DEF S
    <3> QED
      BY <2>1, MinOfNats
  <2>3. UpTo = Min(S)
    BY DEF UpTo
  <2> QED
    BY <2>1, <2>2, <2>3
<1>5. ASSUME NEW r \in Pops
      PROVE  /\ r \in Readers
             /\ Remains(PushedAll[r], UpTo, Popped(PushedAll[r], UpTo, BinsTaken[r]))
  <2>1. /\ r \in Readers /\ PushedAll[r].edges # << >> /\ BinsTaken[r] > 0
        /\ BinsTaken[r] = Taken(PushedAll[r], UpTo)
    BY DEF Pops, BinsTaken
  <2>2. ~(Len(PushedAll[r].edges) < BinsTaken[r] + 1)
    BY DEF Receives
  <2>3. Len(PushedAll[r].edges) >= BinsTaken[r] + 1
    <3>1. Len(PushedAll[r].edges) \in Nat
      BY <1>2, <2>1 DEF GoodCache
    <3>2. BinsTaken[r] \in Int
      <4>1. PICK x \in Nat, y \in Nat : x = PushedAll[r].range[1] /\ y = UpTo
        BY <1>2, <1>4, <2>1
      <4> QED
        BY <2>1, <4>1 DEF Taken
    <3> QED
      BY <2>2, <3>1, <3>2
  <2> QED
    BY <2>1, <2>3 DEF Remains
<1>6. \A k : NextBin(k) \in Nat
  <2> TAKE k
  <2> DEFINE S == {UpTo + 1} \cup {Popped(PushedAll[r], UpTo, BinsTaken[r]).range[1] :
                                     r \in {q \in Pops : q < k}}
  <2>1. ASSUME NEW r \in Pops
        PROVE  Popped(PushedAll[r], UpTo, BinsTaken[r]).range[1] \in Nat
    <3>1. GoodCache(Popped(PushedAll[r], UpTo, BinsTaken[r]))
      BY <1>2, <1>4, <1>5, RemainsFacts
    <3>2. Popped(PushedAll[r], UpTo, BinsTaken[r]).range \in Nat \X Nat
      BY <3>1 DEF GoodCache
    <3> QED
      BY <3>2
  <2>2. UpTo + 1 \in Nat
    BY <1>4
  <2>3. S \in SUBSET Nat /\ S # {}
    BY <2>1, <2>2
  <2>4. NextBin(k) = Min(S)
    BY DEF NextBin
  <2> HIDE DEF S
  <2>5. Min(S) \in S
    BY <2>3, MinOfNats
  <2> QED
    BY <2>3, <2>4, <2>5
<1>7. ASSUME NEW r \in Readers
      PROVE  Remains(PushedAll[r], UpTo, PoppedAll[r])
  <2>1. BinsTaken[r] = Taken(PushedAll[r], UpTo)
    BY DEF BinsTaken
  <2>2. CASE PushedAll[r].edges = << >>
    <3>1. PoppedAll[r] = [PushedAll[r] EXCEPT !.range = <<NextBin(r), NextBin(r)>>]
      <4> DEFINE moved(q) == [PushedAll[q] EXCEPT !.range = <<NextBin(q), NextBin(q)>>]
      <4>1. PoppedAll = [q \in Readers |->
                          CASE PushedAll[q].edges = << >> -> moved(q)
                            [] q \in Pops -> Popped(PushedAll[q], UpTo, BinsTaken[q])
                            [] OTHER -> PushedAll[q]]
        BY DEF PoppedAll
      <4>2. PushedAll[r].edges = << >> /\ r \notin Pops
        BY <2>2 DEF Pops
      <4> HIDE DEF moved
      <4>3. PoppedAll[r] = moved(r)
        BY <4>1, <4>2
      <4> QED
        BY <4>3 DEF moved
    <3> QED
      BY <1>6, <2>2, <3>1 DEF Remains
  <2>3. CASE PushedAll[r].edges # << >> /\ r \in Pops
    <3>1. PoppedAll[r] = Popped(PushedAll[r], UpTo, BinsTaken[r])
      BY <2>3 DEF PoppedAll
    <3> QED
      BY <1>5, <2>3, <3>1
  <2>4. CASE PushedAll[r].edges # << >> /\ r \notin Pops
    <3>1. PoppedAll[r] = PushedAll[r]
      BY <2>4 DEF PoppedAll
    <3>2. ~(BinsTaken[r] > 0)
      BY <2>4 DEF Pops
    <3> QED
      BY <2>1, <2>4, <3>1, <3>2 DEF Remains
  <2> QED
    BY <2>2, <2>3, <2>4
<1>8. ASSUME NEW r \in Readers
      PROVE  Cached(r)' = PoppedAll[r] /\ BinsTaken[r] = Taken(PushedAll[r], UpTo)
  <2>1. GoodCache(PoppedAll[r])
    BY <1>2, <1>4, <1>7, RemainsFacts
  <2>2. PICK x, y, z, w : PoppedAll[r] = [range |-> x, edges |-> y, pix |-> z, completed |-> w]
    BY <2>1 DEF GoodCache
  <2>3. /\ bin_range_'[r] = PoppedAll[r].range /\ bin_edges_'[r] = PoppedAll[r].edges
        /\ read_pix_cache_'[r] = PoppedAll[r].pix /\ last_bin_completed_'[r] = PoppedAll[r].completed
    BY DEF Receives
  <2>4. Cached(r)' = [range |-> PoppedAll[r].range, edges |-> PoppedAll[r].edges,
                      pix |-> PoppedAll[r].pix, completed |-> PoppedAll[r].completed]
    BY <2>3 DEF Cached
  <2>5. Cached(r)' = PoppedAll[r]
    BY <2>2, <2>4
  <2> QED
    BY <2>5 DEF BinsTaken
<1> QED
  BY <1>2, <1>3, <1>4, <1>6, <1>7, <1>8 DEF ReceivesOf

\* What is apart stays apart when a message is received and bins are written.
LEMMA ApartPopped ==
  ASSUME NEW T, NEW c, NEW ms, NEW W, Apart(T, c, ms, W), NEW d, IsInjective(d),
         Range(d) \subseteq Range(c), NEW X, X \cap T \subseteq W \cup Range(c),
         X \cap Range(d) = {}
  PROVE  Apart(T, d, ms, X)
BY DEF Apart

LEMMA ApartReceived ==
  ASSUME NEW T, NEW c, NEW ms \in Seq(GoodMessages), ms # << >>, NEW W, Apart(T, c, ms, W),
         NEW d, IsInjective(d), NEW C, C = Range(c) \cup Range(Head(ms).pix_data),
         Range(d) \subseteq C, NEW X, X \cap T \subseteq W \cup C, X \cap Range(d) = {}
  PROVE  Apart(T, d, Tail(ms), X)
<1>1. PICK n \in Nat : Len(ms) = n + 1
  <2>1. Len(ms) \in Nat /\ Len(ms) # 0
    BY EmptySeq
  <2>2. Len(ms) - 1 \in Nat /\ Len(ms) = (Len(ms) - 1) + 1
    BY <2>1
  <2> QED
    BY <2>2
<1>2. /\ Head(ms) = ms[1] /\ Len(Tail(ms)) = n /\ \A j \in 1..n : Tail(ms)[j] = ms[j + 1]
      /\ \A j \in 1..n : j + 1 \in 1..(n + 1) /\ j + 1 # 1
      /\ 1 \in 1..(n + 1)
  BY <1>1
<1>3. \A j \in 1..(n + 1) :
        /\ IsInjective(ms[j].pix_data) /\ Range(ms[j].pix_data) \subseteq T
        /\ Range(ms[j].pix_data) \cap W = {}
        /\ Range(ms[j].pix_data) \cap Range(c) = {}
        /\ \A k \in 1..(n + 1) :
             k # j => Range(ms[j].pix_data) \cap Range(ms[k].pix_data) = {}
  BY <1>1 DEF Apart
<1>4. Range(c) \subseteq T /\ C \subseteq T
  BY <1>2, <1>3 DEF Apart
<1>5. ASSUME NEW j \in 1..n
      PROVE  /\ IsInjective(Tail(ms)[j].pix_data) /\ Range(Tail(ms)[j].pix_data) \subseteq T
             /\ Range(Tail(ms)[j].pix_data) \cap X = {}
             /\ Range(Tail(ms)[j].pix_data) \cap Range(d) = {}
             /\ \A k \in 1..n :
                  k # j => Range(Tail(ms)[j].pix_data) \cap Range(Tail(ms)[k].pix_data) = {}
  <2>1. Tail(ms)[j] = ms[j + 1] /\ j + 1 \in 1..(n + 1) /\ j + 1 # 1
    BY <1>2
  <2>2. /\ IsInjective(ms[j + 1].pix_data) /\ Range(ms[j + 1].pix_data) \subseteq T
        /\ Range(ms[j + 1].pix_data) \cap W = {} /\ Range(ms[j + 1].pix_data) \cap C = {}
    BY <1>2, <1>3, <2>1
  <2>3. \A k \in 1..n : k # j => Range(ms[j + 1].pix_data) \cap Range(ms[k + 1].pix_data) = {}
    <3> TAKE k \in 1..n
    <3>1. k # j => k + 1 # j + 1
      OBVIOUS
    <3>2. k + 1 \in 1..(n + 1)
      BY <1>2
    <3> QED
      BY <1>3, <2>1, <3>1, <3>2
  <2> QED
    BY <1>2, <2>1, <2>2, <2>3
<1>6. Range(d) \cap X = {} /\ Range(d) \subseteq T
  BY <1>4
<1> QED
  BY <1>2, <1>5, <1>6 DEF Apart

\* The bins that are written, each of all readers.
WrittenIs(N) ==
  /\ Written \in Seq(Pixel) /\ N \in Nat
  /\ \A b \in 1..N : FirstBin + b - 1 \in Nat /\ FirstBin + b - 1 <= UpTo
  /\ \A r \in Readers, b \in 1..N : BinOfCache(PushedAll[r], FirstBin + b - 1) \in Seq(Pixel)
  /\ \A b \in 1..N :
       /\ WrittenOf(b) \in Seq(Pixel)
       /\ Range(WrittenOf(b)) = UNION {Range(BinOfCache(PushedAll[r], FirstBin + b - 1)) :
                                         r \in Readers}
  /\ Range(Written) = UNION {Range(WrittenOf(b)) : b \in 1..N}
  /\ N = Taken([range |-> <<FirstBin>>], UpTo)

LEMMA WrittenFacts ==
  ASSUME ShapeInv, CacheInv, Receives
  PROVE  \E N : WrittenIs(N)
<1>1. /\ FirstBin \in Nat /\ UpTo \in Nat
      /\ \A r \in Readers : BinsOf(PushedAll[r], UpTo, PoppedAll[r])
  BY ReceivesFacts, BinsOfFacts DEF ReceivesOf
<1>2. PICK R \in Nat : Readers = 1..R
  BY InputFacts DEF ShapeInv
<1> DEFINE N == Taken([range |-> <<FirstBin>>], UpTo)
<1>3. N \in Nat /\ \A b \in 1..N : FirstBin + b - 1 \in Nat /\ FirstBin + b - 1 <= UpTo
  <2>1. PICK x \in Nat, y \in Nat : x = FirstBin /\ y = UpTo
    BY <1>1
  <2>2. N = IF y < x THEN 0 ELSE y - x + 1
    BY <2>1 DEF Taken
  <2> HIDE DEF N
  <2>3. N \in Nat
    BY <2>2
  <2>4. \A b \in 1..N : x + b - 1 \in Nat /\ x + b - 1 <= y
    BY <2>2
  <2> QED
    BY <2>1, <2>3, <2>4
<1> HIDE DEF N
<1>4. \A r \in Readers, b \in 1..N : BinOfCache(PushedAll[r], FirstBin + b - 1) \in Seq(Pixel)
  BY <1>1, <1>3 DEF BinsOf
<1>5. ASSUME NEW b \in 1..N
      PROVE  /\ WrittenOf(b) \in Seq(Pixel)
             /\ Range(WrittenOf(b)) = UNION {Range(BinOfCache(PushedAll[r], FirstBin + b - 1)) :
                                               r \in Readers}
  <2> DEFINE ws == [r \in Readers |-> BinOfCache(PushedAll[r], FirstBin + b - 1)]
  <2>1. /\ ws \in Seq(Seq(Pixel)) /\ Len(ws) = R
        /\ \A r \in Readers : ws[r] = BinOfCache(PushedAll[r], FirstBin + b - 1)
    BY <1>2, <1>4
  <2>2. WrittenOf(b) = FlattenSeq(ws)
    BY DEF WrittenOf
  <2> HIDE DEF ws
  <2>3. WrittenOf(b) \in Seq(Pixel)
    BY <2>1, <2>2, FlattenFacts
  <2>4. Range(WrittenOf(b)) = UNION {Range(ws[k]) : k \in 1..Len(ws)}
    BY <2>1, <2>2, FlattenRange
  <2> QED
    BY <1>2, <2>1, <2>3, <2>4
<1>6. Written \in Seq(Pixel) /\ Range(Written) = UNION {Range(WrittenOf(b)) : b \in 1..N}
  <2> DEFINE ws == [b \in 1..N |-> WrittenOf(b)]
  <2>1. ws \in Seq(Seq(Pixel)) /\ Len(ws) = N /\ \A b \in 1..N : ws[b] = WrittenOf(b)
    BY <1>3, <1>5
  <2>2. Written = FlattenSeq(ws)
    BY DEF Written, N
  <2> HIDE DEF ws
  <2>3. Written \in Seq(Pixel)
    BY <2>1, <2>2, FlattenFacts
  <2>4. Range(Written) = UNION {Range(ws[k]) : k \in 1..Len(ws)}
    BY <2>1, <2>2, FlattenRange
  <2> QED
    BY <2>1, <2>3, <2>4
<1>7. WrittenIs(N)
  BY <1>3, <1>4, <1>5, <1>6 DEF WrittenIs, N
<1> QED
  BY <1>7

\* Written are pixels of the cache that do not stay there, each once.
LEMMA ReceivePlace ==
  ASSUME ShapeInv, CacheInv, PlaceInv, Receives
  PROVE  ShapeInv' /\ CacheInv' /\ PlaceInv'
<1>1. /\ FirstBin \in Nat /\ UpTo \in Nat /\ \A k : NextBin(k) \in Nat
      /\ \A r \in Readers : ReceivesOf(r)
  BY ReceivesFacts
<1>2. PICK N \in Nat : WrittenIs(N)
  BY WrittenFacts DEF WrittenIs
<1>3. PICK R \in Nat : Readers = 1..R
  BY InputFacts DEF ShapeInv
<1> DEFINE bin(r, b) == BinOfCache(PushedAll[r], FirstBin + b - 1)
           head(r) == IF r \in Providers THEN Head(mess[r]).pix_data ELSE << >>
<1>4. ASSUME NEW r \in Readers
      PROVE  /\ BinsOf(PushedAll[r], UpTo, PoppedAll[r])
             /\ PushedAll[r].pix = read_pix_cache_[r] \o head(r)
             /\ read_pix_cache_[r] \in Seq(Pixel) /\ mess[r] \in Seq(GoodMessages)
             /\ r \in Providers => mess[r] # << >> /\ Head(mess[r]) \in GoodMessages
             /\ head(r) \in Seq(Pixel)
             /\ Apart(TakenBy(r), read_pix_cache_[r], mess[r], Range(file))
  <2>1. ReceivesOf(r)
    BY <1>1
  <2>2. BinsOf(PushedAll[r], UpTo, PoppedAll[r])
    BY <1>1, <2>1, BinsOfFacts DEF ReceivesOf
  <2>3. GoodCache(Cached(r)) /\ Cached(r).pix = read_pix_cache_[r] /\ mess[r] \in Seq(GoodMessages)
    BY DEF CacheInv, Cached
  <2>4. r \in Providers => mess[r] # << >>
    BY DEF Receives
  <2>5. r \in Providers => Head(mess[r]) \in GoodMessages
    BY <2>3, <2>4
  <2>6. head(r) \in Seq(Pixel)
    BY <2>5 DEF GoodMessages
  <2> QED
    BY <2>1, <2>2, <2>3, <2>4, <2>5, <2>6 DEF ReceivesOf, GoodCache, PlaceInv
<1>5. ASSUME NEW r \in Readers
      PROVE  /\ Range(head(r)) \subseteq TakenBy(r) /\ Range(head(r)) \cap Range(file) = {}
             /\ Range(head(r)) \cap Range(read_pix_cache_[r]) = {} /\ IsInjective(head(r))
  <2>1. CASE r \in Providers
    <3>1. head(r) = mess[r][1].pix_data /\ 1 \in 1..Len(mess[r])
      <4>1. PICK s \in Seq(GoodMessages) : s = mess[r] /\ s # << >>
        BY <1>4, <2>1
      <4>2. Head(s) = s[1] /\ 1 \in 1..Len(s)
        BY <4>1
      <4> QED
        BY <2>1, <4>1, <4>2
    <3> HIDE DEF head
    <3> QED
      BY <1>4, <3>1 DEF Apart
  <2>2. CASE r \notin Providers
    <3>1. head(r) = << >>
      BY <2>2
    <3> QED
      BY <3>1 DEF Range, IsInjective
  <2> QED
    BY <2>1, <2>2
<1> HIDE DEF bin, head
<1>6. ASSUME NEW r \in Readers
      PROVE  /\ IsInjective(PushedAll[r].pix)
             /\ Range(PushedAll[r].pix) = Range(read_pix_cache_[r]) \cup Range(head(r))
             /\ Range(PushedAll[r].pix) \subseteq TakenBy(r)
             /\ Range(PushedAll[r].pix) \cap Range(file) = {}
  <2>1. /\ IsInjective(read_pix_cache_[r]) /\ Range(read_pix_cache_[r]) \subseteq TakenBy(r)
        /\ Range(read_pix_cache_[r]) \cap Range(file) = {}
    BY <1>4 DEF Apart
  <2>2. /\ IsInjective(PushedAll[r].pix)
        /\ Range(PushedAll[r].pix) = Range(read_pix_cache_[r]) \cup Range(head(r))
    <3>1. PICK s \in Seq(Pixel), t \in Seq(Pixel) : s = read_pix_cache_[r] /\ t = head(r)
      BY <1>4
    <3>2. IsInjective(s) /\ IsInjective(t) /\ Range(s) \cap Range(t) = {}
      BY <1>5, <2>1, <3>1
    <3>3. IsInjective(s \o t) /\ Range(s \o t) = Range(s) \cup Range(t)
      BY <3>2, ConcatFacts
    <3> QED
      BY <1>4, <3>1, <3>3
  <2> QED
    BY <1>5, <2>1, <2>2
<1>7. ASSUME NEW r \in Readers, NEW b \in 1..N
      PROVE  /\ bin(r, b) \in Seq(Pixel) /\ IsInjective(bin(r, b))
             /\ Range(bin(r, b)) \subseteq Range(PushedAll[r].pix)
             /\ Range(bin(r, b)) \cap Range(PoppedAll[r].pix) = {}
             /\ \A a \in 1..N : a < b => Range(bin(r, a)) \cap Range(bin(r, b)) = {}
  <2>1. /\ FirstBin + b - 1 \in Nat /\ FirstBin + b - 1 <= UpTo
        /\ \A a \in 1..N : FirstBin + a - 1 \in Nat
    BY <1>2 DEF WrittenIs
  <2>2. \A a \in 1..N : a < b => FirstBin + a - 1 < FirstBin + b - 1
    BY <1>1
  <2> QED
    BY <1>4, <1>6, <2>1, <2>2 DEF BinsOf, bin
<1>8. \A q, r \in Readers : q # r => TakenBy(q) \cap TakenBy(r) = {}
  BY TakenByReaders
\* The file.
<1>9. ASSUME NEW b \in 1..N
      PROVE  /\ WrittenOf(b) \in Seq(Pixel) /\ IsInjective(WrittenOf(b))
             /\ Range(WrittenOf(b)) = UNION {Range(bin(r, b)) : r \in Readers}
  <2> DEFINE ws == [r \in Readers |-> bin(r, b)]
  <2>1. ws \in Seq(Seq(Pixel)) /\ Len(ws) = R /\ \A r \in 1..R : ws[r] = bin(r, b)
    BY <1>3, <1>7
  <2>2. WrittenOf(b) = FlattenSeq(ws)
    BY DEF WrittenOf, bin
  <2> HIDE DEF ws
  <2>3. \A k \in 1..Len(ws) : IsInjective(ws[k])
    BY <1>3, <1>7, <2>1
  <2>4. \A k, l \in 1..Len(ws) : k # l => Range(ws[k]) \cap Range(ws[l]) = {}
    <3>1. \A k \in 1..R : Range(ws[k]) \subseteq TakenBy(k)
      BY <1>3, <1>6, <1>7, <2>1
    <3> QED
      BY <1>3, <1>8, <2>1, <3>1
  <2>5. IsInjective(WrittenOf(b))
    BY <2>1, <2>2, <2>3, <2>4, FlattenInjective
  <2> QED
    BY <1>2, <2>5 DEF WrittenIs, bin
<1>10. ASSUME NEW a \in 1..N, NEW b \in 1..N, a < b
       PROVE  Range(WrittenOf(a)) \cap Range(WrittenOf(b)) = {}
  <2> SUFFICES ASSUME NEW p \in Range(WrittenOf(a)), p \in Range(WrittenOf(b))
               PROVE  FALSE
    OBVIOUS
  <2>1. PICK q \in Readers : p \in Range(bin(q, a))
    BY <1>9
  <2>2. PICK r \in Readers : p \in Range(bin(r, b))
    BY <1>9
  <2>3. p \in TakenBy(q) /\ p \in TakenBy(r)
    BY <1>6, <1>7, <2>1, <2>2
  <2>4. q = r
    BY <1>8, <2>3
  <2> QED
    BY <1>7, <1>10, <2>1, <2>2, <2>4
<1>11. Written \in Seq(Pixel) /\ IsInjective(Written)
  <2> DEFINE ws == [b \in 1..N |-> WrittenOf(b)]
  <2>1. ws \in Seq(Seq(Pixel)) /\ Len(ws) = N /\ \A b \in 1..N : ws[b] = WrittenOf(b)
    BY <1>9
  <2>2. Written = FlattenSeq(ws)
    BY <1>2 DEF Written, WrittenIs
  <2> HIDE DEF ws
  <2>3. \A k \in 1..Len(ws) : IsInjective(ws[k])
    BY <1>9, <2>1
  <2>4. \A k, l \in 1..Len(ws) : k # l => Range(ws[k]) \cap Range(ws[l]) = {}
    <3>1. \A k, l \in 1..N : k # l => k < l \/ l < k
      OBVIOUS
    <3> QED
      BY <1>10, <2>1, <3>1
  <2> QED
    BY <1>2, <2>1, <2>2, <2>3, <2>4, FlattenInjective DEF WrittenIs
<1>12. ASSUME NEW p \in Range(Written)
       PROVE  \E r \in Readers, b \in 1..N : p \in Range(bin(r, b))
  <2>1. PICK b \in 1..N : p \in Range(WrittenOf(b))
    BY <1>2 DEF WrittenIs
  <2> QED
    BY <1>9, <2>1
<1>13. ASSUME NEW r \in Readers, NEW p \in Range(Written), p \in TakenBy(r)
       PROVE  p \in Range(PushedAll[r].pix) /\ p \notin Range(PoppedAll[r].pix)
  <2>1. PICK q \in Readers, b \in 1..N : p \in Range(bin(q, b))
    BY <1>12
  <2>2. p \in TakenBy(q)
    BY <1>6, <1>7, <2>1
  <2>3. q = r
    BY <1>8, <1>13, <2>2
  <2> QED
    BY <1>7, <2>1, <2>3
<1>14. Range(Written) \cap Range(file) = {} /\ Range(Written) \subseteq PixelsTaken
  <2>1. PixelsTaken = UNION {TakenBy(r) : r \in Readers}
    BY TakenByReaders
  <2>2. ASSUME NEW p \in Range(Written)
        PROVE  p \notin Range(file) /\ p \in PixelsTaken
    <3>1. PICK r \in Readers, b \in 1..N : p \in Range(bin(r, b))
      BY <1>12
    <3> QED
      BY <1>6, <1>7, <2>1, <3>1
  <2> QED
    BY <2>2
<1>15. /\ file' \in Seq(Pixel) /\ IsInjective(file') /\ Range(file') = Range(file) \cup Range(Written)
       /\ Range(file') \subseteq PixelsTaken
  <2>1. file' = file \o Written
    BY DEF Receives
  <2>2. file \in Seq(Pixel) /\ IsInjective(file) /\ Range(file) \subseteq PixelsTaken
    BY DEF PlaceInv
  <2>3. /\ file' \in Seq(Pixel) /\ Range(file') = Range(file) \cup Range(Written)
        /\ IsInjective(file')
    BY <1>11, <1>14, <2>1, <2>2, ConcatFacts
  <2> QED
    BY <1>14, <2>2, <2>3
\* The cache and the messages.
<1>16. /\ UNCHANGED <<input, sectionVars, pos_pixstart, result>> /\ Readers' = Readers
       /\ PixelsTaken' = PixelsTaken /\ \A r \in Readers : TakenBy(r)' = TakenBy(r)
       /\ ~input.serial
  BY DEF Receives, Readers, PixelsTaken, TakenBy, Files
<1>17. \A r \in Readers : /\ mess'[r] = IF r \in Providers THEN Tail(mess[r]) ELSE mess[r]
                          /\ read_pix_cache_'[r] = PoppedAll[r].pix
  BY DEF Receives
<1>18. ASSUME NEW r \in Readers
       PROVE  Apart(TakenBy(r), read_pix_cache_'[r], mess'[r], Range(file'))
  <2> DEFINE d == PoppedAll[r].pix
             C == Range(read_pix_cache_[r]) \cup Range(head(r))
  <2>1. Range(d) \subseteq C /\ IsInjective(d) /\ C \subseteq TakenBy(r) /\ C \cap Range(file) = {}
    BY <1>4, <1>6 DEF BinsOf
  <2>2. Range(file') \cap TakenBy(r) \subseteq Range(file) \cup C
    BY <1>6, <1>13, <1>15
  <2>3. Range(file') \cap Range(d) = {}
    BY <1>13, <1>15, <2>1
  <2>4. Apart(TakenBy(r), read_pix_cache_[r], mess[r], Range(file))
    BY <1>4
  <2>5. CASE r \in Providers
    <3>1. C = Range(read_pix_cache_[r]) \cup Range(Head(mess[r]).pix_data)
      BY <2>5 DEF head
    <3> HIDE DEF d, C
    <3>2. Apart(TakenBy(r), d, Tail(mess[r]), Range(file'))
      BY <1>4, <2>1, <2>2, <2>3, <2>4, <2>5, <3>1, ApartReceived
    <3> QED
      BY <1>17, <2>5, <3>2 DEF d
  <2>6. CASE r \notin Providers
    <3>1. C = Range(read_pix_cache_[r])
      BY <2>6 DEF head, Range
    <3> HIDE DEF d, C
    <3>2. Apart(TakenBy(r), d, mess[r], Range(file'))
      BY <2>1, <2>2, <2>3, <2>4, <3>1, ApartPopped
    <3> QED
      BY <1>17, <2>6, <3>2 DEF d
  <2> QED
    BY <2>5, <2>6
<1>19. PlaceInv'
  BY <1>15, <1>16, <1>18 DEF PlaceInv
<1>20. CacheInv'
  <2> SUFFICES ASSUME NEW r \in Readers
               PROVE  GoodCache(Cached(r)') /\ mess'[r] \in Seq(GoodMessages)
    BY <1>16 DEF CacheInv
  <2>1. GoodCache(Cached(r)')
    BY <1>1, <1>4 DEF ReceivesOf, BinsOf
  <2>2. mess'[r] \in Seq(GoodMessages)
    <3>1. CASE r \in Providers
      <4>1. PICK s \in Seq(GoodMessages) : s = mess[r] /\ s # << >>
        BY <1>4, <3>1
      <4>2. Tail(s) \in Seq(GoodMessages)
        BY <4>1
      <4> QED
        BY <1>17, <3>1, <4>1, <4>2
    <3>2. CASE r \notin Providers
      BY <1>4, <1>17, <3>2
    <3> QED
      BY <3>1, <3>2
  <2> QED
    BY <2>1, <2>2
<1>21. ShapeInv'
  <2>1. /\ DOMAIN mess' = Readers /\ DOMAIN bin_range_' = Readers /\ DOMAIN bin_edges_' = Readers
        /\ DOMAIN read_pix_cache_' = Readers /\ DOMAIN last_bin_completed_' = Readers
        /\ first_bin_to_process_' \in Nat
    BY <1>1 DEF Receives
  <2> QED
    BY <1>16, <2>1 DEF ShapeInv, sectionVars
<1> QED
  BY <1>19, <1>20, <1>21

(***************************************************************************)
(* How many pixels there are.                                              *)
(***************************************************************************)
\* What a function takes a finite set to is finite, and as large if no two
\* elements are taken to one.
LEMMA ImageFinite ==
  ASSUME NEW S, IsFiniteSet(S), NEW f, DOMAIN f = S
  PROVE  /\ IsFiniteSet(Range(f))
         /\ IsInjective(f) /\ f \in [S -> Range(f)] => Cardinality(Range(f)) = Cardinality(S)
<1> DEFINE g == [x \in S |-> f[x]]
<1>1. g \in Surjection(S, Range(f))
  BY DEF Surjection, Range
<1>2. IsFiniteSet(Range(f)) /\ (g \in Injection(S, Range(f)) => Cardinality(Range(f)) = Cardinality(S))
  <2> HIDE DEF g
  <2> QED
    BY <1>1, FS_Surjection
<1>3. IsInjective(f) => g \in Injection(S, Range(f))
  BY DEF Injection, IsInjective, Range
<1> QED
  BY <1>2, <1>3

\* Taken are finitely many pixels, so a file of as many different ones has all.
LEMMA TakenFinite ==
  ASSUME input \in Inputs, \A r \in Readers : \A i \in Files(r) : pos_pixstart[r][i] \in Nat
  PROVE  IsFiniteSet(PixelsTaken)
<1> DEFINE of(r, i) == {<<r, i, k>> : k \in 1..pos_pixstart[r][i]}
<1>1. ASSUME NEW r \in Readers, NEW i \in Files(r)
      PROVE  IsFiniteSet(of(r, i))
  <2> DEFINE f == [k \in 1..pos_pixstart[r][i] |-> <<r, i, k>>]
  <2>1. pos_pixstart[r][i] \in Int
    OBVIOUS
  <2>2. IsFiniteSet(1..pos_pixstart[r][i])
    BY <2>1, FS_Interval
  <2>3. DOMAIN f = 1..pos_pixstart[r][i] /\ Range(f) = of(r, i)
    BY DEF Range
  <2> HIDE DEF f, of
  <2> QED
    BY <2>2, <2>3, ImageFinite
<1> HIDE DEF of
<1>2. ASSUME NEW r \in Readers
      PROVE  IsFiniteSet(UNION {of(r, i) : i \in Files(r)})
  <2> DEFINE f == [i \in Files(r) |-> of(r, i)]
  <2>1. Files(r) = 1..Len(input.npix[r]) /\ Len(input.npix[r]) \in Int
    BY InputFacts
  <2>2. IsFiniteSet(Files(r))
    BY <2>1, FS_Interval
  <2>3. DOMAIN f = Files(r) /\ Range(f) = {of(r, i) : i \in Files(r)}
    BY DEF Range
  <2> HIDE DEF f
  <2>4. IsFiniteSet({of(r, i) : i \in Files(r)})
    BY <2>2, <2>3, ImageFinite
  <2> QED
    BY <1>1, <2>4, FS_UNION
<1>3. IsFiniteSet(UNION {UNION {of(r, i) : i \in Files(r)} : r \in Readers})
  <2> DEFINE g(r) == UNION {of(r, i) : i \in Files(r)}
             f == [r \in Readers |-> g(r)]
  <2>1. Readers = 1..Len(input.npix) /\ Len(input.npix) \in Int
    BY InputFacts
  <2>2. IsFiniteSet(Readers)
    BY <2>1, FS_Interval
  <2>3. \A r \in Readers : IsFiniteSet(g(r))
    BY <1>2
  <2> HIDE DEF g
  <2>4. DOMAIN f = Readers /\ Range(f) = {g(r) : r \in Readers}
    BY DEF Range
  <2> HIDE DEF f
  <2>5. IsFiniteSet({g(r) : r \in Readers})
    BY <2>2, <2>4, ImageFinite
  <2>6. IsFiniteSet(UNION {g(r) : r \in Readers})
    BY <2>3, <2>5, FS_UNION
  <2> QED
    BY <2>6 DEF g
<1>4. PixelsTaken = UNION {UNION {of(r, i) : i \in Files(r)} : r \in Readers}
  BY DEF PixelsTaken, of
<1> QED
  BY <1>3, <1>4

LEMMA AllWritten ==
  ASSUME NEW S, IsFiniteSet(S), NEW f \in Seq(Pixel), IsInjective(f), Range(f) \subseteq S,
         Cardinality(S) = Len(f)
  PROVE  Range(f) = S
<1>1. PICK n \in Nat : n = Len(f) /\ DOMAIN f = 1..n
  OBVIOUS
<1>2. IsFiniteSet(1..n) /\ Cardinality(1..n) = n
  <2>1. 1 \in Int /\ n \in Int /\ (IF 1 > n THEN 0 ELSE n - 1 + 1) = n
    OBVIOUS
  <2> QED
    BY <2>1, FS_Interval
<1>3. f \in [1..n -> Range(f)]
  BY <1>1 DEF Range
<1>4. Cardinality(Range(f)) = n
  BY <1>1, <1>2, <1>3, ImageFinite
<1>5. Range(f) \in SUBSET S /\ Cardinality(S) = Cardinality(Range(f))
  BY <1>1, <1>4
<1> QED
  BY <1>5, FS_Subset

(***************************************************************************)
(* The first invariant: no pixel is in two places, and none that is still  *)
(* to be taken from its file is in one.                                    *)
(***************************************************************************)
DoneInv ==
  result = "done" => /\ \A r \in Readers : ReaderDone(r)
                     /\ input.serial \/ NumberSent = Len(file)
OrderInv == SerialInv /\ ParallelInv
PlacesInv == ShapeInv /\ SectionInv /\ CountedInv /\ CacheInv /\ PlaceInv /\ DoneInv

\* The job begins with all files unread.
LEMMA InitPlaces == Init => PlacesInv
<1> SUFFICES ASSUME Init
             PROVE  PlacesInv
  OBVIOUS
<1>1. /\ input \in Inputs /\ result = "running" /\ first_bin_to_process_ = 1 /\ file = << >>
      /\ ibin_end = ByReader(0) /\ nbins_start = ByReader(1)
      /\ npix_per_bins = ByReader(<< >>) /\ npix_in_bins = ByReader(<< >>)
      /\ npix_processed = ByReader(0) /\ n_pix_2process = ByReader(0)
      /\ pos_pixstart = [r \in Readers |-> [i \in Files(r) |-> 0]]
      /\ mess = ByReader(<< >>)
      /\ bin_range_ = ByReader(<<0, 0>>) /\ bin_edges_ = ByReader(<< >>)
      /\ read_pix_cache_ = ByReader(<< >>) /\ last_bin_completed_ = ByReader(TRUE)
  BY DEF Init
<1>2. ShapeInv
  BY <1>1 DEF ShapeInv, ByReader
<1>3. /\ NumBins \in Nat
      /\ \A r \in Readers : IsInput(input.npix[r]) /\ Files(r) = 1..Len(input.npix[r])
  BY <1>1, InputFacts, JobAssumption
<1>4. ASSUME NEW r \in Readers
      PROVE  /\ ibin_end[r] = 0 /\ npix_per_bins[r] = << >> /\ npix_in_bins[r] = << >>
             /\ npix_processed[r] = 0 /\ n_pix_2process[r] = 0
             /\ pos_pixstart[r] \in [1..Len(input.npix[r]) -> Nat]
             /\ \A i \in 1..Len(input.npix[r]) : pos_pixstart[r][i] = 0
             /\ mess[r] = << >> /\ read_pix_cache_[r] = << >>
             /\ \A i \in 1..Len(input.npix[r]) : SumTo(input.npix[r][i], 0) = 0
             /\ BinLeft(0, << >>) = 0 /\ \A i : Left(<< >>, i) = 0
  <2>1. \A i \in 1..Len(input.npix[r]) : SumTo(input.npix[r][i], 0) = 0
    BY <1>3, UpToFacts
  <2>2. BinLeft(0, << >>) = 0 /\ \A i : Left(<< >>, i) = 0
    BY DEF BinLeft, Left
  <2>3. pos_pixstart[r] = [i \in 1..Len(input.npix[r]) |-> 0]
    BY <1>1, <1>3
  <2> QED
    BY <1>1, <2>1, <2>2, <2>3 DEF ByReader
<1>5. SectionInv
  <2> SUFFICES ASSUME NEW r \in Readers
               PROVE  Section(input.npix[r], 0, << >>, << >>, 0, pos_pixstart[r])
    BY <1>4 DEF SectionInv
  <2>1. /\ Len(<< >>) = 0 /\ << >> \in Seq([1..Len(input.npix[r]) -> Nat]) /\ << >> \in Seq(Int)
        /\ 0 \in 0..NumBins
    BY <1>3
  <2>2. \A i \in 1..Len(input.npix[r]) :
          pos_pixstart[r][i] + Left(<< >>, i) <= SumTo(input.npix[r][i], BinLeft(0, << >>))
    BY <1>4
  <2> QED
    BY <1>4, <2>1, <2>2 DEF Section
<1>6. CountedInv
  <2> SUFFICES ASSUME NEW r \in Readers
               PROVE  Counted(input.npix[r], input.buf, 0, << >>, << >>, 0, 0, pos_pixstart[r])
    BY <1>4 DEF CountedInv
  <2> QED
    BY <1>4 DEF Counted
<1>7. CacheInv
  <2> SUFFICES ASSUME NEW r \in Readers
               PROVE  GoodCache(Cached(r)) /\ mess[r] \in Seq(GoodMessages)
    BY DEF CacheInv
  <2>1. Cached(r) = [range |-> <<0, 0>>, edges |-> << >>, pix |-> << >>, completed |-> TRUE]
    BY <1>1 DEF Cached, ByReader
  <2>2. << >> \in Seq(Nat \ {0}) /\ << >> \in Seq(Pixel) /\ << >> \in Seq(GoodMessages)
    OBVIOUS
  <2>3. GoodCache(Cached(r))
    BY <2>1, <2>2 DEF GoodCache
  <2> QED
    BY <1>4, <2>2, <2>3
<1>8. PlaceInv
  <2>1. file \in Seq(Pixel) /\ IsInjective(file) /\ Range(file) = {}
    BY <1>1 DEF IsInjective, Range
  <2>2. PixelsTaken = {}
    <3>1. \A r \in Readers : \A i \in Files(r) : 1..pos_pixstart[r][i] = {}
      BY <1>3, <1>4
    <3> QED
      BY <3>1 DEF PixelsTaken
  <2>3. ASSUME NEW r \in Readers
        PROVE  Apart(TakenBy(r), read_pix_cache_[r], mess[r], Range(file))
    <3>1. IsInjective(<< >>) /\ Range(<< >>) = {} /\ 1..Len(<< >>) = {}
      BY DEF IsInjective, Range
    <3> QED
      BY <1>4, <3>1 DEF Apart
  <2> QED
    BY <2>1, <2>2, <2>3 DEF PlaceInv
<1>9. DoneInv
  BY <1>1 DEF DoneInv
<1> QED
  BY <1>2, <1>5, <1>6, <1>7, <1>8, <1>9 DEF PlacesInv

\* It says nothing of what a step may leave, but of the result.
StillVars == <<input, sectionVars, pos_pixstart, mess, cacheVars, file>>

LEMMA StillPlaces ==
  ASSUME ShapeInv, SectionInv, CountedInv, CacheInv, PlaceInv, UNCHANGED StillVars,
         result' \in {"running", "done", "warned", "error"}
  PROVE  ShapeInv' /\ SectionInv' /\ CountedInv' /\ CacheInv' /\ PlaceInv'
<1>1. /\ input' = input /\ ibin_end' = ibin_end /\ nbins_start' = nbins_start
      /\ npix_per_bins' = npix_per_bins /\ npix_in_bins' = npix_in_bins
      /\ npix_processed' = npix_processed /\ n_pix_2process' = n_pix_2process
      /\ pos_pixstart' = pos_pixstart /\ mess' = mess /\ bin_range_' = bin_range_
      /\ bin_edges_' = bin_edges_ /\ read_pix_cache_' = read_pix_cache_
      /\ last_bin_completed_' = last_bin_completed_
      /\ first_bin_to_process_' = first_bin_to_process_ /\ file' = file
  BY DEF StillVars, sectionVars, cacheVars
<1>2. Readers' = Readers /\ \A r : Files(r)' = Files(r)
  BY <1>1 DEF Readers, Files
<1>3. /\ \A r : TakenBy(r)' = TakenBy(r) /\ Cached(r)' = Cached(r)
      /\ PixelsTaken' = PixelsTaken /\ PartsCounted' = PartsCounted
  BY <1>1, <1>2 DEF TakenBy, Cached, PixelsTaken, PartsCounted, BinSize
<1>4. ShapeInv'
  BY <1>1, <1>2 DEF ShapeInv
<1>5. SectionInv'
  BY <1>1, <1>2 DEF SectionInv
<1>6. CountedInv'
  BY <1>1, <1>2, <1>3 DEF CountedInv
<1>7. CacheInv'
  BY <1>1, <1>2, <1>3 DEF CacheInv
<1>8. PlaceInv'
  BY <1>1, <1>2, <1>3 DEF PlaceInv
<1> QED
  BY <1>4, <1>5, <1>6, <1>7, <1>8

\* What one step of the job is.
LEMMA StepsOfJob ==
  ASSUME ShapeInv, SectionInv, Next
  PROVE  \/ \E r \in Readers : ReadSection(r)
         \/ \E r \in Readers : \E step : BlockOf(r, step)
         \/ Receives
         \/ Fail
         \/ Finish
<1>1. CASE \E r \in Readers : ReadSection(r)
  BY <1>1
<1>2. CASE \E r \in Readers : ReadBlock(r)
  <2>1. PICK r \in Readers : ReadBlock(r)
    BY <1>2
  <2>2. Fail \/ \E step : BlockOf(r, step)
    BY <2>1, ReadBlockFacts
  <2> QED
    BY <2>2
<1>3. CASE ReceiveAndWrite
  BY <1>3, ReceiveFacts
<1>4. CASE Finish
  BY <1>4
<1> QED
  BY <1>1, <1>2, <1>3, <1>4 DEF Next

\* Each step leaves every pixel in no more than one place.
LEMMA NextPlaces == PlacesInv /\ [Next]_vars => PlacesInv'
<1> SUFFICES ASSUME PlacesInv, [Next]_vars
             PROVE  PlacesInv'
  OBVIOUS
<1>1. ShapeInv /\ SectionInv /\ CountedInv /\ CacheInv /\ PlaceInv /\ DoneInv
  BY DEF PlacesInv
<1>2. ASSUME result' # "done"
      PROVE  DoneInv'
  BY <1>2 DEF DoneInv
<1>3. ASSUME NEW r \in Readers, ReadSection(r)
      PROVE  PlacesInv'
  <2>1. ShapeInv' /\ SectionInv' /\ CountedInv'
    BY <1>1, <1>3, SectionStep
  <2>2. CacheInv' /\ PlaceInv'
    BY <1>1, <1>3, SectionPlace
  <2>3. result' # "done"
    BY <1>3 DEF ReadSection
  <2> QED
    BY <1>2, <2>1, <2>2, <2>3 DEF PlacesInv
<1>4. ASSUME NEW r \in Readers, NEW step, BlockOf(r, step)
      PROVE  PlacesInv'
  <2>1. ShapeInv' /\ SectionInv' /\ CountedInv'
    BY <1>1, <1>4, BlockStep
  <2>2. CacheInv' /\ PlaceInv'
    BY <1>1, <1>4, BlockPlace
  <2>3. result' # "done"
    BY <1>4 DEF BlockOf
  <2> QED
    BY <1>2, <2>1, <2>2, <2>3 DEF PlacesInv
<1>5. ASSUME Receives
      PROVE  PlacesInv'
  <2>1. ShapeInv' /\ CacheInv' /\ PlaceInv'
    BY <1>1, <1>5, ReceivePlace
  <2>2. /\ input' = input /\ ibin_end' = ibin_end /\ npix_per_bins' = npix_per_bins
        /\ npix_in_bins' = npix_in_bins /\ npix_processed' = npix_processed
        /\ n_pix_2process' = n_pix_2process /\ pos_pixstart' = pos_pixstart
        /\ result' # "done"
    BY <1>5 DEF Receives, sectionVars
  <2>3. Readers' = Readers /\ PartsCounted' = PartsCounted
    BY <2>2 DEF Readers, Files, PartsCounted, BinSize
  <2>4. SectionInv'
    BY <1>1, <2>2, <2>3 DEF SectionInv
  <2>5. CountedInv'
    BY <1>1, <2>2, <2>3 DEF CountedInv
  <2> QED
    BY <1>2, <2>1, <2>2, <2>4, <2>5 DEF PlacesInv
<1>6. ASSUME Fail
      PROVE  PlacesInv'
  <2>1. UNCHANGED StillVars /\ result' = "error"
    BY <1>6 DEF Fail, StillVars
  <2>2. ShapeInv' /\ SectionInv' /\ CountedInv' /\ CacheInv' /\ PlaceInv'
    BY <1>1, <2>1, StillPlaces
  <2> QED
    BY <1>2, <2>1, <2>2 DEF PlacesInv
<1>7. ASSUME Finish
      PROVE  PlacesInv'
  <2>1. /\ UNCHANGED StillVars /\ \A r \in Readers : ReaderDone(r)
        /\ result' = IF ~input.serial /\ NumberSent # Len(file) THEN "warned" ELSE "done"
    BY <1>7 DEF Finish, StillVars
  <2>2. ShapeInv' /\ SectionInv' /\ CountedInv' /\ CacheInv' /\ PlaceInv'
    BY <1>1, <2>1, StillPlaces
  <2>3. /\ input' = input /\ pos_pixstart' = pos_pixstart /\ file' = file /\ ibin_end' = ibin_end
        /\ npix_processed' = npix_processed /\ n_pix_2process' = n_pix_2process
    BY <2>1 DEF StillVars, sectionVars
  <2>4. Readers' = Readers /\ NumberSent' = NumberSent
          /\ \A r : ReaderDone(r)' = ReaderDone(r)
    BY <2>3 DEF Readers, Files, NumberSent, PixelsTaken, ReaderDone
  <2>5. DoneInv'
    BY <2>1, <2>3, <2>4 DEF DoneInv
  <2> QED
    BY <2>2, <2>5 DEF PlacesInv
<1>8. CASE UNCHANGED vars
  <2>1. UNCHANGED StillVars /\ result' = result
    BY <1>8 DEF vars, StillVars
  <2>2. result' \in {"running", "done", "warned", "error"}
    BY <1>1, <2>1 DEF ShapeInv
  <2>3. ShapeInv' /\ SectionInv' /\ CountedInv' /\ CacheInv' /\ PlaceInv'
    BY <1>1, <2>1, <2>2, StillPlaces
  <2>4. /\ input' = input /\ pos_pixstart' = pos_pixstart /\ file' = file /\ ibin_end' = ibin_end
        /\ npix_processed' = npix_processed /\ n_pix_2process' = n_pix_2process
    BY <2>1 DEF StillVars, sectionVars
  <2>5. Readers' = Readers /\ NumberSent' = NumberSent
          /\ \A r : ReaderDone(r)' = ReaderDone(r)
    BY <2>4 DEF Readers, Files, NumberSent, PixelsTaken, ReaderDone
  <2>6. DoneInv'
    BY <1>1, <2>1, <2>4, <2>5 DEF DoneInv
  <2> QED
    BY <2>3, <2>6 DEF PlacesInv
<1> QED
  BY <1>1, <1>3, <1>4, <1>5, <1>6, <1>7, <1>8, StepsOfJob

\* The job keeps every pixel in no more than one place: its file, a message, the
\* cache or the output.
LEMMA PlacesInvariant == Spec => []PlacesInv
<1>1. Init => PlacesInv
  BY InitPlaces
<1>2. PlacesInv /\ [Next]_vars => PlacesInv'
  BY NextPlaces
<1> QED
  BY <1>1, <1>2, PTL DEF Spec

\* A reader takes no pixels from a file but those that are there.
LEMMA TakenOfAll ==
  ASSUME ShapeInv, SectionInv
  PROVE  /\ \A r \in Readers : \A i \in Files(r) : pos_pixstart[r][i] \in 0..NumPixels(r, i)
         /\ PixelsTaken \subseteq AllPixels
         /\ \A r \in Readers : TakenBy(r) \subseteq AllPixels
<1>1. ASSUME NEW r \in Readers, NEW i \in Files(r)
      PROVE  pos_pixstart[r][i] \in 0..NumPixels(r, i)
  <2> DEFINE npix == input.npix[r]
             b == BinLeft(ibin_end[r], npix_per_bins[r])
  <2>1. IsInput(npix) /\ i \in 1..Len(npix) /\ NumBins \in Nat
    BY InputFacts, JobAssumption DEF ShapeInv
  <2>2. Section(npix, ibin_end[r], npix_per_bins[r], npix_in_bins[r], npix_processed[r],
                pos_pixstart[r])
    BY DEF SectionInv
  <2>3. b \in 0..NumBins
    BY <2>1, <2>2, PlaceFacts
  <2>4. PICK x \in Nat : x = pos_pixstart[r][i]
    BY <2>1, <2>2 DEF Section
  <2>5. PICK y \in Nat : y = Left(npix_per_bins[r], i)
    <3>1. npix_per_bins[r] \in Seq([1..Len(npix) -> Nat])
      BY <2>2 DEF Section
    <3>2. CASE npix_per_bins[r] = << >>
      BY <3>2 DEF Left
    <3>3. CASE npix_per_bins[r] # << >>
      <4>1. npix_per_bins[r][1] \in [1..Len(npix) -> Nat]
        BY <3>1, <3>3
      <4> QED
        BY <2>1, <3>3, <4>1 DEF Left
    <3> QED
      BY <3>2, <3>3
  <2>6. x + y <= SumTo(npix[i], b)
    BY <2>1, <2>2, <2>4, <2>5 DEF Section
  <2>7. PICK u \in Nat, v \in Nat : u = SumTo(npix[i], b) /\ v = SumTo(npix[i], NumBins) /\ u <= v
    <3>1. NumBins \in 0..NumBins /\ b <= NumBins
      BY <2>1, <2>3
    <3> HIDE DEF b, npix
    <3> QED
      BY <2>1, <2>3, <3>1, UpToFacts
  <2>8. NumPixels(r, i) = v
    <3>1. Len(npix[i]) = NumBins
      BY <2>1 DEF IsInput
    <3> QED
      BY <2>7, <3>1 DEF NumPixels, Total
  <2>9. x \in 0..v
    BY <2>6, <2>7
  <2> QED
    BY <2>4, <2>8, <2>9
<1>2. ASSUME NEW r \in Readers, NEW p \in TakenBy(r)
      PROVE  p \in AllPixels
  <2>1. PICK i \in Files(r) : \E k \in 1..pos_pixstart[r][i] : p = <<r, i, k>>
    BY DEF TakenBy
  <2>2. PICK k \in 1..pos_pixstart[r][i] : p = <<r, i, k>>
    BY <2>1
  <2>3. PICK n : n = NumPixels(r, i) /\ pos_pixstart[r][i] \in 0..n /\ n \in Nat
    <3>1. pos_pixstart[r][i] \in 0..NumPixels(r, i)
      BY <1>1
    <3>2. NumPixels(r, i) \in Nat
      <4>1. IsInput(input.npix[r]) /\ i \in 1..Len(input.npix[r]) /\ NumBins \in 0..NumBins
        BY InputFacts, JobAssumption DEF ShapeInv
      <4>2. SumTo(input.npix[r][i], NumBins) \in Nat /\ Len(input.npix[r][i]) = NumBins
        BY <4>1, UpToFacts DEF IsInput
      <4> QED
        BY <4>2 DEF NumPixels, Total
    <3> QED
      BY <3>1, <3>2
  <2>4. k \in 1..n
    BY <2>3
  <2> QED
    BY <2>2, <2>3, <2>4 DEF AllPixels
<1>3. PixelsTaken \subseteq AllPixels
  BY <1>2, TakenByReaders
<1> QED
  BY <1>1, <1>2, <1>3

\* What is kept has its type: a reader never reads beyond the pixels of a file.
THEOREM TypeCorrect == Spec => []TypeOK
<1>1. PlacesInv => TypeOK
  <2> SUFFICES ASSUME PlacesInv
               PROVE  TypeOK
    OBVIOUS
  <2>1. ShapeInv /\ SectionInv /\ CacheInv /\ PlaceInv
    BY DEF PlacesInv
  <2>2. input \in Input /\ result \in {"running", "done", "warned", "error"}
          /\ first_bin_to_process_ \in Nat
    BY <2>1, JobAssumption DEF ShapeInv
  <2>3. /\ \A r \in Readers : \A i \in Files(r) : pos_pixstart[r][i] \in 0..NumPixels(r, i)
        /\ PixelsTaken \subseteq AllPixels
        /\ \A r \in Readers : TakenBy(r) \subseteq AllPixels
    BY <2>1, TakenOfAll
  <2>4. Range(file) \subseteq AllPixels
    BY <2>1, <2>3 DEF PlaceInv
  <2>5. ASSUME NEW r \in Readers
        PROVE  /\ ibin_end[r] \in 0..NumBins /\ nbins_start[r] \in Nat
               /\ npix_in_bins[r] \in Seq(Int) /\ npix_processed[r] \in Nat
               /\ Len(npix_per_bins[r]) = Len(npix_in_bins[r])
               /\ \A k \in DOMAIN npix_per_bins[r] : npix_per_bins[r][k] \in [Files(r) -> Nat]
    <3>1. Section(input.npix[r], ibin_end[r], npix_per_bins[r], npix_in_bins[r],
                  npix_processed[r], pos_pixstart[r])
      BY <2>1 DEF SectionInv
    <3>2. Files(r) = 1..Len(input.npix[r]) /\ nbins_start[r] \in Nat
      BY <2>1, InputFacts DEF ShapeInv
    <3>3. npix_per_bins[r] \in Seq([Files(r) -> Nat])
      BY <3>1, <3>2 DEF Section
    <3>4. \A k \in DOMAIN npix_per_bins[r] : npix_per_bins[r][k] \in [Files(r) -> Nat]
      BY <3>3
    <3> QED
      BY <3>1, <3>2, <3>4 DEF Section
  <2>6. ASSUME NEW r \in Readers
        PROVE  /\ bin_range_[r] \in Nat \X Nat /\ bin_edges_[r] \in Seq(Nat \ {0})
               /\ Range(read_pix_cache_[r]) \subseteq AllPixels
               /\ last_bin_completed_[r] \in BOOLEAN
    <3>1. GoodCache(Cached(r))
      BY <2>1 DEF CacheInv
    <3>2. /\ Cached(r).range = bin_range_[r] /\ Cached(r).edges = bin_edges_[r]
          /\ Cached(r).completed = last_bin_completed_[r]
      BY DEF Cached
    <3>3. Range(read_pix_cache_[r]) \subseteq TakenBy(r)
      BY <2>1 DEF PlaceInv, Apart
    <3> QED
      BY <2>3, <3>1, <3>2, <3>3 DEF GoodCache
  <2> QED
    BY <2>2, <2>3, <2>4, <2>5, <2>6 DEF TypeOK
<1> QED
  BY <1>1, PlacesInvariant, PTL

\* No pixel is written twice, and a job that ends without an error or a warning
\* has written all of them, if what is read in parts is counted right.
THEOREM NoneLost == Spec => []NoneLostSilently
<1>1. PlacesInv => NoneLostSilently
  <2> SUFFICES ASSUME PlacesInv
               PROVE  NoneLostSilently
    OBVIOUS
  <2>1. ShapeInv /\ SectionInv /\ CountedInv /\ PlaceInv /\ DoneInv
    BY DEF PlacesInv
  <2>2. /\ file \in Seq(Pixel) /\ IsInjective(file) /\ Range(file) \subseteq PixelsTaken
        /\ input.serial => PixelsTaken \subseteq Range(file)
    BY <2>1 DEF PlaceInv
  <2>3. ASSUME result = "done", PartsCounted
        PROVE  Range(file) = AllPixels
    <3>1. (\A r \in Readers : ReaderDone(r)) /\ (input.serial \/ NumberSent = Len(file))
      BY <2>1, <2>3 DEF DoneInv
    <3>2. ASSUME NEW r \in Readers, NEW i \in Files(r)
          PROVE  pos_pixstart[r][i] = NumPixels(r, i)
      <4> DEFINE npix == input.npix[r]
                 end == ibin_end[r]
                 per == npix_per_bins[r]
                 cum == npix_in_bins[r]
                 processed == npix_processed[r]
                 pos == pos_pixstart[r]
                 total == n_pix_2process[r]
                 buf == input.buf
      <4>1. IsInput(npix) /\ i \in 1..Len(npix) /\ total \in Int
        BY <2>1, InputFacts DEF ShapeInv
      <4>2. Section(npix, end, per, cum, processed, pos)
        BY <2>1 DEF SectionInv
      <4>3. Counted(npix, buf, end, per, cum, processed, total, pos)
        BY <2>1, <2>3 DEF CountedInv
      <4>4. end = NumBins /\ processed >= total
        BY <3>1 DEF ReaderDone
      <4> HIDE DEF npix, end, per, cum, processed, pos, total, buf
      <4>5. pos[i] = SumTo(npix[i], end)
        BY <4>1, <4>2, <4>3, <4>4, AllOfSection
      <4>6. Len(npix[i]) = NumBins
        BY <4>1 DEF IsInput
      <4> QED
        BY <4>4, <4>5, <4>6 DEF NumPixels, Total, npix, pos
    <3>3. PixelsTaken = AllPixels
      BY <3>2 DEF PixelsTaken, AllPixels
    <3>4. \A r \in Readers : \A i \in Files(r) : pos_pixstart[r][i] \in Nat
      <4>1. \A r \in Readers : pos_pixstart[r] \in [1..Len(input.npix[r]) -> Nat]
        BY <2>1 DEF SectionInv, Section
      <4>2. \A r \in Readers : Files(r) = 1..Len(input.npix[r])
        BY <2>1, InputFacts DEF ShapeInv
      <4> QED
        BY <4>1, <4>2
    <3>5. IsFiniteSet(PixelsTaken)
      BY <2>1, <3>4, TakenFinite DEF ShapeInv
    <3>6. CASE input.serial
      BY <2>2, <3>3, <3>6
    <3>7. CASE NumberSent = Len(file)
      <4>1. Range(file) = PixelsTaken
        BY <2>2, <3>5, <3>7, AllWritten DEF NumberSent
      <4> QED
        BY <3>3, <4>1
    <3> QED
      BY <3>1, <3>6, <3>7
  <2> QED
    BY <2>2, <2>3 DEF NoneLostSilently
<1> QED
  BY <1>1, PlacesInvariant, PTL

(***************************************************************************)
(* The bin of a pixel.                                                     *)
(***************************************************************************)
\* It is the one that ends at the pixel or after it, but begins before it.
LEMMA BinInFacts ==
  ASSUME input \in Inputs, NEW r \in Readers, NEW i \in Files(r), NEW b \in 1..NumBins,
         NEW q \in Nat, SumTo(input.npix[r][i], b - 1) < q, q <= SumTo(input.npix[r][i], b)
  PROVE  BinIn(input.npix, <<r, i, q>>) = b
<1> DEFINE f == input.npix[r][i]
           S == {c \in 1..NumBins : SumTo(f, c) >= q}
<1>1. NumBins \in Nat /\ IsInput(input.npix[r]) /\ i \in 1..Len(input.npix[r])
  BY InputFacts, JobAssumption
<1>2. /\ \A c \in 0..NumBins : SumTo(f, c) \in Nat
      /\ \A c, d \in 0..NumBins : c <= d => SumTo(f, c) <= SumTo(f, d)
  BY <1>1, UpToFacts
<1>3. BinIn(input.npix, <<r, i, q>>) = Min(S)
  BY DEF BinIn
<1>4. SumTo(f, b - 1) < q /\ q <= SumTo(f, b)
  OBVIOUS
<1> HIDE DEF f
<1>5. S \in SUBSET Nat /\ b \in S
  <2>1. b \in 0..NumBins /\ SumTo(f, b) \in Nat
    BY <1>1, <1>2
  <2> QED
    BY <1>1, <1>4, <2>1
<1>6. Min(S) \in S /\ \A c \in S : Min(S) <= c
  BY <1>5, MinOfNats
<1>7. PICK c \in S : c = Min(S)
  BY <1>6
<1>8. c <= b
  BY <1>5, <1>6, <1>7
<1>9. ~(c <= b - 1)
  <2>1. c \in 0..NumBins /\ b - 1 \in 0..NumBins
    BY <1>1
  <2>2. c <= b - 1 => SumTo(f, c) <= SumTo(f, b - 1)
    BY <1>2, <2>1
  <2>3. SumTo(f, c) \in Nat /\ SumTo(f, b - 1) \in Nat /\ SumTo(f, c) >= q
    BY <1>2, <2>1
  <2> QED
    BY <1>4, <2>2, <2>3
<1> QED
  <2>1. c = b
    BY <1>1, <1>8, <1>9
  <2> QED
    BY <1>3, <1>7, <2>1

\* What is read, in bins from b on, lies between where the bins begin and end.
ReadPlaces(npix, pos, read, b) ==
  /\ b \in 1..NumBins /\ Len(read) \in Nat \ {0} /\ b + Len(read) - 1 <= NumBins
  /\ \A i \in 1..Len(npix), k \in 1..Len(read) :
       /\ FromFile(read, i, k - 1) \in Nat /\ read[k][i] \in Nat /\ pos[i] \in Nat
       /\ SumTo(npix[i], b + k - 2) \in Nat /\ SumTo(npix[i], b + k - 1) \in Nat
       /\ SumTo(npix[i], b + k - 2) <= pos[i] + FromFile(read, i, k - 1)
       /\ pos[i] + FromFile(read, i, k - 1) + read[k][i] <= SumTo(npix[i], b + k - 1)

\* So it is when whole bins are taken.
LEMMA BinsPlaces ==
  ASSUME NEW npix, IsInput(npix), NEW end, NEW per, NEW cum, NEW processed, NEW pos,
         Section(npix, end, per, cum, processed, pos), NEW step, NEW n, NEW d,
         TakesBins(step, per, cum, processed, n, d), NEW buf, NEW total,
         Counted(npix, buf, end, per, cum, processed, total, pos)
  PROVE  /\ ReadPlaces(npix, pos, step.read, BinLeft(end, per)) /\ Len(step.read) = n
         /\ BinLeft(end, per) + n - 1 <= BinLeft(end, step.per)
<1> DEFINE b == BinLeft(end, per)
           read == step.read
           F == Len(npix)
<1>1. /\ Len(per) \in Nat /\ n \in 1..Len(per) /\ NumBins \in Nat /\ end \in Nat /\ end <= NumBins
      /\ F \in Nat /\ Len(per) # 0
  BY JobAssumption DEF Section, TakesBins, IsInput
<1>2. /\ b \in 1..NumBins /\ b + Len(per) = end + 1
      /\ \A k \in 2..Len(per) : per[k] = Row(npix, b + k - 1) /\ b + k - 1 \in 1..NumBins
      /\ per[1] \in [1..F -> Nat] /\ \A i \in 1..F : Left(per, i) = per[1][i]
  BY <1>1, PlaceFacts
<1>3. /\ read \in Seq([1..F -> Nat]) /\ Len(read) = n /\ read[1] = per[1]
      /\ \A k \in 2..n : read[k] = Row(npix, b + k - 1)
      /\ \A i \in 1..F : \A m \in 1..n :
           FromFile(read, i, m) = per[1][i] + SumTo(npix[i], b + m - 1) - SumTo(npix[i], b)
  <2>1. ReadIs(npix, end, per, read, n)
    BY ReadOfBins
  <2> QED
    BY <2>1 DEF ReadIs
<1>4. b + n - 1 <= BinLeft(end, step.per)
  <2>1. BinLeft(end, step.per) = IF n = Len(per) THEN end ELSE b + n
    <3>1. RestIs(npix, end, per, cum, processed, step, n, d)
      BY RestOfBins
    <3> QED
      BY <3>1 DEF RestIs
  <2> HIDE DEF b
  <2>2. b + n - 1 <= end /\ b + n - 1 <= b + n
    BY <1>1, <1>2
  <2> QED
    BY <2>1, <2>2 DEF b
<1>5. pos \in [1..F -> Nat] /\ \A i \in 1..F : /\ pos[i] + Left(per, i) = SumTo(npix[i], b)
                                               /\ SumTo(npix[i], b - 1) <= pos[i]
  BY <1>1 DEF Counted, Section
<1> HIDE DEF b, read
<1>6. ASSUME NEW i \in 1..F, NEW k \in 1..n
      PROVE  /\ FromFile(read, i, k - 1) \in Nat /\ read[k][i] \in Nat /\ pos[i] \in Nat
             /\ SumTo(npix[i], b + k - 2) \in Nat /\ SumTo(npix[i], b + k - 1) \in Nat
             /\ SumTo(npix[i], b + k - 2) <= pos[i] + FromFile(read, i, k - 1)
             /\ pos[i] + FromFile(read, i, k - 1) + read[k][i] <= SumTo(npix[i], b + k - 1)
  <2>1. b + k - 2 \in 0..NumBins /\ b + k - 1 \in 1..NumBins /\ b \in 0..NumBins /\ b - 1 \in 0..NumBins
        /\ b + k - 1 \in 0..NumBins
    BY <1>1, <1>2
  <2>2. SumTo(npix[i], b + k - 2) \in Nat /\ SumTo(npix[i], b + k - 1) \in Nat
        /\ SumTo(npix[i], b) \in Nat /\ SumTo(npix[i], b - 1) \in Nat
    BY <2>1, UpToFacts
  <2>3. FileSums(F, read, i)
    BY <1>1, <1>3, FromFileFacts
  <2>4. FromFile(read, i, k - 1) \in Nat /\ read[k][i] \in Nat /\ FromFile(read, i, 0) = 0
    <3>1. k - 1 \in 0..Len(read) /\ k \in 1..Len(read)
      BY <1>1, <1>3
    <3> QED
      BY <2>3, <3>1 DEF FileSums
  <2>5. pos[i] \in Nat /\ per[1][i] \in Nat
    BY <1>2, <1>5
  <2>6. pos[i] + per[1][i] = SumTo(npix[i], b) /\ SumTo(npix[i], b - 1) <= pos[i]
    BY <1>2, <1>5
  <2>7. CASE k = 1
    <3>1. b + k - 2 = b - 1 /\ b + k - 1 = b /\ FromFile(read, i, k - 1) = 0 /\ read[k][i] = per[1][i]
      BY <1>2, <1>3, <2>4, <2>7
    <3>2. PICK x \in Nat, y \in Nat, z \in Nat, w \in Nat :
            x = SumTo(npix[i], b - 1) /\ y = SumTo(npix[i], b) /\ z = pos[i] /\ w = per[1][i]
      BY <2>2, <2>5
    <3>3. x <= z + 0 /\ z + 0 + w <= y
      BY <2>6, <3>2
    <3> QED
      BY <3>1, <3>2, <3>3
  <2>8. CASE k # 1
    <3>1. k - 1 \in 1..n /\ k \in 2..n /\ b + (k - 1) - 1 = b + k - 2
      BY <1>1, <1>2, <2>8
    <3>2. FromFile(read, i, k - 1) = per[1][i] + SumTo(npix[i], b + k - 2) - SumTo(npix[i], b)
      BY <1>3, <3>1
    <3>3. read[k][i] = npix[i][b + k - 1]
      BY <1>3, <2>1, <3>1, RowFacts
    <3>4. SumTo(npix[i], b + k - 1) = SumTo(npix[i], b + k - 2) + npix[i][b + k - 1]
      <4>1. SumTo(npix[i], b + k - 1) = SumTo(npix[i], (b + k - 1) - 1) + npix[i][b + k - 1]
        BY <2>1, UpToFacts
      <4>2. (b + k - 1) - 1 = b + k - 2
        BY <1>1, <1>2
      <4> QED
        BY <4>1, <4>2
    <3>5. PICK x \in Nat, y \in Nat, z \in Nat, w \in Nat, v \in Nat :
            /\ x = SumTo(npix[i], b + k - 2) /\ y = SumTo(npix[i], b) /\ z = pos[i]
            /\ w = per[1][i] /\ v = read[k][i]
      BY <2>2, <2>4, <2>5
    <3>0. z + w = y
      BY <2>6, <3>5
    <3>6. x <= z + (w + x - y) /\ z + (w + x - y) + v <= x + v /\ x + v \in Nat
      BY <3>0
    <3>7. FromFile(read, i, k - 1) = w + x - y /\ SumTo(npix[i], b + k - 1) = x + v
      BY <3>2, <3>3, <3>4, <3>5
    <3> QED
      BY <2>4, <3>5, <3>6, <3>7
  <2> QED
    BY <2>7, <2>8
<1>7. Len(read) \in Nat \ {0} /\ b + Len(read) - 1 <= NumBins
  BY <1>1, <1>2, <1>3
<1>8. ReadPlaces(npix, pos, read, b)
  BY <1>2, <1>3, <1>6, <1>7 DEF ReadPlaces
<1> QED
  BY <1>3, <1>4, <1>8 DEF b, read

\* And when a part of one is.
LEMMA PartPlaces ==
  ASSUME NEW npix, IsInput(npix), NEW end, NEW per, NEW cum, NEW processed, NEW pos,
         Section(npix, end, per, cum, processed, pos), cum # << >>, NEW buf \in Nat, NEW step,
         step = PartOfBin(per, cum, processed, buf), NEW total,
         Counted(npix, buf, end, per, cum, processed, total, pos)
  PROVE  /\ ReadPlaces(npix, pos, step.read, BinLeft(end, per)) /\ Len(step.read) = 1
         /\ BinLeft(end, step.per) = BinLeft(end, per)
<1> DEFINE b == BinLeft(end, per)
           read == step.read
           F == Len(npix)
<1>1. /\ Len(per) \in Nat /\ NumBins \in Nat /\ F \in Nat /\ Len(per) # 0 /\ per # << >>
  BY JobAssumption DEF Section, IsInput
<1>2. /\ b \in 1..NumBins /\ per[1] \in [1..F -> Nat] /\ \A i \in 1..F : Left(per, i) = per[1][i]
  BY <1>1, PlaceFacts
<1>3. read = <<ReadOfBin(per, buf)>> /\ BinLeft(end, step.per) = b
  BY PartSection
<1>4. PartIs(F, per, buf)
  BY <1>1, <1>2, PartFacts
<1>5. pos \in [1..F -> Nat] /\ \A i \in 1..F : /\ pos[i] + Left(per, i) = SumTo(npix[i], b)
                                               /\ SumTo(npix[i], b - 1) <= pos[i]
  BY <1>1 DEF Counted, Section
<1>6. /\ read[1] = ReadOfBin(per, buf) /\ read[1] \in [1..F -> Nat] /\ \A i \in 1..F : read[1][i] <= per[1][i]
      /\ read \in Seq([1..F -> Nat]) /\ Len(read) = 1
  BY <1>3, <1>4 DEF PartIs
<1> HIDE DEF b, read
<1>7. ASSUME NEW i \in 1..F, NEW k \in 1..1
      PROVE  /\ FromFile(read, i, k - 1) \in Nat /\ read[k][i] \in Nat /\ pos[i] \in Nat
             /\ SumTo(npix[i], b + k - 2) \in Nat /\ SumTo(npix[i], b + k - 1) \in Nat
             /\ SumTo(npix[i], b + k - 2) <= pos[i] + FromFile(read, i, k - 1)
             /\ pos[i] + FromFile(read, i, k - 1) + read[k][i] <= SumTo(npix[i], b + k - 1)
  <2>1. b \in 0..NumBins /\ b - 1 \in 0..NumBins /\ k = 1 /\ b + k - 2 = b - 1 /\ b + k - 1 = b /\ k - 1 = 0
    BY <1>1, <1>2
  <2>2. SumTo(npix[i], b) \in Nat /\ SumTo(npix[i], b - 1) \in Nat
    BY <2>1, UpToFacts
  <2>3. FromFile(read, i, 0) = 0
    BY <1>1, <1>6, FromFileFacts DEF FileSums
  <2>4. pos[i] \in Nat /\ per[1][i] \in Nat /\ read[1][i] \in Nat /\ read[1][i] <= per[1][i]
    BY <1>2, <1>5, <1>6
  <2>5. pos[i] + per[1][i] = SumTo(npix[i], b) /\ SumTo(npix[i], b - 1) <= pos[i]
    BY <1>2, <1>5
  <2> QED
    BY <2>1, <2>2, <2>3, <2>4, <2>5
<1>8. Len(read) \in Nat \ {0} /\ b + Len(read) - 1 <= NumBins
  BY <1>1, <1>2, <1>6
<1>9. ReadPlaces(npix, pos, read, b)
  BY <1>2, <1>6, <1>7, <1>8 DEF ReadPlaces
<1> QED
  BY <1>3, <1>6, <1>9 DEF b, read

\* The bins that a pass reads.
BinsRead(r, read, b) ==
  \A k \in 1..Len(read) : \A p : IsOfBin(r, read, k, p) => BinIn(input.npix, p) = b + k - 1

LEMMA BinsOfRead ==
  ASSUME input \in Inputs, NEW r \in Readers, NEW read, NEW b,
         ReadPlaces(input.npix[r], pos_pixstart[r], read, b)
  PROVE  BinsRead(r, read, b)
<1> DEFINE npix == input.npix[r]
           pos == pos_pixstart[r]
<1>1. Files(r) = 1..Len(npix)
  BY InputFacts
<1>2. SUFFICES ASSUME NEW k \in 1..Len(read), NEW p, IsOfBin(r, read, k, p)
               PROVE  BinIn(input.npix, p) = b + k - 1
  BY DEF BinsRead
<1>3. PICK i \in Files(r) : \E x \in 1..read[k][i] :
        p = <<r, i, pos[i] + FromFile(read, i, k - 1) + x>>
  BY <1>2 DEF IsOfBin
<1>4. PICK x \in 1..read[k][i] : p = <<r, i, pos[i] + FromFile(read, i, k - 1) + x>>
  BY <1>3
<1>5. /\ b \in 1..NumBins /\ Len(read) \in Nat /\ b + Len(read) - 1 <= NumBins
      /\ FromFile(read, i, k - 1) \in Nat /\ read[k][i] \in Nat /\ pos[i] \in Nat
      /\ SumTo(npix[i], b + k - 2) \in Nat /\ SumTo(npix[i], b + k - 1) \in Nat
      /\ SumTo(npix[i], b + k - 2) <= pos[i] + FromFile(read, i, k - 1)
      /\ pos[i] + FromFile(read, i, k - 1) + read[k][i] <= SumTo(npix[i], b + k - 1)
  BY <1>1 DEF ReadPlaces
<1> HIDE DEF npix, pos
<1>6. PICK u \in Nat, v \in Nat, y \in Nat, z \in Nat, w \in Nat :
        /\ u = SumTo(npix[i], b + k - 2) /\ v = SumTo(npix[i], b + k - 1)
        /\ y = pos[i] /\ z = FromFile(read, i, k - 1) /\ w = read[k][i]
  BY <1>5
<1>7. x \in 1..w /\ u <= y + z /\ y + z + w <= v
  BY <1>5, <1>6
<1>8. PICK q \in Nat : q = y + z + x /\ u < q /\ q <= v
  BY <1>7
<1>9. PICK c \in 1..NumBins : c = b + k - 1 /\ c - 1 = b + k - 2
  <2>1. NumBins \in Nat
    BY JobAssumption
  <2>2. PICK l \in Nat : l = Len(read) /\ k \in 1..l /\ b + l - 1 <= NumBins
    BY <1>5
  <2>3. b + k - 1 \in 1..NumBins /\ (b + k - 1) - 1 = b + k - 2
    BY <1>5, <2>1, <2>2
  <2> QED
    BY <2>3
<1>10. BinIn(input.npix, <<r, i, q>>) = c
  <2>1. SumTo(input.npix[r][i], c - 1) < q /\ q <= SumTo(input.npix[r][i], c)
    BY <1>6, <1>8, <1>9 DEF npix
  <2> QED
    BY <2>1, BinInFacts
<1>11. p = <<r, i, q>>
  BY <1>4, <1>6, <1>8
<1> QED
  BY <1>9, <1>10, <1>11

\* They are those from the bin the reader is in, up to the one it is in then.
BlockBins(r, step) ==
  LET b == BinLeft(ibin_end[r], npix_per_bins[r])
  IN  /\ b \in Nat /\ BinsRead(r, step.read, b) /\ BinLeft(ibin_end[r], step.per) \in Nat
      /\ b + Len(step.read) - 1 <= BinLeft(ibin_end[r], step.per)

LEMMA BlockBinsFacts ==
  ASSUME ShapeInv, SectionInv, CountedInv, PartsCounted,
         NEW r \in Readers, NEW step, BlockOf(r, step)
  PROVE  BlockBins(r, step)
<1> DEFINE npix == input.npix[r]
           end == ibin_end[r]
           per == npix_per_bins[r]
           cum == npix_in_bins[r]
           processed == npix_processed[r]
           pos == pos_pixstart[r]
           total == n_pix_2process[r]
           buf == input.buf
           b == BinLeft(end, per)
<1>1. IsInput(npix) /\ buf \in Nat /\ buf # 0 /\ input \in Inputs
  BY InputFacts DEF ShapeInv
<1>2. Section(npix, end, per, cum, processed, pos) /\ cum # << >>
  BY DEF SectionInv, BlockOf
<1>3. Counted(npix, buf, end, per, cum, processed, total, pos)
  BY DEF CountedInv
<1>4. Shaped(per, cum, processed, buf, step)
  BY BlockShape DEF BlockOf
<1>5. Section(npix, end, step.per, step.cum, step.processed, PosAfter(pos, step.read))
  BY <1>1, <1>2, StepSection DEF BlockOf
<1> HIDE DEF npix, end, per, cum, processed, pos, total, buf
<1>6. BinLeft(end, step.per) \in Nat /\ b \in Nat
  <2>1. BinLeft(end, step.per) \in 0..NumBins /\ BinLeft(end, per) \in 0..NumBins
    BY <1>1, <1>2, <1>5, PlaceFacts
  <2> QED
    BY <2>1
<1>7. ReadPlaces(npix, pos, step.read, b) /\ b + Len(step.read) - 1 <= BinLeft(end, step.per)
  <2>1. ASSUME NEW n, NEW d, TakesBins(step, per, cum, processed, n, d)
        PROVE  ReadPlaces(npix, pos, step.read, b) /\ b + Len(step.read) - 1 <= BinLeft(end, step.per)
    BY <1>1, <1>2, <1>3, <2>1, BinsPlaces
  <2>2. ASSUME step = PartOfBin(per, cum, processed, buf)
        PROVE  ReadPlaces(npix, pos, step.read, b) /\ b + Len(step.read) - 1 <= BinLeft(end, step.per)
    <3>1. /\ ReadPlaces(npix, pos, step.read, b) /\ Len(step.read) = 1
          /\ BinLeft(end, step.per) = b
      BY <1>1, <1>2, <1>3, <2>2, PartPlaces
    <3> HIDE DEF b
    <3>2. b + 1 - 1 <= b
      BY <1>6
    <3> QED
      BY <3>1, <3>2
  <2> QED
    BY <1>4, <2>1, <2>2 DEF Shaped
<1>8. BinsRead(r, step.read, b)
  <2>1. ReadPlaces(input.npix[r], pos_pixstart[r], step.read, b)
    BY <1>7 DEF npix, pos
  <2> QED
    BY <1>1, <2>1, BinsOfRead
<1> QED
  BY <1>6, <1>7, <1>8 DEF BlockBins, end, per

\* One sequence after another, of bins that are not before those of the first.
LEMMA ConcatInOrder ==
  ASSUME NEW all, NEW s \in Seq(Pixel), NEW t \in Seq(Pixel), InOrder(all, s), InOrder(all, t),
         NEW b \in Int, \A p \in Range(s) : BinIn(all, p) \in 0..b,
         \A p \in Range(t) : BinIn(all, p) \in Int /\ b <= BinIn(all, p)
  PROVE  InOrder(all, s \o t)
<1>1. PICK m \in Nat, n \in Nat :
        /\ m = Len(s) /\ n = Len(t) /\ DOMAIN s = 1..m /\ DOMAIN t = 1..n /\ Len(s \o t) = m + n
        /\ \A j \in 1..m : (s \o t)[j] = s[j]
        /\ \A j \in (m + 1)..(m + n) : (s \o t)[j] = t[j - m]
  <2>1. PICK m \in Nat, n \in Nat : m = Len(s) /\ n = Len(t) /\ DOMAIN s = 1..m /\ DOMAIN t = 1..n
    OBVIOUS
  <2>2. /\ Len(s \o t) = Len(s) + Len(t)
        /\ \A j \in 1..(Len(s) + Len(t)) :
             (s \o t)[j] = IF j <= Len(s) THEN s[j] ELSE t[j - Len(s)]
    BY ConcatProperties
  <2>3. \A j \in 1..m : (s \o t)[j] = s[j]
    BY <2>1, <2>2
  <2>4. \A j \in (m + 1)..(m + n) : (s \o t)[j] = t[j - m]
    BY <2>1, <2>2
  <2> QED
    BY <2>1, <2>2, <2>3, <2>4
<1>2. \A j \in 1..m : BinIn(all, s[j]) \in 0..b
  BY <1>1 DEF Range
<1>3. \A j \in 1..n : BinIn(all, t[j]) \in Int /\ b <= BinIn(all, t[j])
  BY <1>1 DEF Range
<1> SUFFICES ASSUME NEW j \in 1..(m + n), NEW k \in 1..(m + n), j <= k
             PROVE  BinIn(all, (s \o t)[j]) <= BinIn(all, (s \o t)[k])
  BY <1>1 DEF InOrder
<1>4. CASE j \in 1..m /\ k \in 1..m
  BY <1>1, <1>4 DEF InOrder
<1>5. CASE j \in 1..m /\ k \in (m + 1)..(m + n)
  <2>1. k - m \in 1..n
    BY <1>1, <1>5
  <2>2. PICK x \in 0..b, y \in Int : x = BinIn(all, s[j]) /\ y = BinIn(all, t[k - m]) /\ b <= y
    BY <1>2, <1>3, <1>5, <2>1
  <2>3. x <= y
    BY <2>2
  <2> QED
    BY <1>1, <1>5, <2>2, <2>3
<1>6. CASE j \in (m + 1)..(m + n) /\ k \in (m + 1)..(m + n)
  <2>1. j - m \in 1..n /\ k - m \in 1..n /\ j - m <= k - m
    BY <1>1, <1>6
  <2>2. BinIn(all, t[j - m]) <= BinIn(all, t[k - m])
    BY <1>1, <2>1 DEF InOrder
  <2> QED
    BY <1>1, <1>6, <2>2
<1> QED
  BY <1>1, <1>4, <1>5, <1>6

\* The pixels of a pass are in the order of its bins.
LEMMA ReadInOrder ==
  ASSUME NEW r, NEW F, NEW read, ReadsFrom(r, F, read), NEW b \in Nat, BinsRead(r, read, b)
  PROVE  /\ InOrder(input.npix, PixelsOf(r, read))
         /\ \A p \in Range(PixelsOf(r, read)) : BinIn(input.npix, p) \in b..(b + Len(read) - 1)
<1> DEFINE all == input.npix
           ss == [k \in DOMAIN read |-> OfBin(r, read, k)]
<1>1. PICK l \in Nat : l = Len(read) /\ DOMAIN read = 1..l
  BY DEF ReadsFrom
<1>2. ASSUME NEW k \in 1..l
      PROVE  /\ OfBin(r, read, k) \in Seq(Pixel)
             /\ \A p \in Range(OfBin(r, read, k)) : BinIn(all, p) = b + k - 1
  BY <1>1, OfBinFacts DEF BinsRead
<1>3. ss \in Seq(Seq(Pixel)) /\ Len(ss) = l /\ \A k \in 1..l : ss[k] = OfBin(r, read, k)
  BY <1>1, <1>2
<1>4. PixelsOf(r, read) = FlattenSeq(ss)
  BY DEF PixelsOf, OfBin
<1> HIDE DEF ss, all
<1>5. PICK c \in Int : c = b - 1
  OBVIOUS
<1>6. \A k \in 1..Len(ss) : \A x \in 1..Len(ss[k]) : BinIn(all, ss[k][x]) = c + k
  <2> TAKE k \in 1..Len(ss)
  <2> TAKE x \in 1..Len(ss[k])
  <2>1. k \in 1..l /\ ss[k] \in Seq(Pixel)
    BY <1>3
  <2>2. ss[k][x] \in Range(ss[k])
    BY <2>1 DEF Range
  <2>3. BinIn(all, ss[k][x]) = b + k - 1
    BY <1>2, <1>3, <2>1, <2>2
  <2>4. b + k - 1 = c + k
    BY <1>1, <1>5, <2>1
  <2> QED
    BY <2>3, <2>4
<1>7. /\ InOrder(all, FlattenSeq(ss))
      /\ \A j \in 1..Len(FlattenSeq(ss)) :
           \E k \in 1..Len(ss) : BinIn(all, FlattenSeq(ss)[j]) = c + k
  <2>1. InBins(all, ss, c)
    BY <1>6 DEF InBins
  <2>2. OrderedIn(all, FlattenSeq(ss), c, Len(ss))
    BY <1>3, <2>1, FlattenInOrder
  <2> QED
    BY <2>2 DEF OrderedIn
<1>8. FlattenSeq(ss) \in Seq(Pixel)
  BY <1>3, FlattenFacts
<1>9. ASSUME NEW p \in Range(FlattenSeq(ss))
      PROVE  BinIn(all, p) \in b..(b + l - 1)
  <2>1. PICK j \in 1..Len(FlattenSeq(ss)) : p = FlattenSeq(ss)[j]
    BY <1>8 DEF Range
  <2>2. PICK k \in 1..l : BinIn(all, p) = c + k
    BY <1>3, <1>7, <2>1
  <2>3. c + k \in b..(b + l - 1)
    BY <1>1, <1>5
  <2> QED
    BY <2>2, <2>3
<1> QED
  BY <1>1, <1>4, <1>7, <1>9 DEF all

\* A serial job writes what it reads, after what it has read before.
LEMMA SerialBlock ==
  ASSUME ShapeInv, SectionInv, CountedInv, PlaceInv, SerialInv, NEW r \in Readers, NEW step,
         BlockOf(r, step)
  PROVE  SerialInv'
<1>1. /\ input' = input /\ ibin_end' = ibin_end /\ Readers' = Readers
      /\ PartsCounted' = PartsCounted
  BY DEF BlockOf, Readers, Files, PartsCounted, BinSize
<1>2. SUFFICES ASSUME input.serial, PartsCounted
               PROVE  /\ InOrder(input.npix, file')
                      /\ \A q \in Readers, p \in Range(file') :
                           BinIn(input.npix, p) \in 0..BinLeft(ibin_end[q], npix_per_bins'[q])
  BY <1>1 DEF SerialInv
<1> DEFINE all == input.npix
           pix == PixelsOf(r, step.read)
           b == BinLeft(ibin_end[r], npix_per_bins[r])
           c == BinLeft(ibin_end[r], step.per)
<1>3. Readers \subseteq {r}
  BY <1>2, InputFacts DEF ShapeInv
<1>4. file' = file \o pix /\ npix_per_bins'[r] = step.per
  BY <1>2 DEF BlockOf
<1>5. /\ b \in Nat /\ BinsRead(r, step.read, b) /\ c \in Nat /\ b + Len(step.read) - 1 <= c
  BY <1>2, BlockBinsFacts DEF BlockBins
<1>6. ReadsFrom(r, Len(input.npix[r]), step.read) /\ PixelsIs(r, step.read) /\ step.read # << >>
  BY BlockTakesFacts DEF BlockTakes
<1>7. PICK l \in Nat : l = Len(step.read) /\ l # 0
  BY <1>6, EmptySeq DEF ReadsFrom
<1>8. /\ InOrder(all, pix) /\ pix \in Seq(Pixel)
      /\ \A p \in Range(pix) : BinIn(all, p) \in b..(b + l - 1)
  BY <1>5, <1>6, <1>7, ReadInOrder DEF PixelsIs
<1>9. /\ InOrder(all, file) /\ file \in Seq(Pixel) /\ \A p \in Range(file) : BinIn(all, p) \in 0..b
  BY <1>2 DEF SerialInv, PlaceInv
<1> HIDE DEF all, pix, b, c
<1>10. InOrder(all, file \o pix)
  <2>1. \A p \in Range(pix) : BinIn(all, p) \in Int /\ b <= BinIn(all, p)
    BY <1>5, <1>8
  <2>2. b \in Int
    BY <1>5
  <2> QED
    BY <1>8, <1>9, <2>1, <2>2, ConcatInOrder
<1>11. \A p \in Range(file \o pix) : BinIn(all, p) \in 0..c
  <2>1. Range(file \o pix) = Range(file) \cup Range(pix)
    BY <1>8, <1>9, ConcatFacts
  <2>2. b + l - 1 <= c /\ b <= c
    BY <1>5, <1>7
  <2>3. 0..b \subseteq 0..c /\ b..(b + l - 1) \subseteq 0..c
    BY <1>5, <1>7, <2>2
  <2> QED
    BY <1>8, <1>9, <2>1, <2>3
<1>12. InOrder(input.npix, file')
  BY <1>4, <1>10 DEF all, pix
<1>13. ASSUME NEW q \in Readers, NEW p \in Range(file')
       PROVE  BinIn(input.npix, p) \in 0..BinLeft(ibin_end[q], npix_per_bins'[q])
  BY <1>3, <1>4, <1>11, <1>13 DEF all, pix, c
<1> QED
  BY <1>12, <1>13

(***************************************************************************)
(* A parallel job whose bins fit.                                          *)
(***************************************************************************)
\* The pixels of bins that are read whole.
LEMMA CountOfRead ==
  ASSUME NEW npix, IsInput(npix), NEW read \in Seq([1..Len(npix) -> Nat]), NEW b \in 1..NumBins,
         NEW n \in Nat \ {0}, Len(read) = n, b + n - 1 <= NumBins,
         \A k \in 1..n : read[k] = Row(npix, b + k - 1)
  PROVE  SumTo(BinTotals(read), n) = SizeUpTo(npix, b + n - 1) - SizeUpTo(npix, b - 1)
<1> DEFINE cum == Cumsum(BinTotals(read))
           pos == [i \in 1..Len(npix) |-> 0]
<1>1. NumBins \in Nat /\ Len(npix) \in Nat
  BY JobAssumption DEF IsInput
<1>2. PICK e \in 0..NumBins : e = b - 1 /\ n \in 1..(NumBins - e)
  BY <1>1
<1>3. \A k \in 1..n : read[k] = Row(npix, e + k)
  <2> TAKE k \in 1..n
  <2>1. b + k - 1 = e + k
    BY <1>2
  <2> QED
    BY <2>1
<1>4. pos \in [1..Len(npix) -> Nat] /\ \A i \in 1..Len(npix) : pos[i] <= SumTo(npix[i], e)
  <2>1. \A i \in 1..Len(npix) : SumTo(npix[i], e) \in Nat /\ pos[i] = 0
    BY UpToFacts
  <2> QED
    BY <2>1
<1> HIDE DEF pos
<1>5. NewIs(npix, e, n, read, cum, pos)
  BY <1>2, <1>3, <1>4, NewSection
<1>6. n \in 1..n
  OBVIOUS
<1>7. cum[n] = SizeUpTo(npix, e + n) - SizeUpTo(npix, e)
  BY <1>5, <1>6 DEF NewIs
<1>8. cum[n] = SumTo(BinTotals(read), n)
  <2>1. TotalsIs(read)
    BY <1>1, TotalsFacts
  <2> QED
    BY <1>6, <2>1 DEF TotalsIs
<1>9. e + n = b + n - 1
  BY <1>2
<1> QED
  BY <1>2, <1>7, <1>8, <1>9

\* Whole bins are taken, some of which have pixels, and the sums stay exact.
ExactTakes(npix, end, per, cum, processed, total, step, n) ==
  LET b == BinLeft(end, per)
  IN  /\ TakesBins(step, per, cum, processed, n, cum[n])
      /\ Exact(npix, end, step.per, step.cum, step.processed, total)
      /\ cum[n] = SizeUpTo(npix, b + n - 1) - SizeUpTo(npix, b - 1) /\ cum[n] > 0

LEMMA ExactBlock ==
  ASSUME NEW npix, IsInput(npix), NEW end, NEW per, NEW cum, NEW processed, NEW pos,
         Section(npix, end, per, cum, processed, pos), cum # << >>, NEW buf \in Nat, NEW step,
         Shaped(per, cum, processed, buf, step), NEW total \in Int,
         Exact(npix, end, per, cum, processed, total),
         \A b \in 1..NumBins : Size(npix, b) <= buf
  PROVE  \E n \in 1..Len(per) : ExactTakes(npix, end, per, cum, processed, total, step, n)
<1> DEFINE b == BinLeft(end, per)
           Up(k) == SizeUpTo(npix, k)
<1>1. /\ Len(per) \in Nat /\ NumBins \in Nat /\ end \in Nat /\ end <= NumBins /\ processed \in Nat
      /\ Len(per) # 0 /\ per # << >> /\ cum \in Seq(Int) /\ Len(cum) = Len(per)
  BY JobAssumption DEF Section
<1>2. b \in 1..NumBins /\ b + Len(per) = end + 1
  BY <1>1, PlaceFacts
<1>3. /\ per[1] = Row(npix, b) /\ processed < total
      /\ \A k \in 1..Len(per) : cum[k] = Up(b + k - 1) - Up(b - 1)
      /\ processed + Up(end) - Up(b - 1) = total
  BY <1>1 DEF Exact
<1> HIDE DEF b
<1>4. \A k \in 1..NumBins : /\ Up(k) = Up(k - 1) + Size(npix, k) /\ Size(npix, k) \in Nat
                            /\ Size(npix, k) <= buf /\ Up(k) \in Nat /\ Up(k - 1) \in Nat
  <2> TAKE k \in 1..NumBins
  <2>1. k \in 0..NumBins /\ k - 1 \in 0..NumBins
    BY <1>1
  <2> QED
    BY <2>1, UpToFacts, RowFacts
<1>5. \A j, k \in 0..NumBins : j <= k => Up(j) <= Up(k)
  BY UpToFacts
<1>6. Up(end) \in Nat
  <2>1. end \in 0..NumBins
    BY <1>1
  <2> QED
    BY <2>1, UpToFacts
<1> HIDE DEF Up
<1>7. cum[1] <= buf
  <2>1. cum[1] = Up(b + 1 - 1) - Up(b - 1) /\ b + 1 - 1 = b
    BY <1>1, <1>2, <1>3
  <2> QED
    BY <1>2, <1>4, <2>1
<1>8. PICK n \in 1..Len(per) : /\ TakesBins(step, per, cum, processed, n, cum[n])
                               /\ cum[n] <= buf /\ (n # Len(per) => cum[n + 1] > buf)
  <2>1. PICK x \in Int : x = cum[1]
    BY <1>1
  <2>2. x <= buf => ~(x > buf) /\ ~(x > 2 * buf)
    OBVIOUS
  <2> QED
    BY <1>7, <2>1, <2>2 DEF Shaped
<1>9. RestIs(npix, end, per, cum, processed, step, n, cum[n])
  BY <1>8, RestOfBins
<1>10. /\ Len(step.per) = Len(per) - n /\ step.processed = processed + cum[n]
       /\ step.per \in Seq([1..Len(npix) -> Nat])
       /\ \A k \in 1..(Len(per) - n) :
            step.per[k] = Row(npix, b + n + k - 1) /\ step.cum[k] = cum[n + k] - cum[n]
       /\ BinLeft(end, step.per) = IF n = Len(per) THEN end ELSE b + n
  BY <1>9 DEF RestIs, b
<1>11. PICK c \in 1..NumBins, uc \in Nat, u \in Nat, un \in Nat :
         /\ c = b + n - 1 /\ uc = Up(c) /\ u = Up(b - 1) /\ un = Up(end) /\ cum[n] = uc - u
         /\ processed + un - u = total
  <2>1. b + n - 1 \in 1..NumBins
    BY <1>1, <1>2
  <2> QED
    BY <1>2, <1>3, <1>4, <1>6, <2>1
<1>14. PICK l \in Nat : l = Len(per) /\ n \in 1..l /\ b + l = end + 1
  BY <1>1, <1>2
<1>15. b \in Nat /\ b >= 1 /\ end \in Nat /\ end <= NumBins /\ NumBins \in Nat
  BY <1>1, <1>2
<1>12. CASE n = Len(per)
  <2>1. step.per = << >> /\ c = end
    <3>1. Len(step.per) = 0 /\ c = end
      BY <1>10, <1>11, <1>12, <1>14, <1>15
    <3> QED
      BY <1>10, <3>1, EmptySeq
  <2>2. un - u > 0 /\ processed + (uc - u) = total /\ uc = un
    BY <1>1, <1>3, <1>11, <2>1
  <2>3. Exact(npix, end, step.per, step.cum, step.processed, total)
    BY <1>10, <1>11, <2>1, <2>2 DEF Exact
  <2> QED
    BY <1>8, <1>11, <2>2, <2>3 DEF ExactTakes, b, Up
<1>13. CASE n # Len(per)
  <2>1. PICK e \in 1..NumBins, ue \in Nat, se \in Nat :
          /\ e = b + n /\ e - 1 = c /\ ue = Up(e) /\ se = Size(npix, e) /\ ue = uc + se /\ se <= buf
          /\ ue <= un /\ cum[n + 1] = ue - u
    <3>1. /\ b + n \in 1..NumBins /\ b + n - 1 = c /\ b + n <= end /\ n + 1 \in 1..Len(per)
          /\ b + (n + 1) - 1 = b + n
      BY <1>11, <1>13, <1>14, <1>15, SMTT(30)
    <3>2. Up(b + n) <= Up(end)
      <4>1. b + n \in 0..NumBins /\ end \in 0..NumBins
        BY <1>1, <3>1
      <4> QED
        BY <1>5, <3>1, <4>1
    <3>3. PICK e \in 1..NumBins : e = b + n
      BY <3>1
    <3>4. PICK ue \in Nat, se \in Nat :
            ue = Up(e) /\ se = Size(npix, e) /\ ue = Up(e - 1) + se /\ se <= buf
      BY <1>4
    <3>5. e - 1 = c /\ ue = uc + se /\ ue <= un
      <4>1. e - 1 = c
        BY <1>11, <1>14, <1>15, <3>1, <3>3
      <4>2. Up(e - 1) = uc
        BY <1>11, <4>1
      <4>3. Up(e) <= Up(end)
        BY <3>2, <3>3
      <4> QED
        BY <1>11, <3>4, <4>1, <4>2, <4>3
    <3>6. cum[n + 1] = ue - u
      BY <1>3, <1>11, <3>1, <3>3, <3>4
    <3> QED
      BY <3>3, <3>4, <3>5, <3>6
  <2>2. uc - u > 0 /\ se > 0 /\ uc < un
    <3>1. ue - u > buf /\ uc - u <= buf
      BY <1>8, <1>11, <1>13, <2>1
    <3> QED
      BY <2>1, <3>1, SMTT(30)
  <2>3. step.per # << >> /\ BinLeft(end, step.per) = e /\ step.per[1] = Row(npix, e)
    <3>1. Len(step.per) # 0 /\ 1 \in 1..(Len(per) - n) /\ b + n + 1 - 1 = e
      <4>1. Len(step.per) = l - n /\ l - n # 0 /\ 1 \in 1..(l - n) /\ b + n + 1 - 1 = e
        BY <1>10, <1>13, <1>14, <1>15, <2>1
      <4> QED
        BY <1>14, <4>1
    <3>2. step.per # << >> /\ step.per[1] = Row(npix, e)
      BY <1>10, <3>1
    <3> QED
      BY <1>10, <1>13, <2>1, <3>2
  <2>4. step.processed < total /\ step.processed + un - uc = total
    <3>1. processed + un - u = total /\ processed \in Int
      BY <1>1, <1>11
    <3>2. processed + (uc - u) < total /\ processed + (uc - u) + un - uc = total
      BY <2>2, <3>1
    <3> QED
      BY <1>10, <1>11, <3>2
  <2>5. ASSUME NEW k \in 1..Len(step.per)
        PROVE  step.cum[k] = Up(e + k - 1) - uc
    <3>1. /\ k \in 1..(Len(per) - n) /\ n + k \in 1..Len(per) /\ b + (n + k) - 1 = e + k - 1
          /\ e + k - 1 \in 1..NumBins
      <4>1. Len(step.per) = l - n
        BY <1>10, <1>14
      <4>2. k \in 1..(l - n) /\ n + k \in 1..l /\ b + (n + k) - 1 = e + k - 1
            /\ e + k - 1 \in 1..NumBins
        BY <1>14, <1>15, <2>1, <4>1
      <4> QED
        BY <1>14, <4>2
    <3>2. PICK x \in Nat : x = Up(e + k - 1)
      BY <1>4, <3>1
    <3>3. cum[n + k] = x - u /\ step.cum[k] = cum[n + k] - cum[n]
      BY <1>3, <1>10, <1>11, <3>1, <3>2
    <3>4. (x - u) - (uc - u) = x - uc
      OBVIOUS
    <3> QED
      BY <1>11, <3>2, <3>3, <3>4
  <2>6. Exact(npix, end, step.per, step.cum, step.processed, total)
    BY <1>11, <2>1, <2>3, <2>4, <2>5 DEF Exact, Up
  <2> QED
    BY <1>8, <1>11, <2>2, <2>6 DEF ExactTakes, b, Up
<1> QED
  BY <1>12, <1>13

\* What is read then has as many pixels.
ReadsExactly(npix, b, read, n, number) ==
  /\ read \in Seq([1..Len(npix) -> Nat]) /\ Len(read) = n
  /\ \A k \in 1..n : read[k] = Row(npix, b + k - 1)
  /\ SumTo(BinTotals(read), n) = number

LEMMA ExactRead ==
  ASSUME NEW npix, IsInput(npix), NEW end, NEW per, NEW cum, NEW processed, NEW pos,
         Section(npix, end, per, cum, processed, pos), cum # << >>, NEW total, NEW step, NEW n,
         Exact(npix, end, per, cum, processed, total),
         ExactTakes(npix, end, per, cum, processed, total, step, n)
  PROVE  ReadsExactly(npix, BinLeft(end, per), step.read, n, cum[n])
<1> DEFINE b == BinLeft(end, per)
           read == step.read
<1>1. /\ TakesBins(step, per, cum, processed, n, cum[n])
      /\ cum[n] = SizeUpTo(npix, b + n - 1) - SizeUpTo(npix, b - 1) /\ cum[n] > 0
  BY DEF ExactTakes
<1>2. ReadIs(npix, end, per, read, n) /\ n \in 1..Len(per)
  BY <1>1, ReadOfBins DEF TakesBins
<1>3. /\ Len(per) \in Nat /\ NumBins \in Nat /\ end \in Nat /\ end <= NumBins /\ Len(npix) \in Nat
      /\ Len(per) # 0 /\ per # << >>
  BY JobAssumption DEF Section, IsInput
<1>4. PICK l \in Nat : l = Len(per) /\ n \in 1..l /\ b \in 1..NumBins /\ b + l = end + 1
  BY <1>2, <1>3, PlaceFacts
<1> HIDE DEF b, read
<1>5. /\ read \in Seq([1..Len(npix) -> Nat]) /\ Len(read) = n /\ read[1] = per[1]
      /\ \A k \in 2..n : read[k] = Row(npix, b + k - 1)
  BY <1>2 DEF ReadIs, b
<1>6. per[1] = Row(npix, b)
  BY <1>3 DEF Exact, b
<1>7. ASSUME NEW k \in 1..n
      PROVE  read[k] = Row(npix, b + k - 1)
  <2>1. CASE k = 1
    <3>1. b + k - 1 = b
      BY <1>4, <2>1
    <3> QED
      BY <1>5, <1>6, <2>1, <3>1
  <2>2. CASE k # 1
    <3>1. k \in 2..n
      BY <1>4, <2>2
    <3> QED
      BY <1>5, <3>1
  <2> QED
    BY <2>1, <2>2
<1>8. SumTo(BinTotals(read), n) = cum[n]
  <2>1. n \in Nat \ {0} /\ b + n - 1 <= NumBins
    BY <1>3, <1>4
  <2>2. SumTo(BinTotals(read), n) = SizeUpTo(npix, b + n - 1) - SizeUpTo(npix, b - 1)
    BY <1>4, <1>5, <1>7, <2>1, CountOfRead
  <2> QED
    BY <1>1, <2>2
<1> QED
  BY <1>5, <1>7, <1>8 DEF ReadsExactly, b, read

\* The message of whole bins: it is labelled with them, and it has pixels.
LEMMA BlockLabelled ==
  ASSUME ShapeInv, SectionInv, CountedInv, PartsCounted, BinsFit,
         NEW r \in Readers, NEW step, BlockOf(r, step), ReaderInTurn(r)
  PROVE  /\ Exact(input.npix[r], ibin_end[r], step.per, step.cum, step.processed,
                  n_pix_2process[r])
         /\ LabelledMessage(input.npix, BlockMessage(r, step))
         /\ BlockMessage(r, step).bin_range[1] = nbins_start[r]
         /\ BlockMessage(r, step).bin_range[2] = LastBin(r, step)
         /\ LastBin(r, step) + 1 = ibin_end[r] - Len(step.per) + 1
<1> DEFINE npix == input.npix[r]
           end == ibin_end[r]
           per == npix_per_bins[r]
           cum == npix_in_bins[r]
           processed == npix_processed[r]
           pos == pos_pixstart[r]
           total == n_pix_2process[r]
           buf == input.buf
           b == BinLeft(end, per)
           read == step.read
           pix == PixelsOf(r, read)
           edges == EdgesOf(read)
<1>1. IsInput(npix) /\ buf \in Nat /\ total \in Int /\ Files(r) = 1..Len(npix)
  BY InputFacts DEF ShapeInv
<1>2. Section(npix, end, per, cum, processed, pos) /\ cum # << >>
  BY DEF SectionInv, BlockOf
<1>3. Exact(npix, end, per, cum, processed, total) /\ nbins_start[r] = end - Len(per) + 1
  BY DEF ReaderInTurn
<1>4. Shaped(per, cum, processed, buf, step)
  BY BlockShape DEF BlockOf
<1>5. \A k \in 1..NumBins : Size(npix, k) <= buf
  <2>1. \A k : BinSize(r, k) = Size(npix, k)
    BY DEF BinSize, Size, Row, Files
  <2> QED
    BY <2>1 DEF BinsFit
<1>6. ReadsFrom(r, Len(npix), read) /\ PixelsIs(r, read)
  BY BlockTakesFacts DEF BlockTakes
<1>7. BinsRead(r, read, b)
  BY BlockBinsFacts DEF BlockBins
<1> HIDE DEF npix, end, per, cum, processed, pos, total, buf
<1>8. PICK n \in 1..Len(per) : ExactTakes(npix, end, per, cum, processed, total, step, n)
  BY <1>1, <1>2, <1>3, <1>4, <1>5, ExactBlock
<1>9. /\ TakesBins(step, per, cum, processed, n, cum[n])
      /\ Exact(npix, end, step.per, step.cum, step.processed, total)
      /\ cum[n] = SizeUpTo(npix, b + n - 1) - SizeUpTo(npix, b - 1) /\ cum[n] > 0
  BY <1>8 DEF ExactTakes
<1>10. ReadIs(npix, end, per, read, n) /\ RestIs(npix, end, per, cum, processed, step, n, cum[n])
  BY <1>1, <1>2, <1>9, ReadOfBins, RestOfBins
<1>11. /\ Len(per) \in Nat /\ NumBins \in Nat /\ end \in Nat /\ end <= NumBins /\ Len(npix) \in Nat
       /\ Len(per) # 0 /\ per # << >>
  BY <1>1, <1>2, JobAssumption DEF Section, IsInput
<1>12. PICK l \in Nat : l = Len(per) /\ n \in 1..l /\ b \in 1..NumBins /\ b + l = end + 1
  BY <1>1, <1>2, <1>11, PlaceFacts
<1> HIDE DEF b, read
<1>13. /\ read \in Seq([1..Len(npix) -> Nat]) /\ Len(read) = n
       /\ \A k \in 1..n : read[k] = Row(npix, b + k - 1)
       /\ SumTo(BinTotals(read), n) = cum[n]
  <2>1. ReadsExactly(npix, BinLeft(end, per), step.read, n, cum[n])
    BY <1>1, <1>2, <1>3, <1>8, ExactRead
  <2> QED
    BY <2>1 DEF ReadsExactly, b, read
<1>14. pix # << >>
  <2>1. Len(pix) = cum[n]
    BY <1>6, <1>13 DEF PixelsIs
  <2>2. Len(pix) # 0
    BY <1>9, <2>1
  <2> QED
    BY <2>2
<1>15. /\ nbins_start[r] = b /\ step.bins = n /\ LastBin(r, step) = b + n - 1
       /\ LastBin(r, step) + 1 = end - Len(step.per) + 1
  <2>1. nbins_start[r] = b
    BY <1>3, <1>11 DEF b, BinLeft
  <2>2. step.bins = n
    BY <1>9 DEF TakesBins
  <2>3. LastBin(r, step) = b + n - 1
    <3>1. n # 0
      BY <1>12
    <3> QED
      BY <2>1, <2>2, <3>1 DEF LastBin
  <2>4. Len(step.per) = l - n
    BY <1>10, <1>12 DEF RestIs
  <2>5. b + n - 1 + 1 = end - (l - n) + 1
    BY <1>11, <1>12
  <2> QED
    BY <2>1, <2>2, <2>3, <2>4, <2>5
<1>16. Labelled(input.npix, pix, edges, <<b, b + n - 1>>)
  <2>1. /\ Len(edges) = n + 1
        /\ \A k \in 1..n : \A x \in edges[k]..(edges[k + 1] - 1) : IsOfBin(r, read, k, pix[x])
    BY <1>6, <1>13 DEF PixelsIs
  <2>2. n + 1 = (b + n - 1) - b + 2 /\ b <= b + n - 1 /\ b + n - 1 <= NumBins
    BY <1>11, <1>12
  <2>3. ASSUME NEW k \in 1..(Len(edges) - 1), NEW x \in edges[k]..(edges[k + 1] - 1)
        PROVE  BinIn(input.npix, pix[x]) = b + k - 1
    <3>1. k \in 1..n
      BY <1>12, <2>1
    <3>2. IsOfBin(r, read, k, pix[x])
      BY <2>1, <3>1
    <3> QED
      BY <1>7, <1>13, <3>1, <3>2 DEF BinsRead
  <2> QED
    BY <2>1, <2>2, <2>3 DEF Labelled
<1>17. BlockMessage(r, step) = Message(<<b, b + n - 1>>, pix, edges, step.bins > 0)
  BY <1>15 DEF BlockMessage, read
<1>18. step.bins > 0
  BY <1>12, <1>15
<1> HIDE DEF pix, edges
<1>19. /\ BlockMessage(r, step).bin_range = <<b, b + n - 1>>
       /\ LabelledMessage(input.npix, BlockMessage(r, step))
  <2>1. PICK m : m = BlockMessage(r, step)
    OBVIOUS
  <2>2. /\ m.bin_range = <<b, b + n - 1>> /\ m.pix_data = pix /\ m.bin_edges = edges
        /\ m.last_bin_completed = (step.bins > 0)
    BY <1>17, <2>1 DEF Message
  <2>3. LabelledMessage(input.npix, m)
    BY <1>14, <1>16, <1>18, <2>2 DEF LabelledMessage
  <2> QED
    BY <2>1, <2>2, <2>3
<1> QED
  BY <1>9, <1>15, <1>19 DEF npix, end, total

\* A message that follows the others is put behind them.
LEMMA InTurnSent ==
  ASSUME NEW all, NEW ms \in Seq(GoodMessages), NEW m \in GoodMessages, NEW received \in Int,
         NEW start, InTurn(all, ms, received, start), LabelledMessage(all, m),
         m.bin_range[1] = start, NEW next, next = m.bin_range[2] + 1
  PROVE  InTurn(all, Append(ms, m), received, next)
<1>1. PICK n \in Nat : n = Len(ms) /\ DOMAIN ms = 1..n
  OBVIOUS
<1>2. /\ Len(Append(ms, m)) = n + 1 /\ Append(ms, m)[n + 1] = m
      /\ \A j \in 1..n : Append(ms, m)[j] = ms[j]
  BY <1>1, AppendProperties
<1>3. Append(ms, m) # << >> /\ (ms = << >> <=> n = 0)
  <2>1. Append(ms, m) \in Seq(GoodMessages)
    OBVIOUS
  <2>2. Len(Append(ms, m)) # 0
    BY <1>1, <1>2
  <2> QED
    BY <1>1, <2>1, <2>2, EmptySeq
<1>4. /\ \A j \in 1..n :
           /\ LabelledMessage(all, ms[j])
           /\ ms[j].bin_range[1] = 1 + IF j = 1 THEN received ELSE ms[j - 1].bin_range[2]
      /\ start = 1 + IF n = 0 THEN received ELSE ms[n].bin_range[2]
  BY <1>1, <1>3 DEF InTurn
<1>5. \A j \in 1..(n + 1) : LabelledMessage(all, Append(ms, m)[j])
  <2> TAKE j \in 1..(n + 1)
  <2>1. j \in 1..n \/ j = n + 1
    BY <1>1
  <2> QED
    BY <1>2, <1>4, <2>1
<1>6. \A j \in 1..(n + 1) : Append(ms, m)[j].bin_range[1]
        = 1 + IF j = 1 THEN received ELSE Append(ms, m)[j - 1].bin_range[2]
  <2> TAKE j \in 1..(n + 1)
  <2>1. CASE j \in 1..n
    <3>1. j # 1 => j - 1 \in 1..n
      BY <1>1, <2>1
    <3> QED
      BY <1>2, <1>4, <2>1, <3>1
  <2>2. CASE j = n + 1
    <3>1. Append(ms, m)[j].bin_range[1] = start
      BY <1>2, <2>2
    <3>2. CASE n = 0
      <4>1. j = 1
        BY <2>2, <3>2
      <4> QED
        BY <1>4, <3>1, <3>2, <4>1
    <3>3. CASE n # 0
      <4>1. j # 1 /\ j - 1 = n /\ n \in 1..n
        BY <1>1, <2>2, <3>3
      <4>2. Append(ms, m)[j - 1] = ms[n]
        BY <1>2, <4>1
      <4> QED
        BY <1>4, <3>1, <3>3, <4>1, <4>2
    <3> QED
      BY <3>2, <3>3
  <2> QED
    BY <1>1, <2>1, <2>2
<1>7. next = 1 + Append(ms, m)[n + 1].bin_range[2]
  <2>1. m.bin_range[2] \in Nat
    BY DEF GoodMessages
  <2> QED
    BY <1>2, <2>1
<1> QED
  BY <1>2, <1>3, <1>5, <1>6, <1>7 DEF InTurn

\* Sizes of bins are those of their rows; bins that fit are counted right.
LEMMA SizesFacts ==
  ASSUME input \in Inputs
  PROVE  /\ \A r \in Readers : \A b : BinSize(r, b) = Size(input.npix[r], b)
         /\ BinsFit => PartsCounted
<1>1. \A r \in Readers : \A b : BinSize(r, b) = Size(input.npix[r], b)
  BY DEF BinSize, Size, Row, Files
<1>2. ASSUME BinsFit, NEW r \in Readers, NEW b \in 1..NumBins
      PROVE  BinSize(r, b) <= 2 * input.buf
  <2>1. BinSize(r, b) <= input.buf /\ input.buf \in Nat
    BY <1>2, InputFacts DEF BinsFit
  <2>2. BinSize(r, b) \in Nat
    BY <1>1, InputFacts, RowFacts
  <2> QED
    BY <2>1, <2>2
<1> QED
  BY <1>1, <1>2 DEF PartsCounted

\* A reader of a parallel job sends what it reads in its turn.
LEMMA ParallelBlock ==
  ASSUME ShapeInv, SectionInv, CountedInv, CacheInv, ParallelInv, NEW r \in Readers, NEW step,
         BlockOf(r, step)
  PROVE  ParallelInv'
<1>1. /\ input' = input /\ ibin_end' = ibin_end /\ n_pix_2process' = n_pix_2process
      /\ UNCHANGED cacheVars /\ Readers' = Readers /\ \A q : Files(q)' = Files(q)
  BY DEF BlockOf, Readers, Files
<1>2. /\ BinsFit' = BinsFit /\ SectionsFilled' = SectionsFilled
      /\ \A q : SectionSize(q)' = SectionSize(q) /\ Cached(q)' = Cached(q)
  BY <1>1 DEF BinsFit, SectionsFilled, SectionSize, BinSize, Cached, cacheVars
<1>3. SUFFICES ASSUME ~input.serial, BinsFit, SectionsFilled
               PROVE  /\ InOrder(input.npix, file')
                      /\ \A p \in Range(file') :
                           BinIn(input.npix, p) \in 0..(first_bin_to_process_' - 1)
                      /\ \A q \in Readers : ReaderInTurn(q)' /\ SourceInTurn(q)'
  BY <1>1, <1>2 DEF ParallelInv
<1>4. /\ InOrder(input.npix, file)
      /\ \A p \in Range(file) : BinIn(input.npix, p) \in 0..(first_bin_to_process_ - 1)
      /\ \A q \in Readers : ReaderInTurn(q) /\ SourceInTurn(q)
  BY <1>3 DEF ParallelInv
<1>5. PartsCounted /\ input \in Inputs
  BY <1>3, SizesFacts DEF ShapeInv
<1> DEFINE m == BlockMessage(r, step)
<1>6. /\ file' = file /\ first_bin_to_process_' = first_bin_to_process_
      /\ mess' = [mess EXCEPT ![r] = Append(@, m)] /\ DOMAIN mess = Readers
  BY <1>1, <1>3 DEF BlockOf, BlockMessage, ShapeInv, cacheVars
<1>7. /\ Exact(input.npix[r], ibin_end[r], step.per, step.cum, step.processed, n_pix_2process[r])
      /\ LabelledMessage(input.npix, m) /\ m.bin_range[1] = nbins_start[r]
      /\ m.bin_range[2] = LastBin(r, step)
      /\ LastBin(r, step) + 1 = ibin_end[r] - Len(step.per) + 1
  BY <1>3, <1>4, <1>5, BlockLabelled
<1>8. m \in GoodMessages /\ \A q \in Readers : mess[q] \in Seq(GoodMessages)
  BY BlockMessageFacts DEF CacheInv
<1> HIDE DEF m
<1>9. ReaderInTurn(r)' /\ SourceInTurn(r)'
  <2>1. /\ npix_per_bins'[r] = step.per /\ npix_in_bins'[r] = step.cum
        /\ npix_processed'[r] = step.processed /\ nbins_start'[r] = LastBin(r, step) + 1
    BY DEF BlockOf
  <2>2. ReaderInTurn(r)'
    BY <1>1, <1>2, <1>4, <1>7, <2>1 DEF ReaderInTurn
  <2>3. mess'[r] = Append(mess[r], m)
    BY <1>6
  <2>4. /\ InTurn(input.npix, mess[r], Received(Cached(r), first_bin_to_process_), nbins_start[r])
        /\ CacheInTurn(input.npix, Cached(r), first_bin_to_process_)
    BY <1>4 DEF SourceInTurn
  <2>5. Received(Cached(r), first_bin_to_process_) \in Int
    <3>1. Cached(r).range \in Nat \X Nat /\ first_bin_to_process_ \in Nat
      BY DEF CacheInv, GoodCache, ShapeInv
    <3> QED
      BY <3>1 DEF Received
  <2>6. PICK c : c = Received(Cached(r), first_bin_to_process_)
    OBVIOUS
  <2>7. InTurn(input.npix, Append(mess[r], m), c, LastBin(r, step) + 1)
    <3>1. PICK all : all = input.npix
      OBVIOUS
    <3>2. PICK ms \in Seq(GoodMessages) : ms = mess[r]
      BY <1>8
    <3>3. PICK start, next : start = nbins_start[r] /\ next = LastBin(r, step) + 1
      OBVIOUS
    <3>4. InTurn(all, ms, c, start) /\ LabelledMessage(all, m) /\ m.bin_range[1] = start
            /\ next = m.bin_range[2] + 1 /\ c \in Int
      BY <1>7, <2>4, <2>5, <2>6, <3>1, <3>2, <3>3
    <3>5. InTurn(all, Append(ms, m), c, next)
      BY <1>8, <3>4, InTurnSent
    <3> QED
      BY <3>1, <3>2, <3>3, <3>5
  <2>8. SourceInTurn(r)'
    BY <1>1, <1>2, <1>6, <2>1, <2>3, <2>4, <2>6, <2>7 DEF SourceInTurn
  <2> QED
    BY <2>2, <2>8
<1>10. ASSUME NEW q \in Readers, q # r
       PROVE  ReaderInTurn(q)' /\ SourceInTurn(q)'
  <2>1. /\ nbins_start'[q] = nbins_start[q] /\ npix_per_bins'[q] = npix_per_bins[q]
        /\ npix_in_bins'[q] = npix_in_bins[q] /\ npix_processed'[q] = npix_processed[q]
        /\ mess'[q] = mess[q]
    BY <1>6, <1>10 DEF BlockOf
  <2>2. ReaderInTurn(q) /\ SourceInTurn(q)
    BY <1>4
  <2> QED
    BY <1>1, <1>2, <1>6, <2>1, <2>2 DEF ReaderInTurn, SourceInTurn
<1> QED
  BY <1>4, <1>6, <1>9, <1>10

\* A new section with pixels has exact sums.
LEMMA ExactSection ==
  ASSUME NEW npix, IsInput(npix), NEW end \in 0..NumBins, NEW m \in 1..(NumBins - end),
         NEW per \in Seq([1..Len(npix) -> Nat]), Len(per) = m,
         \A k \in 1..m : per[k] = Row(npix, end + k), NEW cum, cum = Cumsum(BinTotals(per)),
         NEW b \in (end + 1)..(end + m), Size(npix, b) > 0
  PROVE  Exact(npix, end + m, per, cum, 0, Last(cum)) /\ Last(cum) > 0
<1> DEFINE pos == [i \in 1..Len(npix) |-> 0]
           Up(k) == SizeUpTo(npix, k)
<1>1. NumBins \in Nat /\ Len(npix) \in Nat /\ end \in Nat /\ m \in Nat /\ m >= 1 /\ end + m <= NumBins
  BY JobAssumption DEF IsInput
<1>2. pos \in [1..Len(npix) -> Nat] /\ \A i \in 1..Len(npix) : pos[i] <= SumTo(npix[i], end)
  <2>1. \A i \in 1..Len(npix) : SumTo(npix[i], end) \in Nat /\ pos[i] = 0
    BY UpToFacts
  <2> QED
    BY <2>1
<1> HIDE DEF pos
<1>3. NewIs(npix, end, m, per, cum, pos)
  BY <1>2, NewSection
<1>4. /\ Len(cum) = m /\ cum # << >> /\ per # << >> /\ BinLeft(end + m, per) = end + 1
      /\ \A k \in 1..m : cum[k] = Up(end + k) - Up(end)
  BY <1>3 DEF NewIs
<1>5. PICK c \in 1..NumBins : c = end + 1 /\ c - 1 = end
  BY <1>1
<1>6. per[1] = Row(npix, c)
  BY <1>1, <1>5
<1>7. PICK u \in Nat, v \in Nat : u = Up(end) /\ v = Up(end + m)
  <2>1. end \in 0..NumBins /\ end + m \in 0..NumBins
    BY <1>1
  <2> QED
    BY <2>1, UpToFacts
<1>8. u < v
  <2>1. b \in 1..NumBins /\ b - 1 \in 0..NumBins /\ b \in 0..NumBins /\ end \in 0..NumBins
        /\ end + m \in 0..NumBins /\ end <= b - 1 /\ b <= end + m
    BY <1>1
  <2>2. /\ Up(b) = Up(b - 1) + Size(npix, b) /\ Up(b) \in Nat /\ Up(b - 1) \in Nat
        /\ Up(end) <= Up(b - 1) /\ Up(b) <= Up(end + m) /\ Size(npix, b) \in Nat
    BY <2>1, UpToFacts, RowFacts
  <2> HIDE DEF Up
  <2> QED
    BY <1>7, <2>2
<1>9. Last(cum) = v - u
  <2>1. m \in 1..m
    BY <1>1
  <2> QED
    BY <1>4, <1>7, <2>1 DEF Last
<1>10. ASSUME NEW k \in 1..Len(per)
       PROVE  cum[k] = Up(c + k - 1) - Up(c - 1)
  <2>1. k \in 1..m /\ c + k - 1 = end + k
    BY <1>1, <1>5
  <2> QED
    BY <1>4, <1>5, <2>1
<1>11. 0 < Last(cum) /\ 0 + Up(end + m) - Up(c - 1) = Last(cum)
  BY <1>5, <1>7, <1>8, <1>9
<1>12. BinLeft(end + m, per) = c
  BY <1>4, <1>5
<1>13. Exact(npix, end + m, per, cum, 0, Last(cum))
  BY <1>4, <1>6, <1>10, <1>11, <1>12 DEF Exact
<1> QED
  BY <1>11, <1>13

\* A reader that has read its section has none left, and the next one has pixels.
LEMMA ParallelSection ==
  ASSUME ShapeInv, SectionInv, CountedInv, CacheInv, ParallelInv, NEW r \in Readers,
         ReadSection(r)
  PROVE  ParallelInv'
<1>1. /\ input' = input /\ UNCHANGED cacheVars /\ Readers' = Readers /\ file' = file
      /\ \A q : Files(q)' = Files(q)
  BY DEF ReadSection, Readers, Files
<1>2. /\ BinsFit' = BinsFit /\ SectionsFilled' = SectionsFilled
      /\ \A q : SectionSize(q)' = SectionSize(q) /\ Cached(q)' = Cached(q)
      /\ first_bin_to_process_' = first_bin_to_process_
  BY <1>1 DEF BinsFit, SectionsFilled, SectionSize, BinSize, Cached, cacheVars
<1>3. SUFFICES ASSUME ~input.serial, BinsFit, SectionsFilled
               PROVE  /\ InOrder(input.npix, file')
                      /\ \A p \in Range(file') :
                           BinIn(input.npix, p) \in 0..(first_bin_to_process_' - 1)
                      /\ \A q \in Readers : ReaderInTurn(q)' /\ SourceInTurn(q)'
  BY <1>1, <1>2 DEF ParallelInv
<1>4. /\ InOrder(input.npix, file)
      /\ \A p \in Range(file) : BinIn(input.npix, p) \in 0..(first_bin_to_process_ - 1)
      /\ \A q \in Readers : ReaderInTurn(q) /\ SourceInTurn(q)
  BY <1>3 DEF ParallelInv
<1>5. PICK m : NewSectionOf(r, m)
  BY ReadSectionFacts
<1> DEFINE npix == input.npix[r]
           end == ibin_end[r]
           per == npix_per_bins'[r]
           cum == npix_in_bins'[r]
           s == SectionSize(r)
<1>6. /\ m \in 1..(NumBins - end) /\ m <= s /\ (end + m = NumBins \/ m = s)
      /\ ibin_end'[r] = end + m /\ nbins_start'[r] = end + 1 /\ npix_processed'[r] = 0
      /\ per \in Seq([1..Len(npix) -> Nat]) /\ Len(per) = m
      /\ \A k \in 1..m : per[k] = Row(npix, end + k)
      /\ cum = Cumsum(BinTotals(per)) /\ n_pix_2process'[r] = Last(cum)
  BY <1>5 DEF NewSectionOf
<1>7. /\ IsInput(npix) /\ end \in 0..NumBins /\ NumBins \in Nat /\ end \in Nat /\ s \in Nat /\ s # 0
      /\ npix_per_bins[r] \in Seq([1..Len(npix) -> Nat])
  <2>1. IsInput(npix) /\ input.buf \in Nat /\ Len(npix) \in Nat \ {0} /\ Len(npix) <= input.buf
    BY InputFacts DEF ShapeInv
  <2>2. \A a \in Nat, b \in Nat \ {0} : b <= a => a \div b \in Nat /\ a \div b >= 1
    OBVIOUS
  <2>3. s \in Nat /\ s # 0
    BY <2>1, <2>2 DEF SectionSize
  <2>4. end \in 0..NumBins /\ NumBins \in Nat /\ npix_per_bins[r] \in Seq([1..Len(npix) -> Nat])
    BY JobAssumption DEF SectionInv, Section
  <2> QED
    BY <2>1, <2>3, <2>4
<1>8. end < NumBins /\ npix_processed[r] >= n_pix_2process[r]
  BY DEF ReadSection
<1>9. npix_per_bins[r] = << >> /\ nbins_start[r] = end + 1
      /\ \E k \in Nat : end = k * s
  <2>1. ReaderInTurn(r)
    BY <1>4
  <2>2. npix_per_bins[r] = << >>
    <3>1. npix_processed[r] \in Nat /\ n_pix_2process[r] \in Nat
      BY DEF SectionInv, Section, ShapeInv
    <3> QED
      BY <1>8, <2>1, <3>1 DEF ReaderInTurn, Exact
  <2>3. Len(npix_per_bins[r]) = 0
    BY <2>2
  <2>4. nbins_start[r] = end - 0 + 1
    BY <2>1, <2>3 DEF ReaderInTurn
  <2>5. \E k \in Nat : end = k * s
    BY <1>7, <1>8, <2>1 DEF ReaderInTurn
  <2> QED
    BY <1>7, <2>2, <2>4, <2>5
<1> HIDE DEF npix, end, per, cum, s
<1>10. PICK k \in Nat : end = k * s
  BY <1>9
<1>11. k \in 0..(NumBins - 1)
  <2>1. \A x \in Nat, y \in Nat \ {0} : x <= x * y
    OBVIOUS
  <2>2. k <= k * s
    BY <1>7, <2>1
  <2>3. PICK x \in Nat : x = end /\ x < NumBins
    BY <1>7, <1>8
  <2>4. k <= x
    BY <1>10, <2>2, <2>3
  <2>5. \A y \in Nat : y <= x => y \in 0..(NumBins - 1)
    BY <1>7, <2>3
  <2> QED
    BY <1>10, <2>4, <2>5
<1>12. \E b \in (end + 1)..(end + m) : Size(npix, b) > 0
  <2>1. PICK b \in (end + 1)..Fewest((end + 1) + s - 1, NumBins) : BinSize(r, b) > 0
    <3>1. end + 1 <= NumBins
      BY <1>7, <1>8
    <3>2. k * SectionSize(r) + 1 = end + 1
      BY <1>10 DEF s
    <3>3. \E b \in (end + 1)..Fewest((end + 1) + SectionSize(r) - 1, NumBins) : BinSize(r, b) > 0
      BY <1>3, <1>11, <3>1, <3>2 DEF SectionsFilled
    <3> QED
      BY <3>3 DEF s
  <2>2. Fewest((end + 1) + s - 1, NumBins) <= end + m
    BY <1>6, <1>7 DEF Fewest
  <2>3. Fewest((end + 1) + s - 1, NumBins) \in Int /\ end + m \in Int
    BY <1>6, <1>7 DEF Fewest
  <2>4. b \in (end + 1)..(end + m)
    BY <1>7, <2>2, <2>3
  <2>5. BinSize(r, b) = Size(npix, b)
    BY SizesFacts DEF npix, ShapeInv
  <2> QED
    BY <2>1, <2>4, <2>5
<1>13. Exact(npix, end + m, per, cum, 0, Last(cum)) /\ Last(cum) > 0
  BY <1>6, <1>7, <1>12, ExactSection
<1>14. mess' = mess
  <2>1. /\ npix_in_bins' = [npix_in_bins EXCEPT ![r] = npix_in_bins'[r]]
        /\ (Last(npix_in_bins'[r]) # 0 => mess' = mess)
    BY DEF ReadSection, ShapeInv
  <2>2. Last(cum) # 0
    BY <1>13
  <2> QED
    BY <2>1, <2>2 DEF cum
<1>15. ReaderInTurn(r)'
  <2>1. Exact(npix, end + m, per, cum, 0, Last(cum))
    BY <1>13
  <2>2. end + 1 = (end + m) - m + 1
    BY <1>6, <1>7
  <2>3. end + m = NumBins \/ \E j \in Nat : end + m = j * s
    <3>1. CASE m = s
      <4>1. k + 1 \in Nat /\ k * s + s = (k + 1) * s
        BY <1>7
      <4> QED
        BY <1>10, <3>1, <4>1
    <3> QED
      BY <1>6, <3>1
  <2> QED
    BY <1>1, <1>2, <1>6, <2>1, <2>2, <2>3 DEF ReaderInTurn, npix, per, cum, s
<1>16. SourceInTurn(r)'
  <2>1. SourceInTurn(r)
    BY <1>4
  <2>2. nbins_start'[r] = nbins_start[r]
    BY <1>6, <1>9
  <2> QED
    BY <1>1, <1>2, <1>14, <2>1, <2>2 DEF SourceInTurn
<1>17. ASSUME NEW q \in Readers, q # r
       PROVE  ReaderInTurn(q)' /\ SourceInTurn(q)'
  <2>1. /\ ibin_end'[q] = ibin_end[q] /\ nbins_start'[q] = nbins_start[q]
        /\ npix_per_bins'[q] = npix_per_bins[q] /\ npix_in_bins'[q] = npix_in_bins[q]
        /\ npix_processed'[q] = npix_processed[q] /\ n_pix_2process'[q] = n_pix_2process[q]
    BY <1>5, <1>17 DEF NewSectionOf
  <2>2. ReaderInTurn(q) /\ SourceInTurn(q)
    BY <1>4
  <2> QED
    BY <1>1, <1>2, <1>14, <2>1, <2>2 DEF ReaderInTurn, SourceInTurn
<1> QED
  BY <1>1, <1>2, <1>4, <1>15, <1>16, <1>17

\* A reader of a serial job goes on to later bins.
LEMMA SerialSection ==
  ASSUME ShapeInv, SectionInv, SerialInv, NEW r \in Readers, ReadSection(r)
  PROVE  SerialInv'
<1>1. PICK m : NewSectionOf(r, m)
  BY ReadSectionFacts
<1>2. /\ input' = input /\ file' = file /\ Readers' = Readers /\ PartsCounted' = PartsCounted
      /\ \A q : Files(q)' = Files(q)
  BY DEF ReadSection, Readers, Files, PartsCounted, BinSize
<1>3. SUFFICES ASSUME input.serial, PartsCounted
               PROVE  /\ InOrder(input.npix, file')
                      /\ \A q \in Readers, p \in Range(file') :
                           BinIn(input.npix, p) \in 0..BinLeft(ibin_end'[q], npix_per_bins'[q])
  BY <1>2 DEF SerialInv
<1>4. /\ InOrder(input.npix, file)
      /\ \A q \in Readers, p \in Range(file) :
           BinIn(input.npix, p) \in 0..BinLeft(ibin_end[q], npix_per_bins[q])
  BY <1>3 DEF SerialInv
<1>5. BinLeft(ibin_end[r], npix_per_bins[r]) \in Nat
      /\ BinLeft(ibin_end'[r], npix_per_bins'[r]) \in Nat
      /\ BinLeft(ibin_end[r], npix_per_bins[r]) <= BinLeft(ibin_end'[r], npix_per_bins'[r])
  <2>1. /\ ibin_end[r] \in Nat /\ Len(npix_per_bins[r]) \in Nat
        /\ Len(npix_per_bins[r]) <= ibin_end[r] /\ NumBins \in Nat
        /\ npix_per_bins[r] # << >> => Len(npix_per_bins[r]) # 0
    <3>1. /\ ibin_end[r] \in 0..NumBins /\ npix_per_bins[r] \in Seq([1..Len(input.npix[r]) -> Nat])
          /\ Len(npix_per_bins[r]) <= ibin_end[r] /\ NumBins \in Nat
      BY JobAssumption DEF SectionInv, Section
    <3>2. npix_per_bins[r] # << >> => Len(npix_per_bins[r]) # 0
      BY <3>1, EmptySeq
    <3> QED
      BY <3>1, <3>2
  <2>2. PICK e \in Nat, l \in Nat : e = ibin_end[r] /\ l = Len(npix_per_bins[r])
    BY <2>1
  <2>3. m \in Nat /\ m >= 1 /\ ibin_end'[r] = e + m /\ Len(npix_per_bins'[r]) = m
        /\ npix_per_bins'[r] # << >>
    BY <1>1, <2>1, <2>2 DEF NewSectionOf
  <2>4. BinLeft(ibin_end'[r], npix_per_bins'[r]) = e + m - m + 1
    BY <2>3 DEF BinLeft
  <2>5. BinLeft(ibin_end[r], npix_per_bins[r]) = IF npix_per_bins[r] = << >> THEN e ELSE e - l + 1
    BY <2>2 DEF BinLeft
  <2>6. npix_per_bins[r] # << >> => l # 0
    BY <2>1, <2>2
  <2> QED
    BY <2>1, <2>2, <2>3, <2>4, <2>5, <2>6
<1>6. ASSUME NEW q \in Readers, NEW p \in Range(file)
      PROVE  BinIn(input.npix, p) \in 0..BinLeft(ibin_end'[q], npix_per_bins'[q])
  <2>1. CASE q = r
    <3>1. \A x, y \in Nat : x <= y => 0..x \subseteq 0..y
      OBVIOUS
    <3> QED
      BY <1>4, <1>5, <2>1, <3>1
  <2>2. CASE q # r
    <3>1. ibin_end'[q] = ibin_end[q] /\ npix_per_bins'[q] = npix_per_bins[q]
      BY <1>1, <2>2 DEF NewSectionOf
    <3> QED
      BY <1>4, <3>1
  <2> QED
    BY <2>1, <2>2
<1> QED
  BY <1>2, <1>4, <1>6

\* What is pushed into the cache of a source goes on where it ended.
PushedIs(all, c, first, m, p) ==
  /\ p.edges # << >> /\ p.completed /\ Labelled(all, p.pix, p.edges, p.range)
  /\ first <= p.range[1] /\ p.range[2] = m.bin_range[2]

\* A place behind others.
LEMMA ShiftedPlace ==
  ASSUME NEW m \in Nat, NEW n \in Nat, NEW a \in Nat, NEW b \in Nat, a >= 1, b <= n + 1,
         NEW j \in Int, a + m <= j, j <= b + m - 1
  PROVE  \E w \in Int : j = m + w /\ w \in 1..n /\ w \in a..(b - 1)
<1>1. j - m \in Int /\ j = m + (j - m) /\ j - m \in 1..n /\ j - m \in a..(b - 1)
  OBVIOUS
<1> QED
  BY <1>1

\* Bins of pixels, and those that follow them.
LEMMA JoinLabelled ==
  ASSUME NEW all, NEW s \in Seq(Pixel), NEW e, GoodEdges(e, s), s # << >>,
         NEW t \in Seq(Pixel), NEW f, GoodEdges(f, t), t # << >>,
         NEW x \in Nat, NEW y \in Nat, NEW u \in Nat, NEW v \in Nat, u = y + 1,
         Labelled(all, s, e, <<x, y>>), Labelled(all, t, f, <<u, v>>)
  PROVE  Labelled(all, s \o t, Joined(e, f, 0), <<x, v>>)
<1> DEFINE new == Joined(e, f, 0)
<1>1. JoinIs(e, f, s, t, 0)
  BY JoinFacts
<1>2. PICK ne \in Nat, nf \in Nat, ns \in Nat, nt \in Nat :
        /\ ne = Len(e) /\ nf = Len(f) /\ ns = Len(s) /\ nt = Len(t) /\ ne >= 2 /\ nf >= 2
  BY EdgesFacts
<1>3. /\ Len(new) = ne - 1 + nf
      /\ \A j \in 1..(ne - 1) : new[j] = e[j]
      /\ \A k \in 1..nf : new[ne - 1 + k] = f[k] + ns
  <2>1. /\ Len(new) = Len(e) - 1 + Len(f) - 0
        /\ \A j \in 1..(Len(e) - 1) : new[j] = e[j]
        /\ \A k \in 1..(Len(f) - 0) : new[Len(e) - 1 + k] = f[k + 0] + Len(s)
    BY <1>1 DEF JoinIs
  <2>2. \A k \in 1..nf : new[ne - 1 + k] = f[k] + ns
    <3> TAKE k \in 1..nf
    <3>1. k \in 1..(nf - 0) /\ k + 0 = k
      BY <1>2
    <3> QED
      BY <1>2, <2>1, <3>1
  <2> QED
    BY <1>2, <2>1, <2>2
<1>4. /\ ne = y - x + 2 /\ x <= y /\ y <= NumBins
      /\ \A k \in 1..(ne - 1) : \A z \in e[k]..(e[k + 1] - 1) : BinIn(all, s[z]) = x + k - 1
  BY <1>2 DEF Labelled
<1>5. /\ nf = v - u + 2 /\ u <= v /\ v <= NumBins
      /\ \A k \in 1..(nf - 1) : \A z \in f[k]..(f[k + 1] - 1) : BinIn(all, t[z]) = u + k - 1
  BY <1>2 DEF Labelled
<1>6. /\ e[ne] = ns + 1 /\ \A k \in 1..ne : e[k] \in Nat /\ e[k] >= 1 /\ e[k] <= ns + 1
  BY <1>2, EdgesFacts DEF GoodEdges
<1>7. f[1] = 1 /\ \A k \in 1..nf : f[k] \in Nat /\ f[k] >= 1 /\ f[k] <= nt + 1
  BY <1>2, EdgesFacts DEF GoodEdges
<1>8. /\ \A j \in 1..ns : (s \o t)[j] = s[j]
      /\ \A j \in 1..nt : (s \o t)[ns + j] = t[j]
  <2>1. \A j \in 1..(Len(s) + Len(t)) :
             (s \o t)[j] = IF j <= Len(s) THEN s[j] ELSE t[j - Len(s)]
    BY ConcatProperties
  <2>2. \A j \in 1..ns : (s \o t)[j] = s[j]
    BY <1>2, <2>1
  <2>3. \A j \in 1..nt : (s \o t)[ns + j] = t[j]
    <3> TAKE j \in 1..nt
    <3>1. ns + j \in 1..(ns + nt) /\ ~(ns + j <= ns) /\ (ns + j) - ns = j
      BY <1>2
    <3> QED
      BY <1>2, <2>1, <3>1
  <2> QED
    BY <2>2, <2>3
<1> HIDE DEF new
<1>9. ASSUME NEW k \in 1..(ne - 1)
      PROVE  new[k] = e[k] /\ new[k + 1] = e[k + 1]
  <2>1. k + 1 \in 1..(ne - 1) \/ k + 1 = ne - 1 + 1
    BY <1>2
  <2>2. new[ne - 1 + 1] = f[1] + ns /\ ne - 1 + 1 = ne
    BY <1>2, <1>3
  <2>3. f[1] + ns = ns + 1
    BY <1>7
  <2> QED
    BY <1>3, <1>6, <2>1, <2>2, <2>3
<1>10. ASSUME NEW k \in 1..(ne - 1), NEW z \in new[k]..(new[k + 1] - 1)
       PROVE  BinIn(all, (s \o t)[z]) = x + k - 1
  <2>1. z \in e[k]..(e[k + 1] - 1)
    BY <1>9, <1>10
  <2>2. PICK a \in Nat, b \in Nat : a = e[k] /\ b = e[k + 1] /\ a >= 1 /\ b <= ns + 1
    <3>1. k \in 1..ne /\ k + 1 \in 1..ne
      BY <1>2
    <3> QED
      BY <1>6, <3>1
  <2>3. z \in 1..ns
    BY <2>1, <2>2, SMTT(30)
  <2> QED
    BY <1>4, <1>8, <2>1, <2>3
<1>11. ASSUME NEW k \in 1..(nf - 1),
              NEW z \in new[ne - 1 + k]..(new[ne - 1 + (k + 1)] - 1)
       PROVE  BinIn(all, (s \o t)[z]) = u + k - 1
  <2>1. PICK a \in Nat, b \in Nat : a = f[k] /\ b = f[k + 1] /\ a >= 1 /\ b <= nt + 1
    <3>1. k \in 1..nf /\ k + 1 \in 1..nf
      BY <1>2
    <3> QED
      BY <1>7, <3>1
  <2>2. new[ne - 1 + k] = a + ns /\ new[ne - 1 + (k + 1)] = b + ns
    <3>1. k \in 1..nf /\ k + 1 \in 1..nf
      BY <1>2
    <3> QED
      BY <1>3, <2>1, <3>1
  <2>3. PICK w \in 1..nt : z = ns + w /\ w \in a..(b - 1)
    <3>1. z \in (a + ns)..(b + ns - 1)
      BY <2>2
    <3>2. PICK o \in Int : o = z /\ a + ns <= o /\ o <= b + ns - 1
      BY <1>2, <2>1, <3>1
    <3>3. \A j \in Int : a + ns <= j /\ j <= b + ns - 1 =>
            \E w \in Int : j = ns + w /\ w \in 1..nt /\ w \in a..(b - 1)
      BY ONLY <2>1, ShiftedPlace, nt \in Nat, ns \in Nat, a \in Nat, b \in Nat, SMTT(30)
    <3> QED
      BY <3>2, <3>3
  <2> QED
    BY <1>5, <1>8, <2>1, <2>3
<1>12. Len(new) = v - x + 2 /\ x <= v
  BY <1>3, <1>4, <1>5
<1>13. ASSUME NEW k \in 1..(Len(new) - 1), NEW z \in new[k]..(new[k + 1] - 1)
       PROVE  BinIn(all, (s \o t)[z]) = x + k - 1
  <2>1. CASE k \in 1..(ne - 1)
    BY <1>10, <1>13, <2>1
  <2>2. CASE k \notin 1..(ne - 1)
    <3>1. PICK j \in 1..(nf - 1) : k = ne - 1 + j /\ k + 1 = ne - 1 + (j + 1)
      <4>1. k - (ne - 1) \in 1..(nf - 1) /\ k = ne - 1 + (k - (ne - 1))
            /\ k + 1 = ne - 1 + ((k - (ne - 1)) + 1)
        BY <1>2, <1>3, <2>2
      <4> QED
        BY <4>1
    <3>2. BinIn(all, (s \o t)[z]) = u + j - 1
      BY <1>11, <1>13, <3>1
    <3>3. u + j - 1 = x + k - 1
      BY <1>2, <1>4, <3>1
    <3> QED
      BY <3>2, <3>3
  <2> QED
    BY <2>1, <2>2
<1>14. Labelled(all, s \o t, new, <<x, v>>)
  BY <1>5, <1>12, <1>13 DEF Labelled
<1> QED
  BY <1>14 DEF new

\* In its turn, a message is.
LEMMA PushedOnTop ==
  ASSUME NEW all, NEW c, GoodCache(c), NEW m \in GoodMessages, NEW first \in Nat,
         LabelledMessage(all, m), m.bin_range[1] = 1 + Received(c, first),
         CacheInTurn(all, c, first), first_bin_to_process_ = first
  PROVE  PushedIs(all, c, first, m, Pushed(c, m))
<1> DEFINE p == Pushed(c, m)
<1>1. /\ m.pix_data # << >> /\ m.last_bin_completed
      /\ Labelled(all, m.pix_data, m.bin_edges, m.bin_range)
  BY DEF LabelledMessage
<1>2. /\ m.bin_range \in Nat \X Nat /\ m.pix_data \in Seq(Pixel) /\ m.bin_edges \in Seq(Nat \ {0})
      /\ GoodEdges(m.bin_edges, m.pix_data) /\ m.bin_edges # << >>
  BY <1>1 DEF GoodMessages, GoodEdges
<1>3. c.range \in Nat \X Nat /\ c.pix \in Seq(Pixel)
      /\ IF c.edges = << >> THEN c.pix = << >> ELSE GoodEdges(c.edges, c.pix)
  BY DEF GoodCache
<1>4. first <= m.bin_range[1]
  <2>1. CASE c.edges = << >>
    <3>1. m.bin_range[1] = 1 + (first - 1)
      BY <2>1 DEF Received
    <3> QED
      BY <3>1
  <2>2. CASE c.edges # << >>
    <3>1. m.bin_range[1] = 1 + c.range[2] /\ first <= c.range[1] /\ c.range[1] <= c.range[2]
      BY <2>2 DEF Received, CacheInTurn, Labelled
    <3>2. c.range[1] \in Nat /\ c.range[2] \in Nat
      BY <1>3
    <3> QED
      BY <3>1, <3>2
  <2> QED
    BY <2>1, <2>2
<1>5. CASE c.pix = << >>
  <2>1. p = [range |-> m.bin_range, edges |-> m.bin_edges, pix |-> m.pix_data,
             completed |-> m.last_bin_completed]
    BY <1>1, <1>5 DEF Pushed
  <2>2. p.range = m.bin_range /\ p.edges = m.bin_edges /\ p.pix = m.pix_data
        /\ p.completed = m.last_bin_completed
    BY <2>1
  <2> HIDE DEF p
  <2>3. PushedIs(all, c, first, m, p)
    BY <1>1, <1>2, <1>4, <2>2 DEF PushedIs
  <2> QED
    BY <2>3 DEF p
<1>6. CASE c.pix # << >>
  <2>1. c.edges # << >> /\ GoodEdges(c.edges, c.pix)
    BY <1>3, <1>6
  <2>2. /\ first <= c.range[1] /\ Labelled(all, c.pix, c.edges, c.range)
        /\ m.bin_range[1] = 1 + c.range[2]
    BY <2>1 DEF CacheInTurn, Received
  <2>3. PICK x \in Nat, y \in Nat, u \in Nat, v \in Nat :
          c.range = <<x, y>> /\ m.bin_range = <<u, v>> /\ u = y + 1
    <3>1. PICK x \in Nat, y \in Nat : c.range = <<x, y>>
      BY <1>3
    <3>2. PICK u \in Nat, v \in Nat : m.bin_range = <<u, v>>
      BY <1>2
    <3> QED
      BY <2>2, <3>1, <3>2
  <2>4. Labelled(all, c.pix \o m.pix_data, Joined(c.edges, m.bin_edges, 0), <<x, v>>)
    <3>1. Labelled(all, c.pix, c.edges, <<x, y>>)
          /\ Labelled(all, m.pix_data, m.bin_edges, <<u, v>>)
      BY <1>1, <2>2, <2>3
    <3> QED
      BY <1>1, <1>2, <1>3, <1>6, <2>1, <2>3, <3>1, JoinLabelled
  <2>5. ~(c.range[2] = m.bin_range[1])
    BY <2>3
  <2>6. p = [range |-> <<x, v>>, completed |-> m.last_bin_completed,
             pix |-> c.pix \o m.pix_data, edges |-> Joined(c.edges, m.bin_edges, 0)]
    <3> DEFINE more == IF c.range[2] = m.bin_range[1] THEN Tail(m.bin_edges) ELSE m.bin_edges
               moved == Front(c.edges) \o [k \in DOMAIN more |-> more[k] + Last(c.edges) - 1]
    <3>1. p = [range |-> <<c.range[1], m.bin_range[2]>>, completed |-> m.last_bin_completed,
               pix |-> c.pix \o m.pix_data, edges |-> moved]
      BY <1>1, <1>6 DEF Pushed
    <3>2. moved = Joined(c.edges, m.bin_edges, 0)
      BY <2>5 DEF Joined
    <3> HIDE DEF moved, p
    <3> QED
      BY <2>3, <3>1, <3>2
  <2>7. Joined(c.edges, m.bin_edges, 0) # << >>
    <3>1. GoodEdges(Joined(c.edges, m.bin_edges, 0), c.pix \o m.pix_data)
      BY <1>1, <1>2, <1>3, <1>6, <2>1, JoinFacts DEF JoinIs
    <3> QED
      BY <3>1 DEF GoodEdges
  <2>8. p.range = <<x, v>> /\ p.edges = Joined(c.edges, m.bin_edges, 0)
        /\ p.pix = c.pix \o m.pix_data /\ p.completed = m.last_bin_completed
    <3>1. PICK a, b, d, e : /\ a = <<x, v>> /\ b = Joined(c.edges, m.bin_edges, 0)
                            /\ d = c.pix \o m.pix_data /\ e = m.last_bin_completed
      OBVIOUS
    <3>2. p = [range |-> a, completed |-> e, pix |-> d, edges |-> b]
      BY <2>6, <3>1
    <3> HIDE DEF p
    <3> QED
      BY <3>1, <3>2
  <2> HIDE DEF p
  <2>9. PushedIs(all, c, first, m, p)
    BY <1>1, <2>2, <2>3, <2>4, <2>7, <2>8 DEF PushedIs
  <2> QED
    BY <2>9 DEF p
<1> QED
  BY <1>5, <1>6

\* The messages behind the one that is received.
LEMMA RestInTurn ==
  ASSUME NEW all, NEW ms \in Seq(GoodMessages), ms # << >>, NEW received, NEW start,
         InTurn(all, ms, received, start)
  PROVE  /\ LabelledMessage(all, Head(ms)) /\ Head(ms).bin_range[1] = 1 + received
         /\ InTurn(all, Tail(ms), Head(ms).bin_range[2], start)
<1>1. PICK n \in Nat : Len(ms) = n + 1
  <2>1. Len(ms) \in Nat /\ Len(ms) # 0
    BY EmptySeq
  <2>2. Len(ms) - 1 \in Nat /\ Len(ms) = (Len(ms) - 1) + 1
    BY <2>1
  <2> QED
    BY <2>2
<1>2. /\ Head(ms) = ms[1] /\ Len(Tail(ms)) = n /\ \A j \in 1..n : Tail(ms)[j] = ms[j + 1]
      /\ Tail(ms) \in Seq(GoodMessages)
  BY <1>1
<1>3. Tail(ms) = << >> <=> n = 0
  BY <1>2, EmptySeq
<1>4. /\ \A j \in 1..(n + 1) :
           /\ LabelledMessage(all, ms[j])
           /\ ms[j].bin_range[1] = 1 + IF j = 1 THEN received ELSE ms[j - 1].bin_range[2]
      /\ start = 1 + ms[n + 1].bin_range[2]
  BY <1>1 DEF InTurn
<1>5. 1 \in 1..(n + 1) /\ \A j \in 1..n : j + 1 \in 1..(n + 1) /\ j + 1 # 1 /\ (j + 1) - 1 = j
  BY <1>1
<1>6. \A j \in 1..n : LabelledMessage(all, Tail(ms)[j])
  BY <1>2, <1>4, <1>5
<1>7. ASSUME NEW j \in 1..n
      PROVE  Tail(ms)[j].bin_range[1]
               = 1 + IF j = 1 THEN Head(ms).bin_range[2] ELSE Tail(ms)[j - 1].bin_range[2]
  <2>1. Tail(ms)[j].bin_range[1] = 1 + ms[j].bin_range[2]
    BY <1>2, <1>4, <1>5
  <2>2. CASE j = 1
    BY <1>2, <2>1, <2>2
  <2>3. CASE j # 1
    <3>1. j - 1 \in 1..n /\ (j - 1) + 1 = j
      BY <1>1, <2>3
    <3>2. Tail(ms)[j - 1] = ms[j]
      BY <1>2, <3>1
    <3> QED
      BY <2>1, <2>3, <3>2
  <2> QED
    BY <2>2, <2>3
<1>8. start = 1 + IF Tail(ms) = << >> THEN Head(ms).bin_range[2]
                  ELSE Tail(ms)[Len(Tail(ms))].bin_range[2]
  <2>1. CASE n = 0
    <3>1. n + 1 = 1
      BY <2>1
    <3> QED
      BY <1>2, <1>3, <1>4, <2>1, <3>1
  <2>2. CASE n # 0
    <3>1. n \in 1..n
      BY <1>1, <2>2
    <3> QED
      BY <1>2, <1>3, <1>4, <2>2, <3>1
  <2> QED
    BY <2>1, <2>2
<1>9. InTurn(all, Tail(ms), Head(ms).bin_range[2], start)
  BY <1>2, <1>6, <1>7, <1>8 DEF InTurn
<1> QED
  BY <1>2, <1>4, <1>5, <1>9, SMTT(30)

\* A place in what is kept.
LEMMA KeptPlace ==
  ASSUME NEW m \in Nat, NEW o \in Nat, NEW a \in Nat, NEW b \in Nat, a >= o, b <= m + 1,
         NEW w \in Int, a - o + 1 <= w, w <= b - o
  PROVE  w \in 1..(m - o + 1) /\ o + w - 1 \in a..(b - 1)
OBVIOUS

\* What stays in the cache is labelled with the bins that stay.
LEMMA KeptLabelled ==
  ASSUME NEW all, NEW c, GoodCache(c), c.edges # << >>, NEW last \in Nat, NEW n \in Nat,
         Labelled(all, c.pix, c.edges, c.range), n = last - c.range[1] + 1,
         last < c.range[2]
  PROVE  LET d == Kept(c, last, n)
         IN  /\ d.range = <<last + 1, c.range[2]>> /\ d.edges # << >> /\ d.completed = c.completed
             /\ Labelled(all, d.pix, d.edges, <<last + 1, c.range[2]>>)
<1> DEFINE d == Kept(c, last, n)
<1>0. c.range \in Nat \X Nat
  BY DEF GoodCache
<1>1. c.edges \in Seq(Nat \ {0}) /\ c.pix \in Seq(Pixel) /\ GoodEdges(c.edges, c.pix)
  BY DEF GoodCache
<1>2. PICK x \in Nat, y \in Nat : c.range = <<x, y>>
  BY <1>0
<1>3. PICK l \in Nat, m \in Nat : l = Len(c.edges) /\ m = Len(c.pix)
  BY <1>1, EdgesFacts
<1>4. /\ l = y - x + 2 /\ x <= y /\ y <= NumBins
      /\ \A k \in 1..(l - 1) : \A z \in c.edges[k]..(c.edges[k + 1] - 1) :
           BinIn(all, c.pix[z]) = x + k - 1
  BY <1>2, <1>3 DEF Labelled
<1>5. n = last - x + 1 /\ last < y /\ n + 1 <= l
  BY <1>2, <1>4
<1>6. KeptIs(c, last, n)
  BY <1>3, <1>5, KeptFacts
<1>7. \A k \in 1..l : c.edges[k] \in Nat /\ c.edges[k] >= 1 /\ c.edges[k] <= m + 1
  BY <1>1, <1>3, EdgesFacts
<1>8. /\ d.range = <<last + 1, c.range[2]>> /\ d.edges # << >> /\ d.completed = c.completed
      /\ Len(d.edges) = l - n
      /\ \A k \in 1..(l - n) : d.edges[k] = c.edges[n + k] - c.edges[n + 1] + 1
      /\ \A j \in 1..Len(d.pix) : d.pix[j] = c.pix[c.edges[n + 1] + j - 1]
      /\ Len(d.pix) = m - c.edges[n + 1] + 1 /\ GoodCache(d)
  BY <1>3, <1>6 DEF KeptIs
<1> HIDE DEF d
<1>9. PICK o \in Nat : o = c.edges[n + 1] /\ o >= 1 /\ o <= m + 1
  <2>1. n + 1 \in 1..l
    BY <1>3, <1>5
  <2> QED
    BY <1>7, <2>1
<1>10. ASSUME NEW k \in 1..(Len(d.edges) - 1), NEW z \in d.edges[k]..(d.edges[k + 1] - 1)
       PROVE  BinIn(all, d.pix[z]) = (last + 1) + k - 1
  <2>0. PICK h \in Nat : h = k /\ h >= 1 /\ h + 1 <= l - n
    BY <1>3, <1>8, SMTT(30)
  <2>1. /\ k \in 1..(l - n) /\ k + 1 \in 1..(l - n) /\ n + k \in 1..(l - 1) /\ n + k \in 1..l
        /\ (n + k) + 1 \in 1..l /\ n + (k + 1) = (n + k) + 1
    BY ONLY <1>3, <2>0, n \in Nat
  <2>2. PICK a \in Nat, b \in Nat :
          a = c.edges[n + k] /\ b = c.edges[(n + k) + 1] /\ a >= o /\ b <= m + 1
    <3>1. \A i, j \in 1..l : i <= j => c.edges[i] <= c.edges[j]
      BY <1>1, <1>3 DEF GoodEdges
    <3>2. n + 1 \in 1..l /\ n + 1 <= n + k
      BY ONLY <1>3, <1>5, <2>0, n \in Nat
    <3>3. c.edges[n + 1] <= c.edges[n + k]
      BY <2>1, <3>1, <3>2
    <3>4. c.edges[n + k] \in Nat /\ c.edges[(n + k) + 1] \in Nat /\ c.edges[(n + k) + 1] <= m + 1
      BY <1>7, <2>1
    <3> QED
      BY <1>9, <3>3, <3>4
  <2>3. d.edges[k] = a - o + 1 /\ d.edges[k + 1] = b - o + 1
    BY <1>8, <1>9, <2>1, <2>2
  <2>4. PICK w \in Int : w = z /\ a - o + 1 <= w /\ w <= b - o
    <3>1. z \in (a - o + 1)..(b - o + 1 - 1)
      BY <1>10, <2>3
    <3> QED
      BY ONLY <1>9, <2>2, <3>1
  <2>5. w \in 1..(m - o + 1) /\ o + w - 1 \in a..(b - 1)
    <3>1. a >= o /\ b <= m + 1 /\ a - o + 1 <= w /\ w <= b - o
      BY <2>2, <2>4
    <3> QED
      BY ONLY <3>1, KeptPlace, m \in Nat, o \in Nat, a \in Nat, b \in Nat, w \in Int
  <2>6. d.pix[z] = c.pix[o + w - 1]
    BY <1>8, <1>9, <2>4, <2>5
  <2>7. BinIn(all, c.pix[o + w - 1]) = x + (n + k) - 1
    BY <1>4, <2>1, <2>2, <2>5
  <2>8. x + (n + k) - 1 = (last + 1) + k - 1
    BY ONLY <1>2, <1>5, <2>0, last \in Nat, n \in Nat
  <2> QED
    BY <2>6, <2>7, <2>8
<1>11. Len(d.edges) = y - (last + 1) + 2 /\ last + 1 <= y
  BY <1>2, <1>4, <1>5, <1>8, SMTT(30)
<1>12. Labelled(all, d.pix, d.edges, <<last + 1, c.range[2]>>)
  BY <1>2, <1>4, <1>10, <1>11, SMTT(30) DEF Labelled
<1> QED
  BY <1>8, <1>12 DEF d

\* The pixels of a bin of the cache are of that bin.
LEMMA BinOfLabelled ==
  ASSUME NEW all, NEW c, GoodCache(c), NEW last \in Nat, NEW b \in Nat, b <= last,
         c.edges = << >> \/ Len(c.edges) >= Taken(c, last) + 1,
         Labelled(all, c.pix, c.edges, c.range), NEW p \in Range(BinOfCache(c, b))
  PROVE  BinIn(all, p) = b
<1> DEFINE k == b - c.range[1] + 1
           u == c.edges[k]
           v == c.edges[k + 1] - 1
<1>1. SliceOf(c, last, b)
  BY SliceOfFacts
<1>2. BinOfCache(c, b) # << >>
  BY DEF Range
<1>3. /\ c.edges # << >> /\ k \in 1..Taken(c, last) /\ SliceIs(Pixel, c.pix, u, v)
      /\ BinOfCache(c, b) = SubSeq(c.pix, u, v)
  BY <1>1, <1>2, SMTT(30) DEF SliceOf
<1>4. PICK j \in u..v : p = c.pix[j]
  BY <1>3 DEF SliceIs
<1>5. GoodEdges(c.edges, c.pix) /\ c.pix \in Seq(Pixel)
  BY <1>3 DEF GoodCache
<1>6. PICK x \in Nat, y \in Nat : c.range = <<x, y>>
  <2>1. c.range \in Nat \X Nat
    BY DEF GoodCache
  <2> QED
    BY <2>1
<1>7. PICK l \in Nat : l = Len(c.edges)
  BY <1>5, EdgesFacts
<1>8. k \in 1..(l - 1)
  BY <1>3, <1>5, <1>6, <1>7 DEF Taken
<1> HIDE DEF k
<1>9. BinIn(all, c.pix[j]) = x + k - 1
  <2>0. c.range[1] = x
    BY <1>6
  <2>1. \A i \in 1..(l - 1) : \A z \in c.edges[i]..(c.edges[i + 1] - 1) :
          BinIn(all, c.pix[z]) = x + i - 1
    BY <1>7, <2>0, Zenon DEF Labelled
  <2>2. j \in c.edges[k]..(c.edges[k + 1] - 1)
    OBVIOUS
  <2>3. \A z \in c.edges[k]..(c.edges[k + 1] - 1) : BinIn(all, c.pix[z]) = x + k - 1
    BY <1>8, <2>1
  <2> QED
    BY <2>2, <2>3
<1>10. x + k - 1 = b
  BY <1>6 DEF k
<1> QED
  BY <1>4, <1>9, <1>10

\* What every source has in the cache when the messages are in it; ms are those
\* left.
PushedRight(r, ms) ==
  LET p == PushedAll[r]
  IN  /\ GoodCache(p) /\ p.edges # << >> /\ p.completed
      /\ Labelled(input.npix, p.pix, p.edges, p.range) /\ first_bin_to_process_ <= p.range[1]
      /\ InTurn(input.npix, ms, p.range[2], nbins_start[r])
MessagesLeft(r) == IF r \in Providers THEN Tail(mess[r]) ELSE mess[r]
PushedInTurn(r) == PushedRight(r, mess'[r])

LEMMA AllPushed ==
  ASSUME ShapeInv, CacheInv, Asked,
         \A r \in Readers : SourceInTurn(r)
  PROVE  /\ \A r \in Readers : PushedRight(r, MessagesLeft(r))
         /\ first_bin_to_process_ <= NumBins
<1>1. first_bin_to_process_ \in Nat /\ NumBins \in Nat
  BY JobAssumption DEF ShapeInv
<1> DEFINE all == input.npix
           first == first_bin_to_process_
<1>2. ASSUME NEW r \in Readers
      PROVE  /\ GoodCache(Cached(r)) /\ mess[r] \in Seq(GoodMessages)
             /\ InTurn(all, mess[r], Received(Cached(r), first), nbins_start[r])
             /\ CacheInTurn(all, Cached(r), first)
             /\ r \in Providers <=> Awaited(Cached(r))
             /\ r \in Providers => mess[r] # << >> /\ MessagesLeft(r) = Tail(mess[r])
                                     /\ PushedAll[r] = Pushed(Cached(r), Head(mess[r]))
             /\ r \notin Providers => MessagesLeft(r) = mess[r] /\ PushedAll[r] = Cached(r)
  <2>1. GoodCache(Cached(r)) /\ mess[r] \in Seq(GoodMessages)
    BY DEF CacheInv
  <2>2. InTurn(all, mess[r], Received(Cached(r), first), nbins_start[r])
        /\ CacheInTurn(all, Cached(r), first)
    BY DEF SourceInTurn
  <2>3. r \in Providers <=> Awaited(Cached(r))
    BY DEF Providers, Awaited, Cached
  <2>4. r \in Providers => mess[r] # << >> /\ MessagesLeft(r) = Tail(mess[r])
                             /\ PushedAll[r] = Pushed(Cached(r), Head(mess[r]))
    BY DEF Asked, MessagesLeft, PushedAll
  <2>5. r \notin Providers => MessagesLeft(r) = mess[r] /\ PushedAll[r] = Cached(r)
    BY DEF Asked, MessagesLeft, PushedAll
  <2> QED
    BY <2>1, <2>2, <2>3, <2>4, <2>5
<1>3. ASSUME NEW r \in Providers
      PROVE  /\ Head(mess[r]) \in GoodMessages /\ LabelledMessage(all, Head(mess[r]))
             /\ Head(mess[r]).bin_range[1] = 1 + Received(Cached(r), first)
             /\ InTurn(all, MessagesLeft(r), Head(mess[r]).bin_range[2], nbins_start[r])
             /\ PushedIs(all, Cached(r), first, Head(mess[r]), PushedAll[r])
  <2>1. r \in Readers
    BY DEF Providers
  <2>2. PICK ms \in Seq(GoodMessages) : ms = mess[r] /\ ms # << >>
    BY <1>2, <2>1
  <2>3. Head(ms) \in GoodMessages
    BY <2>2
  <2>4. /\ LabelledMessage(all, Head(ms)) /\ Head(ms).bin_range[1] = 1 + Received(Cached(r), first)
        /\ InTurn(all, Tail(ms), Head(ms).bin_range[2], nbins_start[r])
    <3>1. InTurn(all, ms, Received(Cached(r), first), nbins_start[r])
      BY <1>2, <2>1, <2>2
    <3> QED
      BY <2>2, <3>1, RestInTurn
  <2>5. PushedIs(all, Cached(r), first, Head(ms), Pushed(Cached(r), Head(ms)))
    BY <1>1, <1>2, <2>1, <2>3, <2>4, PushedOnTop
  <2> QED
    BY <1>2, <2>1, <2>2, <2>3, <2>4, <2>5
<1>4. ASSUME NEW r \in Readers
      PROVE  GoodCache(PushedAll[r])
  BY <1>1, <1>2, <1>3, PushedFacts
<1>5. first <= NumBins
  <2>1. CASE Providers # {}
    <3>1. PICK r \in Providers : TRUE
      BY <2>1
    <3>2. /\ r \in Readers /\ Labelled(all, PushedAll[r].pix, PushedAll[r].edges, PushedAll[r].range)
          /\ first <= PushedAll[r].range[1]
      BY <1>3 DEF Providers, PushedIs
    <3>3. PushedAll[r].range[1] \in Nat /\ PushedAll[r].range[2] \in Nat
      <4>1. PushedAll[r].range \in Nat \X Nat
        BY <1>4, <3>2 DEF GoodCache
      <4> QED
        BY <4>1
    <3>4. PushedAll[r].range[1] <= PushedAll[r].range[2] /\ PushedAll[r].range[2] <= NumBins
      BY <3>2 DEF Labelled
    <3> QED
      BY <1>1, <3>2, <3>3, <3>4
  <2>2. CASE InCache
    <3>1. PICK r \in Readers : read_pix_cache_[r] # << >>
      BY <2>2 DEF InCache
    <3>2. Cached(r).edges # << >> /\ Cached(r).range \in Nat \X Nat
      BY <1>2, <3>1 DEF GoodCache, Cached
    <3>3. first <= Cached(r).range[1] /\ Labelled(all, Cached(r).pix, Cached(r).edges, Cached(r).range)
      BY <1>2, <3>2 DEF CacheInTurn
    <3>4. Cached(r).range[1] <= Cached(r).range[2] /\ Cached(r).range[2] <= NumBins
      BY <3>3 DEF Labelled
    <3>5. Cached(r).range[1] \in Nat /\ Cached(r).range[2] \in Nat
      BY <3>2
    <3> QED
      BY <1>1, <3>3, <3>4, <3>5
  <2> QED
    BY <2>1, <2>2 DEF Asked
<1>6. ASSUME NEW r \in Readers
      PROVE  PushedRight(r, MessagesLeft(r))
  <2>1. GoodCache(PushedAll[r])
    BY <1>4
  <2>2. CASE r \in Providers
    <3>1. /\ PushedIs(all, Cached(r), first, Head(mess[r]), PushedAll[r])
          /\ InTurn(all, MessagesLeft(r), Head(mess[r]).bin_range[2], nbins_start[r])
      BY <1>3, <2>2
    <3> QED
      BY <2>1, <3>1 DEF PushedIs, PushedRight
  <2>3. CASE r \notin Providers
    <3>1. ~Awaited(Cached(r)) /\ PushedAll[r] = Cached(r) /\ MessagesLeft(r) = mess[r]
      BY <1>2, <2>3
    <3>2. CacheInTurn(all, Cached(r), first)
          /\ InTurn(all, mess[r], Received(Cached(r), first), nbins_start[r])
      BY <1>2
    <3>3. Cached(r).edges # << >>
      BY <1>5, <3>1, <3>2 DEF CacheInTurn
    <3> QED
      BY <2>1, <3>1, <3>2, <3>3 DEF CacheInTurn, Received, PushedRight
  <2> QED
    BY <2>2, <2>3
<1> QED
  BY <1>5, <1>6

LEMMA AllPushedInTurn ==
  ASSUME ShapeInv, CacheInv, Receives, \A r \in Readers : SourceInTurn(r)
  PROVE  \A r \in Readers : PushedInTurn(r)
<1>1. Asked
  BY DEF Asked, Receives
<1>2. \A r \in Readers : PushedRight(r, MessagesLeft(r))
  BY <1>1, AllPushed
<1>3. \A r \in Readers : mess'[r] = MessagesLeft(r)
  BY DEF Receives, MessagesLeft
<1> QED
  BY <1>2, <1>3 DEF PushedInTurn

\* The bins up to the last that all have delivered are popped; the next one is
\* to be processed then.
LEMMA NextIs ==
  ASSUME ShapeInv, CacheInv, Receives, \A r \in Readers : PushedInTurn(r)
  PROVE  /\ UpTo \in Nat /\ first_bin_to_process_' = UpTo + 1
         /\ \A r \in Readers : UpTo <= PushedAll[r].range[2]
         /\ first_bin_to_process_ <= FirstBin /\ first_bin_to_process_ <= UpTo
<1>1. /\ FirstBin \in Nat /\ UpTo \in Nat /\ Readers # {} /\ first_bin_to_process_ \in Nat
      /\ \A r \in Readers : /\ PushedAll[r].range[1] \in Nat /\ PushedAll[r].range[2] \in Nat
                             /\ UpTo <= PushedAll[r].range[2]
                             /\ BinsTaken[r] = Taken(PushedAll[r], UpTo)
  <2>1. Readers # {} /\ first_bin_to_process_ \in Nat
    BY DEF Receives, InCache, Providers, ShapeInv
  <2> QED
    BY <2>1, ReceivesFacts DEF ReceivesOf
<1>2. \A r \in Readers : /\ first_bin_to_process_ <= PushedAll[r].range[1] /\ PushedAll[r].completed
                         /\ PushedAll[r].range[1] <= PushedAll[r].range[2]
  BY DEF PushedInTurn, PushedRight, Labelled
<1>3. ASSUME NEW r \in Pops
      PROVE  Popped(PushedAll[r], UpTo, BinsTaken[r]).range[1] = UpTo + 1
  <2>1. r \in Readers /\ BinsTaken[r] > 0
    BY DEF Pops
  <2>2. PICK p : p = PushedAll[r] /\ p.completed /\ GoodCache(p)
    BY <1>2, <2>1 DEF PushedInTurn, PushedRight
  <2>3. CASE UpTo < p.range[2]
    <3>1. Popped(p, UpTo, BinsTaken[r]) = Kept(p, UpTo, BinsTaken[r])
      BY <2>3 DEF Popped
    <3>2. Kept(p, UpTo, BinsTaken[r]).range = [p.range EXCEPT ![1] = UpTo + 1]
      BY <2>2 DEF Kept, GoodCache
    <3>3. PICK x \in Nat, y \in Nat : p.range = <<x, y>>
      <4>1. p.range \in Nat \X Nat
        BY <2>2 DEF GoodCache
      <4> QED
        BY <4>1
    <3> QED
      BY <2>2, <3>1, <3>2, <3>3
  <2>4. CASE ~(UpTo < p.range[2])
    <3>1. UpTo = p.range[2]
      BY <1>1, <2>1, <2>2, <2>4
    <3>2. Popped(p, UpTo, BinsTaken[r]).range = <<p.range[2] + 1, p.range[2] + 1>>
      BY <2>2, <2>4 DEF Popped
    <3> QED
      BY <2>2, <3>1, <3>2
  <2> QED
    BY <2>3, <2>4
<1>4. first_bin_to_process_' = UpTo + 1
  <2> DEFINE k == Len(input.npix) + 1
             S == {UpTo + 1} \cup {Popped(PushedAll[r], UpTo, BinsTaken[r]).range[1] :
                                     r \in {q \in Pops : q < k}}
  <2>1. S = {UpTo + 1}
    BY <1>3
  <2>2. NextBin(k) = Min(S)
    BY DEF NextBin
  <2>3. first_bin_to_process_' = NextBin(k)
    BY DEF Receives
  <2>4. UpTo + 1 \in Nat
    BY <1>1
  <2> HIDE DEF S
  <2>5. Min(S) \in S
    BY <2>1, <2>4, MinOfNats
  <2> QED
    BY <2>1, <2>2, <2>3, <2>5
<1>5. first_bin_to_process_ <= FirstBin
  <2> DEFINE S == {PushedAll[r].range[1] : r \in Readers}
  <2>1. S \in SUBSET Nat /\ S # {} /\ \A x \in S : first_bin_to_process_ <= x
    BY <1>1, <1>2
  <2>2. FirstBin = Min(S)
    BY DEF FirstBin
  <2> HIDE DEF S
  <2>3. Min(S) \in S
    BY <2>1, MinOfNats
  <2> QED
    BY <2>1, <2>2, <2>3
<1>6. first_bin_to_process_ <= UpTo
  <2> DEFINE S == {PushedAll[r].range[2] : r \in Readers}
  <2>0. \A r \in Readers : first_bin_to_process_ <= PushedAll[r].range[2]
    BY <1>1, <1>2
  <2>1. S \in SUBSET Nat /\ S # {} /\ \A x \in S : first_bin_to_process_ <= x
    BY <1>1, <2>0
  <2>2. UpTo = Min(S)
    BY DEF UpTo
  <2> HIDE DEF S
  <2>3. Min(S) \in S
    BY <2>1, MinOfNats
  <2> QED
    BY <2>1, <2>2, <2>3
<1> QED
  BY <1>1, <1>4, <1>5, <1>6

\* What is left of a source is in turn for the next bin.
LEMMA PoppedInTurn ==
  ASSUME NEW all, NEW c, GoodCache(c), c.edges # << >>, c.completed,
         Labelled(all, c.pix, c.edges, c.range), NEW last \in Nat, last <= c.range[2],
         NEW d, Remains(c, last, d)
  PROVE  Received(d, last + 1) = c.range[2] /\ CacheInTurn(all, d, last + 1)
<1> DEFINE n == Taken(c, last)
<1>1. PICK x \in Nat, y \in Nat : c.range = <<x, y>>
  <2>1. c.range \in Nat \X Nat
    BY DEF GoodCache
  <2> QED
    BY <2>1
<1>2. x <= y /\ y <= NumBins /\ NumBins \in Nat /\ last <= y
  BY <1>1, JobAssumption DEF Labelled
<1>3. n = IF last < x THEN 0 ELSE last - x + 1
  BY <1>1 DEF Taken
<1>4. CASE ~(n > 0)
  <2>1. d = c
    BY <1>4 DEF Remains
  <2>2. last + 1 <= x
    BY <1>1, <1>3, <1>4
  <2> QED
    BY <1>1, <2>1, <2>2 DEF Received, CacheInTurn
<1>5. CASE n > 0 /\ last < c.range[2]
  <2>1. d = Kept(c, last, n)
    BY <1>5 DEF Remains, Popped
  <2>2. n = last - c.range[1] + 1 /\ n \in Nat
    BY <1>1, <1>3, <1>5
  <2> HIDE DEF n
  <2>3. /\ d.range = <<last + 1, c.range[2]>> /\ d.edges # << >> /\ d.completed = c.completed
        /\ Labelled(all, d.pix, d.edges, <<last + 1, c.range[2]>>)
    <3>1. PICK k \in Nat : k = n /\ k = last - c.range[1] + 1 /\ d = Kept(c, last, k)
      BY <2>1, <2>2
    <3>2. last < c.range[2]
      BY <1>5
    <3>3. LET e == Kept(c, last, k)
          IN  /\ e.range = <<last + 1, c.range[2]>> /\ e.edges # << >> /\ e.completed = c.completed
              /\ Labelled(all, e.pix, e.edges, <<last + 1, c.range[2]>>)
      BY <3>1, <3>2, KeptLabelled
    <3> QED
      BY <3>1, <3>3
  <2> QED
    BY <2>3 DEF Received, CacheInTurn
<1>6. CASE n > 0 /\ ~(last < c.range[2])
  <2>1. last = y
    BY <1>1, <1>2, <1>6
  <2>2. d = [range |-> <<y + 1, y + 1>>, edges |-> << >>, pix |-> << >>, completed |-> y + 1 > NumBins]
    BY <1>1, <1>6 DEF Remains, Popped
  <2>3. d.range[2] = y + 1 /\ d.edges = << >> /\ d.completed = (y + 1 > NumBins)
    BY <2>2
  <2>4. Received(d, last + 1) = y + 1 - 1
    BY <2>1, <2>3 DEF Received
  <2>5. y + 1 <= NumBins => y + 1 < NumBins \/ ~(y + 1 > NumBins)
    BY <1>2
  <2>6. CacheInTurn(all, d, last + 1)
    BY <2>1, <2>3, <2>5 DEF CacheInTurn, Awaited
  <2> QED
    BY <1>1, <2>4, <2>6
<1> QED
  BY <1>4, <1>5, <1>6

\* The bins that are written are in order, and are of no bin before the one to be
\* processed.
LEMMA WrittenOrdered ==
  ASSUME ShapeInv, CacheInv, Receives, \A r \in Readers : PushedInTurn(r)
  PROVE  /\ Written \in Seq(Pixel) /\ InOrder(input.npix, Written)
         /\ \A p \in Range(Written) : BinIn(input.npix, p) \in FirstBin..UpTo
<1> DEFINE all == input.npix
<1>1. FirstBin \in Nat /\ UpTo \in Nat /\ \A r \in Readers : ReceivesOf(r)
  BY ReceivesFacts
<1>2. PICK N : WrittenIs(N)
  BY WrittenFacts
<1>3. /\ Written \in Seq(Pixel) /\ N \in Nat
      /\ \A b \in 1..N : FirstBin + b - 1 \in Nat /\ FirstBin + b - 1 <= UpTo
      /\ \A b \in 1..N : WrittenOf(b) \in Seq(Pixel)
      /\ \A b \in 1..N : Range(WrittenOf(b)) = UNION {Range(BinOfCache(PushedAll[r], FirstBin + b - 1)) :
                                                       r \in Readers}
      /\ N = Taken([range |-> <<FirstBin>>], UpTo)
  BY <1>2 DEF WrittenIs
<1>4. ASSUME NEW r \in Readers, NEW b \in 1..N, NEW p \in Range(BinOfCache(PushedAll[r], FirstBin + b - 1))
      PROVE  BinIn(all, p) = FirstBin + b - 1
  <2>1. /\ GoodCache(PushedAll[r])
        /\ Labelled(all, PushedAll[r].pix, PushedAll[r].edges, PushedAll[r].range)
    BY DEF PushedInTurn, PushedRight
  <2>2. PushedAll[r].edges = << >> \/ Len(PushedAll[r].edges) >= Taken(PushedAll[r], UpTo) + 1
    BY <1>1, RemainsFacts DEF ReceivesOf
  <2> QED
    BY <1>1, <1>3, <2>1, <2>2, BinOfLabelled
<1>5. ASSUME NEW b \in 1..N, NEW p \in Range(WrittenOf(b))
      PROVE  BinIn(all, p) = FirstBin + b - 1
  <2>1. PICK r \in Readers : p \in Range(BinOfCache(PushedAll[r], FirstBin + b - 1))
    BY <1>3, <1>5
  <2> QED
    BY <1>4, <2>1
<1> DEFINE ws == [b \in 1..N |-> WrittenOf(b)]
<1>6. ws \in Seq(Seq(Pixel)) /\ Len(ws) = N /\ \A b \in 1..N : ws[b] = WrittenOf(b)
  BY <1>3
<1>7. Written = FlattenSeq(ws)
  BY <1>3 DEF Written
<1> HIDE DEF ws, all
<1>8. PICK c \in Int : c = FirstBin - 1
  BY <1>1
<1>9. InBins(all, ws, c)
  <2>1. ASSUME NEW k \in 1..Len(ws), NEW x \in 1..Len(ws[k])
        PROVE  BinIn(all, ws[k][x]) = c + k
    <3>1. k \in 1..N /\ ws[k] = WrittenOf(k) /\ WrittenOf(k) \in Seq(Pixel)
      BY <1>3, <1>6
    <3>2. ws[k][x] \in Range(WrittenOf(k))
      BY <3>1 DEF Range
    <3>3. BinIn(all, ws[k][x]) = FirstBin + k - 1
      BY <1>5, <3>1, <3>2
    <3>4. FirstBin + k - 1 = c + k
      BY <1>1, <1>3, <1>8, <3>1
    <3> QED
      BY <3>3, <3>4
  <2> QED
    BY <2>1 DEF InBins
<1>10. OrderedIn(all, Written, c, N)
  BY <1>6, <1>7, <1>9, FlattenInOrder
<1>11. ASSUME NEW p \in Range(Written)
       PROVE  BinIn(all, p) \in FirstBin..UpTo
  <2>1. PICK j \in 1..Len(Written) : p = Written[j]
    BY <1>3, SMTT(30) DEF Range
  <2>2. PICK k \in 1..N : BinIn(all, p) = c + k
    BY <1>10, <2>1 DEF OrderedIn
  <2>3. c + k = FirstBin + k - 1 /\ FirstBin + k - 1 >= FirstBin
    BY <1>1, <1>3, <1>8, <2>2
  <2>4. FirstBin + k - 1 \in FirstBin..UpTo
    BY <1>1, <1>3, <2>3
  <2> QED
    BY <2>2, <2>3, <2>4
<1> QED
  BY <1>3, <1>10, <1>11 DEF OrderedIn, all

\* Receiving and writing keep the order.
LEMMA ParallelReceive ==
  ASSUME ShapeInv, CacheInv, PlaceInv, ParallelInv, Receives
  PROVE  ParallelInv'
<1>1. /\ input' = input /\ UNCHANGED sectionVars /\ Readers' = Readers
      /\ \A q : Files(q)' = Files(q)
  BY DEF Receives, Readers, Files
<1>2. /\ BinsFit' = BinsFit /\ SectionsFilled' = SectionsFilled
      /\ \A q : SectionSize(q)' = SectionSize(q)
  BY <1>1 DEF BinsFit, SectionsFilled, SectionSize, BinSize
<1>3. SUFFICES ASSUME ~input.serial, BinsFit, SectionsFilled
               PROVE  /\ InOrder(input.npix, file')
                      /\ \A p \in Range(file') :
                           BinIn(input.npix, p) \in 0..(first_bin_to_process_' - 1)
                      /\ \A q \in Readers : ReaderInTurn(q)' /\ SourceInTurn(q)'
  BY <1>1, <1>2 DEF ParallelInv
<1>4. /\ InOrder(input.npix, file)
      /\ \A p \in Range(file) : BinIn(input.npix, p) \in 0..(first_bin_to_process_ - 1)
      /\ \A q \in Readers : ReaderInTurn(q) /\ SourceInTurn(q)
  BY <1>3 DEF ParallelInv
<1> DEFINE all == input.npix
           first == first_bin_to_process_
<1>5. \A r \in Readers : PushedInTurn(r)
  BY <1>4, AllPushedInTurn
<1>6. /\ UpTo \in Nat /\ first_bin_to_process_' = UpTo + 1 /\ first <= FirstBin /\ first <= UpTo
      /\ first \in Nat /\ FirstBin \in Nat
      /\ \A r \in Readers : UpTo <= PushedAll[r].range[2]
  BY <1>5, NextIs, ReceivesFacts DEF ShapeInv
<1>7. /\ Written \in Seq(Pixel) /\ InOrder(all, Written)
      /\ \A p \in Range(Written) : BinIn(all, p) \in FirstBin..UpTo
  BY <1>5, WrittenOrdered
<1>8. file \in Seq(Pixel) /\ file' = file \o Written
  BY DEF PlaceInv, Receives
<1>9. InOrder(input.npix, file')
  <2>1. PICK b \in Int : b = first - 1
    BY <1>6
  <2>2. \A p \in Range(file) : BinIn(all, p) \in 0..b
    BY <1>4, <2>1
  <2>3. \A p \in Range(Written) : BinIn(all, p) \in Int /\ b <= BinIn(all, p)
    BY <1>6, <1>7, <2>1
  <2>4. InOrder(all, file)
    BY <1>4
  <2> HIDE DEF all, first
  <2>5. InOrder(all, file \o Written)
    BY <1>7, <1>8, <2>2, <2>3, <2>4, ConcatInOrder
  <2> QED
    BY <1>8, <2>5 DEF all
<1>10. ASSUME NEW p \in Range(file')
       PROVE  BinIn(input.npix, p) \in 0..(first_bin_to_process_' - 1)
  <2>1. p \in Range(file) \/ p \in Range(Written)
    BY <1>7, <1>8, ConcatFacts
  <2>2. first_bin_to_process_' - 1 = UpTo
    BY <1>6
  <2>3. 0..(first - 1) \subseteq 0..UpTo /\ FirstBin..UpTo \subseteq 0..UpTo
    BY <1>6
  <2> QED
    BY <1>4, <1>7, <2>1, <2>2, <2>3
<1>11. ASSUME NEW q \in Readers
       PROVE  ReaderInTurn(q)'
  <2>1. ReaderInTurn(q)
    BY <1>4
  <2> QED
    BY <1>1, <1>2, <2>1 DEF ReaderInTurn, sectionVars
<1>12. ASSUME NEW q \in Readers
       PROVE  SourceInTurn(q)'
  <2>1. Remains(PushedAll[q], UpTo, PoppedAll[q]) /\ Cached(q)' = PoppedAll[q]
    BY ReceivesFacts DEF ReceivesOf
  <2>2. /\ GoodCache(PushedAll[q]) /\ PushedAll[q].edges # << >> /\ PushedAll[q].completed
        /\ Labelled(all, PushedAll[q].pix, PushedAll[q].edges, PushedAll[q].range)
        /\ InTurn(all, mess'[q], PushedAll[q].range[2], nbins_start[q])
    BY <1>5 DEF PushedInTurn, PushedRight
  <2>3. /\ Received(PoppedAll[q], UpTo + 1) = PushedAll[q].range[2]
        /\ CacheInTurn(all, PoppedAll[q], UpTo + 1)
    BY <1>6, <2>1, <2>2, PoppedInTurn
  <2>4. nbins_start' = nbins_start
    BY <1>1 DEF sectionVars
  <2> QED
    BY <1>1, <1>6, <2>1, <2>2, <2>3, <2>4 DEF SourceInTurn
<1> QED
  BY <1>9, <1>10, <1>11, <1>12

\* The job begins with nothing written and the first bin awaited of every source.
LEMMA InitOrder == Init => OrderInv
<1> SUFFICES ASSUME Init
             PROVE  OrderInv
  OBVIOUS
<1>1. /\ input \in Inputs /\ first_bin_to_process_ = 1 /\ file = << >>
      /\ \A r \in Readers : /\ ibin_end[r] = 0 /\ nbins_start[r] = 1 /\ npix_per_bins[r] = << >>
                            /\ npix_processed[r] = 0 /\ n_pix_2process[r] = 0 /\ mess[r] = << >>
                            /\ bin_range_[r] = <<0, 0>> /\ bin_edges_[r] = << >>
                            /\ last_bin_completed_[r] = TRUE
  BY DEF Init, ByReader
<1>2. InOrder(input.npix, file) /\ Range(file) = {}
  BY <1>1 DEF InOrder, Range
<1>3. NumBins \in Nat /\ NumBins # 0
  BY JobAssumption
<1>4. ASSUME NEW r \in Readers
      PROVE  ReaderInTurn(r)
  <2>1. SectionSize(r) \in Int
    <3>1. input.buf \in Nat /\ Len(input.npix[r]) \in Nat \ {0}
      BY <1>1, InputFacts
    <3> QED
      BY <3>1 DEF SectionSize
  <2>2. 0 = 0 * SectionSize(r)
    BY <2>1
  <2>3. \E k \in Nat : ibin_end[r] = k * SectionSize(r)
    <3>1. 0 \in Nat /\ ibin_end[r] = 0 * SectionSize(r)
      BY <1>1, <2>2
    <3> QED
      BY <3>1
  <2>4. nbins_start[r] = ibin_end[r] - Len(npix_per_bins[r]) + 1
    <3>1. Len(<< >>) = 0
      OBVIOUS
    <3> QED
      BY <1>1, <3>1
  <2> QED
    BY <1>1, <2>3, <2>4 DEF ReaderInTurn, Exact
<1>5. ASSUME NEW r \in Readers
      PROVE  SourceInTurn(r)
  <2>1. Cached(r).edges = << >> /\ Cached(r).range = <<0, 0>>
    BY <1>1 DEF Cached
  <2>2. Received(Cached(r), 1) = 0
    BY <2>1 DEF Received
  <2>3. InTurn(input.npix, << >>, 0, 1)
    BY DEF InTurn
  <2>4. CacheInTurn(input.npix, Cached(r), 1)
    <3>1. Cached(r).range[2] < NumBins
      BY <1>3, <2>1
    <3> QED
      BY <2>1, <3>1 DEF CacheInTurn, Awaited
  <2> QED
    BY <1>1, <2>2, <2>3, <2>4 DEF SourceInTurn
<1>6. SerialInv
  BY <1>2 DEF SerialInv
<1>7. ParallelInv
  BY <1>2, <1>4, <1>5 DEF ParallelInv
<1> QED
  BY <1>6, <1>7 DEF OrderInv

\* Order is a matter of what the result is not.
LEMMA StillOrder ==
  ASSUME OrderInv, UNCHANGED StillVars
  PROVE  OrderInv'
<1>1. /\ input' = input /\ ibin_end' = ibin_end /\ nbins_start' = nbins_start
      /\ npix_per_bins' = npix_per_bins /\ npix_in_bins' = npix_in_bins
      /\ npix_processed' = npix_processed /\ n_pix_2process' = n_pix_2process
      /\ mess' = mess /\ bin_range_' = bin_range_
      /\ bin_edges_' = bin_edges_ /\ read_pix_cache_' = read_pix_cache_
      /\ last_bin_completed_' = last_bin_completed_
      /\ first_bin_to_process_' = first_bin_to_process_ /\ file' = file
  BY DEF StillVars, sectionVars, cacheVars
<1>2. Readers' = Readers /\ \A r : Files(r)' = Files(r)
  BY <1>1 DEF Readers, Files
<1>3. /\ \A r : Cached(r)' = Cached(r) /\ SectionSize(r)' = SectionSize(r)
      /\ PartsCounted' = PartsCounted /\ BinsFit' = BinsFit /\ SectionsFilled' = SectionsFilled
  BY <1>1, <1>2 DEF Cached, PartsCounted, BinsFit, BinSize, SectionsFilled, SectionSize
<1>4. SerialInv'
  BY <1>1, <1>2, <1>3 DEF OrderInv, SerialInv
<1>5. \A r : (ReaderInTurn(r) => ReaderInTurn(r)') /\ (SourceInTurn(r) => SourceInTurn(r)')
  BY <1>1, <1>3 DEF ReaderInTurn, SourceInTurn
<1>6. ParallelInv'
  BY <1>1, <1>2, <1>3, <1>5 DEF OrderInv, ParallelInv
<1> QED
  BY <1>4, <1>6 DEF OrderInv

\* Each step leaves what is written, and what is on its way, in order.
LEMMA NextOrder == PlacesInv /\ OrderInv /\ [Next]_vars => OrderInv'
<1> SUFFICES ASSUME PlacesInv, OrderInv, [Next]_vars
             PROVE  OrderInv'
  OBVIOUS
<1>1. /\ ShapeInv /\ SectionInv /\ CountedInv /\ CacheInv /\ PlaceInv
      /\ SerialInv /\ ParallelInv
  BY DEF PlacesInv, OrderInv
<1>2. ASSUME NEW r \in Readers, ReadSection(r)
      PROVE  OrderInv'
  BY <1>1, <1>2, SerialSection, ParallelSection DEF OrderInv
<1>3. ASSUME NEW r \in Readers, NEW step, BlockOf(r, step)
      PROVE  OrderInv'
  BY <1>1, <1>3, SerialBlock, ParallelBlock DEF OrderInv
<1>4. ASSUME Receives
      PROVE  OrderInv'
  <2>1. ParallelInv'
    BY <1>1, <1>4, ParallelReceive
  <2>2. input' = input /\ ~input.serial
    BY <1>4 DEF Receives
  <2>3. SerialInv'
    BY <2>2 DEF SerialInv
  <2> QED
    BY <2>1, <2>3 DEF OrderInv
<1>5. ASSUME Fail \/ Finish \/ UNCHANGED vars
      PROVE  OrderInv'
  <2>1. UNCHANGED StillVars
    BY <1>5 DEF Fail, Finish, vars, StillVars
  <2> QED
    BY <2>1, StillOrder
<1> QED
  BY <1>1, <1>2, <1>3, <1>4, <1>5, StepsOfJob

\* What a serial job writes when parts are counted right, and what a parallel one
\* of regular inputs sends, keeps and writes, is in the order of bins.
THEOREM OrderInvariant == Spec => []OrderInv
<1>1. Init => OrderInv
  BY InitOrder
<1>2. PlacesInv /\ OrderInv /\ [Next]_vars => OrderInv'
  BY NextOrder
<1> QED
  BY <1>1, <1>2, PlacesInvariant, PTL DEF Spec

\* Pixels are written in the order of their bins, serially when parts are counted
\* right and in parallel when bins fit and sections have pixels.
THEOREM WrittenInOrder == Spec => []InBinOrder
<1>1. PlacesInv /\ OrderInv => InBinOrder
  <2> SUFFICES ASSUME PlacesInv, OrderInv,
                      IF input.serial THEN PartsCounted ELSE BinsFit /\ SectionsFilled,
                      NEW j \in 1..(Len(file) - 1)
               PROVE  BinOf(file[j]) <= BinOf(file[j + 1])
    BY DEF InBinOrder
  <2>1. InOrder(input.npix, file)
    BY DEF OrderInv, SerialInv, ParallelInv
  <2>2. file \in Seq(Pixel)
    BY DEF PlacesInv, PlaceInv
  <2>3. j \in 1..Len(file) /\ j + 1 \in 1..Len(file) /\ j <= j + 1
    BY <2>2
  <2>4. BinIn(input.npix, file[j]) <= BinIn(input.npix, file[j + 1])
    BY <2>1, <2>3 DEF InOrder
  <2> QED
    BY <2>4 DEF BinIn, BinOf
<1> QED
  BY <1>1, PlacesInvariant, OrderInvariant, PTL

(***************************************************************************)
(* The third invariant: in a parallel job of regular inputs no pixel that  *)
(* was taken gets lost on its way.  With the first, each is in one place.  *)
(***************************************************************************)
\* Where the pixels of a reader may be besides the output.
Sent(ms) == UNION {Range(ms[j].pix_data) : j \in 1..Len(ms)}
OnTheWay(r) == Sent(mess[r]) \cup Range(read_pix_cache_[r])
Regular == ~input.serial /\ BinsFit /\ SectionsFilled
HeldInv ==
  Regular => \A r \in Readers : TakenBy(r) \subseteq OnTheWay(r) \cup Range(file)

\* A place from u on, counted from there.
LEMMA PlaceFrom ==
  ASSUME NEW u \in Nat, NEW m \in Nat, NEW j \in Nat, u <= j, j <= m
  PROVE  \E i \in Nat : i = j - u + 1 /\ i \in 1..(m - u + 1) /\ u + i - 1 = j
<1>1. j - u + 1 \in Nat /\ j - u + 1 \in 1..(m - u + 1) /\ u + (j - u + 1) - 1 = j
  OBVIOUS
<1> QED
  BY <1>1

\* A pixel of the cache that does not remain in it is in one of the bins written.
LEMMA PoppedWritten ==
  ASSUME NEW all, NEW c, GoodCache(c), c.edges # << >>, Labelled(all, c.pix, c.edges, c.range),
         NEW last \in Nat, last <= c.range[2], NEW d, Remains(c, last, d),
         NEW first \in Nat, first <= c.range[1],
         NEW p \in Range(c.pix), p \notin Range(d.pix)
  PROVE  \E b \in 1..Taken([range |-> <<first>>], last) :
           p \in Range(BinOfCache(c, first + b - 1))
<1> DEFINE n == Taken(c, last)
<1>1. PICK e \in Seq(Nat \ {0}), s \in Seq(Pixel) : e = c.edges /\ s = c.pix /\ GoodEdges(e, s)
  BY DEF GoodCache
<1>2. PICK x \in Nat, y \in Nat : c.range = <<x, y>>
  <2>1. c.range \in Nat \X Nat
    BY DEF GoodCache
  <2> QED
    BY <2>1
<1>3. PICK l \in Nat, m \in Nat : l = Len(e) /\ m = Len(s)
  BY <1>1
<1>4. l = y - x + 2 /\ x <= y /\ last <= y /\ first <= x
  BY <1>1, <1>2, <1>3 DEF Labelled
<1>5. n = IF last < x THEN 0 ELSE last - x + 1
  BY <1>2 DEF Taken
<1>6. n > 0
  <2>1. CASE ~(n > 0)
    <3>1. d = c
      BY <2>1 DEF Remains
    <3> QED
      BY <3>1
  <2> QED
    BY <2>1
<1>7. x <= last /\ n = last - x + 1 /\ n \in Nat /\ n + 1 \in 1..l
  BY <1>4, <1>5, <1>6
<1>8. d = Popped(c, last, n)
  BY <1>6 DEF Remains
<1> HIDE DEF n
<1>9. PICK j \in 1..m : p = s[j]
  BY <1>1, <1>3 DEF Range
<1>10. /\ e[1] = 1 /\ e[l] = m + 1 /\ \A k \in 1..l : e[k] \in Nat
       /\ \A i, k \in 1..l : i <= k => e[i] <= e[k]
  BY <1>1, <1>3 DEF GoodEdges
<1>11. j < e[n + 1]
  <2>1. CASE last < y
    <3>1. d = Kept(c, last, n)
      BY <1>2, <1>8, <2>1 DEF Popped
    <3>2. KeptIs(c, last, n)
      <4>1. n + 1 <= Len(c.edges)
        BY <1>1, <1>3, <1>7
      <4> QED
        BY <1>7, <4>1, KeptFacts
    <3>3. /\ d.pix \in Seq(Pixel) /\ Len(d.pix) = m - e[n + 1] + 1
          /\ \A i \in 1..Len(d.pix) : d.pix[i] = s[e[n + 1] + i - 1]
      BY <1>1, <1>3, <3>1, <3>2 DEF KeptIs, GoodCache
    <3>4. ASSUME ~(j < e[n + 1])
          PROVE  FALSE
      <4>1. PICK u \in Nat : u = e[n + 1]
        BY <1>7, <1>10
      <4>2. PICK i \in Nat : i = j - u + 1 /\ i \in 1..(m - u + 1) /\ u + i - 1 = j
        <5>1. j \in Nat /\ u <= j /\ j <= m
          BY <1>3, <1>9, <3>4, <4>1
        <5> QED
          BY ONLY <5>1, u \in Nat, m \in Nat, PlaceFrom
      <4>3. d.pix[i] = s[j] /\ i \in 1..Len(d.pix)
        BY <3>3, <4>1, <4>2
      <4>4. s[j] \in Range(d.pix)
        BY <3>3, <4>3 DEF Range
      <4> QED
        BY <1>9, <4>4
    <3> QED
      BY <3>4
  <2>2. CASE ~(last < y)
    <3>1. n + 1 = l
      BY <1>4, <1>7, <2>2
    <3> QED
      BY <1>3, <1>9, <1>10, <3>1
  <2> QED
    BY <2>1, <2>2
<1>12. PICK k \in 1..n : e[k] <= j /\ j < e[k + 1]
  <2> DEFINE S == {k \in 1..(n + 1) : j < e[k]}
  <2>1. S \in SUBSET Nat /\ S # {}
    BY <1>7, <1>11
  <2>2. PICK h \in S : \A i \in S : h <= i
    BY <2>1, LeastOfNats
  <2>3. h \in 1..(n + 1) /\ j < e[h] /\ h # 1
    BY <1>10, <2>2
  <2>4. h - 1 \in 1..n /\ h - 1 \in 1..(n + 1) /\ h - 1 < h /\ (h - 1) + 1 = h
    BY <1>7, <2>3
  <2>5. h - 1 \notin S
    BY <2>2, <2>3, <2>4
  <2>6. ~(j < e[h - 1]) /\ h - 1 \in 1..l
    BY <1>7, <2>4, <2>5
  <2>7. e[h - 1] <= j
    BY <1>9, <1>10, <2>6
  <2> QED
    BY <2>3, <2>4, <2>7
<1>13. PICK u \in Nat, v \in Nat : /\ u = e[k] /\ v = e[k + 1] /\ u >= 1 /\ u <= j /\ j < v
                                   /\ v <= m + 1
  <2>1. k \in 1..l /\ k + 1 \in 1..l /\ l \in 1..l /\ k + 1 <= l /\ 1 \in 1..l /\ 1 <= k
    BY <1>3, <1>7
  <2>2. e[k] \in Nat /\ e[k + 1] \in Nat /\ e[1] <= e[k] /\ e[k + 1] <= e[l]
    BY <1>10, <2>1
  <2> QED
    BY <1>10, <1>12, <2>2
<1>14. PICK b \in Nat : b = x + k - 1
  BY <1>7
<1>15. b <= last /\ b - x + 1 = k /\ Taken(c, b) = k
  <2>1. b <= last /\ b - x + 1 = k /\ ~(b < x)
    BY <1>7, <1>14
  <2> QED
    BY <1>2, <2>1 DEF Taken
<1>16. BinOfCache(c, b) = SubSeq(s, u, v - 1)
  <2>1. b - c.range[1] + 1 = k /\ k \in 1..Taken(c, b)
    BY <1>2, <1>7, <1>15
  <2> QED
    BY <1>1, <1>13, <2>1 DEF BinOfCache
<1>17. p \in Range(BinOfCache(c, b))
  <2>1. PICK i \in Nat : i = j - u + 1 /\ i \in 1..((v - 1) - u + 1) /\ u + i - 1 = j
    <3>1. j \in Nat /\ u <= j /\ v - 1 \in Nat /\ j <= v - 1
      BY <1>9, <1>13, SMTT(30)
    <3> QED
      BY ONLY <3>1, u \in Nat, PlaceFrom
  <2>2. SliceIs(Pixel, s, u, v - 1)
    <3>1. u \in Nat \ {0} /\ v - 1 \in Nat /\ u <= (v - 1) + 1 /\ v - 1 <= Len(s)
      BY <1>3, <1>13, SMTT(30)
    <3> QED
      BY <3>1, SliceFacts
  <2>3. PICK t \in Seq(Pixel) : t = SubSeq(s, u, v - 1)
    BY <2>2 DEF SliceIs
  <2>4. Len(t) = (v - 1) - u + 1 /\ t[i] = s[u + i - 1]
    BY <2>1, <2>2, <2>3 DEF SliceIs
  <2>5. i \in DOMAIN t /\ t[i] = p
    <3>1. DOMAIN t = 1..Len(t)
      BY <2>3
    <3> QED
      BY ONLY <1>9, <2>1, <2>4, <3>1
  <2> QED
    BY <1>16, <2>3, <2>5 DEF Range
<1>18. b - first + 1 \in 1..Taken([range |-> <<first>>], last) /\ first + (b - first + 1) - 1 = b
  <2>1. first <= b /\ first <= last
    BY <1>4, <1>7, <1>14
  <2>2. Taken([range |-> <<first>>], last) = last - first + 1
    BY <2>1 DEF Taken
  <2> QED
    BY <1>15, <2>1, <2>2
<1> QED
  BY <1>17, <1>18

\* A message more, or less.
LEMMA SentMore ==
  ASSUME NEW ms \in Seq(GoodMessages), NEW m \in GoodMessages
  PROVE  Sent(Append(ms, m)) = Sent(ms) \cup Range(m.pix_data)
<1>1. PICK n \in Nat : n = Len(ms)
  OBVIOUS
<1>2. /\ Len(Append(ms, m)) = n + 1 /\ Append(ms, m)[n + 1] = m
      /\ \A j \in 1..n : Append(ms, m)[j] = ms[j]
  BY <1>1, AppendProperties
<1>3. 1..(n + 1) = (1..n) \cup {n + 1}
  OBVIOUS
<1> QED
  BY <1>1, <1>2, <1>3 DEF Sent

LEMMA SentLess ==
  ASSUME NEW ms \in Seq(GoodMessages), ms # << >>
  PROVE  Sent(ms) \subseteq Range(Head(ms).pix_data) \cup Sent(Tail(ms))
<1>1. PICK n \in Nat : n = Len(ms) /\ n # 0
  OBVIOUS
<1>2. /\ Len(Tail(ms)) = n - 1 /\ Head(ms) = ms[1]
      /\ \A j \in 1..(n - 1) : Tail(ms)[j] = ms[j + 1]
  BY <1>1, HeadTailProperties
<1>3. ASSUME NEW p \in Sent(ms)
      PROVE  p \in Range(Head(ms).pix_data) \cup Sent(Tail(ms))
  <2>1. PICK j \in 1..n : p \in Range(ms[j].pix_data)
    BY <1>1 DEF Sent
  <2>2. CASE j # 1
    <3>1. j - 1 \in 1..(n - 1) /\ (j - 1) + 1 = j
      BY <2>2
    <3>2. p \in Range(Tail(ms)[j - 1].pix_data)
      BY <1>2, <2>1, <3>1
    <3> QED
      BY <1>2, <3>1, <3>2 DEF Sent
  <2> QED
    BY <1>2, <2>1, <2>2
<1> QED
  BY <1>3

\* What the inputs are does not change.
LEMMA StillRegular ==
  ASSUME input' = input
  PROVE  Regular' = Regular
BY DEF Regular, BinsFit, SectionsFilled, SectionSize, BinSize, Readers, Files

\* A section is read before its pixels are.
LEMMA SectionHeld ==
  ASSUME ShapeInv, SectionInv, HeldInv, CacheInv, NEW r \in Readers, ReadSection(r)
  PROVE  HeldInv'
<1> DEFINE m == Message(<<nbins_start'[r], ibin_end'[r]>>, << >>, << >>, TRUE)
<1>1. /\ UNCHANGED <<input, pos_pixstart, cacheVars, file>> /\ Readers' = Readers
      /\ mess' = mess \/ mess' = [mess EXCEPT ![r] = Append(@, m)]
  BY DEF ReadSection, Readers, ShapeInv
<1> HIDE DEF m
<1>2. \A q \in Readers : TakenBy(q)' = TakenBy(q)
  BY <1>1 DEF TakenBy, Files
<1>3. ASSUME NEW q \in Readers
      PROVE  Sent(mess[q]) \subseteq Sent(mess'[q])
  <2>1. CASE mess'[q] = mess[q]
    BY <2>1
  <2>2. CASE mess'[q] = Append(mess[q], m)
    <3>1. mess[q] \in Seq(GoodMessages)
      BY DEF CacheInv
    <3>2. PICK n \in Nat : n = Len(mess[q])
      BY <3>1
    <3>3. Len(mess'[q]) = n + 1 /\ \A j \in 1..n : mess'[q][j] = mess[q][j] /\ j \in 1..(n + 1)
      BY <2>2, <3>1, <3>2
    <3> QED
      BY <3>2, <3>3 DEF Sent
  <2> QED
    BY <1>1, <2>1, <2>2 DEF ShapeInv
<1> QED
  BY <1>1, <1>2, <1>3, StillRegular DEF HeldInv, OnTheWay, cacheVars

\* What is read of a block is sent.
LEMMA BlockHeld ==
  ASSUME ShapeInv, SectionInv, CacheInv, HeldInv, NEW r \in Readers, NEW step, BlockOf(r, step)
  PROVE  HeldInv'
<1> DEFINE pix == PixelsOf(r, step.read)
           m == BlockMessage(r, step)
<1>1. /\ UNCHANGED <<input, cacheVars>> /\ Readers' = Readers
      /\ IF input.serial THEN file' = file \o pix /\ UNCHANGED mess
         ELSE mess' = [mess EXCEPT ![r] = Append(@, m)] /\ UNCHANGED file
  BY DEF BlockOf, Readers, BlockMessage
<1>2. /\ TakenBy(r)' = TakenBy(r) \cup Range(pix)
      /\ \A q \in Readers \ {r} : TakenBy(q)' = TakenBy(q)
  BY BlockTakesFacts DEF BlockTakes
<1>3. m \in GoodMessages /\ m.pix_data = pix
  BY BlockMessageFacts
<1> HIDE DEF m, pix
<1>4. SUFFICES ASSUME Regular, NEW q \in Readers
               PROVE  TakenBy(q)' \subseteq Sent(mess'[q]) \cup Range(read_pix_cache_[q]) \cup Range(file)
  BY <1>1, StillRegular DEF HeldInv, OnTheWay, cacheVars, Regular
<1>5. TakenBy(q) \subseteq Sent(mess[q]) \cup Range(read_pix_cache_[q]) \cup Range(file)
  BY <1>4 DEF HeldInv, OnTheWay
<1>6. mess'[q] = IF q = r THEN Append(mess[q], m) ELSE mess[q]
  BY <1>1, <1>4 DEF ShapeInv, Regular
<1>7. Sent(mess'[q]) = IF q = r THEN Sent(mess[q]) \cup Range(pix) ELSE Sent(mess[q])
  BY <1>3, <1>6, SentMore DEF CacheInv
<1> QED
  BY <1>2, <1>5, <1>7

\* What the writer receives is in the cache then, and what leaves the cache is
\* written.
LEMMA ReceiveHeld ==
  ASSUME ShapeInv, CacheInv, PlaceInv, ParallelInv, HeldInv, Receives
  PROVE  HeldInv'
<1>1. input' = input /\ pos_pixstart' = pos_pixstart /\ Readers' = Readers /\ file' = file \o Written
  BY DEF Receives, Readers
<1>2. SUFFICES ASSUME Regular, NEW r \in Readers, NEW p \in TakenBy(r)
               PROVE  p \in Sent(mess'[r]) \cup Range(read_pix_cache_'[r]) \cup Range(file')
  <2>1. \A q \in Readers : TakenBy(q)' = TakenBy(q)
    BY <1>1 DEF TakenBy, Files
  <2> QED
    BY <1>1, <2>1, StillRegular DEF HeldInv, OnTheWay
<1>3. \A q \in Readers : PushedInTurn(q)
  <2>1. \A q \in Readers : SourceInTurn(q)
    BY <1>2 DEF ParallelInv, Regular
  <2> QED
    BY <2>1, AllPushedInTurn
<1>4. FirstBin \in Nat /\ UpTo \in Nat /\ ReceivesOf(r)
  BY ReceivesFacts
<1>5. PICK N : WrittenIs(N)
  BY WrittenFacts
<1>6. Range(file') = Range(file) \cup Range(Written)
  BY <1>1, <1>5, ConcatFacts DEF PlaceInv, WrittenIs
<1> DEFINE c == PushedAll[r]
           d == PoppedAll[r]
<1>7. GoodCache(c) /\ Remains(c, UpTo, d) /\ FirstBin <= c.range[1] /\ read_pix_cache_'[r] = d.pix
  BY <1>4 DEF ReceivesOf, Cached
<1>8. c.edges # << >> /\ Labelled(input.npix, c.pix, c.edges, c.range)
  BY <1>3 DEF PushedInTurn, PushedRight
<1>9. UpTo <= c.range[2]
  BY <1>4 DEF ReceivesOf
<1>10. CASE p \in Range(file)
  BY <1>6, <1>10
<1>11. CASE p \in Range(c.pix)
  <2>1. CASE p \notin Range(d.pix)
    <3> HIDE DEF c, d
    <3>1. PICK b \in 1..Taken([range |-> <<FirstBin>>], UpTo) :
            p \in Range(BinOfCache(c, FirstBin + b - 1))
      BY <1>4, <1>7, <1>8, <1>9, <1>11, <2>1, PoppedWritten
    <3>2. b \in 1..N /\ p \in Range(WrittenOf(b))
      BY <1>5, <3>1 DEF WrittenIs, c
    <3> QED
      BY <1>5, <1>6, <3>2 DEF WrittenIs
  <2> QED
    BY <1>7, <2>1
<1>12. CASE p \in Sent(mess[r]) /\ p \notin Range(c.pix)
  <2>1. mess[r] \in Seq(GoodMessages) /\ read_pix_cache_[r] \in Seq(Pixel)
    BY DEF CacheInv, GoodCache, Cached
  <2>2. CASE r \in Providers
    <3>1. mess[r] # << >> /\ mess'[r] = Tail(mess[r])
      BY <2>2 DEF Receives
    <3>2. Head(mess[r]).pix_data \in Seq(Pixel)
      BY <2>1, <3>1 DEF GoodMessages
    <3>3. c.pix = read_pix_cache_[r] \o Head(mess[r]).pix_data
      BY <1>4, <2>2 DEF ReceivesOf
    <3>4. Range(Head(mess[r]).pix_data) \subseteq Range(c.pix)
      BY <2>1, <3>2, <3>3, ConcatFacts
    <3> QED
      BY <1>12, <2>1, <3>1, <3>4, SentLess
  <2>3. CASE r \notin Providers
    <3>1. mess'[r] = mess[r]
      BY <2>3 DEF Receives
    <3> QED
      BY <1>12, <3>1
  <2> QED
    BY <2>2, <2>3
<1>13. Range(read_pix_cache_[r]) \subseteq Range(c.pix)
  <2>1. mess[r] \in Seq(GoodMessages) /\ read_pix_cache_[r] \in Seq(Pixel)
    BY DEF CacheInv, GoodCache, Cached
  <2> DEFINE h == IF r \in Providers THEN Head(mess[r]).pix_data ELSE << >>
  <2>2. h \in Seq(Pixel)
    <3>1. CASE r \in Providers
      <4>1. mess[r] # << >>
        BY <3>1 DEF Receives
      <4> QED
        BY <2>1, <3>1, <4>1 DEF GoodMessages
    <3> QED
      BY <3>1
  <2>3. c.pix = read_pix_cache_[r] \o h
    BY <1>4 DEF ReceivesOf
  <2> HIDE DEF h, c
  <2> QED
    BY <2>1, <2>2, <2>3, ConcatFacts
<1>14. p \in Sent(mess[r]) \cup Range(read_pix_cache_[r]) \cup Range(file)
  BY <1>2 DEF HeldInv, OnTheWay
<1> QED
  BY <1>10, <1>11, <1>12, <1>13, <1>14

\* The job begins with nothing taken, and no step loses a pixel.
LEMMA InitHeld == Init => HeldInv
<1> SUFFICES ASSUME Init, NEW r \in Readers
             PROVE  TakenBy(r) = {}
  BY DEF HeldInv
<1>1. \A i \in Files(r) : pos_pixstart[r][i] = 0 /\ 1..pos_pixstart[r][i] = {}
  BY DEF Init
<1> QED
  BY <1>1 DEF TakenBy

\* Each step of a regular job leaves what it has taken in messages, cache or output.
LEMMA NextHeld == PlacesInv /\ OrderInv /\ HeldInv /\ [Next]_vars => HeldInv'
<1> SUFFICES ASSUME PlacesInv, OrderInv, HeldInv, [Next]_vars
             PROVE  HeldInv'
  OBVIOUS
<1>1. ShapeInv /\ SectionInv /\ CacheInv /\ PlaceInv /\ ParallelInv
  BY DEF PlacesInv, OrderInv
<1>2. ASSUME NEW r \in Readers, ReadSection(r)
      PROVE  HeldInv'
  BY <1>1, <1>2, SectionHeld
<1>3. ASSUME NEW r \in Readers, NEW step, BlockOf(r, step)
      PROVE  HeldInv'
  BY <1>1, <1>3, BlockHeld
<1>4. ASSUME Receives
      PROVE  HeldInv'
  BY <1>1, <1>4, ReceiveHeld
<1>5. ASSUME Fail \/ Finish \/ UNCHANGED vars
      PROVE  HeldInv'
  <2>1. UNCHANGED <<input, pos_pixstart, mess, cacheVars, file>>
    BY <1>5 DEF Fail, Finish, vars
  <2>2. Readers' = Readers /\ \A r : TakenBy(r)' = TakenBy(r)
    BY <2>1 DEF Readers, TakenBy, Files
  <2> QED
    BY <2>1, <2>2, StillRegular DEF HeldInv, OnTheWay, cacheVars
<1> QED
  BY <1>1, <1>2, <1>3, <1>4, <1>5, StepsOfJob

LEMMA HeldInvariant == Spec => []HeldInv
<1>1. Init => HeldInv
  BY InitHeld
<1>2. PlacesInv /\ OrderInv /\ HeldInv /\ [Next]_vars => HeldInv'
  BY NextHeld
<1> QED
  BY <1>1, <1>2, PlacesInvariant, OrderInvariant, PTL DEF Spec

\* Where pixels may be: <<0, 0>> is the output, <<r, 0>> the cache of reader r and
\* <<r, j>> message j on its way from the reader to the writer.
Places == {<<0, 0>>} \cup UNION {{r} \X (0..Len(mess[r])) : r \in Readers}
PixelsIn(h) ==
  CASE h[1] = 0 -> file
    [] h[1] # 0 /\ h[2] = 0 -> read_pix_cache_[h[1]]
    [] h[1] # 0 /\ h[2] # 0 -> mess[h[1]][h[2]].pix_data
InOnePlace ==
  /\ \A h \in Places : IsInjective(PixelsIn(h)) /\ Range(PixelsIn(h)) \subseteq PixelsTaken
  /\ \A g, h \in Places : g # h => Range(PixelsIn(g)) \cap Range(PixelsIn(h)) = {}
  /\ input.serial \/ Regular => PixelsTaken = UNION {Range(PixelsIn(h)) : h \in Places}

\* Output, caches and messages never have a pixel twice or in common, and what
\* they have was taken from the files.  In a serial job, and in a parallel one
\* whose bins fit the buffers and whose sections have pixels, they have all that
\* was taken.
THEOREM OnePlace == Spec => []InOnePlace
<1>1. PlacesInv /\ HeldInv => InOnePlace
  <2> SUFFICES ASSUME PlacesInv, HeldInv
               PROVE  InOnePlace
    OBVIOUS
  <2>1. ShapeInv /\ CacheInv /\ PlaceInv
    BY DEF PlacesInv
  <2>2. PICK R \in Nat : Readers = 1..R
    BY <2>1, InputFacts DEF ShapeInv
  <2>3. /\ IsInjective(file) /\ Range(file) \subseteq PixelsTaken
        /\ \A r \in Readers : Apart(TakenBy(r), read_pix_cache_[r], mess[r], Range(file))
    BY <2>1 DEF PlaceInv
  <2>4. ASSUME NEW h \in Places, h # <<0, 0>>
        PROVE  h[1] \in Readers /\ h[1] # 0 /\ h[2] \in 0..Len(mess[h[1]]) /\ h = <<h[1], h[2]>>
    BY <2>2, <2>4 DEF Places
  <2>5. PixelsIn(<<0, 0>>) = file
    BY DEF PixelsIn
  <2>6. ASSUME NEW r \in Readers
        PROVE  PixelsIn(<<r, 0>>) = read_pix_cache_[r] /\ <<r, 0>> \in Places
    <3>1. r # 0
      BY <2>2
    <3>2. Len(mess[r]) \in Nat
      BY <2>1 DEF CacheInv
    <3> QED
      BY <3>1, <3>2 DEF PixelsIn, Places
  <2>7. ASSUME NEW r \in Readers, NEW j \in 1..Len(mess[r])
        PROVE  PixelsIn(<<r, j>>) = mess[r][j].pix_data /\ <<r, j>> \in Places
    <3>1. r # 0 /\ j # 0
      BY <2>2
    <3>2. j \in 0..Len(mess[r])
      BY <2>1 DEF CacheInv
    <3> QED
      BY <3>1, <3>2 DEF PixelsIn, Places
  <2>8. <<0, 0>> \in Places
    BY DEF Places
  <2>9. ASSUME NEW h \in Places, h # <<0, 0>>
        PROVE  \/ h = <<h[1], 0>> /\ PixelsIn(h) = read_pix_cache_[h[1]]
               \/ \E j \in 1..Len(mess[h[1]]) :
                    h = <<h[1], j>> /\ PixelsIn(h) = mess[h[1]][j].pix_data
    <3>1. h[1] \in Readers /\ h[2] \in 0..Len(mess[h[1]]) /\ h = <<h[1], h[2]>>
      BY <2>4, <2>9
    <3>2. CASE h[2] = 0
      <4>1. h = <<h[1], 0>>
        BY <3>1, <3>2
      <4>2. PixelsIn(<<h[1], 0>>) = read_pix_cache_[h[1]]
        BY <2>6, <3>1
      <4> QED
        BY <4>1, <4>2, Zenon
    <3>3. CASE h[2] # 0
      <4>1. h[2] \in 1..Len(mess[h[1]])
        BY <3>1, <3>3
      <4>2. PixelsIn(<<h[1], h[2]>>) = mess[h[1]][h[2]].pix_data
        BY <2>7, <3>1, <4>1
      <4> QED
        BY <3>1, <4>1, <4>2, Zenon
    <3> QED
      BY <3>2, <3>3
  <2>10. ASSUME NEW h \in Places, h # <<0, 0>>
         PROVE  /\ IsInjective(PixelsIn(h)) /\ Range(PixelsIn(h)) \subseteq TakenBy(h[1])
                /\ Range(PixelsIn(h)) \cap Range(file) = {}
    BY <2>3, <2>4, <2>9, <2>10 DEF Apart
  <2>11. \A h \in Places : IsInjective(PixelsIn(h)) /\ Range(PixelsIn(h)) \subseteq PixelsTaken
    <3>1. \A r \in Readers : TakenBy(r) \subseteq PixelsTaken
      BY TakenByReaders
    <3> QED
      BY <2>3, <2>4, <2>5, <2>10, <3>1
  <2>12. ASSUME NEW g \in Places, NEW h \in Places, g # h
         PROVE  Range(PixelsIn(g)) \cap Range(PixelsIn(h)) = {}
    <3>1. CASE g = <<0, 0>> \/ h = <<0, 0>>
      BY <2>5, <2>10, <2>12, <3>1
    <3>2. CASE g # <<0, 0>> /\ h # <<0, 0>> /\ g[1] # h[1]
      BY <2>10, <3>2, TakenByReaders
    <3>3. CASE g # <<0, 0>> /\ h # <<0, 0>> /\ g[1] = h[1]
      <4> DEFINE r == h[1]
      <4>1. r \in Readers /\ Apart(TakenBy(r), read_pix_cache_[r], mess[r], Range(file))
        BY <2>3, <2>4, <3>3
      <4>2. \/ g = <<r, 0>> /\ PixelsIn(g) = read_pix_cache_[r]
            \/ \E j \in 1..Len(mess[r]) : g = <<r, j>> /\ PixelsIn(g) = mess[r][j].pix_data
        BY <2>9, <3>3
      <4>3. \/ h = <<r, 0>> /\ PixelsIn(h) = read_pix_cache_[r]
            \/ \E j \in 1..Len(mess[r]) : h = <<r, j>> /\ PixelsIn(h) = mess[r][j].pix_data
        BY <2>9, <3>3
      <4> HIDE DEF r
      <4> QED
        BY <2>12, <4>1, <4>2, <4>3 DEF Apart
    <3> QED
      BY <3>1, <3>2, <3>3
  <2>13. ASSUME input.serial \/ Regular, NEW p \in PixelsTaken
         PROVE  \E h \in Places : p \in Range(PixelsIn(h))
    <3>1. CASE p \in Range(file)
      BY <2>5, <2>8, <3>1
    <3>2. CASE p \notin Range(file)
      <4>1. ~input.serial
        BY <2>1, <3>2 DEF PlaceInv
      <4>2. PICK r \in Readers : p \in TakenBy(r)
        BY TakenByReaders
      <4>3. p \in Sent(mess[r]) \cup Range(read_pix_cache_[r])
        BY <2>13, <3>2, <4>1, <4>2 DEF HeldInv, OnTheWay
      <4>4. CASE p \in Sent(mess[r])
        <5>1. PICK j \in 1..Len(mess[r]) : p \in Range(mess[r][j].pix_data)
          BY <4>4 DEF Sent
        <5> QED
          BY <2>7, <5>1
      <4>5. CASE p \in Range(read_pix_cache_[r])
        BY <2>6, <4>5
      <4> QED
        BY <4>3, <4>4, <4>5
    <3> QED
      BY <3>1, <3>2
  <2>14. input.serial \/ Regular => PixelsTaken = UNION {Range(PixelsIn(h)) : h \in Places}
    BY <2>11, <2>13
  <2> QED
    BY <2>11, <2>12, <2>14 DEF InOnePlace
<1> QED
  BY <1>1, PlacesInvariant, HeldInvariant, PTL

(***************************************************************************)
(* A parallel job of regular inputs: no step ends it with an error or a    *)
(* warning.                                                                *)
(***************************************************************************)
\* There is always something to read, and pixels are read.
LEMMA BlockRead ==
  ASSUME ShapeInv, SectionInv, BinsFit, NEW r \in Readers, ReaderInTurn(r),
         npix_processed[r] < n_pix_2process[r]
  PROVE  ~CannotPass(r)
<1> DEFINE npix == input.npix[r]
           end == ibin_end[r]
           per == npix_per_bins[r]
           cum == npix_in_bins[r]
           processed == npix_processed[r]
           pos == pos_pixstart[r]
           total == n_pix_2process[r]
           buf == input.buf
           step == NbinForPixels(per, cum, processed, buf)
           read == step.read
<1>1. IsInput(npix) /\ buf \in Nat /\ total \in Int
  BY InputFacts DEF ShapeInv
<1>2. Section(npix, end, per, cum, processed, pos) /\ Exact(npix, end, per, cum, processed, total)
  BY DEF SectionInv, ReaderInTurn
<1>3. \A k \in 1..NumBins : Size(npix, k) <= buf
  <2>1. \A k : BinSize(r, k) = Size(npix, k)
    BY DEF BinSize, Size, Row, Files
  <2> QED
    BY <2>1 DEF BinsFit
<1>4. cum # << >>
  <2>1. per # << >>
    <3>1. processed < total /\ processed \in Nat
      BY <1>2 DEF Section
    <3> QED
      BY <1>1, <1>2, <3>1 DEF Exact
  <2>2. per \in Seq([1..Len(npix) -> Nat]) /\ cum \in Seq(Int) /\ Len(cum) = Len(per)
    BY <1>2 DEF Section
  <2> QED
    BY <2>1, <2>2
<1>5. Shaped(per, cum, processed, buf, step)
  BY <1>4, BlockShape
<1>6. CannotPass(r) => Len(npix) = 1 /\ FromFile(read, 1, Len(read)) = 0
  BY <1>4 DEF CannotPass, CannotRead
<1> HIDE DEF npix, end, per, cum, processed, pos, total, buf, step
<1>7. PICK n \in 1..Len(per) : ExactTakes(npix, end, per, cum, processed, total, step, n)
  BY <1>1, <1>2, <1>3, <1>4, <1>5, ExactBlock
<1>8. ReadsExactly(npix, BinLeft(end, per), step.read, n, cum[n]) /\ cum[n] > 0
  BY <1>1, <1>2, <1>4, <1>7, ExactRead DEF ExactTakes
<1> HIDE DEF read
<1>9. /\ read \in Seq([1..Len(npix) -> Nat]) /\ Len(read) = n /\ n \in Nat
      /\ SumTo(BinTotals(read), n) > 0
  <2>1. Len(per) \in Nat
    BY <1>2 DEF Section
  <2> QED
    BY <1>8, <2>1 DEF ReadsExactly, read
<1>10. SUFFICES ASSUME Len(npix) = 1
                PROVE  FromFile(read, 1, n) = SumTo(BinTotals(read), n)
  BY <1>6, <1>9
<1>11. DOMAIN read = 1..n /\ \A b \in 1..n : read[b] \in [1..1 -> Nat]
  BY <1>9, <1>10
<1>12. \A b \in 1..n : Total(read[b]) = read[b][1] /\ read[b][1] \in Nat
  <2> TAKE b \in 1..n
  <2>1. read[b] \in [1..1 -> Nat] /\ read[b][1] \in Nat
    BY <1>11
  <2>2. Total(read[b]) = SumTo(read[b], 1)
    BY <2>1, TotalFacts
  <2>3. PICK row : row = read[b]
    OBVIOUS
  <2>4. \A j \in 1..1 : row[j] \in Nat
    BY <2>1, <2>3
  <2>5. /\ SumTo(row, 0) = 0
        /\ \A j \in 1..1 : SumTo(row, j) = SumTo(row, j - 1) + row[j]
    BY ONLY <2>4, SumToFacts
  <2>6. SumTo(row, 1) = SumTo(row, 0) + row[1]
    <3>1. 1 \in 1..1 /\ 1 - 1 = 0
      OBVIOUS
    <3> QED
      BY <2>5, <3>1
  <2> QED
    BY <2>1, <2>2, <2>3, <2>5, <2>6
<1> DEFINE f == [b \in DOMAIN read |-> read[b][1]]
           g == [b \in DOMAIN read |-> Total(read[b])]
<1>13. \A b \in 1..n : f[b] \in Nat /\ g[b] = f[b]
  BY <1>11, <1>12
<1>14. FromFile(read, 1, n) = SumTo(f, n) /\ BinTotals(read) = g
  BY DEF FromFile, BinTotals
<1> HIDE DEF f, g
<1>15. SumTo(g, n) = SumTo(f, n)
  <2>1. \A k \in 0..n : SumTo(g, k) = SumTo(f, k)
    BY ONLY <1>9, <1>13, SumToSame
  <2>2. n \in 0..n
    BY <1>9
  <2> QED
    BY <2>1, <2>2
<1> QED
  BY <1>14, <1>15

\* What is pushed and popped has the edges of its bins.
LEMMA ReceiveRight ==
  ASSUME ShapeInv, CacheInv, Asked, \A r \in Readers : SourceInTurn(r)
  PROVE  ~CannotPush
<1>1. \A r \in Readers : PushedRight(r, MessagesLeft(r))
  BY AllPushed
<1>2. Readers # {} /\ Providers \subseteq Readers /\ Pops \subseteq Readers
  BY DEF Asked, InCache, Providers, Pops
<1>3. ASSUME NEW r \in Readers
      PROVE  \E x, y, l \in Nat :
               /\ PushedAll[r].range = <<x, y>> /\ Len(PushedAll[r].edges) = l
               /\ l = y - x + 2 /\ x <= y
  <2>1. GoodCache(PushedAll[r]) /\ Labelled(input.npix, PushedAll[r].pix, PushedAll[r].edges, PushedAll[r].range)
    BY <1>1 DEF PushedRight
  <2>2. PushedAll[r].range \in Nat \X Nat /\ PushedAll[r].edges \in Seq(Nat \ {0})
    BY <2>1 DEF GoodCache
  <2>3. PICK x \in Nat, y \in Nat, l \in Nat :
          PushedAll[r].range = <<x, y>> /\ Len(PushedAll[r].edges) = l
    BY <2>2
  <2>4. l = y - x + 2 /\ x <= y
    BY <2>1, <2>3 DEF Labelled
  <2> QED
    BY <2>3, <2>4
<1>4. UpTo \in Nat /\ \A r \in Readers : UpTo <= PushedAll[r].range[2]
  <2> DEFINE S == {PushedAll[r].range[2] : r \in Readers}
  <2>1. S \in SUBSET Nat /\ S # {}
    BY <1>2, <1>3
  <2>2. Min(S) \in S /\ \A y \in S : Min(S) <= y
    <3> HIDE DEF S
    <3> QED
      BY <2>1, MinOfNats
  <2>3. UpTo = Min(S)
    BY DEF UpTo
  <2> QED
    BY <2>1, <2>2, <2>3
<1>5. ASSUME NEW r \in Providers
      PROVE  Consistent(Cached(r), Head(mess[r]), PushedAll[r])
  <2>1. PICK x, y, l \in Nat :
          /\ PushedAll[r].range = <<x, y>> /\ Len(PushedAll[r].edges) = l
          /\ l = y - x + 2 /\ x <= y
    BY <1>2, <1>3
  <2>2. l - 1 = y - x + 1
    BY <2>1
  <2>3. Len(PushedAll[r].edges) - 1 = PushedAll[r].range[2] - PushedAll[r].range[1] + 1
    BY <2>1, <2>2
  <2> QED
    BY <2>3 DEF Consistent
<1>6. ASSUME NEW r \in Pops
      PROVE  ~(Len(PushedAll[r].edges) < BinsTaken[r] + 1)
  <2>1. PICK x, y, l \in Nat :
          /\ PushedAll[r].range = <<x, y>> /\ Len(PushedAll[r].edges) = l
          /\ l = y - x + 2 /\ x <= y
    BY <1>2, <1>3
  <2>2. PICK u \in Nat : u = UpTo /\ u <= y
    <3>1. UpTo <= PushedAll[r].range[2]
      BY <1>2, <1>4
    <3> QED
      BY <1>4, <2>1, <3>1
  <2>3. BinsTaken[r] = IF u < x THEN 0 ELSE u - x + 1
    BY <1>2, <2>1, <2>2 DEF BinsTaken, Taken
  <2> QED
    BY <2>1, <2>2, <2>3
<1> QED
  BY <1>5, <1>6 DEF CannotPush

\* When no source is waited for and the cache is empty, no message is left, and
\* all that was taken is written.
LEMMA AllSentWritten ==
  ASSUME ShapeInv, SectionInv, CacheInv, PlaceInv, HeldInv, Regular,
         \A r \in Readers : SourceInTurn(r), Providers = {}, ~InCache
  PROVE  NumberSent = Len(file)
<1>1. ASSUME NEW r \in Readers
      PROVE  mess[r] = << >>
  <2> DEFINE all == input.npix
             first == first_bin_to_process_
             c == Cached(r)
             received == Received(c, first)
  <2>1. /\ InTurn(all, mess[r], received, nbins_start[r]) /\ CacheInTurn(all, c, first)
        /\ GoodCache(c) /\ mess[r] \in Seq(GoodMessages) /\ first \in Nat /\ NumBins \in Nat
    BY JobAssumption DEF SourceInTurn, CacheInv, ShapeInv
  <2>2. ~Awaited(c)
    BY DEF Providers, Awaited, Cached
  <2>3. received \in Int /\ received >= NumBins
    <3>1. CASE c.edges = << >>
      <4>1. ~(first <= NumBins) /\ received = first - 1
        BY <2>1, <2>2, <3>1 DEF CacheInTurn, Received
      <4> QED
        BY <2>1, <4>1
    <3>2. CASE c.edges # << >>
      <4>1. c.range[2] \in Nat
        <5>1. c.range \in Nat \X Nat
          BY <2>1 DEF GoodCache
        <5> QED
          BY <5>1
      <4>2. received = c.range[2] /\ ~(c.range[2] < NumBins)
        BY <2>2, <3>2 DEF Awaited, Received
      <4> QED
        BY <2>1, <4>1, <4>2
    <3> QED
      BY <3>1, <3>2
  <2> HIDE DEF all, first, c, received
  <2>4. SUFFICES ASSUME mess[r] # << >>
                 PROVE  FALSE
    OBVIOUS
  <2>5. 1 \in 1..Len(mess[r]) /\ mess[r][1] \in GoodMessages
    BY <2>1, <2>4
  <2>6. PICK m \in GoodMessages : m = mess[r][1]
    BY <2>5
  <2>7. LabelledMessage(all, m) /\ m.bin_range[1] = 1 + received
    BY <2>1, <2>5, <2>6 DEF InTurn
  <2>8. PICK x \in Nat, y \in Nat : m.bin_range = <<x, y>>
    <3>1. m.bin_range \in Nat \X Nat
      BY DEF GoodMessages
    <3> QED
      BY <3>1
  <2>9. x <= y /\ y <= NumBins /\ x = 1 + received
    BY <2>7, <2>8 DEF LabelledMessage, Labelled
  <2> QED
    BY <2>1, <2>3, <2>9
<1>2. ASSUME NEW r \in Readers
      PROVE  TakenBy(r) \subseteq Range(file)
  <2>1. Sent(mess[r]) = {}
    <3>1. 1..Len(<< >>) = {}
      OBVIOUS
    <3> QED
      BY <1>1, <3>1 DEF Sent
  <2>2. Range(read_pix_cache_[r]) = {}
    BY DEF InCache, Range
  <2> QED
    BY <2>1, <2>2 DEF HeldInv, OnTheWay
<1>3. /\ file \in Seq(Pixel) /\ IsInjective(file) /\ PixelsTaken = Range(file)
  <2>1. PixelsTaken \subseteq Range(file)
    BY <1>2, TakenByReaders
  <2> QED
    BY <2>1 DEF PlaceInv
<1>4. PICK n \in Nat : n = Len(file) /\ DOMAIN file = 1..n
  BY <1>3
<1>5. IsFiniteSet(1..n) /\ Cardinality(1..n) = n
  <2>1. 1 \in Int /\ n \in Int /\ (IF 1 > n THEN 0 ELSE n - 1 + 1) = n
    OBVIOUS
  <2> QED
    BY <2>1, FS_Interval
<1>6. file \in [1..n -> Range(file)]
  BY <1>3, <1>4 DEF Range
<1>7. Cardinality(Range(file)) = n
  BY <1>3, <1>4, <1>5, <1>6, ImageFinite
<1> QED
  BY <1>3, <1>4, <1>7 DEF NumberSent

\* A parallel job whose bins fit the buffers and whose sections have pixels is
\* not ended by an error of a reader, of the cache or of an index, nor with the
\* warning of put_sqw_data_pix_from_file.
RegularEnds == Regular => result \in {"running", "done"}

THEOREM NoneFails == Spec => []RegularEnds
<1>1. Init => RegularEnds
  BY DEF Init, RegularEnds
<1>2. PlacesInv /\ OrderInv /\ HeldInv /\ RegularEnds /\ [Next]_vars => RegularEnds'
  <2> SUFFICES ASSUME PlacesInv, OrderInv, HeldInv, RegularEnds, [Next]_vars, Regular'
               PROVE  result' \in {"running", "done"}
    BY DEF RegularEnds
  <2>1. ShapeInv /\ SectionInv /\ CacheInv /\ PlaceInv /\ ParallelInv
    BY DEF PlacesInv, OrderInv
  <2>2. input' = input
    <3>1. ASSUME NEW r \in Readers, ReadSection(r)
          PROVE  input' = input
      BY <3>1 DEF ReadSection
    <3>2. ASSUME NEW r \in Readers, NEW step, BlockOf(r, step)
          PROVE  input' = input
      BY <3>2 DEF BlockOf
    <3>3. ASSUME Receives \/ Fail \/ Finish \/ UNCHANGED vars
          PROVE  input' = input
      BY <3>3 DEF Receives, Fail, Finish, vars
    <3> QED
      BY <2>1, <3>1, <3>2, <3>3, StepsOfJob
  <2>3. Regular /\ result \in {"running", "done"}
    BY <2>2, StillRegular DEF RegularEnds
  <2>4. \A r \in Readers : ReaderInTurn(r) /\ SourceInTurn(r)
    BY <2>1, <2>3 DEF ParallelInv, Regular
  <2>5. ASSUME NEW r \in Readers, ReadSection(r)
        PROVE  result' = result
    BY <2>5 DEF ReadSection
  <2>6. ASSUME NEW r \in Readers, ReadBlock(r)
        PROVE  result' = result
    <3>1. ~(npix_processed[r] < n_pix_2process[r] /\ CannotPass(r))
      BY <2>1, <2>3, <2>4, BlockRead DEF Regular
    <3>2. PICK step : BlockOf(r, step)
      BY <2>1, <2>6, <3>1, ReadBlockFacts
    <3> QED
      BY <3>2 DEF BlockOf
  <2>7. ASSUME ReceiveAndWrite
        PROVE  result' = result
    <3>1. ~(Asked /\ CannotPush)
      BY <2>1, <2>4, ReceiveRight
    <3>2. Receives
      BY <2>7, <3>1, ReceiveFacts
    <3> QED
      BY <3>2 DEF Receives
  <2>8. ASSUME Finish
        PROVE  result' = "done"
    <3>1. Providers = {} /\ ~InCache
      BY <2>3, <2>8 DEF Finish, Regular
    <3>2. NumberSent = Len(file)
      BY <2>1, <2>3, <2>4, <3>1, AllSentWritten
    <3> QED
      BY <2>8, <3>2 DEF Finish
  <2>9. ASSUME UNCHANGED vars
        PROVE  result' = result
    BY <2>9 DEF vars
  <2> QED
    BY <2>3, <2>5, <2>6, <2>7, <2>8, <2>9 DEF Next
<1> QED
  BY <1>1, <1>2, PlacesInvariant, OrderInvariant, HeldInvariant, PTL DEF Spec

===============================================================================
