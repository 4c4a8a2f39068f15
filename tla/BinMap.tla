------------------------------- MODULE BinMap -------------------------------
(***************************************************************************)
(* The bin map of a file: how many pixels each bin has, and what follows   *)
(* from it alone.  Bins are stored in order from bin 0, and a file is      *)
(* given by start, the number of its first pixel for each bin; its npix    *)
(* array is the differences.  PixMemMap is checked against these           *)
(* definitions, SqwReader is built on them.                                *)
(***************************************************************************)
EXTENDS Integers, SequencesExt

CONSTANTS
  NumBins,      \* bins of a file
  Files         \* files considered, each [0..NumBins -> Nat]

ASSUME FilesAssumption ==
  /\ NumBins \in Nat \ {0}
  /\ \A start \in Files :
       /\ start \in [0..NumBins -> Nat] /\ start[0] = 0
       /\ \A a, b \in 0..NumBins : a <= b => start[a] <= start[b]

Bins == 0..(NumBins - 1)

\* Pixels of bins a .. b-1.
PixIn(start, a, b) == start[b] - start[a]

\* Element b of the npix array.
NpixOf(start, b) == PixIn(start, b, b + 1)

\* Pixels of as many whole bins from b on as fit n; the bin's own pixels if it
\* alone fills n.
WholeBins(start, b, n) ==
  IF NpixOf(start, b) >= n THEN NpixOf(start, b)
  ELSE Max({PixIn(start, b, k) : k \in {j \in (b + 1)..NumBins : PixIn(start, b, j) <= n}})
=============================================================================
