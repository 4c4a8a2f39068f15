------------------------------ MODULE BinPixels ------------------------------
(***************************************************************************)
(* Pixels sorted into the cells of a grid by OpenMP threads: bin_pixels_c  *)
(* with the storage of CommonCode.h.  Threads share the pixels of a loop,  *)
(* count the pixels of a cell each in a part of the storage of its own,    *)
(* one of them adds the counts up and finds where each cell begins, and    *)
(* all copy pixels to places they draw from the counter of the cell.       *)
(*                                                                         *)
(* A pixel is its number, with coordinates on two of the four axes: X      *)
(* stands for the first three, which are treated alike, E is the last.     *)
(* Signal and error are added where the pixel is counted, so the count     *)
(* stands for all three.  A loop shared by threads is the set todo of      *)
(* iterations nobody has begun, in any order; stage moves on when every    *)
(* thread has reached the barrier.                                         *)
(***************************************************************************)
EXTENDS Integers, FiniteSets, Sequences

CONSTANTS
  NumPixels,    \* bound: data_size
  X, E,         \* axes: lower limit, width and number of cells
  Coords,       \* coordinates pixels may have
  Requests,     \* numbers of threads asked for
  MaxThreads    \* 64

Axis == [lo : Int, w : Nat \ {0}, n : Nat \ {0}]

ASSUME BinAssumption ==
  /\ NumPixels \in Nat /\ MaxThreads \in Nat \ {0}
  /\ X \in Axis /\ E \in Axis
  /\ Coords \subseteq Int \X Int /\ Requests \subseteq Int

VARIABLES
  u,                        \* coordinates of the pixels
  num_threads, stage,
  pc, cur, loc,             \* thread: place, pixel in hand, count or place it has read
  todo,                     \* iterations of the shared loop still to be begun
  i,                        \* loop variable of the part for a single thread
  ok, nGridCell,
  by,                       \* ghost: the thread that counted the pixel
  stor, pix_retained,       \* counts of a thread
  npix, nPixel_retained,
  ppInd,
  tPixelSorted, PixelSorted

loopVars == <<pc, cur, loc, todo>>
binVars  == <<ok, nGridCell, by, stor, pix_retained>>
vars == <<u, num_threads, stage, loopVars, i, binVars, npix, nPixel_retained, ppInd,
          tPixelSorted, PixelSorted>>

Pixels == 1..NumPixels
Size == X.n * E.n                           \* distribution_size
Cells == 0..(Size - 1)
Slots == 0..(NumPixels - 1)
AllThreads == 1..MaxThreads
Threads == 1..num_threads
Multithreaded == num_threads > 1            \* is_mutlithreaded
None == 0

Hi(a) == a.lo + a.n * a.w
Inside(c) == c[1] >= X.lo /\ c[1] <= Hi(X) /\ c[2] >= E.lo /\ c[2] <= Hi(E)

\* A coordinate on the upper limit of the first axes is multiplied by a number
\* a little less than one: that takes it into the last cell when the limit is
\* positive.  The last axis has that line too, where it is not reached.
IndexUnmoved(x) == (x - X.lo) \div X.w      \* mutant: not even on the first axes
Index(x) ==
  IF x = Hi(X) THEN IF x > 0 THEN X.n - 1 ELSE X.n
  ELSE (x - X.lo) \div X.w
IndexE(x) == (x - E.lo) \div E.w
Cell(c) ==
  LET il == Index(c[1]) + X.n * IndexE(c[2])
  IN  IF il >= Size THEN Size - 1 ELSE il

NumThreadsAny(n) == n                       \* mutant: as many as asked for
NumThreads(n) == IF n < 1 THEN 1 ELSE IF n > MaxThreads THEN MaxThreads ELSE n

Init ==
  /\ u \in [Pixels -> Coords]
  /\ \E n \in Requests : num_threads = NumThreads(n)
  /\ stage = "classify" /\ pc = [t \in AllThreads |-> "loop"] /\ i = 0
  /\ cur = [t \in AllThreads |-> None] /\ loc = [t \in AllThreads |-> 0]
  /\ todo = Pixels
  /\ ok = [p \in Pixels |-> FALSE] /\ nGridCell = [p \in Pixels |-> 0]
  /\ by = [p \in Pixels |-> None]
  /\ stor = [t \in AllThreads |-> [c \in Cells |-> 0]]
  /\ pix_retained = [t \in AllThreads |-> 0]
  /\ npix = [c \in Cells |-> 0] /\ nPixel_retained = 0
  /\ ppInd = [c \in Cells |-> 0]
  /\ tPixelSorted = [s \in Slots |-> None] /\ PixelSorted = << >>

Barrier == todo = {} /\ \A t \in Threads : pc[t] = "loop"

(***************************************************************************)
(* The first loop: where the pixel belongs, and add_signal, which reads    *)
(* and writes a count.  A single thread counts in the result itself.       *)
(***************************************************************************)
StorageShared(t) == 1                       \* mutant: the same part for every thread
Storage(t) == t

Reject(t) ==
  /\ stage = "classify" /\ pc[t] = "loop"
  /\ \E p \in todo :
       /\ ~Inside(u[p])
       /\ todo' = todo \ {p} /\ ok' = [ok EXCEPT ![p] = FALSE]
  /\ UNCHANGED <<u, num_threads, stage, pc, cur, loc, i, nGridCell, by, stor, pix_retained,
                 npix, nPixel_retained, ppInd, tPixelSorted, PixelSorted>>

Accept(t) ==
  /\ stage = "classify" /\ pc[t] = "loop"
  /\ \E p \in todo :
       /\ Inside(u[p])
       /\ todo' = todo \ {p} /\ cur' = [cur EXCEPT ![t] = p]
       /\ ok' = [ok EXCEPT ![p] = TRUE]
       /\ nGridCell' = [nGridCell EXCEPT ![p] = Cell(u[p])]
       /\ loc' = [loc EXCEPT ![t] = IF Multithreaded THEN stor[Storage(t)][Cell(u[p])]
                                    ELSE npix[Cell(u[p])]]
  /\ pc' = [pc EXCEPT ![t] = "add"]
  /\ UNCHANGED <<u, num_threads, stage, i, by, stor, pix_retained, npix, nPixel_retained,
                 ppInd, tPixelSorted, PixelSorted>>

AddSignal(t) ==
  LET c == nGridCell[cur[t]]
  IN  /\ stage = "classify" /\ pc[t] = "add"
      /\ IF Multithreaded
         THEN /\ stor' = [stor EXCEPT ![Storage(t)] = [@ EXCEPT ![c] = loc[t] + 1]]
              /\ UNCHANGED npix
         ELSE npix' = [npix EXCEPT ![c] = loc[t] + 1] /\ UNCHANGED stor
      /\ by' = [by EXCEPT ![cur[t]] = t]
      /\ pix_retained' = [pix_retained EXCEPT ![t] = @ + 1]
      /\ pc' = [pc EXCEPT ![t] = "loop"]
      /\ UNCHANGED <<u, num_threads, stage, cur, loc, todo, i, ok, nGridCell, nPixel_retained,
                     ppInd, tPixelSorted, PixelSorted>>

(***************************************************************************)
(* One thread for all: the counts are added up, thread by thread; cells    *)
(* begin where the one before ends; the pixels retained are counted.       *)
(***************************************************************************)
SingleKeeps == UNCHANGED <<u, num_threads, pc, cur, loc, binVars, tPixelSorted, PixelSorted>>

EnterCombine ==
  /\ stage = "classify" /\ Barrier
  /\ stage' = "combine" /\ i' = IF Multithreaded THEN 1 ELSE num_threads + 1
  /\ UNCHANGED <<todo, npix, nPixel_retained, ppInd>> /\ SingleKeeps

Combine ==
  /\ stage = "combine" /\ i <= num_threads
  /\ npix' = [c \in Cells |-> npix[c] + stor[i][c]] /\ i' = i + 1
  /\ UNCHANGED <<stage, todo, nPixel_retained, ppInd>> /\ SingleKeeps

EnterOffsets ==
  /\ stage = "combine" /\ i > num_threads
  /\ stage' = "offset" /\ i' = 1 /\ ppInd' = [c \in Cells |-> 0]
  /\ UNCHANGED <<todo, npix, nPixel_retained>> /\ SingleKeeps

OffsetFromOwn ==                            \* mutant: counts of the cell itself
  /\ stage = "offset" /\ i < Size
  /\ ppInd' = [ppInd EXCEPT ![i] = ppInd[i - 1] + npix[i]] /\ i' = i + 1
  /\ UNCHANGED <<stage, todo, npix, nPixel_retained>> /\ SingleKeeps
Offset ==
  /\ stage = "offset" /\ i < Size
  /\ ppInd' = [ppInd EXCEPT ![i] = ppInd[i - 1] + npix[i - 1]] /\ i' = i + 1
  /\ UNCHANGED <<stage, todo, npix, nPixel_retained>> /\ SingleKeeps

EnterCount ==
  /\ stage = "offset" /\ i >= Size
  /\ stage' = "count" /\ i' = 1 /\ nPixel_retained' = 0
  /\ UNCHANGED <<todo, npix, ppInd>> /\ SingleKeeps

CountRetained ==
  /\ stage = "count" /\ i <= num_threads
  /\ nPixel_retained' = nPixel_retained + pix_retained[i] /\ i' = i + 1
  /\ UNCHANGED <<stage, todo, npix, ppInd>> /\ SingleKeeps

EnterSort ==
  /\ stage = "count" /\ i > num_threads
  /\ stage' = "sort" /\ todo' = Pixels
  /\ UNCHANGED <<i, npix, nPixel_retained, ppInd>> /\ SingleKeeps

(***************************************************************************)
(* The second loop: a place is drawn from the counter of the cell (atomic  *)
(* capture), then the pixel is copied there.                               *)
(***************************************************************************)
SkipKeeps(t) ==                             \* mutant: tried again and again
  /\ stage = "sort" /\ pc[t] = "loop"
  /\ \E p \in todo : ~ok[p]
  /\ UNCHANGED vars
Skip(t) ==
  /\ stage = "sort" /\ pc[t] = "loop"
  /\ \E p \in todo : ~ok[p] /\ todo' = todo \ {p}
  /\ UNCHANGED <<u, num_threads, stage, pc, cur, loc, i, binVars, npix, nPixel_retained, ppInd,
                 tPixelSorted, PixelSorted>>

CaptureTorn(t) ==                           \* mutant: read, and incremented by what it read
  /\ stage = "sort" /\ pc[t] = "loop"
  /\ \E p \in todo :
       /\ ok[p] /\ todo' = todo \ {p} /\ cur' = [cur EXCEPT ![t] = p]
       /\ loc' = [loc EXCEPT ![t] = ppInd[nGridCell[p]]]
       /\ ppInd' = IF \E r \in Threads : pc[r] = "copy" THEN ppInd
                   ELSE [ppInd EXCEPT ![nGridCell[p]] = @ + 1]
  /\ pc' = [pc EXCEPT ![t] = "copy"]
  /\ UNCHANGED <<u, num_threads, stage, i, binVars, npix, nPixel_retained, tPixelSorted,
                 PixelSorted>>
Capture(t) ==
  /\ stage = "sort" /\ pc[t] = "loop"
  /\ \E p \in todo :
       /\ ok[p] /\ todo' = todo \ {p} /\ cur' = [cur EXCEPT ![t] = p]
       /\ loc' = [loc EXCEPT ![t] = ppInd[nGridCell[p]]]
       /\ ppInd' = [ppInd EXCEPT ![nGridCell[p]] = @ + 1]
  /\ pc' = [pc EXCEPT ![t] = "copy"]
  /\ UNCHANGED <<u, num_threads, stage, i, binVars, npix, nPixel_retained, tPixelSorted,
                 PixelSorted>>

CopyPixel(t) ==                             \* copy_pixels
  /\ stage = "sort" /\ pc[t] = "copy"
  /\ tPixelSorted' = [tPixelSorted EXCEPT ![loc[t]] = cur[t]]
  /\ pc' = [pc EXCEPT ![t] = "loop"]
  /\ UNCHANGED <<u, num_threads, stage, cur, loc, todo, i, binVars, npix, nPixel_retained,
                 ppInd, PixelSorted>>

\* Places behind the pixels retained are cut off.
Finish ==
  /\ stage = "sort" /\ Barrier
  /\ stage' = "done"
  /\ PixelSorted' = [k \in 1..nPixel_retained |-> tPixelSorted[k - 1]]
  /\ UNCHANGED <<u, num_threads, loopVars, i, binVars, npix, nPixel_retained, ppInd,
                 tPixelSorted>>

Step(t) ==
  \/ Reject(t) \/ Accept(t) \/ AddSignal(t)
  \/ Skip(t) \/ Capture(t) \/ CopyPixel(t)

Single ==
  \/ EnterCombine \/ Combine \/ EnterOffsets \/ Offset \/ EnterCount \/ CountRetained
  \/ EnterSort \/ Finish

Finished == stage = "done" /\ UNCHANGED vars

Next == (\E t \in Threads : Step(t)) \/ Single \/ Finished

\* The operating system runs every thread.
Spec == Init /\ [][Next]_vars /\ \A t \in AllThreads : WF_vars(t \in Threads /\ Step(t))
             /\ WF_vars(Single)

(***************************************************************************)
(* Properties.                                                             *)
(***************************************************************************)
\* Every variable keeps its type.
TypeOK ==
  /\ u \in [Pixels -> Coords] /\ num_threads \in AllThreads
  /\ stage \in {"classify", "combine", "offset", "count", "sort", "done"}
  /\ pc \in [AllThreads -> {"loop", "add", "copy"}]
  /\ cur \in [AllThreads -> Pixels \cup {None}] /\ loc \in [AllThreads -> Nat]
  /\ todo \subseteq Pixels /\ i \in Nat
  /\ ok \in [Pixels -> BOOLEAN] /\ nGridCell \in [Pixels -> Cells]
  /\ by \in [Pixels -> AllThreads \cup {None}]
  /\ stor \in [AllThreads -> [Cells -> Nat]] /\ pix_retained \in [AllThreads -> Nat]
  /\ npix \in [Cells -> Nat] /\ nPixel_retained \in Nat /\ ppInd \in [Cells -> Nat]
  /\ tPixelSorted \in [Slots -> Pixels \cup {None}]
  /\ PixelSorted \in Seq(Pixels \cup {None})

InCell(c) == {p \in Pixels : ok[p] /\ nGridCell[p] = c}

\* However pixels are dealt out to threads, the counts of the grid are those
\* of the pixels put in its cells: none lost, none counted twice.
NpixCountsPixels ==
  stage \in {"offset", "count", "sort", "done"} =>
    \A c \in Cells : npix[c] = Cardinality(InCell(c))

\* No two threads copy to the same place, nor to one that is taken, nor
\* behind the end of the array.
PlacesDistinct ==
  \A t \in Threads : pc[t] = "copy" =>
    /\ loc[t] \in Slots /\ tPixelSorted[loc[t]] = None
    /\ \A r \in Threads : r # t /\ pc[r] = "copy" => loc[r] # loc[t]

\* The result holds every retained pixel, one cell after the other.
SortedByCell ==
  stage = "done" =>
    /\ Len(PixelSorted) = Cardinality({p \in Pixels : ok[p]})
    /\ \A p \in Pixels : ok[p] => \E k \in DOMAIN PixelSorted : PixelSorted[k] = p
    /\ \A k, l \in DOMAIN PixelSorted :
         k < l => nGridCell[PixelSorted[k]] <= nGridCell[PixelSorted[l]]

\* The cell is the one of the Matlab code the comment at line 307 quotes,
\* max(0,min((grid_size(id)-1),floor(...))) on every axis.
Floor(a, x) == IF (x - a.lo) \div a.w > a.n - 1 THEN a.n - 1 ELSE (x - a.lo) \div a.w
BinnedAsMatlab ==
  \A p \in Pixels : ok[p] =>
    Inside(u[p]) /\ nGridCell[p] = Floor(X, u[p][1]) + X.n * Floor(E, u[p][2])

\* bin_pixels returns: every barrier is passed by all threads.
Returns == <>(stage = "done")
=============================================================================
