--------------------------- MODULE BinPixelsProofs ---------------------------
(***************************************************************************)
(* bin_pixels_c on any number of pixels and threads, for any grid: no      *)
(* count is lost, no place is taken twice, and the result is sorted by     *)
(* cell.  The invariant says which set of pixels every number counts.      *)
(***************************************************************************)
EXTENDS BinPixels, FiniteSetTheorems, TLAPS

(***************************************************************************)
(* The grid and the sets of pixels.                                        *)
(***************************************************************************)
LEMMA AxisFacts ==
  /\ X.lo \in Int /\ X.w \in Nat /\ X.w > 0 /\ X.n \in Nat /\ X.n > 0
  /\ E.lo \in Int /\ E.w \in Nat /\ E.w > 0 /\ E.n \in Nat /\ E.n > 0
BY BinAssumption DEF Axis

LEMMA GridFacts ==
  /\ Size \in Nat /\ Size > 0
  /\ Cells \subseteq Nat /\ 0 \in Cells /\ Size - 1 \in Cells
  /\ Slots \subseteq Nat /\ AllThreads \subseteq Nat \ {0} /\ NumPixels \in Nat
  /\ MaxThreads \in Nat /\ MaxThreads > 0
<1>1. \A a, b \in Nat : a > 0 /\ b > 0 => a * b \in Nat /\ a * b > 0
  OBVIOUS
<1>2. Size \in Nat /\ Size > 0
  BY <1>1, AxisFacts DEF Size
<1> QED
  BY <1>2, BinAssumption DEF Cells, Slots, AllThreads

\* A pixel inside the limits gets a cell of the grid, wherever it lies.
LEMMA CellInGrid ==
  ASSUME NEW c \in Int \X Int, Inside(c)
  PROVE  Cell(c) \in Cells
<1>1. \A a, b \in Nat : b > 0 => a \div b \in Nat
  OBVIOUS
<1>2. c[1] - X.lo \in Nat /\ c[2] - E.lo \in Nat
  BY AxisFacts DEF Inside
<1>3. Index(c[1]) \in Nat /\ IndexE(c[2]) \in Nat
  BY <1>1, <1>2, AxisFacts DEF Index, IndexE
<1>4. \A a, b \in Nat : a * b \in Nat
  OBVIOUS
<1>5. Index(c[1]) + X.n * IndexE(c[2]) \in Nat
  BY <1>3, <1>4, AxisFacts
<1> QED
  BY <1>5, GridFacts DEF Cell, Cells

LEMMA PixelSet ==
  ASSUME NEW S \in SUBSET Pixels
  PROVE  IsFiniteSet(S) /\ Cardinality(S) \in Nat /\ Cardinality(S) <= NumPixels
<1>1. IsFiniteSet(Pixels) /\ Cardinality(Pixels) = NumPixels
  BY FS_Interval, GridFacts DEF Pixels
<1> QED
  BY <1>1, FS_Subset, FS_CardinalityType

LEMMA PixelSubset ==
  ASSUME NEW T \in SUBSET Pixels, NEW S \in SUBSET T
  PROVE  Cardinality(S) <= Cardinality(T)
BY PixelSet, FS_Subset

LEMMA PixelUnion ==
  ASSUME NEW S \in SUBSET Pixels, NEW T \in SUBSET Pixels, S \cap T = {}
  PROVE  Cardinality(S \cup T) = Cardinality(S) + Cardinality(T)
<1>1. Cardinality(S \cup T) = Cardinality(S) + Cardinality(T) - Cardinality(S \cap T)
  BY PixelSet, FS_Union
<1>2. Cardinality(S \cap T) = 0
  BY FS_EmptySet
<1> QED
  BY <1>1, <1>2, PixelSet

LEMMA PixelAdded ==
  ASSUME NEW S \in SUBSET Pixels, NEW p \in Pixels, p \notin S
  PROVE  Cardinality(S \cup {p}) = Cardinality(S) + 1
BY PixelSet, FS_AddElement

(***************************************************************************)
(* The invariant.                                                          *)
(***************************************************************************)
Types ==
  /\ u \in [Pixels -> Coords] /\ num_threads \in AllThreads
  /\ stage \in {"classify", "combine", "offset", "count", "sort", "done"}
  /\ pc \in [AllThreads -> {"loop", "add", "copy"}]
  /\ cur \in [AllThreads -> Pixels \cup {None}] /\ loc \in [AllThreads -> Nat]
  /\ todo \subseteq Pixels /\ i \in Nat
  /\ ok \in [Pixels -> BOOLEAN] /\ nGridCell \in [Pixels -> Cells]
  /\ by \in [Pixels -> AllThreads \cup {None}]
  /\ stor \in [AllThreads -> [Cells -> Nat]] /\ pix_retained \in [AllThreads -> Nat]
  /\ npix \in [Cells -> Nat] /\ nPixel_retained \in Nat /\ ppInd \in [Cells -> Nat]
  /\ tPixelSorted \in [Slots -> Pixels \cup {None}]

\* A thread that holds a pixel holds it alone.
HandInv ==
  /\ \A t \in AllThreads :
       pc[t] # "loop" => t \in Threads /\ cur[t] \in Pixels /\ cur[t] \notin todo /\ ok[cur[t]]
  /\ \A t \in AllThreads : pc[t] = "add" => stage = "classify"
  /\ \A t \in AllThreads : pc[t] = "copy" => stage = "sort"
  /\ \A t, r \in AllThreads :
       t # r /\ pc[t] # "loop" /\ pc[r] # "loop" => cur[t] # cur[r]

\* The loop of the single thread stays in its bounds.
LoopInv ==
  /\ stage \in {"combine", "count"} => i \in 1..(num_threads + 1)
  /\ stage = "combine" /\ i <= num_threads => Multithreaded
  /\ stage = "offset" => i \in 1..Size

By(t, c) == {p \in Pixels : by[p] = t /\ nGridCell[p] = c}
ByFirst(n, c) == {p \in Pixels : by[p] \in 1..n /\ nGridCell[p] = c}
Kept(t) == {p \in Pixels : by[p] = t}
KeptFirst(n) == {p \in Pixels : by[p] \in 1..n}
Before(c) == {p \in Pixels : ok[p] /\ nGridCell[p] < c}
Drawn(c) == {p \in InCell(c) : p \notin todo}
All == {p \in Pixels : ok[p]}

\* Pixels taken into the grid have been counted, but for those in hand.
CountedInv ==
  /\ \A p \in Pixels : by[p] # None => by[p] \in Threads /\ ok[p]
  /\ stage = "classify" => \A p \in todo : ~ok[p]
  /\ \A p \in Pixels : ok[p] /\ by[p] = None => \E t \in Threads : pc[t] = "add" /\ cur[t] = p
  /\ \A t \in AllThreads : pc[t] = "add" => by[cur[t]] = None

\* The threads before i have been added up.
SumInv == \A c \in Cells : npix[c] = Cardinality(ByFirst(i - 1, c))

\* What the numbers of the first loop count.
CountInv ==
  /\ \A t \in AllThreads : pix_retained[t] = Cardinality(Kept(t))
  /\ Multithreaded =>
       \A t \in AllThreads, c \in Cells : stor[t][c] = Cardinality(By(t, c))
  /\ stage = "classify" =>
       \A c \in Cells : npix[c] = IF Multithreaded THEN 0 ELSE Cardinality(By(1, c))
  /\ \A t \in AllThreads : pc[t] = "add" =>
       loc[t] = IF Multithreaded THEN stor[t][nGridCell[cur[t]]] ELSE npix[nGridCell[cur[t]]]
  /\ stage = "combine" => SumInv
  /\ stage \in {"offset", "count", "sort", "done"} =>
       \A c \in Cells : npix[c] = Cardinality(InCell(c))

\* The pixels of the threads before i have been counted.
KeptInv == nPixel_retained = Cardinality(KeptFirst(i - 1))

\* Cells begin where those before them end.
StartInv ==
  /\ stage = "offset" => \A c \in Cells : c < i => ppInd[c] = Cardinality(Before(c))
  /\ stage = "count" => \A c \in Cells : ppInd[c] = Cardinality(Before(c))
  /\ stage = "count" => KeptInv
  /\ stage \in {"sort", "done"} => nPixel_retained = Cardinality(All)

\* Places drawn so far in cell c.
Place(s, c) == Cardinality(Before(c)) <= s /\ s < ppInd[c]

SortInv ==
  /\ stage \in {"sort", "done"} =>
       \A c \in Cells : ppInd[c] = Cardinality(Before(c)) + Cardinality(Drawn(c))
  /\ stage \notin {"sort", "done"} => \A s \in Slots : tPixelSorted[s] = None
  /\ \A t \in AllThreads : pc[t] = "copy" => loc[t] \in Slots /\ tPixelSorted[loc[t]] = None
  /\ \A t \in AllThreads, s \in Slots, c \in Cells :
       pc[t] = "copy" /\ s = loc[t] /\ c = nGridCell[cur[t]] => Place(s, c)
  /\ \A t, r \in AllThreads : t # r /\ pc[t] = "copy" /\ pc[r] = "copy" => loc[t] # loc[r]
  /\ \A s \in Slots : tPixelSorted[s] # None =>
       ok[tPixelSorted[s]] /\ tPixelSorted[s] \notin todo
  /\ \A s \in Slots, c \in Cells :
       tPixelSorted[s] # None /\ c = nGridCell[tPixelSorted[s]] => Place(s, c)
  /\ stage \in {"sort", "done"} =>
       \A p \in Pixels : ok[p] /\ p \notin todo =>
         \/ \E t \in Threads : pc[t] = "copy" /\ cur[t] = p
         \/ \E s \in Slots : tPixelSorted[s] = p

EndInv ==
  /\ stage # "done" => PixelSorted = << >>
  /\ stage = "done" =>
       /\ todo = {} /\ \A t \in Threads : pc[t] = "loop"
       /\ PixelSorted = [k \in 1..nPixel_retained |-> tPixelSorted[k - 1]]

IInv ==
  Types /\ HandInv /\ LoopInv /\ CountedInv /\ CountInv /\ StartInv /\ SortInv /\ EndInv

LEMMA InitInv == Init => IInv
<1> SUFFICES ASSUME Init PROVE IInv
  OBVIOUS
<1> USE GridFacts
<1>1. num_threads \in AllThreads
  <2>1. PICK n \in Requests : num_threads = NumThreads(n)
    BY DEF Init
  <2>2. n \in Int /\ MaxThreads \in Nat \ {0}
    BY BinAssumption
  <2> QED
    BY <2>1, <2>2 DEF NumThreads, AllThreads
<1>2. Types
  BY <1>1 DEF Init, Types, None, Slots
<1>3. HandInv /\ LoopInv /\ CountedInv
  BY <1>1 DEF Init, HandInv, LoopInv, CountedInv, Threads
<1>4. CountInv
  <2>1. \A t \in AllThreads : Kept(t) = {} /\ \A c \in Cells : By(t, c) = {}
    BY DEF Init, Kept, By, None
  <2>2. 1 \in AllThreads
    BY <1>1 DEF AllThreads
  <2> QED
    BY <2>1, <2>2, FS_EmptySet DEF Init, CountInv
<1>5. StartInv /\ SortInv /\ EndInv
  BY DEF Init, StartInv, SortInv, EndInv
<1> QED
  BY <1>2, <1>3, <1>4, <1>5 DEF IInv

(***************************************************************************)
(* Each part of the invariant is kept by every step.                       *)
(***************************************************************************)
\* What the steps of a thread do, pixel by pixel and thread by thread.
Rejects(t, p) ==
  /\ stage = "classify" /\ p \in Pixels /\ todo' = todo \ {p}
  /\ \A q \in Pixels : ok'[q] <=> q # p /\ ok[q]
  /\ ok' \in [Pixels -> BOOLEAN]
  /\ UNCHANGED <<u, num_threads, stage, pc, cur, loc, i, nGridCell, by, stor,
                 pix_retained, npix, nPixel_retained, ppInd, tPixelSorted, PixelSorted>>

LEMMA RejectFacts ==
  ASSUME Types, NEW t \in Threads, Reject(t)
  PROVE  \E p \in todo : Rejects(t, p)
BY DEF Types, Reject, Rejects

Accepts(t, p) ==
  /\ stage = "classify" /\ t \in AllThreads /\ pc[t] = "loop" /\ p \in Pixels
  /\ Cell(u[p]) \in Cells
  /\ todo' = todo \ {p}
  /\ cur' \in [AllThreads -> Pixels \cup {None}] /\ ok' \in [Pixels -> BOOLEAN]
  /\ nGridCell' \in [Pixels -> Cells] /\ loc' \in [AllThreads -> Nat]
  /\ pc' \in [AllThreads -> {"loop", "add", "copy"}]
  /\ \A r \in AllThreads : pc'[r] = IF r = t THEN "add" ELSE pc[r]
  /\ \A r \in AllThreads : cur'[r] = IF r = t THEN p ELSE cur[r]
  /\ \A r \in AllThreads : r # t => loc'[r] = loc[r]
  /\ loc'[t] = IF Multithreaded THEN stor[t][Cell(u[p])] ELSE npix[Cell(u[p])]
  /\ \A q \in Pixels : ok'[q] <=> q = p \/ ok[q]
  /\ \A q \in Pixels : nGridCell'[q] = IF q = p THEN Cell(u[p]) ELSE nGridCell[q]
  /\ UNCHANGED <<u, num_threads, stage, i, by, stor, pix_retained, npix,
                 nPixel_retained, ppInd, tPixelSorted, PixelSorted>>

LEMMA AcceptFacts ==
  ASSUME Types, NEW t \in Threads, Accept(t)
  PROVE  \E p \in todo : Accepts(t, p)
<1>1. PICK p \in todo :
        /\ Inside(u[p]) /\ todo' = todo \ {p} /\ cur' = [cur EXCEPT ![t] = p]
        /\ ok' = [ok EXCEPT ![p] = TRUE]
        /\ nGridCell' = [nGridCell EXCEPT ![p] = Cell(u[p])]
        /\ loc' = [loc EXCEPT ![t] = IF Multithreaded THEN stor[t][Cell(u[p])]
                                     ELSE npix[Cell(u[p])]]
  BY DEF Accept, Storage
<1>2. t \in AllThreads /\ p \in Pixels
  BY GridFacts DEF Types, Threads, AllThreads
<1>3. u[p] \in Int \X Int
  BY <1>2, BinAssumption DEF Types
<1>4. Cell(u[p]) \in Cells
  BY <1>1, <1>3, CellInGrid
<1>5. stor[t][Cell(u[p])] \in Nat /\ npix[Cell(u[p])] \in Nat
  BY <1>2, <1>4 DEF Types
<1>6. /\ stage = "classify" /\ pc[t] = "loop" /\ pc' = [pc EXCEPT ![t] = "add"]
      /\ UNCHANGED <<u, num_threads, stage, i, by, stor, pix_retained, npix,
                     nPixel_retained, ppInd, tPixelSorted, PixelSorted>>
  BY DEF Accept
<1>7. /\ \A r \in AllThreads : pc'[r] = IF r = t THEN "add" ELSE pc[r]
      /\ pc' \in [AllThreads -> {"loop", "add", "copy"}]
  BY <1>2, <1>6 DEF Types
<1>8. /\ \A r \in AllThreads : cur'[r] = IF r = t THEN p ELSE cur[r]
      /\ cur' \in [AllThreads -> Pixels \cup {None}]
  BY <1>1, <1>2 DEF Types
<1>9. /\ \A r \in AllThreads : r # t => loc'[r] = loc[r]
      /\ loc'[t] = IF Multithreaded THEN stor[t][Cell(u[p])] ELSE npix[Cell(u[p])]
      /\ loc' \in [AllThreads -> Nat]
  BY <1>1, <1>2, <1>5 DEF Types
<1>10. /\ \A q \in Pixels : ok'[q] <=> q = p \/ ok[q]
       /\ ok' \in [Pixels -> BOOLEAN]
  BY <1>1, <1>2 DEF Types
<1>11. /\ \A q \in Pixels : nGridCell'[q] = IF q = p THEN Cell(u[p]) ELSE nGridCell[q]
       /\ nGridCell' \in [Pixels -> Cells]
  BY <1>1, <1>2, <1>4 DEF Types
<1> QED
  BY <1>1, <1>2, <1>4, <1>6, <1>7, <1>8, <1>9, <1>10, <1>11 DEF Accepts

Captures(t, p) ==
  /\ stage = "sort" /\ t \in AllThreads /\ pc[t] = "loop" /\ p \in Pixels /\ ok[p]
  /\ nGridCell[p] \in Cells /\ todo' = todo \ {p}
  /\ cur' \in [AllThreads -> Pixels \cup {None}] /\ loc' \in [AllThreads -> Nat]
  /\ pc' \in [AllThreads -> {"loop", "add", "copy"}] /\ ppInd' \in [Cells -> Nat]
  /\ \A r \in AllThreads : pc'[r] = IF r = t THEN "copy" ELSE pc[r]
  /\ \A r \in AllThreads : cur'[r] = IF r = t THEN p ELSE cur[r]
  /\ \A r \in AllThreads : loc'[r] = IF r = t THEN ppInd[nGridCell[p]] ELSE loc[r]
  /\ \A c \in Cells : ppInd'[c] = IF c = nGridCell[p] THEN ppInd[c] + 1 ELSE ppInd[c]
  /\ UNCHANGED <<u, num_threads, stage, i, ok, nGridCell, by, stor, pix_retained,
                 npix, nPixel_retained, tPixelSorted, PixelSorted>>

LEMMA CaptureFacts ==
  ASSUME Types, NEW t \in Threads, Capture(t)
  PROVE  \E p \in todo : Captures(t, p)
<1>1. PICK p \in todo :
        /\ ok[p] /\ todo' = todo \ {p} /\ cur' = [cur EXCEPT ![t] = p]
        /\ loc' = [loc EXCEPT ![t] = ppInd[nGridCell[p]]]
        /\ ppInd' = [ppInd EXCEPT ![nGridCell[p]] = @ + 1]
  BY DEF Capture
<1>2. t \in AllThreads /\ p \in Pixels
  BY GridFacts DEF Types, Threads, AllThreads
<1>3. nGridCell[p] \in Cells /\ ppInd[nGridCell[p]] \in Nat
  BY <1>2 DEF Types
<1>4. /\ stage = "sort" /\ pc[t] = "loop" /\ pc' = [pc EXCEPT ![t] = "copy"]
      /\ UNCHANGED <<u, num_threads, stage, i, ok, nGridCell, by, stor, pix_retained,
                     npix, nPixel_retained, tPixelSorted, PixelSorted>>
  BY DEF Capture, binVars
<1>5. /\ \A r \in AllThreads : pc'[r] = IF r = t THEN "copy" ELSE pc[r]
      /\ pc' \in [AllThreads -> {"loop", "add", "copy"}]
  BY <1>2, <1>4 DEF Types
<1>6. /\ \A r \in AllThreads : cur'[r] = IF r = t THEN p ELSE cur[r]
      /\ cur' \in [AllThreads -> Pixels \cup {None}]
  BY <1>1, <1>2 DEF Types
<1>7. /\ \A r \in AllThreads : loc'[r] = IF r = t THEN ppInd[nGridCell[p]] ELSE loc[r]
      /\ loc' \in [AllThreads -> Nat]
  BY <1>1, <1>2, <1>3 DEF Types
<1>8. /\ \A c \in Cells : ppInd'[c] = IF c = nGridCell[p] THEN ppInd[c] + 1 ELSE ppInd[c]
      /\ ppInd' \in [Cells -> Nat]
  BY <1>1, <1>3 DEF Types
<1> QED
  BY <1>1, <1>2, <1>3, <1>4, <1>5, <1>6, <1>7, <1>8 DEF Captures

LEMMA AddFacts ==
  ASSUME Types, HandInv, NEW t \in Threads, AddSignal(t)
  PROVE  /\ stage = "classify" /\ t \in AllThreads /\ pc[t] = "add"
         /\ cur[t] \in Pixels /\ nGridCell[cur[t]] \in Cells
         /\ pc' \in [AllThreads -> {"loop", "add", "copy"}]
         /\ by' \in [Pixels -> AllThreads \cup {None}] /\ npix' \in [Cells -> Nat]
         /\ pix_retained' \in [AllThreads -> Nat] /\ stor' \in [AllThreads -> [Cells -> Nat]]
         /\ \A r \in AllThreads : pc'[r] = IF r = t THEN "loop" ELSE pc[r]
         /\ \A q \in Pixels : by'[q] = IF q = cur[t] THEN t ELSE by[q]
         /\ \A r \in AllThreads :
              pix_retained'[r] = IF r = t THEN pix_retained[r] + 1 ELSE pix_retained[r]
         /\ \A r \in AllThreads, c \in Cells :
              stor'[r][c] = IF Multithreaded /\ r = t /\ c = nGridCell[cur[t]] THEN loc[t] + 1
                            ELSE stor[r][c]
         /\ \A c \in Cells :
              npix'[c] = IF ~Multithreaded /\ c = nGridCell[cur[t]] THEN loc[t] + 1 ELSE npix[c]
         /\ UNCHANGED <<u, num_threads, stage, cur, loc, todo, i, ok, nGridCell,
                        nPixel_retained, ppInd, tPixelSorted, PixelSorted>>
<1> DEFINE c0 == nGridCell[cur[t]]
<1>1. /\ t \in AllThreads /\ cur[t] \in Pixels /\ c0 \in Cells /\ loc[t] \in Nat
      /\ pix_retained[t] \in Nat
  BY GridFacts, SMTT(30) DEF Types, HandInv, AddSignal, Threads, AllThreads
<1>2. /\ stage = "classify" /\ pc[t] = "add" /\ pc' = [pc EXCEPT ![t] = "loop"]
      /\ by' = [by EXCEPT ![cur[t]] = t]
      /\ pix_retained' = [pix_retained EXCEPT ![t] = @ + 1]
      /\ UNCHANGED <<u, num_threads, stage, cur, loc, todo, i, ok, nGridCell,
                     nPixel_retained, ppInd, tPixelSorted, PixelSorted>>
  BY DEF AddSignal
<1>3. /\ \A r \in AllThreads : pc'[r] = IF r = t THEN "loop" ELSE pc[r]
      /\ pc' \in [AllThreads -> {"loop", "add", "copy"}]
  BY <1>1, <1>2 DEF Types
<1>4. /\ \A q \in Pixels : by'[q] = IF q = cur[t] THEN t ELSE by[q]
      /\ by' \in [Pixels -> AllThreads \cup {None}]
  BY <1>1, <1>2 DEF Types
<1>5. /\ \A r \in AllThreads :
           pix_retained'[r] = IF r = t THEN pix_retained[r] + 1 ELSE pix_retained[r]
      /\ pix_retained' \in [AllThreads -> Nat]
  BY <1>1, <1>2 DEF Types
<1>6. CASE Multithreaded
  <2>1. stor' = [stor EXCEPT ![t] = [@ EXCEPT ![c0] = loc[t] + 1]] /\ npix' = npix
    BY <1>6 DEF AddSignal, Storage
  <2>2. stor[t] \in [Cells -> Nat]
    BY <1>1 DEF Types
  <2>3. [stor[t] EXCEPT ![c0] = loc[t] + 1] \in [Cells -> Nat]
    BY <1>1, <2>2
  <2>4. stor' \in [AllThreads -> [Cells -> Nat]]
    BY <1>1, <2>1, <2>3 DEF Types
  <2>5. \A r \in AllThreads, c \in Cells :
          stor'[r][c] = IF r = t /\ c = c0 THEN loc[t] + 1 ELSE stor[r][c]
    BY <1>1, <2>1, <2>2 DEF Types
  <2> QED
    BY <1>1, <1>2, <1>3, <1>4, <1>5, <1>6, <2>1, <2>4, <2>5 DEF Types
<1>7. CASE ~Multithreaded
  <2>1. npix' = [npix EXCEPT ![c0] = loc[t] + 1] /\ stor' = stor
    BY <1>7 DEF AddSignal
  <2>2. /\ \A c \in Cells : npix'[c] = IF c = c0 THEN loc[t] + 1 ELSE npix[c]
        /\ npix' \in [Cells -> Nat]
    BY <1>1, <2>1 DEF Types
  <2> QED
    BY <1>1, <1>2, <1>3, <1>4, <1>5, <1>7, <2>1, <2>2 DEF Types
<1> QED
  BY <1>6, <1>7

LEMMA CopyFacts ==
  ASSUME Types, HandInv, NEW t \in Threads, CopyPixel(t)
  PROVE  /\ stage = "sort" /\ t \in AllThreads /\ pc[t] = "copy" /\ cur[t] \in Pixels
         /\ pc' \in [AllThreads -> {"loop", "add", "copy"}]
         /\ tPixelSorted' \in [Slots -> Pixels \cup {None}]
         /\ \A r \in AllThreads : pc'[r] = IF r = t THEN "loop" ELSE pc[r]
         /\ \A s \in Slots : tPixelSorted'[s] = IF s = loc[t] THEN cur[t] ELSE tPixelSorted[s]
         /\ UNCHANGED <<u, num_threads, stage, cur, loc, todo, i, ok, nGridCell, by, stor,
                        pix_retained, npix, nPixel_retained, ppInd, PixelSorted>>
<1>1. t \in AllThreads /\ cur[t] \in Pixels
  BY GridFacts DEF Types, HandInv, CopyPixel, Threads, AllThreads
<1> QED
  BY <1>1 DEF Types, CopyPixel, binVars

LEMMA TypesStep ==
  ASSUME Types, HandInv, LoopInv, [Next]_vars
  PROVE  Types'
<1> USE GridFacts DEF Types, Threads
<1>1. ASSUME NEW t \in Threads, Reject(t) PROVE Types'
  BY <1>1, RejectFacts DEF Rejects
<1>2. ASSUME NEW t \in Threads, Accept(t) PROVE Types'
  BY <1>2, AcceptFacts DEF Accepts
<1>3. ASSUME NEW t \in Threads, AddSignal(t) PROVE Types'
  BY <1>3, AddFacts
<1>4. ASSUME NEW t \in Threads, Skip(t) PROVE Types'
  BY <1>4 DEF Skip, binVars
<1>5. ASSUME NEW t \in Threads, Capture(t) PROVE Types'
  BY <1>5, CaptureFacts DEF Captures
<1>6. ASSUME NEW t \in Threads, CopyPixel(t) PROVE Types'
  BY <1>6, CopyFacts
<1>7. CASE EnterCombine
  <2>1. num_threads + 1 \in Nat
    BY DEF AllThreads
  <2> QED
    BY <1>7, <2>1 DEF EnterCombine, SingleKeeps, binVars
<1>8. CASE Combine
  <2>1. i \in AllThreads
    BY <1>8 DEF Combine, LoopInv, AllThreads
  <2> QED
    BY <1>8, <2>1 DEF Combine, SingleKeeps, binVars
<1>9. CASE EnterOffsets
  BY <1>9 DEF EnterOffsets, SingleKeeps, binVars
<1>10. CASE Offset
  <2>1. i \in Cells /\ i - 1 \in Cells
    BY <1>10 DEF Offset, LoopInv, Cells
  <2> QED
    BY <1>10, <2>1 DEF Offset, SingleKeeps, binVars
<1>11. CASE EnterCount
  BY <1>11 DEF EnterCount, SingleKeeps, binVars
<1>12. CASE CountRetained
  <2>1. i \in AllThreads
    BY <1>12 DEF CountRetained, LoopInv, AllThreads
  <2> QED
    BY <1>12, <2>1 DEF CountRetained, SingleKeeps, binVars
<1>13. CASE EnterSort
  BY <1>13 DEF EnterSort, SingleKeeps, binVars
<1>14. CASE Finish
  BY <1>14 DEF Finish, loopVars, binVars
<1>15. CASE UNCHANGED vars
  BY <1>15 DEF vars, loopVars, binVars
<1> QED
  BY <1>1, <1>2, <1>3, <1>4, <1>5, <1>6, <1>7, <1>8, <1>9, <1>10, <1>11, <1>12, <1>13, <1>14,
     <1>15 DEF Next, Step, Single, Finished

LEMMA HandStep ==
  ASSUME Types, HandInv, [Next]_vars
  PROVE  HandInv'
<1> USE DEF HandInv
<1>1. ASSUME NEW t \in Threads, Reject(t) PROVE HandInv'
  <2>1. \A q \in Pixels \ todo : (ok'[q] <=> ok[q]) /\ q \notin todo'
    BY <1>1, RejectFacts DEF Rejects
  <2>2. UNCHANGED <<num_threads, stage, pc, cur>>
    BY <1>1, RejectFacts DEF Rejects
  <2> QED
    BY <2>1, <2>2 DEF Threads
<1>2. ASSUME NEW t \in Threads, Accept(t) PROVE HandInv'
  <2>1. PICK p \in todo : Accepts(t, p)
    BY <1>2, AcceptFacts
  <2>2. Threads' = Threads
    BY <2>1 DEF Threads, Accepts
  <2>3. \A r \in AllThreads : pc'[r] # "loop" =>
          r \in Threads' /\ cur'[r] \in Pixels /\ cur'[r] \notin todo' /\ ok'[cur'[r]]
    BY <2>1, <2>2 DEF Accepts
  <2>4. \A r, q \in AllThreads :
          r # q /\ pc'[r] # "loop" /\ pc'[q] # "loop" => cur'[r] # cur'[q]
    BY <2>1 DEF Accepts
  <2> QED
    BY <2>1, <2>3, <2>4 DEF Accepts
<1>3. ASSUME NEW t \in Threads, AddSignal(t) PROVE HandInv'
  <2>1. /\ \A r \in AllThreads : pc'[r] = IF r = t THEN "loop" ELSE pc[r]
        /\ UNCHANGED <<num_threads, stage, cur, todo, ok>>
    BY <1>3, AddFacts
  <2>2. Threads' = Threads
    BY <2>1 DEF Threads
  <2> QED
    BY <2>1, <2>2
<1>4. ASSUME NEW t \in Threads, Skip(t) PROVE HandInv'
  <2>1. UNCHANGED <<num_threads, stage, pc, cur, ok>> /\ todo' \subseteq todo
    BY <1>4 DEF Skip, binVars
  <2> QED
    BY <2>1 DEF Threads
<1>5. ASSUME NEW t \in Threads, Capture(t) PROVE HandInv'
  <2>1. PICK p \in todo : Captures(t, p)
    BY <1>5, CaptureFacts
  <2>2. Threads' = Threads
    BY <2>1 DEF Threads, Captures
  <2>3. \A r \in AllThreads : pc'[r] # "loop" =>
          r \in Threads' /\ cur'[r] \in Pixels /\ cur'[r] \notin todo' /\ ok'[cur'[r]]
    BY <2>1, <2>2 DEF Captures
  <2>4. \A r, q \in AllThreads :
          r # q /\ pc'[r] # "loop" /\ pc'[q] # "loop" => cur'[r] # cur'[q]
    BY <2>1 DEF Captures
  <2> QED
    BY <2>1, <2>3, <2>4 DEF Captures
<1>6. ASSUME NEW t \in Threads, CopyPixel(t) PROVE HandInv'
  <2>1. /\ \A r \in AllThreads : pc'[r] = IF r = t THEN "loop" ELSE pc[r]
        /\ UNCHANGED <<num_threads, stage, cur, todo, ok>>
    BY <1>6, CopyFacts
  <2>2. Threads' = Threads
    BY <2>1 DEF Threads
  <2> QED
    BY <2>1, <2>2
<1>7. ASSUME Barrier, UNCHANGED <<num_threads, pc>> PROVE HandInv'
  <2>1. \A t \in AllThreads : pc'[t] = "loop"
    BY <1>7 DEF Barrier
  <2> QED
    BY <2>1
<1>8. CASE Combine \/ EnterOffsets \/ Offset \/ EnterCount \/ CountRetained \/ EnterSort
  <2>1. UNCHANGED <<num_threads, pc, cur, ok>> /\ \A t \in AllThreads : pc[t] = "loop"
    BY <1>8 DEF Combine, EnterOffsets, Offset, EnterCount, CountRetained, EnterSort, SingleKeeps,
                binVars, Types
  <2> QED
    BY <2>1
<1>9. CASE UNCHANGED vars
  BY <1>9 DEF vars, loopVars, binVars, Threads
<1>10. CASE EnterCombine \/ Finish
  BY <1>7, <1>10 DEF EnterCombine, Finish, SingleKeeps, loopVars
<1> QED
  BY <1>1, <1>2, <1>3, <1>4, <1>5, <1>6, <1>8, <1>9, <1>10 DEF Next, Step, Single, Finished

LEMMA LoopStep ==
  ASSUME Types, LoopInv, [Next]_vars
  PROVE  LoopInv'
<1> USE GridFacts DEF Types, LoopInv, AllThreads, Multithreaded
<1>1. ASSUME NEW t \in Threads, Step(t) PROVE LoopInv'
  BY <1>1 DEF Step, Reject, Accept, AddSignal, Skip, Capture, CopyPixel
<1>2. CASE EnterCombine
  BY <1>2 DEF EnterCombine, SingleKeeps
<1>3. CASE Combine \/ CountRetained
  <2>1. /\ i <= num_threads /\ i' = i + 1 /\ stage' = stage /\ num_threads' = num_threads
        /\ stage \in {"combine", "count"}
    BY <1>3 DEF Combine, CountRetained, SingleKeeps
  <2> QED
    BY <2>1
<1>4. CASE EnterOffsets \/ Offset
  <2>1. stage' = "offset" /\ i' \in 1..Size
    BY <1>4, SMTT(30) DEF EnterOffsets, Offset
  <2> QED
    BY <2>1
<1>5. CASE EnterCount \/ EnterSort \/ Finish
  <2>1. (stage' = "count" /\ i' = 1 /\ num_threads' = num_threads) \/ stage' \in {"sort", "done"}
    BY <1>5 DEF EnterCount, EnterSort, Finish, SingleKeeps
  <2> QED
    BY <2>1, SMTT(30)
<1>6. CASE UNCHANGED vars
  BY <1>6 DEF vars
<1> QED
  BY <1>1, <1>2, <1>3, <1>4, <1>5, <1>6 DEF Next, Single, Finished

LEMMA CountedStep ==
  ASSUME Types, HandInv, CountedInv, [Next]_vars
  PROVE  CountedInv'
<1> USE DEF CountedInv
<1>1. ASSUME NEW t \in Threads, Reject(t) PROVE CountedInv'
  <2>1. PICK p \in todo : Rejects(t, p)
    BY <1>1, RejectFacts
  <2>2. ~ok[p] /\ Threads' = Threads
    BY <2>1 DEF Threads, Rejects
  <2>3. \A q \in Pixels : ok'[q] <=> ok[q]
    BY <2>1, <2>2 DEF Rejects
  <2>4. UNCHANGED <<stage, pc, cur, by>> /\ todo' \subseteq todo
    BY <2>1 DEF Rejects
  <2> QED
    BY <2>2, <2>3, <2>4 DEF Types
<1>2. ASSUME NEW t \in Threads, Accept(t) PROVE CountedInv'
  <2>1. PICK p \in todo : Accepts(t, p)
    BY <1>2, AcceptFacts
  <2>2. ~ok[p] /\ by[p] = None /\ Threads' = Threads
    BY <2>1 DEF Threads, Accepts
  <2>3. \A q \in Pixels : by'[q] # None => by'[q] \in Threads' /\ ok'[q]
    BY <2>1, <2>2 DEF Accepts
  <2>4. \A q \in todo' : ~ok'[q]
    BY <2>1 DEF Types, Accepts
  <2>5. \A q \in Pixels : ok'[q] /\ by'[q] = None =>
          \E r \in Threads' : pc'[r] = "add" /\ cur'[r] = q
    <3> SUFFICES ASSUME NEW q \in Pixels, ok'[q], by'[q] = None
                 PROVE  \E r \in Threads : pc'[r] = "add" /\ cur'[r] = q
      BY <2>2
    <3>1. CASE q = p
      BY <2>1, <3>1 DEF Accepts
    <3>2. CASE q # p
      <4>1. PICK r \in Threads : pc[r] = "add" /\ cur[r] = q
        BY <2>1, <3>2 DEF Accepts
      <4>2. r \in AllThreads
        BY GridFacts DEF Types, Threads, AllThreads
      <4> QED
        BY <2>1, <4>1, <4>2 DEF Accepts
    <3> QED
      BY <3>1, <3>2
  <2>6. \A r \in AllThreads : pc'[r] = "add" => by'[cur'[r]] = None
    BY <2>1, <2>2 DEF Accepts
  <2> QED
    BY <2>1, <2>3, <2>4, <2>5, <2>6 DEF Accepts
<1>3. ASSUME NEW t \in Threads, AddSignal(t) PROVE CountedInv'
  <2>1. /\ stage = "classify" /\ t \in AllThreads /\ pc[t] = "add" /\ cur[t] \in Pixels
        /\ \A r \in AllThreads : pc'[r] = IF r = t THEN "loop" ELSE pc[r]
        /\ \A q \in Pixels : by'[q] = IF q = cur[t] THEN t ELSE by[q]
        /\ UNCHANGED <<num_threads, stage, cur, todo, ok>>
    BY <1>3, AddFacts
  <2>2. Threads' = Threads /\ ok[cur[t]] /\ t # None
    BY <2>1, GridFacts DEF Threads, HandInv, None
  <2>3. \A q \in Pixels : by'[q] # None => by'[q] \in Threads' /\ ok'[q]
    BY <2>1, <2>2
  <2>4. \A q \in Pixels : ok'[q] /\ by'[q] = None =>
          \E r \in Threads' : pc'[r] = "add" /\ cur'[r] = q
    <3> SUFFICES ASSUME NEW q \in Pixels, ok'[q], by'[q] = None
                 PROVE  \E r \in Threads : pc'[r] = "add" /\ cur'[r] = q
      BY <2>2
    <3>1. PICK r \in Threads : pc[r] = "add" /\ cur[r] = q
      BY <2>1, <2>2
    <3>2. r \in AllThreads /\ r # t
      BY <2>1, <2>2, <3>1, GridFacts, SMTT(30) DEF Types, Threads, AllThreads
    <3> QED
      BY <2>1, <3>1, <3>2
  <2>5. \A r \in AllThreads : pc'[r] = "add" => by'[cur'[r]] = None
    <3> SUFFICES ASSUME NEW r \in AllThreads, pc'[r] = "add" PROVE by'[cur'[r]] = None
      OBVIOUS
    <3>1. r # t /\ pc[r] = "add"
      BY <2>1
    <3>2. cur[r] # cur[t] /\ cur[r] \in Pixels
      BY <2>1, <3>1 DEF HandInv
    <3> QED
      BY <2>1, <3>1, <3>2
  <2> QED
    BY <2>1, <2>3, <2>4, <2>5
<1>4. ASSUME NEW t \in Threads, Skip(t) \/ Capture(t) \/ CopyPixel(t) PROVE CountedInv'
  <2>1. stage = "sort" /\ UNCHANGED <<num_threads, stage, ok, by>>
    BY <1>4 DEF Skip, Capture, CopyPixel, binVars
  <2>2. \A r \in AllThreads : pc[r] # "add" /\ pc'[r] # "add"
    BY <1>4, <2>1 DEF Skip, Capture, CopyPixel, HandInv, Types
  <2>3. \A r \in Threads : r \in AllThreads
    BY GridFacts DEF Types, Threads, AllThreads
  <2>4. \A q \in Pixels : ok[q] => by[q] # None
    BY <2>2, <2>3
  <2> QED
    BY <2>1, <2>2, <2>4 DEF Threads
<1>5. CASE EnterCombine
  <2>1. /\ UNCHANGED <<num_threads, pc, cur, ok, by>> /\ stage' = "combine"
        /\ \A r \in Threads : pc[r] = "loop"
    BY <1>5 DEF EnterCombine, Barrier, SingleKeeps, binVars
  <2> QED
    BY <2>1 DEF Threads
<1>6. CASE Combine \/ EnterOffsets \/ Offset \/ EnterCount \/ CountRetained \/ EnterSort
  <2>1. UNCHANGED <<num_threads, pc, cur, ok, by>> /\ stage' # "classify" /\ stage # "classify"
    BY <1>6 DEF Combine, EnterOffsets, Offset, EnterCount, CountRetained, EnterSort, SingleKeeps,
                binVars
  <2> QED
    BY <2>1 DEF Threads
<1>7. CASE Finish
  <2>1. UNCHANGED <<num_threads, pc, cur, ok, by>> /\ stage' = "done" /\ stage = "sort"
    BY <1>7 DEF Finish, loopVars, binVars
  <2> QED
    BY <2>1 DEF Threads
<1>8. CASE UNCHANGED vars
  BY <1>8 DEF vars, loopVars, binVars, Threads
<1> QED
  BY <1>1, <1>2, <1>3, <1>4, <1>5, <1>6, <1>7, <1>8 DEF Next, Step, Single, Finished

\* Sets that count pixels, when threads and cells of the pixels stay.
LEMMA SetsKept ==
  ASSUME UNCHANGED <<by, ok, nGridCell>>
  PROVE  /\ \A t, c : By(t, c)' = By(t, c) /\ ByFirst(t, c)' = ByFirst(t, c)
         /\ \A t : Kept(t)' = Kept(t) /\ KeptFirst(t)' = KeptFirst(t)
         /\ \A c : Before(c)' = Before(c) /\ InCell(c)' = InCell(c)
         /\ All' = All
BY DEF By, ByFirst, Kept, KeptFirst, Before, InCell, All

\* Once the first loop is over, the pixels of a cell are those counted by a
\* thread.
LEMMA AllCounted ==
  ASSUME Types, HandInv, CountedInv, stage # "classify"
  PROVE  /\ KeptFirst(num_threads) = All
         /\ \A c \in Cells : ByFirst(num_threads, c) = InCell(c)
<1>1. \A t \in Threads : t \in AllThreads
  BY GridFacts DEF Types, Threads, AllThreads
<1>2. \A p \in Pixels : ok[p] => by[p] # None
  BY <1>1 DEF CountedInv, HandInv
<1>3. \A p \in Pixels : ok[p] <=> by[p] \in 1..num_threads
  BY <1>2, GridFacts DEF CountedInv, Threads, Types, None
<1> QED
  BY <1>3 DEF KeptFirst, ByFirst, All, InCell

LEMMA CountStepAccept ==
  ASSUME Types, HandInv, CountedInv, CountInv, NEW t \in Threads, Accept(t)
  PROVE  CountInv'
<1>1. PICK p \in todo : Accepts(t, p)
  BY AcceptFacts
<1>2. p \in Pixels /\ by[p] = None /\ stage = "classify" /\ stage' = "classify"
  BY <1>1 DEF Accepts, CountedInv
<1>3. UNCHANGED <<num_threads, stage, by, stor, pix_retained, npix>>
  BY <1>1 DEF Accepts
<1>4. \A r \in AllThreads : Kept(r)' = Kept(r)
  BY <1>3 DEF Kept
<1>5. \A r \in AllThreads, c \in Cells : By(r, c)' = By(r, c)
  <2>1. \A q \in Pixels : by[q] # None => nGridCell'[q] = nGridCell[q]
    BY <1>1, <1>2 DEF Accepts
  <2>2. \A r \in AllThreads : r # None
    BY GridFacts DEF None
  <2> QED
    BY <1>3, <2>1, <2>2 DEF By
<1>6. Multithreaded' = Multithreaded
  BY <1>3 DEF Multithreaded
<1>7. \A r \in AllThreads : pc'[r] = "add" =>
        loc'[r] = IF Multithreaded THEN stor[r][nGridCell'[cur'[r]]]
                  ELSE npix[nGridCell'[cur'[r]]]
  <2> SUFFICES ASSUME NEW r \in AllThreads, pc'[r] = "add"
               PROVE  loc'[r] = IF Multithreaded THEN stor[r][nGridCell'[cur'[r]]]
                                ELSE npix[nGridCell'[cur'[r]]]
    OBVIOUS
  <2>1. CASE r = t
    BY <1>1, <2>1 DEF Accepts
  <2>2. CASE r # t
    <3>1. pc[r] = "add" /\ cur'[r] = cur[r] /\ loc'[r] = loc[r]
      BY <1>1, <2>2 DEF Accepts
    <3>2. cur[r] \in Pixels /\ cur[r] # p
      BY <3>1 DEF HandInv
    <3>3. nGridCell'[cur[r]] = nGridCell[cur[r]]
      BY <1>1, <3>2 DEF Accepts
    <3> QED
      BY <3>1, <3>3 DEF CountInv
  <2> QED
    BY <2>1, <2>2
<1>8. 1 \in AllThreads
  BY GridFacts DEF AllThreads
<1> QED
  BY <1>2, <1>3, <1>4, <1>5, <1>6, <1>7, <1>8 DEF CountInv

LEMMA CountStepAdd ==
  ASSUME Types, HandInv, CountedInv, CountInv, NEW t \in Threads, AddSignal(t)
  PROVE  CountInv'
<1> DEFINE p == cur[t]
           c0 == nGridCell[p]
<1>1. /\ stage = "classify" /\ t \in AllThreads /\ pc[t] = "add" /\ p \in Pixels /\ c0 \in Cells
      /\ UNCHANGED <<num_threads, stage, cur, loc, nGridCell>>
      /\ \A r \in AllThreads : pc'[r] = IF r = t THEN "loop" ELSE pc[r]
      /\ \A q \in Pixels : by'[q] = IF q = p THEN t ELSE by[q]
  BY AddFacts
<1>2. by[p] = None /\ \A r \in AllThreads : r # None
  BY <1>1, GridFacts DEF CountedInv, None
<1>3. Multithreaded' = Multithreaded
  BY <1>1 DEF Multithreaded
<1>4. \A r \in AllThreads : pix_retained'[r] = Cardinality(Kept(r)')
  <2>1. Kept(t)' = Kept(t) \cup {p} /\ p \notin Kept(t) /\ Kept(t) \in SUBSET Pixels
    BY <1>1, <1>2 DEF Kept
  <2>2. Cardinality(Kept(t)') = Cardinality(Kept(t)) + 1
    BY <1>1, <2>1, PixelAdded
  <2>3. \A r \in AllThreads : r # t => Kept(r)' = Kept(r)
    BY <1>1, <1>2 DEF Kept
  <2>4. \A r \in AllThreads :
          pix_retained'[r] = IF r = t THEN pix_retained[r] + 1 ELSE pix_retained[r]
    BY AddFacts
  <2> QED
    BY <1>1, <2>2, <2>3, <2>4 DEF CountInv
<1>5. Cardinality(By(t, c0)') = Cardinality(By(t, c0)) + 1
  <2>1. By(t, c0)' = By(t, c0) \cup {p} /\ p \notin By(t, c0) /\ By(t, c0) \in SUBSET Pixels
    BY <1>1, <1>2 DEF By
  <2> QED
    BY <1>1, <2>1, PixelAdded
<1>6. \A r \in AllThreads, c \in Cells : r # t \/ c # c0 => By(r, c)' = By(r, c)
  BY <1>1, <1>2 DEF By
<1>7. CASE Multithreaded
  <2>1. /\ \A r \in AllThreads, c \in Cells :
             stor'[r][c] = IF r = t /\ c = c0 THEN loc[t] + 1 ELSE stor[r][c]
        /\ \A c \in Cells : npix'[c] = npix[c]
    BY <1>7, AddFacts
  <2>2. loc[t] = Cardinality(By(t, c0))
    BY <1>1, <1>7 DEF CountInv
  <2>3. \A r \in AllThreads, c \in Cells : stor'[r][c] = Cardinality(By(r, c)')
    BY <1>1, <1>5, <1>6, <1>7, <2>1, <2>2 DEF CountInv
  <2>4. \A r \in AllThreads : pc'[r] = "add" => loc'[r] = stor'[r][nGridCell'[cur'[r]]]
    <3> SUFFICES ASSUME NEW r \in AllThreads, pc'[r] = "add"
                 PROVE  loc[r] = stor'[r][nGridCell[cur[r]]]
      BY <1>1
    <3>1. r # t /\ pc[r] = "add"
      BY <1>1
    <3>2. nGridCell[cur[r]] \in Cells
      BY <3>1 DEF HandInv, Types
    <3> QED
      BY <1>7, <2>1, <3>1, <3>2 DEF CountInv
  <2> QED
    BY <1>1, <1>3, <1>4, <1>7, <2>1, <2>3, <2>4 DEF CountInv
<1>8. CASE ~Multithreaded
  <2>1. t = 1 /\ \A r \in Threads : r = 1
    BY <1>8, GridFacts DEF Multithreaded, Threads, Types, AllThreads
  <2>2. \A c \in Cells : npix'[c] = IF c = c0 THEN loc[t] + 1 ELSE npix[c]
    BY <1>8, AddFacts
  <2>3. loc[t] = Cardinality(By(t, c0))
    BY <1>1, <1>8, <2>1 DEF CountInv
  <2>4. \A c \in Cells : npix'[c] = Cardinality(By(1, c)')
    BY <1>1, <1>5, <1>6, <1>8, <2>1, <2>2, <2>3 DEF CountInv
  <2>5. \A r \in AllThreads : pc'[r] # "add"
    BY <1>1, <2>1 DEF HandInv
  <2> QED
    BY <1>1, <1>3, <1>4, <1>8, <2>4, <2>5 DEF CountInv
<1> QED
  BY <1>7, <1>8

LEMMA SumMoved ==
  ASSUME NEW n \in Nat, i' - 1 = n, UNCHANGED <<by, nGridCell>>,
         \A c \in Cells : npix'[c] = Cardinality(ByFirst(n, c))
  PROVE  SumInv'
BY DEF SumInv, ByFirst

LEMMA CountStep ==
  ASSUME Types, HandInv, LoopInv, CountedInv, CountInv, HandInv', [Next]_vars
  PROVE  CountInv'
<1>1. ASSUME NEW t \in Threads, Reject(t) PROVE CountInv'
  <2>1. stage = "classify" /\ UNCHANGED <<num_threads, stage, pc, cur, loc, nGridCell, by, stor,
                                         pix_retained, npix>>
    BY <1>1, RejectFacts DEF Rejects
  <2>2. \A r, c : Kept(r)' = Kept(r) /\ By(r, c)' = By(r, c)
    BY <2>1 DEF Kept, By
  <2> QED
    BY <2>1, <2>2 DEF CountInv, Multithreaded
<1>2. ASSUME NEW t \in Threads, Accept(t) PROVE CountInv'
  BY <1>2, CountStepAccept
<1>3. ASSUME NEW t \in Threads, AddSignal(t) PROVE CountInv'
  BY <1>3, CountStepAdd
<1>4. ASSUME UNCHANGED <<num_threads, by, ok, nGridCell, stor, pix_retained, npix>>,
             stage # "classify", stage' # "classify",
             stage # "combine", stage' # "combine"
      PROVE  CountInv'
  <2>1. \A r \in AllThreads : pc'[r] # "add"
    BY <1>4 DEF HandInv
  <2>2. /\ \A r \in AllThreads : Kept(r)' = Kept(r) /\ \A c \in Cells : By(r, c)' = By(r, c)
        /\ \A c \in Cells : InCell(c)' = InCell(c)
    BY <1>4, SetsKept
  <2> QED
    BY <1>4, <2>1, <2>2 DEF CountInv, Multithreaded, Types
<1>5. ASSUME NEW t \in Threads, Skip(t) \/ Capture(t) \/ CopyPixel(t) PROVE CountInv'
  BY <1>4, <1>5 DEF Skip, Capture, CopyPixel, binVars
<1>6. CASE Offset \/ EnterCount \/ CountRetained \/ EnterSort \/ Finish
  BY <1>4, <1>6 DEF Offset, EnterCount, CountRetained, EnterSort, Finish, SingleKeeps, binVars
<1>7. CASE EnterCombine
  <2>1. /\ UNCHANGED <<num_threads, by, ok, nGridCell, stor, pix_retained, npix>>
        /\ stage = "classify" /\ stage' = "combine"
        /\ i' = IF Multithreaded THEN 1 ELSE num_threads + 1
    BY <1>7 DEF EnterCombine, SingleKeeps, binVars
  <2>2. \A r \in AllThreads : pc'[r] # "add"
    BY <2>1 DEF HandInv
  <2>3. SumInv'
    <3>1. CASE Multithreaded
      <4>1. \A c \in Cells : ByFirst(0, c) = {}
        BY DEF ByFirst
      <4>2. \A c \in Cells : npix'[c] = Cardinality(ByFirst(0, c))
        BY <2>1, <3>1, <4>1, FS_EmptySet DEF CountInv
      <4> QED
        BY <2>1, <3>1, <4>2, SumMoved
    <3>2. CASE ~Multithreaded
      <4>1. num_threads = 1
        BY <3>2, GridFacts DEF Multithreaded, Types, AllThreads
      <4>2. \A c \in Cells : ByFirst(1, c) = By(1, c)
        BY GridFacts DEF ByFirst, By, Types, AllThreads, None
      <4>3. \A c \in Cells : npix'[c] = Cardinality(ByFirst(1, c))
        BY <2>1, <3>2, <4>2 DEF CountInv
      <4> QED
        BY <2>1, <3>2, <4>1, <4>3, SumMoved
    <3> QED
      BY <3>1, <3>2
  <2>4. \A r \in AllThreads : Kept(r)' = Kept(r) /\ \A c \in Cells : By(r, c)' = By(r, c)
    BY <2>1, SetsKept
  <2> QED
    BY <2>1, <2>2, <2>3, <2>4 DEF CountInv, Multithreaded
<1>8. CASE Combine
  <2>1. /\ UNCHANGED <<num_threads, by, ok, nGridCell, stor, pix_retained>>
        /\ stage = "combine" /\ stage' = "combine" /\ i <= num_threads /\ i' = i + 1
        /\ npix' = [c \in Cells |-> npix[c] + stor[i][c]]
    BY <1>8 DEF Combine, SingleKeeps, binVars
  <2>2. Multithreaded /\ i \in AllThreads /\ i \in Nat
    BY <2>1, GridFacts DEF LoopInv, Types, AllThreads
  <2>3. \A c \in Cells : npix'[c] = Cardinality(ByFirst(i, c))
    <3> SUFFICES ASSUME NEW c \in Cells PROVE npix'[c] = Cardinality(ByFirst(i, c))
      OBVIOUS
    <3>1. ByFirst(i - 1, c) \in SUBSET Pixels /\ By(i, c) \in SUBSET Pixels
      BY DEF ByFirst, By
    <3>2. \A b \in AllThreads \cup {None} : b \in 1..i <=> b \in 1..(i - 1) \/ b = i
      BY <2>2, GridFacts DEF None
    <3>3. \A p \in Pixels : by[p] \in 1..i <=> by[p] \in 1..(i - 1) \/ by[p] = i
      BY <3>2 DEF Types
    <3>4. ByFirst(i, c) = ByFirst(i - 1, c) \cup By(i, c)
      BY <3>3 DEF ByFirst, By
    <3>5. ByFirst(i - 1, c) \cap By(i, c) = {}
      BY <2>2 DEF ByFirst, By
    <3>6. Cardinality(ByFirst(i, c)) = Cardinality(ByFirst(i - 1, c)) + Cardinality(By(i, c))
      BY <3>1, <3>4, <3>5, PixelUnion
    <3> QED
      BY <2>1, <2>2, <3>6 DEF CountInv, SumInv
  <2>4. \A r \in AllThreads : pc'[r] # "add"
    BY <2>1 DEF HandInv
  <2>5. SumInv'
    BY <2>1, <2>2, <2>3, SumMoved
  <2>6. \A r \in AllThreads : Kept(r)' = Kept(r) /\ \A c \in Cells : By(r, c)' = By(r, c)
    BY <2>1, SetsKept
  <2> QED
    BY <2>1, <2>2, <2>4, <2>5, <2>6 DEF CountInv, Multithreaded
<1>9. CASE EnterOffsets
  <2>1. /\ UNCHANGED <<num_threads, by, ok, nGridCell, stor, pix_retained, npix>>
        /\ stage = "combine" /\ stage' = "offset" /\ i > num_threads
    BY <1>9 DEF EnterOffsets, SingleKeeps, binVars
  <2>2. i - 1 = num_threads
    BY <2>1, GridFacts DEF LoopInv, Types, AllThreads
  <2>3. \A c \in Cells : npix'[c] = Cardinality(InCell(c))
    BY <2>1, <2>2, AllCounted DEF CountInv, SumInv
  <2>4. \A r \in AllThreads : pc'[r] # "add"
    BY <2>1 DEF HandInv
  <2>5. /\ \A r \in AllThreads : Kept(r)' = Kept(r) /\ \A c \in Cells : By(r, c)' = By(r, c)
        /\ \A c \in Cells : InCell(c)' = InCell(c)
    BY <2>1, SetsKept
  <2> QED
    BY <2>1, <2>3, <2>4, <2>5 DEF CountInv, Multithreaded
<1>10. CASE UNCHANGED vars
  <2>1. UNCHANGED <<num_threads, stage, pc, cur, loc, i, by, ok, nGridCell, stor, pix_retained,
                    npix>>
    BY <1>10 DEF vars, loopVars, binVars
  <2>2. /\ \A r \in AllThreads : Kept(r)' = Kept(r) /\ \A c \in Cells : By(r, c)' = By(r, c)
        /\ \A c \in Cells : InCell(c)' = InCell(c)
    BY <2>1, SetsKept
  <2>3. SumInv => SumInv'
    BY <2>1 DEF SumInv, ByFirst
  <2>4. \A r \in AllThreads : pc'[r] = "add" =>
          loc'[r] = IF Multithreaded' THEN stor'[r][nGridCell'[cur'[r]]]
                    ELSE npix'[nGridCell'[cur'[r]]]
    BY <2>1 DEF CountInv, Multithreaded
  <2>5. 1 \in AllThreads
    BY GridFacts DEF AllThreads
  <2> QED
    BY <2>1, <2>2, <2>3, <2>4, <2>5 DEF CountInv, Multithreaded
<1> QED
  BY <1>1, <1>2, <1>3, <1>5, <1>6, <1>7, <1>8, <1>9, <1>10 DEF Next, Step, Single, Finished

LEMMA KeptMoved ==
  ASSUME NEW n \in Nat, i' - 1 = n, UNCHANGED by, nPixel_retained' = Cardinality(KeptFirst(n))
  PROVE  KeptInv'
BY DEF KeptInv, KeptFirst

\* A cell ends where the next begins.
LEMMA NextCell ==
  ASSUME Types, NEW c \in Cells, c + 1 \in Cells
  PROVE  Cardinality(Before(c + 1)) = Cardinality(Before(c)) + Cardinality(InCell(c))
<1>1. Before(c) \in SUBSET Pixels /\ InCell(c) \in SUBSET Pixels
  BY DEF Before, InCell
<1>2. Before(c) \cap InCell(c) = {}
  BY GridFacts DEF Before, InCell
<1>3. \A g \in Cells : g < c + 1 <=> g < c \/ g = c
  BY GridFacts
<1>4. Before(c + 1) = Before(c) \cup InCell(c)
  BY <1>3 DEF Before, InCell, Types
<1> QED
  BY <1>1, <1>2, <1>4, PixelUnion

LEMMA StartStep ==
  ASSUME Types, HandInv, LoopInv, CountedInv, CountInv, StartInv, [Next]_vars
  PROVE  StartInv'
<1>1. CASE stage' \in {"classify", "combine"}
  BY <1>1 DEF StartInv
<1>2. ASSUME UNCHANGED <<ok, nPixel_retained>>, stage \in {"sort", "done"},
             stage' \in {"sort", "done"}
      PROVE  StartInv'
  BY <1>2 DEF StartInv, All
<1>3. ASSUME NEW t \in Threads, Step(t) PROVE StartInv'
  BY <1>1, <1>2, <1>3 DEF Step, Reject, Accept, AddSignal, Skip, Capture, CopyPixel, binVars
<1>4. CASE EnterCombine \/ Combine
  BY <1>1, <1>4 DEF EnterCombine, Combine
<1>5. CASE EnterOffsets
  <2>1. stage' = "offset" /\ i' = 1 /\ ppInd' = [c \in Cells |-> 0] /\ UNCHANGED <<ok, nGridCell>>
    BY <1>5 DEF EnterOffsets, SingleKeeps, binVars
  <2>2. Before(0) = {}
    <3>1. \A g \in Cells : ~(g < 0)
      BY GridFacts
    <3> QED
      BY <3>1 DEF Before, Types
  <2>3. \A c \in Cells : c < i' => c = 0
    BY <2>1, GridFacts
  <2>4. \A c \in Cells : c < i' => ppInd'[c] = Cardinality(Before(c))
    BY <2>1, <2>2, <2>3, FS_EmptySet
  <2>5. \A c \in Cells : Before(c)' = Before(c)
    BY <2>1 DEF Before
  <2> QED
    BY <2>1, <2>4, <2>5 DEF StartInv
<1>6. CASE Offset
  <2>1. /\ stage = "offset" /\ stage' = "offset" /\ i < Size /\ i' = i + 1
        /\ ppInd' = [ppInd EXCEPT ![i] = ppInd[i - 1] + npix[i - 1]]
        /\ UNCHANGED <<ok, nGridCell>>
    BY <1>6 DEF Offset, SingleKeeps, binVars
  <2>2. i \in Cells /\ i - 1 \in Cells /\ i \in Nat
    BY <2>1, GridFacts DEF LoopInv, Cells
  <2>3. /\ ppInd[i - 1] = Cardinality(Before(i - 1))
        /\ npix[i - 1] = Cardinality(InCell(i - 1))
    BY <2>1, <2>2 DEF StartInv, CountInv
  <2>4. Cardinality(Before(i)) = Cardinality(Before(i - 1)) + Cardinality(InCell(i - 1))
    <3>1. \A c \in Cells : c + 1 \in Cells =>
            Cardinality(Before(c + 1)) = Cardinality(Before(c)) + Cardinality(InCell(c))
      BY NextCell
    <3>2. (i - 1) + 1 = i
      BY <2>2
    <3> QED
      BY <2>2, <3>1, <3>2
  <2>5. \A c \in Cells : c < i' => ppInd'[c] = Cardinality(Before(c))
    <3> SUFFICES ASSUME NEW c \in Cells, c < i' PROVE ppInd'[c] = Cardinality(Before(c))
      OBVIOUS
    <3>1. CASE c = i
      BY <2>1, <2>2, <2>3, <2>4, <3>1 DEF Types
    <3>2. CASE c # i
      <4>1. c < i
        BY <2>1, <2>2, <3>2, GridFacts
      <4> QED
        BY <2>1, <2>2, <4>1, <3>2 DEF Types, StartInv
    <3> QED
      BY <3>1, <3>2
  <2>6. \A c \in Cells : Before(c)' = Before(c)
    BY <2>1 DEF Before
  <2> QED
    BY <2>1, <2>5, <2>6 DEF StartInv
<1>7. CASE EnterCount
  <2>1. /\ stage = "offset" /\ stage' = "count" /\ i >= Size /\ i' = 1 /\ nPixel_retained' = 0
        /\ UNCHANGED <<ok, nGridCell, by, ppInd>>
    BY <1>7 DEF EnterCount, SingleKeeps, binVars
  <2>2. \A c \in Cells : c < i
    BY <2>1, GridFacts DEF Cells, Types
  <2>3. \A c \in Cells : Before(c)' = Before(c)
    BY <2>1 DEF Before
  <2>4. \A c \in Cells : ppInd'[c] = Cardinality(Before(c)')
    BY <2>1, <2>2, <2>3 DEF StartInv
  <2>5. KeptFirst(0) = {}
    BY DEF KeptFirst
  <2>6. KeptInv'
    BY <2>1, <2>5, KeptMoved, FS_EmptySet
  <2> QED
    BY <2>1, <2>4, <2>6 DEF StartInv
<1>8. CASE CountRetained
  <2>1. /\ stage = "count" /\ stage' = "count" /\ i <= num_threads /\ i' = i + 1
        /\ nPixel_retained' = nPixel_retained + pix_retained[i]
        /\ UNCHANGED <<ok, nGridCell, by, ppInd>>
    BY <1>8 DEF CountRetained, SingleKeeps, binVars
  <2>2. i \in AllThreads /\ i \in Nat /\ i - 1 \in Nat
    BY <2>1, GridFacts DEF LoopInv, Types, AllThreads
  <2>3. Cardinality(KeptFirst(i)) = Cardinality(KeptFirst(i - 1)) + Cardinality(Kept(i))
    <3>1. KeptFirst(i - 1) \in SUBSET Pixels /\ Kept(i) \in SUBSET Pixels
      BY DEF KeptFirst, Kept
    <3>2. \A b \in AllThreads \cup {None} : b \in 1..i <=> b \in 1..(i - 1) \/ b = i
      BY <2>2, GridFacts DEF None
    <3>3. \A p \in Pixels : by[p] \in 1..i <=> by[p] \in 1..(i - 1) \/ by[p] = i
      BY <3>2 DEF Types
    <3>4. KeptFirst(i) = KeptFirst(i - 1) \cup Kept(i)
      BY <3>3 DEF KeptFirst, Kept
    <3>5. KeptFirst(i - 1) \cap Kept(i) = {}
      BY <2>2 DEF KeptFirst, Kept
    <3> QED
      BY <3>1, <3>4, <3>5, PixelUnion
  <2>4. nPixel_retained' = Cardinality(KeptFirst(i))
    BY <2>1, <2>2, <2>3 DEF StartInv, KeptInv, CountInv
  <2>5. KeptInv'
    BY <2>1, <2>2, <2>4, KeptMoved
  <2>6. \A c \in Cells : Before(c)' = Before(c)
    BY <2>1 DEF Before
  <2> QED
    BY <2>1, <2>5, <2>6 DEF StartInv
<1>9. CASE EnterSort
  <2>1. /\ stage = "count" /\ stage' = "sort" /\ i > num_threads
        /\ UNCHANGED <<ok, nPixel_retained>>
    BY <1>9 DEF EnterSort, SingleKeeps, binVars
  <2>2. i - 1 = num_threads
    BY <2>1, GridFacts DEF LoopInv, Types, AllThreads
  <2>3. nPixel_retained' = Cardinality(All)
    BY <2>1, <2>2, AllCounted DEF StartInv, KeptInv
  <2> QED
    BY <2>1, <2>3 DEF StartInv, All
<1>10. CASE Finish
  BY <1>2, <1>10 DEF Finish, binVars
<1>11. CASE UNCHANGED vars
  <2>1. UNCHANGED <<stage, i, by, ok, nGridCell, nPixel_retained, ppInd>>
    BY <1>11 DEF vars, binVars
  <2>2. All' = All /\ \A c \in Cells : Before(c)' = Before(c)
    BY <2>1 DEF All, Before
  <2>3. KeptInv => KeptInv'
    BY <2>1 DEF KeptInv, KeptFirst
  <2> QED
    BY <2>1, <2>2, <2>3 DEF StartInv
<1> QED
  BY <1>3, <1>4, <1>5, <1>6, <1>7, <1>8, <1>9, <1>10, <1>11 DEF Next, Single, Finished

\* The pixels of a cell have room before the next one and in the array.
LEMMA Room ==
  ASSUME Types, NEW c \in Cells
  PROVE  /\ Cardinality(Before(c)) \in Nat /\ Cardinality(InCell(c)) \in Nat
         /\ Cardinality(Drawn(c)) \in Nat /\ Cardinality(Drawn(c)) <= Cardinality(InCell(c))
         /\ Cardinality(Before(c)) + Cardinality(InCell(c)) <= Cardinality(All)
         /\ Cardinality(All) \in Nat /\ Cardinality(All) <= NumPixels
         /\ \A d \in Cells : c < d =>
              Cardinality(Before(c)) + Cardinality(InCell(c)) <= Cardinality(Before(d))
<1>1. /\ Before(c) \in SUBSET Pixels /\ InCell(c) \in SUBSET Pixels /\ All \in SUBSET Pixels
      /\ Drawn(c) \in SUBSET InCell(c) /\ Drawn(c) \in SUBSET Pixels
  BY DEF Before, InCell, All, Drawn
<1>2. Before(c) \cap InCell(c) = {}
  BY GridFacts DEF Before, InCell
<1>3. Cardinality(Before(c) \cup InCell(c)) = Cardinality(Before(c)) + Cardinality(InCell(c))
  BY <1>1, <1>2, PixelUnion
<1>4. Before(c) \cup InCell(c) \in SUBSET All
  BY DEF Before, InCell, All
<1>5. ASSUME NEW d \in Cells, c < d
      PROVE  Cardinality(Before(c)) + Cardinality(InCell(c)) <= Cardinality(Before(d))
  <2>1. \A g \in Cells : g < c \/ g = c => g < d
    BY <1>5, GridFacts
  <2>2. Before(c) \cup InCell(c) \in SUBSET Before(d) /\ Before(d) \in SUBSET Pixels
    BY <2>1 DEF Before, InCell, Types
  <2> QED
    BY <1>3, <2>2, PixelSubset
<1> QED
  BY <1>1, <1>3, <1>4, <1>5, PixelSet, PixelSubset

\* Two places of different cells are in the order of the cells.
LEMMA PlacesApart ==
  ASSUME Types, SortInv, stage \in {"sort", "done"}, NEW c \in Cells, NEW d \in Cells,
         NEW s \in Nat, NEW r \in Nat, Place(s, c), Place(r, d), c < d
  PROVE  s < r
<1>1. s < Cardinality(Before(c)) + Cardinality(Drawn(c)) /\ Cardinality(Before(d)) <= r
  BY DEF SortInv, Place
<1>2. /\ Cardinality(Drawn(c)) <= Cardinality(InCell(c))
      /\ Cardinality(Before(c)) + Cardinality(InCell(c)) <= Cardinality(Before(d))
      /\ Cardinality(Before(c)) \in Nat /\ Cardinality(InCell(c)) \in Nat
      /\ Cardinality(Drawn(c)) \in Nat /\ Cardinality(Before(d)) \in Nat
  BY Room
<1> QED
  BY <1>1, <1>2

\* The place a thread draws is in the array and was drawn by nobody.
LEMMA FreshPlace ==
  ASSUME Types, SortInv, stage = "sort", NEW p \in todo, ok[p]
  PROVE  /\ ppInd[nGridCell[p]] \in Slots
         /\ Cardinality(Before(nGridCell[p])) <= ppInd[nGridCell[p]]
         /\ \A d \in Cells : ~Place(ppInd[nGridCell[p]], d)
<1> DEFINE c == nGridCell[p]
           s == ppInd[c]
<1>1. p \in Pixels /\ c \in Cells
  BY DEF Types
<1>2. s = Cardinality(Before(c)) + Cardinality(Drawn(c)) /\ s \in Nat
  BY <1>1 DEF SortInv, Types
<1>3. Cardinality(Drawn(c)) + 1 <= Cardinality(InCell(c))
  <2>1. Drawn(c) \in SUBSET Pixels /\ p \notin Drawn(c) /\ InCell(c) \in SUBSET Pixels
    BY DEF Drawn, InCell
  <2>2. Drawn(c) \cup {p} \in SUBSET InCell(c)
    BY <1>1 DEF Drawn, InCell
  <2>3. Cardinality(Drawn(c) \cup {p}) = Cardinality(Drawn(c)) + 1
    BY <1>1, <2>1, PixelAdded
  <2>4. Cardinality(Drawn(c) \cup {p}) <= Cardinality(InCell(c))
    BY <2>1, <2>2, PixelSubset
  <2> QED
    BY <2>3, <2>4
<1>4. /\ Cardinality(Before(c)) \in Nat /\ Cardinality(InCell(c)) \in Nat
      /\ Cardinality(Drawn(c)) \in Nat
      /\ Cardinality(Before(c)) + Cardinality(InCell(c)) <= NumPixels
      /\ \A d \in Cells : c < d =>
           Cardinality(Before(c)) + Cardinality(InCell(c)) <= Cardinality(Before(d))
  <2>1. /\ Cardinality(Before(c)) \in Nat /\ Cardinality(InCell(c)) \in Nat
        /\ Cardinality(Drawn(c)) \in Nat
        /\ Cardinality(Before(c)) + Cardinality(InCell(c)) <= Cardinality(All)
        /\ Cardinality(All) \in Nat /\ Cardinality(All) <= NumPixels
        /\ \A d \in Cells : c < d =>
             Cardinality(Before(c)) + Cardinality(InCell(c)) <= Cardinality(Before(d))
    BY <1>1, Room
  <2> QED
    BY <2>1, GridFacts
<1>5. s \in Slots /\ Cardinality(Before(c)) <= s
  BY <1>2, <1>3, <1>4, GridFacts DEF Slots
<1>6. ASSUME NEW d \in Cells, Place(s, d) PROVE FALSE
  <2>1. s < ppInd[d] /\ Cardinality(Before(d)) <= s /\ ppInd[d] \in Nat
    BY <1>6 DEF Place, Types
  <2>2. ppInd[d] = Cardinality(Before(d)) + Cardinality(Drawn(d))
    BY DEF SortInv
  <2>3. /\ Cardinality(Before(d)) \in Nat /\ Cardinality(Drawn(d)) \in Nat
        /\ Cardinality(InCell(d)) \in Nat /\ Cardinality(Drawn(d)) <= Cardinality(InCell(d))
        /\ d < c => Cardinality(Before(d)) + Cardinality(InCell(d)) <= Cardinality(Before(c))
    BY <1>1, Room
  <2>4. CASE d = c
    BY <1>2, <2>1, <2>4
  <2>5. CASE d < c
    BY <1>2, <1>4, <2>1, <2>2, <2>3, <2>5
  <2>6. CASE c < d
    BY <1>2, <1>3, <1>4, <2>1, <2>3, <2>6
  <2>7. c \in Nat /\ d \in Nat
    BY <1>1, GridFacts
  <2> QED
    BY <2>4, <2>5, <2>6, <2>7
<1> QED
  BY <1>5, <1>6

LEMMA SortStepCapture ==
  ASSUME Types, HandInv, SortInv, NEW t \in Threads, Capture(t)
  PROVE  SortInv'
<1>1. PICK p \in todo : Captures(t, p)
  BY CaptureFacts
<1> DEFINE c0 == nGridCell[p]
<1>2. /\ stage = "sort" /\ stage' = "sort" /\ p \in Pixels /\ c0 \in Cells /\ ok[p]
      /\ t \in AllThreads /\ todo' = todo \ {p}
      /\ UNCHANGED <<num_threads, ok, nGridCell, tPixelSorted>>
      /\ \A r \in AllThreads : pc'[r] = IF r = t THEN "copy" ELSE pc[r]
      /\ \A r \in AllThreads : cur'[r] = IF r = t THEN p ELSE cur[r]
      /\ \A r \in AllThreads : loc'[r] = IF r = t THEN ppInd[c0] ELSE loc[r]
      /\ \A c \in Cells : ppInd'[c] = IF c = c0 THEN ppInd[c] + 1 ELSE ppInd[c]
  BY <1>1 DEF Captures
<1>3. /\ ppInd[c0] \in Slots /\ Cardinality(Before(c0)) <= ppInd[c0]
      /\ \A d \in Cells : ~Place(ppInd[c0], d)
  BY <1>2, FreshPlace
<1>4. \A c \in Cells : ppInd[c] \in Nat
  BY DEF Types
<1>5. \A c : Before(c)' = Before(c) /\ InCell(c)' = InCell(c)
  BY <1>2 DEF Before, InCell
<1>6. \A s \in Slots, c \in Cells : Place(s, c) => Place(s, c)'
  <2>1. \A s \in Slots, c \in Cells : s < ppInd[c] => s < ppInd'[c]
    BY <1>2, <1>4, GridFacts
  <2> QED
    BY <1>5, <2>1 DEF Place
<1>7. \A s \in Slots, c \in Cells : s = ppInd[c0] /\ c = c0 => Place(s, c)'
  <2>1. \A s \in Slots, c \in Cells :
          s = ppInd[c0] /\ c = c0 => Cardinality(Before(c)) <= s /\ s < ppInd'[c]
    BY <1>2, <1>3, <1>4
  <2> QED
    BY <1>5, <2>1 DEF Place
<1>8. \A c \in Cells : ppInd'[c] = Cardinality(Before(c)) + Cardinality(Drawn(c)')
  <2>1. Drawn(c0)' = Drawn(c0) \cup {p} /\ p \notin Drawn(c0) /\ Drawn(c0) \in SUBSET Pixels
    BY <1>2 DEF Drawn, InCell
  <2>2. Cardinality(Drawn(c0)') = Cardinality(Drawn(c0)) + 1
    BY <1>2, <2>1, PixelAdded
  <2>3. \A c \in Cells : c # c0 => Drawn(c)' = Drawn(c)
    BY <1>2 DEF Drawn, InCell
  <2>4. Cardinality(Before(c0)) \in Nat /\ Cardinality(Drawn(c0)) \in Nat
    BY <1>2, Room
  <2>5. \A c \in Cells : ppInd[c] = Cardinality(Before(c)) + Cardinality(Drawn(c))
    BY <1>2 DEF SortInv
  <2> QED
    BY <1>2, <2>2, <2>3, <2>4, <2>5
<1>9. \A r \in AllThreads : pc[r] = "copy" =>
        /\ cur[r] \in Pixels /\ nGridCell[cur[r]] \in Cells /\ loc[r] \in Slots
        /\ tPixelSorted[loc[r]] = None /\ loc[r] # ppInd[c0]
  <2>1. ASSUME NEW r \in AllThreads, pc[r] = "copy"
        PROVE  /\ cur[r] \in Pixels /\ nGridCell[cur[r]] \in Cells /\ loc[r] \in Slots
               /\ tPixelSorted[loc[r]] = None /\ Place(loc[r], nGridCell[cur[r]])
    BY <2>1 DEF HandInv, SortInv, Types
  <2> QED
    BY <1>3, <2>1
<1>10. tPixelSorted[ppInd[c0]] = None
  <2> SUFFICES ASSUME tPixelSorted[ppInd[c0]] # None PROVE FALSE
    OBVIOUS
  <2>1. tPixelSorted[ppInd[c0]] \in Pixels
    BY <1>3 DEF Types
  <2>2. nGridCell[tPixelSorted[ppInd[c0]]] \in Cells
    BY <2>1 DEF Types
  <2> QED
    BY <1>3, <2>2 DEF SortInv
<1>11. \A r \in AllThreads : pc'[r] = "copy" => loc'[r] \in Slots /\ tPixelSorted[loc'[r]] = None
  BY <1>2, <1>3, <1>9, <1>10
<1>12. \A r \in AllThreads, s \in Slots, c \in Cells :
         pc'[r] = "copy" /\ s = loc'[r] /\ c = nGridCell[cur'[r]] => Place(s, c)'
  <2> SUFFICES ASSUME NEW r \in AllThreads, NEW s \in Slots, NEW c \in Cells,
                      pc'[r] = "copy", s = loc'[r], c = nGridCell[cur'[r]]
               PROVE  Place(s, c)'
    OBVIOUS
  <2>1. CASE r = t
    BY <1>2, <1>7, <2>1
  <2>2. CASE r # t
    <3>1. pc[r] = "copy" /\ s = loc[r] /\ c = nGridCell[cur[r]]
      BY <1>2, <2>2
    <3> QED
      BY <1>6, <3>1 DEF SortInv
  <2> QED
    BY <2>1, <2>2
<1>13. \A r, q \in AllThreads : r # q /\ pc'[r] = "copy" /\ pc'[q] = "copy" => loc'[r] # loc'[q]
  BY <1>2, <1>9 DEF SortInv
<1>14. \A s \in Slots, c \in Cells :
         tPixelSorted[s] # None /\ c = nGridCell[tPixelSorted[s]] => Place(s, c)'
  BY <1>6 DEF SortInv
<1>15. \A q \in Pixels : ok[q] /\ q \notin todo' =>
         \/ \E r \in Threads' : pc'[r] = "copy" /\ cur'[r] = q
         \/ \E s \in Slots : tPixelSorted[s] = q
  <2> SUFFICES ASSUME NEW q \in Pixels, ok[q], q \notin todo'
               PROVE  \/ \E r \in Threads : pc'[r] = "copy" /\ cur'[r] = q
                      \/ \E s \in Slots : tPixelSorted[s] = q
    BY <1>2 DEF Threads
  <2>1. CASE q = p
    BY <1>2, <2>1
  <2>2. CASE q # p
    <3>1. \A r \in Threads : r \in AllThreads
      BY GridFacts DEF Threads, Types, AllThreads
    <3>2. ASSUME NEW r \in Threads, pc[r] = "copy", cur[r] = q PROVE pc'[r] = "copy" /\ cur'[r] = q
      BY <1>1, <1>2, <3>1, <3>2 DEF Captures
    <3> QED
      BY <1>2, <2>2, <3>2 DEF SortInv
  <2> QED
    BY <2>1, <2>2
<1> QED
  BY <1>2, <1>5, <1>8, <1>11, <1>12, <1>13, <1>14, <1>15 DEF SortInv

LEMMA SortStepCopy ==
  ASSUME Types, HandInv, SortInv, NEW t \in Threads, CopyPixel(t)
  PROVE  SortInv'
<1>1. /\ stage = "sort" /\ t \in AllThreads /\ pc[t] = "copy" /\ cur[t] \in Pixels
      /\ \A r \in AllThreads : pc'[r] = IF r = t THEN "loop" ELSE pc[r]
      /\ \A s \in Slots : tPixelSorted'[s] = IF s = loc[t] THEN cur[t] ELSE tPixelSorted[s]
      /\ UNCHANGED <<num_threads, stage, cur, loc, todo, ok, nGridCell, ppInd>>
  BY CopyFacts
<1>2. /\ loc[t] \in Slots /\ tPixelSorted[loc[t]] = None /\ ok[cur[t]] /\ cur[t] \notin todo
  BY <1>1 DEF HandInv, SortInv
<1>3. /\ \A c : Before(c)' = Before(c) /\ Drawn(c)' = Drawn(c)
      /\ \A s, c : Place(s, c) => Place(s, c)'
  BY <1>1 DEF Before, Drawn, InCell, Place
<1>4. \A c \in Cells : ppInd'[c] = Cardinality(Before(c)') + Cardinality(Drawn(c)')
  BY <1>1, <1>3 DEF SortInv
<1>5. \A r \in AllThreads :
        pc'[r] = "copy" => loc[r] \in Slots /\ tPixelSorted'[loc[r]] = None /\ pc[r] = "copy"
  BY <1>1 DEF SortInv
<1>6. \A r, q \in AllThreads : r # q /\ pc'[r] = "copy" /\ pc'[q] = "copy" => loc[r] # loc[q]
  BY <1>5 DEF SortInv
<1>7. \A s \in Slots : tPixelSorted'[s] # None =>
        ok[tPixelSorted'[s]] /\ tPixelSorted'[s] \notin todo
  BY <1>1, <1>2 DEF SortInv
<1>8. \A s \in Slots, c \in Cells :
        tPixelSorted'[s] # None /\ c = nGridCell[tPixelSorted'[s]] => Place(s, c)
  BY <1>1, <1>2 DEF SortInv
<1>9. \A r \in AllThreads, s \in Slots, c \in Cells :
        pc'[r] = "copy" /\ s = loc[r] /\ c = nGridCell[cur[r]] => Place(s, c)
  BY <1>5 DEF SortInv
<1>10. \A p \in Pixels : ok[p] /\ p \notin todo =>
         \/ \E r \in Threads' : pc'[r] = "copy" /\ cur[r] = p
         \/ \E s \in Slots : tPixelSorted'[s] = p
  <2> SUFFICES ASSUME NEW p \in Pixels, ok[p], p \notin todo
               PROVE  \/ \E r \in Threads : pc'[r] = "copy" /\ cur[r] = p
                      \/ \E s \in Slots : tPixelSorted'[s] = p
    BY <1>1 DEF Threads
  <2>1. ASSUME NEW r \in Threads, pc[r] = "copy", cur[r] = p
        PROVE  pc'[r] = "copy" \/ \E s \in Slots : tPixelSorted'[s] = p
    <3>1. r \in AllThreads
      BY GridFacts DEF Threads, Types, AllThreads
    <3> QED
      BY <1>1, <1>2, <2>1, <3>1
  <2>2. ASSUME NEW s \in Slots, tPixelSorted[s] = p PROVE tPixelSorted'[s] = p
    <3>1. p # None
      BY GridFacts DEF Pixels, None
    <3> QED
      BY <1>1, <1>2, <2>2, <3>1
  <2> QED
    BY <1>1, <2>1, <2>2 DEF SortInv
<1> QED
  BY <1>1, <1>3, <1>4, <1>5, <1>6, <1>7, <1>8, <1>9, <1>10 DEF SortInv

LEMMA SortStep ==
  ASSUME Types, HandInv, HandInv', StartInv, SortInv, [Next]_vars
  PROVE  SortInv'
<1>1. ASSUME UNCHANGED tPixelSorted, stage \notin {"sort", "done"}, stage' \notin {"sort", "done"}
      PROVE  SortInv'
  <2>1. \A s \in Slots : tPixelSorted'[s] = None
    BY <1>1 DEF SortInv
  <2>2. \A r \in AllThreads : pc'[r] # "copy"
    BY <1>1 DEF HandInv
  <2> QED
    BY <1>1, <2>1, <2>2 DEF SortInv
<1>2. ASSUME NEW t \in Threads, Reject(t) \/ Accept(t) \/ AddSignal(t) PROVE SortInv'
  BY <1>1, <1>2 DEF Reject, Accept, AddSignal
<1>3. CASE EnterCombine \/ Combine \/ EnterOffsets \/ Offset \/ EnterCount \/ CountRetained
  BY <1>1, <1>3 DEF EnterCombine, Combine, EnterOffsets, Offset, EnterCount, CountRetained,
                    SingleKeeps
<1>4. CASE EnterSort
  <2>1. /\ stage = "count" /\ stage' = "sort" /\ todo' = Pixels
        /\ UNCHANGED <<ok, nGridCell, ppInd, tPixelSorted>>
    BY <1>4 DEF EnterSort, SingleKeeps, binVars
  <2>2. \A s \in Slots : tPixelSorted'[s] = None
    BY <2>1 DEF SortInv
  <2>3. \A r \in AllThreads : pc'[r] # "copy"
    BY <1>4, <2>1 DEF EnterSort, SingleKeeps, HandInv, Types
  <2>4. \A c \in Cells : Before(c)' = Before(c) /\ Drawn(c)' = {}
    BY <2>1 DEF Before, Drawn, InCell
  <2>5. \A c \in Cells : ppInd'[c] = Cardinality(Before(c)') + Cardinality(Drawn(c)')
    <3>1. \A c \in Cells : ppInd[c] \in Nat /\ ppInd[c] = Cardinality(Before(c))
      BY <2>1 DEF StartInv, Types
    <3> QED
      BY <2>1, <2>4, <3>1, FS_EmptySet
  <2> QED
    BY <2>1, <2>2, <2>3, <2>5 DEF SortInv
<1>5. ASSUME NEW t \in Threads, Skip(t) PROVE SortInv'
  <2>1. /\ stage = "sort" /\ todo' \subseteq todo
        /\ \A q \in Pixels : ok[q] => (q \in todo' <=> q \in todo)
        /\ UNCHANGED <<num_threads, stage, pc, cur, loc, ok, nGridCell, ppInd, tPixelSorted>>
    BY <1>5 DEF Skip, binVars
  <2>2. \A c : Before(c)' = Before(c)
    BY <2>1 DEF Before
  <2>3. \A c : Drawn(c)' = Drawn(c)
    BY <2>1 DEF Drawn, InCell
  <2>4. \A s, c : Place(s, c) => Place(s, c)'
    BY <2>1, <2>2 DEF Place
  <2>5. \A c \in Cells : ppInd'[c] = Cardinality(Before(c)') + Cardinality(Drawn(c)')
    BY <2>1, <2>2, <2>3 DEF SortInv
  <2>6. \A s \in Slots :
          tPixelSorted[s] # None => ok[tPixelSorted[s]] /\ tPixelSorted[s] \notin todo'
    BY <2>1 DEF SortInv
  <2>7. \A q \in Pixels : ok[q] /\ q \notin todo' =>
          \/ \E r \in Threads' : pc[r] = "copy" /\ cur[r] = q
          \/ \E s \in Slots : tPixelSorted[s] = q
    BY <2>1 DEF SortInv, Threads
  <2> QED
    BY <2>1, <2>4, <2>5, <2>6, <2>7 DEF SortInv
<1>6. ASSUME NEW t \in Threads, Capture(t) \/ CopyPixel(t) PROVE SortInv'
  BY <1>6, SortStepCapture, SortStepCopy
<1>7. CASE Finish \/ UNCHANGED vars
  <2>1. /\ stage' \in {"sort", "done"} <=> stage \in {"sort", "done"}
        /\ UNCHANGED <<num_threads, pc, cur, loc, todo, ok, nGridCell, ppInd, tPixelSorted>>
    BY <1>7 DEF Finish, vars, loopVars, binVars
  <2>2. \A c : Before(c)' = Before(c) /\ Drawn(c)' = Drawn(c)
    BY <2>1 DEF Before, Drawn, InCell
  <2>3. \A s, c : Place(s, c) => Place(s, c)'
    BY <2>1, <2>2 DEF Place
  <2>4. Threads' = Threads
    BY <2>1 DEF Threads
  <2> QED
    BY <2>1, <2>2, <2>3, <2>4 DEF SortInv
<1> QED
  BY <1>2, <1>3, <1>4, <1>5, <1>6, <1>7 DEF Next, Step, Single, Finished

LEMMA EndStep ==
  ASSUME EndInv, [Next]_vars
  PROVE  EndInv'
<1>1. ASSUME UNCHANGED PixelSorted, stage # "done", stage' # "done" PROVE EndInv'
  BY <1>1 DEF EndInv
<1>2. ASSUME NEW t \in Threads, Step(t) PROVE EndInv'
  BY <1>1, <1>2 DEF Step, Reject, Accept, AddSignal, Skip, Capture, CopyPixel
<1>3. CASE EnterCombine \/ Combine \/ EnterOffsets \/ Offset \/ EnterCount \/ CountRetained
           \/ EnterSort
  BY <1>1, <1>3 DEF EnterCombine, Combine, EnterOffsets, Offset, EnterCount, CountRetained,
                    EnterSort, SingleKeeps
<1>4. CASE Finish
  BY <1>4 DEF Finish, Barrier, EndInv, loopVars, Threads
<1>5. CASE UNCHANGED vars
  BY <1>5 DEF EndInv, vars, loopVars, Threads
<1> QED
  BY <1>2, <1>3, <1>4, <1>5 DEF Next, Single, Finished

LEMMA Invariance == Spec => []IInv
<1>1. IInv /\ [Next]_vars => IInv'
  <2> SUFFICES ASSUME IInv, [Next]_vars PROVE IInv'
    OBVIOUS
  <2>1. Types' /\ LoopInv'
    BY TypesStep, LoopStep DEF IInv
  <2>2. HandInv'
    BY HandStep DEF IInv
  <2>3. CountedInv'
    BY CountedStep DEF IInv
  <2>4. CountInv'
    BY <2>2, CountStep DEF IInv
  <2>5. StartInv'
    BY StartStep DEF IInv
  <2>6. SortInv'
    BY <2>2, SortStep DEF IInv
  <2>7. EndInv'
    BY EndStep DEF IInv
  <2> QED
    BY <2>1, <2>2, <2>3, <2>4, <2>5, <2>6, <2>7 DEF IInv
<1> QED
  BY InitInv, <1>1, PTL DEF Spec

\* In the end the places below the number of retained pixels hold exactly
\* these pixels: each has a place of its own there, and there are as many.
LEMMA SlotsFilled ==
  ASSUME IInv, stage = "done"
  PROVE  LET R == Cardinality(All)
         IN  /\ R \in Nat /\ R <= NumPixels
             /\ \A s \in 0..(R - 1) : s \in Slots /\ tPixelSorted[s] \in All
             /\ \A p \in All : \E s \in 0..(R - 1) : tPixelSorted[s] = p
<1> DEFINE R == Cardinality(All)
           S == 0..(R - 1)
           f == [p \in All |-> CHOOSE s \in S : tPixelSorted[s] = p]
<1> USE DEF IInv
<1>1. R \in Nat /\ R <= NumPixels /\ NumPixels \in Nat
  <2>1. 0 \in Cells /\ NumPixels \in Nat
    BY GridFacts
  <2> QED
    BY <2>1, Room
<1>2. ASSUME NEW p \in All PROVE \E s \in S : tPixelSorted[s] = p
  <2>1. p \in Pixels /\ ok[p] /\ todo = {} /\ \A t \in Threads : pc[t] = "loop"
    BY DEF EndInv, All
  <2>2. PICK s \in Slots : tPixelSorted[s] = p
    BY <2>1 DEF SortInv
  <2>3. p # None
    BY <2>1 DEF Pixels, None
  <2> DEFINE c == nGridCell[p]
  <2>4. c \in Cells /\ Place(s, c)
    BY <2>1, <2>2, <2>3 DEF Types, SortInv
  <2>5. s < Cardinality(Before(c)) + Cardinality(Drawn(c))
    BY <2>4 DEF SortInv, Place
  <2>6. /\ Cardinality(Before(c)) \in Nat /\ Cardinality(Drawn(c)) \in Nat
        /\ Cardinality(InCell(c)) \in Nat /\ Cardinality(Drawn(c)) <= Cardinality(InCell(c))
        /\ Cardinality(Before(c)) + Cardinality(InCell(c)) <= R
    BY <2>4, Room
  <2>7. s \in S
    BY <1>1, <2>5, <2>6, GridFacts DEF Slots
  <2> QED
    BY <2>2, <2>7
<1>3. \A p \in All : f[p] \in S /\ tPixelSorted[f[p]] = p
  BY <1>2
<1>4. f \in Injection(All, S)
  BY <1>3 DEF Injection, IsInjective
<1>5. IsFiniteSet(S) /\ Cardinality(S) = R
  <2>1. 0 \in Int /\ R - 1 \in Int /\ (0 > R - 1 <=> R = 0) /\ (R - 1) - 0 + 1 = R
    BY <1>1
  <2>2. /\ IsFiniteSet(0..(R - 1))
        /\ Cardinality(0..(R - 1)) = IF 0 > R - 1 THEN 0 ELSE (R - 1) - 0 + 1
    BY <2>1, FS_Interval
  <2> QED
    BY <2>1, <2>2
<1>6. f \in Surjection(All, S)
  BY <1>4, <1>5, FS_Injection
<1>7. ASSUME NEW s \in S PROVE s \in Slots /\ tPixelSorted[s] \in All
  <2>1. \E p \in All : f[p] = s
    BY <1>6 DEF Surjection
  <2> QED
    BY <1>1, <1>3, <2>1 DEF Slots
<1> QED
  BY <1>1, <1>2, <1>7

(***************************************************************************)
(* The theorems.                                                           *)
(***************************************************************************)
\* For any pixels, grid and number of threads, every variable of bin_pixels_c
\* keeps its type: above all, no index leaves its array.
THEOREM TypeCorrect == Spec => []TypeOK
<1>1. IInv => TypeOK
  <2> SUFFICES ASSUME IInv PROVE TypeOK
    OBVIOUS
  <2>1. PixelSorted \in Seq(Pixels \cup {None})
    <3>1. CASE stage # "done"
      BY <3>1 DEF IInv, EndInv
    <3>2. CASE stage = "done"
      <4>1. nPixel_retained \in Nat /\ nPixel_retained <= NumPixels
        <5>1. 0 \in Cells /\ NumPixels \in Nat
          BY GridFacts
        <5> QED
          BY <3>2, <5>1, Room DEF IInv, StartInv
      <4>2. \A k \in 1..nPixel_retained : tPixelSorted[k - 1] \in Pixels \cup {None}
        BY <4>1, GridFacts DEF IInv, Types, Slots
      <4> QED
        BY <3>2, <4>1, <4>2 DEF IInv, EndInv
    <3> QED
      BY <3>1, <3>2
  <2> QED
    BY <2>1 DEF IInv, Types, TypeOK
<1> QED
  BY <1>1, Invariance, PTL

\* The counts of the grid are those of the pixels in its cells, however many
\* threads count and whatever pixels they take (add_signal, combine_storage).
THEOREM CountsRight == Spec => []NpixCountsPixels
<1>1. IInv => NpixCountsPixels
  BY DEF IInv, CountInv, NpixCountsPixels
<1> QED
  BY <1>1, Invariance, PTL

\* The places threads draw in the second loop (atomic capture) are different,
\* free and in the array.
THEOREM PlacesSafe == Spec => []PlacesDistinct
<1>1. IInv => PlacesDistinct
  <2> SUFFICES ASSUME IInv PROVE PlacesDistinct
    OBVIOUS
  <2>1. \A t \in Threads : t \in AllThreads
    BY GridFacts DEF IInv, Types, Threads, AllThreads
  <2> QED
    BY <2>1 DEF IInv, SortInv, PlacesDistinct
<1> QED
  BY <1>1, Invariance, PTL

\* The result holds every retained pixel once and the cells follow each
\* other, in whatever order threads drew places and copied pixels.
THEOREM Sorted == Spec => []SortedByCell
<1>1. IInv => SortedByCell
  <2> SUFFICES ASSUME IInv, stage = "done" PROVE SortedByCell
    BY DEF SortedByCell
  <2> DEFINE R == Cardinality(All)
  <2>1. /\ R \in Nat /\ R <= NumPixels
        /\ \A s \in 0..(R - 1) : s \in Slots /\ tPixelSorted[s] \in All
        /\ \A p \in All : \E s \in 0..(R - 1) : tPixelSorted[s] = p
    BY SlotsFilled
  <2>2. PixelSorted = [k \in 1..R |-> tPixelSorted[k - 1]]
    BY DEF IInv, EndInv, StartInv
  <2>3. Len(PixelSorted) = R /\ DOMAIN PixelSorted = 1..R
    BY <2>1, <2>2
  <2>4. \A p \in All : \E k \in 1..R : PixelSorted[k] = p
    <3> SUFFICES ASSUME NEW p \in All PROVE \E k \in 1..R : PixelSorted[k] = p
      OBVIOUS
    <3>1. PICK s \in 0..(R - 1) : tPixelSorted[s] = p
      BY <2>1
    <3>2. s + 1 \in 1..R /\ (s + 1) - 1 = s
      BY <2>1
    <3> QED
      BY <2>2, <3>1, <3>2
  <2>5. ASSUME NEW k \in 1..R, NEW l \in 1..R, k < l
        PROVE  nGridCell[PixelSorted[k]] <= nGridCell[PixelSorted[l]]
    <3> DEFINE s == k - 1
               r == l - 1
               c == nGridCell[tPixelSorted[s]]
               d == nGridCell[tPixelSorted[r]]
    <3>1. s \in 0..(R - 1) /\ r \in 0..(R - 1) /\ s \in Nat /\ r \in Nat /\ s < r
      BY <2>1, <2>5
    <3>2. /\ s \in Slots /\ r \in Slots
          /\ tPixelSorted[s] \in Pixels /\ tPixelSorted[r] \in Pixels
      BY <2>1, <3>1 DEF All
    <3>3. tPixelSorted[s] # None /\ tPixelSorted[r] # None
      BY <3>2 DEF Pixels, None
    <3>4. c \in Cells /\ d \in Cells /\ Place(s, c) /\ Place(r, d)
      BY <3>2, <3>3 DEF IInv, Types, SortInv
    <3>5. ~(d < c)
      BY <3>1, <3>4, PlacesApart DEF IInv
    <3>6. c \in Nat /\ d \in Nat
      BY <3>4, GridFacts
    <3>7. c <= d
      BY <3>5, <3>6
    <3> QED
      BY <2>2, <3>7
  <2> QED
    BY <2>3, <2>4, <2>5 DEF SortedByCell, All
<1> QED
  BY <1>1, Invariance, PTL

(***************************************************************************)
(* The cell of a pixel, and the one the Matlab code gives it.              *)
(***************************************************************************)
MatlabCell(c) == Floor(X, c[1]) + X.n * Floor(E, c[2])

\* On an upper limit that is not taken back: the one of E, or that of X when
\* it is not positive.  Only in the corner is the cell limited to the last one.
Astray(c) ==
  \/ c[2] = Hi(E) /\ Floor(X, c[1]) < X.n - 1
  \/ c[1] = Hi(X) /\ Hi(X) <= 0 /\ Floor(E, c[2]) < E.n - 1

\* Indexes along an axis: below the upper limit they are those of Matlab.
LEMMA IndexFacts ==
  ASSUME NEW a \in Axis, NEW x \in Int, a.lo <= x, x <= Hi(a)
  PROVE  LET k == (x - a.lo) \div a.w
         IN  /\ k \in 0..a.n /\ (k = a.n <=> x = Hi(a))
             /\ Floor(a, x) = IF x = Hi(a) THEN a.n - 1 ELSE k
<1> DEFINE k == (x - a.lo) \div a.w
<1>1. a.lo \in Int /\ a.w \in Nat \ {0} /\ a.n \in Nat \ {0} /\ x - a.lo \in Nat
  BY DEF Axis
<1>2. \A d \in Nat, w \in Nat \ {0} : d \div w \in Nat /\ w * (d \div w) <= d
                                      /\ d < w * (d \div w) + w
  OBVIOUS
<1>3. k \in Nat /\ a.w * k <= x - a.lo /\ x - a.lo < a.w * k + a.w
  BY <1>1, <1>2
<1>4. x - a.lo <= a.n * a.w /\ (x = Hi(a) <=> x - a.lo = a.n * a.w)
  BY <1>1 DEF Hi
<1> HIDE DEF k
<1>5. \A p, q \in Nat : p > q => a.w * p >= a.w * q + a.w
  <2> SUFFICES ASSUME NEW p \in Nat, NEW q \in Nat, p > q
               PROVE  a.w * p >= a.w * q + a.w
    OBVIOUS
  <2>1. p - q - 1 \in Nat /\ a.w * (p - q - 1) \in Nat
    BY <1>1
  <2>2. a.w * p = a.w * q + a.w + a.w * (p - q - 1)
    BY <1>1
  <2> QED
    BY <1>1, <2>1, <2>2
<1>6. a.n * a.w = a.w * a.n /\ a.w * a.n \in Nat /\ a.w * k \in Nat
  BY <1>1, <1>3
<1>7. k <= a.n
  BY <1>1, <1>3, <1>4, <1>5, <1>6
<1>8. k = a.n <=> x = Hi(a)
  <2>1. k < a.n => a.w * k + a.w <= a.w * a.n
    BY <1>1, <1>3, <1>5
  <2> QED
    BY <1>1, <1>3, <1>4, <1>6, <1>7, <2>1
<1> QED
  BY <1>1, <1>3, <1>7, <1>8 DEF Floor, k

\* The cells agree where the pixel is not astray, and nowhere else.
LEMMA CellIsMatlabs ==
  ASSUME NEW c \in Int \X Int, Inside(c)
  PROVE  Cell(c) = MatlabCell(c) <=> ~Astray(c)
<1> DEFINE a == IndexE(c[2])
           b == Index(c[1])
           fa == Floor(E, c[2])
           fb == Floor(X, c[1])
<1>1. /\ a \in 0..E.n /\ (a = E.n <=> c[2] = Hi(E))
      /\ fa = IF c[2] = Hi(E) THEN E.n - 1 ELSE a
  BY IndexFacts, BinAssumption DEF Inside, IndexE
<1>2. /\ b \in 0..X.n /\ fb = IF c[1] = Hi(X) THEN X.n - 1 ELSE b
      /\ b = X.n <=> c[1] = Hi(X) /\ Hi(X) <= 0
      /\ c[1] = Hi(X) /\ ~(Hi(X) <= 0) => b = X.n - 1
  <2>1. c[1] \in Int /\ Hi(X) \in Int
    BY AxisFacts DEF Hi
  <2>2. /\ (c[1] - X.lo) \div X.w \in 0..X.n
        /\ (c[1] - X.lo) \div X.w = X.n <=> c[1] = Hi(X)
        /\ fb = IF c[1] = Hi(X) THEN X.n - 1 ELSE (c[1] - X.lo) \div X.w
    BY IndexFacts, BinAssumption DEF Inside
  <2> QED
    BY <2>1, <2>2, AxisFacts DEF Index
<1> HIDE DEF a, b, fa, fb
<1>3. Cell(c) = IF b + X.n * a >= X.n * E.n THEN X.n * E.n - 1 ELSE b + X.n * a
  BY DEF Cell, Size, a, b
<1>4. MatlabCell(c) = fb + X.n * fa
  BY DEF MatlabCell, fa, fb
<1>5. Astray(c) <=> \/ a = E.n /\ fb < X.n - 1
                    \/ b = X.n /\ fa < E.n - 1
  BY <1>1, <1>2 DEF Astray, fa, fb
<1>6. X.n \in Nat \ {0} /\ E.n \in Nat \ {0} /\ X.n * E.n \in Nat /\ X.n * a \in Nat
  BY <1>1, AxisFacts
<1>7. \A p, q \in Nat : p < q => X.n * p + X.n <= X.n * q
  <2> SUFFICES ASSUME NEW p \in Nat, NEW q \in Nat, p < q
               PROVE  X.n * p + X.n <= X.n * q
    OBVIOUS
  <2>1. q - p - 1 \in Nat /\ X.n * (q - p - 1) \in Nat
    BY <1>6
  <2>2. X.n * q = X.n * p + X.n + X.n * (q - p - 1)
    BY <1>6
  <2> QED
    BY <1>6, <2>1, <2>2
<1>8. X.n * (E.n - 1) = X.n * E.n - X.n
  BY <1>6
<1>9. CASE a = E.n
  <2>1. fa = E.n - 1 /\ MatlabCell(c) = fb + X.n * E.n - X.n /\ fb \in 0..(X.n - 1)
    BY <1>1, <1>2, <1>4, <1>6, <1>8, <1>9
  <2>2. Cell(c) = X.n * E.n - 1
    BY <1>2, <1>3, <1>6, <1>9
  <2> QED
    BY <1>5, <1>6, <1>9, <2>1, <2>2
<1>10. CASE a # E.n
  <2>1. fa = a /\ a < E.n /\ X.n * a + X.n <= X.n * E.n
    <3>1. fa = a /\ a \in Nat /\ E.n \in Nat /\ a < E.n
      BY <1>1, <1>6, <1>10
    <3>2. X.n * a + X.n <= X.n * E.n
      BY <1>7, <3>1
    <3> QED
      BY <3>1, <3>2
  <2>2. CASE b < X.n
    <3>1. Cell(c) = b + X.n * a
      BY <1>2, <1>3, <1>6, <2>1, <2>2
    <3>2. fb = b
      BY <1>2, <1>6, <2>2
    <3> QED
      BY <1>2, <1>4, <1>5, <1>10, <2>1, <2>2, <3>1, <3>2
  <2>3. CASE b = X.n
    <3>1. fb = X.n - 1 /\ MatlabCell(c) = X.n - 1 + X.n * a
      BY <1>2, <1>4, <2>1, <2>3
    <3>2. CASE a < E.n - 1
      <4>1. X.n * a + X.n <= X.n * E.n - X.n
        <5>1. a \in Nat /\ E.n - 1 \in Nat
          BY <1>1, <1>6
        <5>2. X.n * a + X.n <= X.n * (E.n - 1)
          BY <1>7, <3>2, <5>1
        <5> QED
          BY <1>8, <5>2
      <4>2. Cell(c) = X.n + X.n * a
        BY <1>3, <1>6, <2>3, <4>1
      <4> QED
        BY <1>5, <1>6, <2>1, <2>3, <3>1, <3>2, <4>2
    <3>3. CASE a = E.n - 1
      <4>1. X.n * a = X.n * E.n - X.n
        BY <1>8, <3>3
      <4>2. Cell(c) = X.n * E.n - 1
        BY <1>3, <1>6, <2>3, <4>1
      <4> QED
        BY <1>5, <1>6, <1>10, <2>1, <3>1, <3>3, <4>1, <4>2
    <3> QED
      BY <1>6, <2>1, <3>2, <3>3, <1>1
  <2> QED
    BY <1>2, <1>6, <2>2, <2>3
<1> QED
  BY <1>9, <1>10

\* The cell a pixel got is the one of its coordinates.
CellInv == \A p \in Pixels : ok[p] => Inside(u[p]) /\ nGridCell[p] = Cell(u[p])

LEMMA CellStep ==
  ASSUME Types, CellInv, [Next]_vars
  PROVE  CellInv'
<1>1. ASSUME NEW t \in Threads, Reject(t) PROVE CellInv'
  <2>1. PICK p \in todo : Rejects(t, p)
    BY <1>1, RejectFacts
  <2>2. u' = u /\ nGridCell' = nGridCell /\ \A q \in Pixels : ok'[q] => ok[q]
    BY <2>1 DEF Rejects
  <2> QED
    BY <2>2 DEF CellInv
<1>2. ASSUME NEW t \in Threads, Accept(t) PROVE CellInv'
  <2>1. PICK p \in todo : /\ Inside(u[p]) /\ ok' = [ok EXCEPT ![p] = TRUE]
                          /\ nGridCell' = [nGridCell EXCEPT ![p] = Cell(u[p])]
    BY <1>2 DEF Accept
  <2>2. u' = u /\ p \in Pixels
    BY <1>2 DEF Accept, Types
  <2>3. ASSUME NEW q \in Pixels, ok'[q]
        PROVE  Inside(u'[q]) /\ nGridCell'[q] = Cell(u'[q])
    BY <2>1, <2>2, <2>3 DEF CellInv, Types
  <2>4. \A q : Inside(u[q])' = Inside(u'[q]) /\ Cell(u[q])' = Cell(u'[q])
    BY DEF Inside, Cell, Index, IndexE, Hi, Size
  <2> QED
    BY <2>3, <2>4 DEF CellInv
<1>3. CASE u' = u /\ ok' = ok /\ nGridCell' = nGridCell
  BY <1>3 DEF CellInv
<1>4. ASSUME NEW t \in Threads, AddSignal(t) \/ Skip(t) \/ Capture(t) \/ CopyPixel(t)
      PROVE  CellInv'
  BY <1>3, <1>4 DEF AddSignal, Skip, Capture, CopyPixel, binVars
<1>5. CASE Single
  BY <1>3, <1>5 DEF Single, SingleKeeps, binVars, EnterCombine, Combine, EnterOffsets, Offset,
                    EnterCount, CountRetained, EnterSort, Finish
<1>6. CASE UNCHANGED vars
  BY <1>3, <1>6 DEF vars, binVars
<1> QED
  BY <1>1, <1>2, <1>4, <1>5, <1>6 DEF Next, Step, Finished

\* Pixels get the cell the Matlab code gives them, provided none is astray on
\* an upper limit: there, and only there, the kernel differs (CellIsMatlabs).
THEOREM BinnedRight ==
  ASSUME \A c \in Coords : Inside(c) => ~Astray(c)
  PROVE  Spec => []BinnedAsMatlab
<1>1. Init => CellInv
  BY DEF Init, CellInv
<1>2. IInv /\ CellInv /\ [Next]_vars => CellInv'
  BY CellStep DEF IInv
<1>3. IInv /\ CellInv => BinnedAsMatlab
  <2> SUFFICES ASSUME IInv, CellInv, NEW p \in Pixels, ok[p]
               PROVE  /\ Inside(u[p])
                      /\ nGridCell[p] = Floor(X, u[p][1]) + X.n * Floor(E, u[p][2])
    BY DEF BinnedAsMatlab
  <2>1. u[p] \in Coords /\ u[p] \in Int \X Int
    BY BinAssumption DEF IInv, Types
  <2>2. Inside(u[p]) /\ nGridCell[p] = Cell(u[p])
    BY DEF CellInv
  <2> QED
    BY <2>1, <2>2, CellIsMatlabs DEF MatlabCell
<1> QED
  BY <1>1, <1>2, <1>3, Invariance, PTL DEF Spec
=============================================================================
