--------------------------------- MODULE Cut ---------------------------------
(***************************************************************************)
(* A cut: the pixels of the ranges that may contribute are read in chunks  *)
(* (cut_accumulate_data), OpenMP threads add the pixels of a chunk to the  *)
(* image (accumulate_cut_c), and retained pixels are kept in memory or     *)
(* written to tmp files whenever a buffer is exceeded                      *)
(* (accumulate_pix_to_file), sorted by cell (sort_pixels_by_bins).  From   *)
(* pixels in memory the image may be added up again (compute_pix_sums_c).  *)
(*                                                                         *)
(* A pixel is its position in the source.  Rotation and binning decide the *)
(* cell; here CellOf does, over coordinates on one axis, and OffGrid says  *)
(* that the cut drops the pixel.  A sum of signals is a bag: how often it  *)
(* has each pixel; errors are added alike.                                 *)
(***************************************************************************)
EXTENDS DataBlocks, FiniteSets

CONSTANTS
  AllRanges,    \* sequences of blocks: what get_nbin_range may return
  BufSizes,     \* mem_chunk_size
  Coords,       \* coordinates of pixels
  NumCells,     \* distribution_size: cells of the image
  CellOf,       \* [Coords -> Cells \cup {OffGrid}]
  Requests,     \* threads configured
  Keep,         \* values of <<keep_pix, return_cut>>
  Inf           \* FLT_MAX

Cells == 1..NumCells
OffGrid == 0
NoRange == <<Inf, -Inf>>

\* Ranges are those of bins one behind the other.
ASSUME CutAssumption ==
  /\ \A rs \in AllRanges : rs \in Seq(Block) /\ Ascending(rs)
  /\ BufSizes \subseteq Nat \ {0} /\ Inf \in Nat /\ Coords \subseteq -Inf..Inf
  /\ NumCells \in Nat \ {0} /\ CellOf \in [Coords -> Cells \cup {OffGrid}]
  /\ Requests \subseteq Int /\ Keep \subseteq BOOLEAN \X BOOLEAN

VARIABLES
  ranges, u, keep_pix, return_cut, num_threads, mem_chunk_size,   \* the request
  blocks, block_chunks, first_ind,                \* ranges glued and cut; dealt out; the next
  stage, iter, candidate_pix,
  pc, cur, loc, todo,                             \* threads of the kernel
  ok, ind, stor, qe, nPixel_retained,
  image,                                          \* cell: <<npix, s>>
  img_range_step, ix,
  mem,                                            \* pixels retained, not yet in a file
  npix_prev, infiles, pix_out, sums

request == <<ranges, u, keep_pix, return_cut, num_threads, mem_chunk_size, blocks>>
plan    == <<request, block_chunks, first_ind>>
kernel  == <<pc, cur, loc, todo, ok, ind, stor, qe, nPixel_retained>>
kept    == <<mem, npix_prev, infiles, pix_out, sums>>
vars    == <<plan, stage, iter, candidate_pix, kernel, image, img_range_step, ix, kept>>

Threads == 1..num_threads
use_tmp_files == ~return_cut /\ Len(block_chunks) > 1
Multithreaded == num_threads > 1
NoPixels == [blocks |-> << >>, ix |-> << >>, n |-> 0]
Source == Positions(ranges)
Counted(ps) == <<Cardinality(ps), [p \in Source |-> IF p \in ps THEN 1 ELSE 0]>>
Plus(a, b) == <<a[1] + b[1], [p \in Source |-> a[2][p] + b[2][p]]>>
Wider(a, b) == <<IF b[1] < a[1] THEN b[1] ELSE a[1], IF b[2] > a[2] THEN b[2] ELSE a[2]>>
Npix == [c \in Cells |-> image[c][1]]
Zero == [c \in Cells |-> 0]
NoSum == [c \in Cells |-> Counted({})]

Init ==
  /\ ranges \in AllRanges /\ u \in [Source -> Coords]
  /\ \E k \in Keep : keep_pix = k[1] /\ return_cut = k[2]
  /\ \E n \in Requests : num_threads = IF n > 1 THEN n ELSE 1
  /\ mem_chunk_size \in BufSizes
  /\ blocks = SplitBig(Glue(ranges), mem_chunk_size) /\ block_chunks = << >> /\ first_ind = 1
  /\ stage = "split" /\ iter = 0 /\ candidate_pix = << >>
  /\ pc = [t \in Threads |-> "loop"] /\ cur = [t \in Threads |-> 0]
  /\ loc = [t \in Threads |-> Counted({})] /\ todo = {}
  /\ ok = << >> /\ ind = << >> /\ stor = [t \in Threads |-> NoSum]
  /\ qe = [t \in Threads |-> NoRange] /\ nPixel_retained = 0
  /\ image = NoSum /\ img_range_step = NoRange /\ ix = << >>
  /\ mem = NoPixels /\ npix_prev = Zero /\ infiles = << >> /\ pix_out = << >>
  /\ sums = [c \in Cells |-> Counted({})[2]]

\* split_data_blocks: one chunk more, as long as there are blocks, and
\* MaxChunks allows it; all blocks are one chunk if they fit the buffer.
Most == MaxChunks(blocks, mem_chunk_size)
SplitChunk ==
  /\ stage = "split" /\ first_ind <= Len(blocks) /\ Len(block_chunks) < Most
  /\ LET last_ind == IF Most = 1 THEN Len(blocks)
                     ELSE LastBlock(blocks, mem_chunk_size, first_ind)
     IN  /\ block_chunks' = Append(block_chunks, SubSeq(blocks, first_ind, last_ind))
         /\ first_ind' = last_ind + 1
  /\ UNCHANGED <<request, stage, iter, candidate_pix, kernel, image, img_range_step, ix, kept>>

SplitDone ==
  /\ stage = "split" /\ (first_ind > Len(blocks) \/ Len(block_chunks) = Most)
  /\ stage' = "chunk"
  /\ UNCHANGED <<plan, iter, candidate_pix, kernel, image, img_range_step, ix, kept>>

(***************************************************************************)
(* accumulate_cut_c.  The storage of the threads begins at zero.           *)
(***************************************************************************)
NextChunk ==
  /\ stage = "chunk" /\ iter < Len(block_chunks)
  /\ stage' = "classify" /\ iter' = iter + 1
  /\ candidate_pix' = PixelsOf(block_chunks[iter + 1])
  /\ todo' = DOMAIN candidate_pix'
  /\ ok' = [j \in todo' |-> FALSE] /\ ind' = [j \in todo' |-> 0]
  /\ stor' = [t \in Threads |-> NoSum]
  /\ qe' = [t \in Threads |-> NoRange] /\ nPixel_retained' = 0
  /\ UNCHANGED <<plan, pc, cur, loc, image, img_range_step, ix, kept>>

Coord(j) == u[candidate_pix[j]]

Reject(t) ==
  /\ stage = "classify" /\ pc[t] = "loop"
  /\ \E j \in todo : CellOf[Coord(j)] = OffGrid /\ todo' = todo \ {j}
  /\ UNCHANGED <<plan, stage, iter, candidate_pix, pc, cur, loc, ok, ind, stor, qe,
                 nPixel_retained, image, img_range_step, ix, kept>>

StorageShared(t) == 1                       \* mutant: one part for all threads
Storage(t) == t

\* The range of the thread is widened; what it counted so far is read.
Accept(t) ==
  /\ stage = "classify" /\ pc[t] = "loop"
  /\ \E j \in todo :
       LET c == CellOf[Coord(j)]
       IN  /\ c # OffGrid
           /\ todo' = todo \ {j} /\ cur' = [cur EXCEPT ![t] = j]
           /\ ok' = [ok EXCEPT ![j] = TRUE] /\ ind' = [ind EXCEPT ![j] = c]
           /\ qe' = [qe EXCEPT ![t] = Wider(@, <<Coord(j), Coord(j)>>)]
           /\ loc' = [loc EXCEPT ![t] = IF Multithreaded THEN stor[Storage(t)][c] ELSE image[c]]
  /\ nPixel_retained' = nPixel_retained + 1
  /\ pc' = [pc EXCEPT ![t] = "add"]
  /\ UNCHANGED <<plan, stage, iter, candidate_pix, stor, image, img_range_step, ix, kept>>

AddSignal(t) ==
  LET c   == ind[cur[t]]
      new == Plus(loc[t], Counted({candidate_pix[cur[t]]}))
  IN  /\ stage = "classify" /\ pc[t] = "add"
      /\ IF Multithreaded
         THEN stor' = [stor EXCEPT ![Storage(t)] = [@ EXCEPT ![c] = new]] /\ UNCHANGED image
         ELSE image' = [image EXCEPT ![c] = new] /\ UNCHANGED stor
      /\ pc' = [pc EXCEPT ![t] = "loop"]
      /\ UNCHANGED <<plan, stage, iter, candidate_pix, cur, loc, todo, ok, ind, qe,
                     nPixel_retained, img_range_step, ix, kept>>

EnterCombine ==
  /\ stage = "classify" /\ todo = {} /\ \A t \in Threads : pc[t] = "loop"
  /\ stage' = "combine" /\ todo' = IF Multithreaded THEN Cells ELSE {}
  /\ UNCHANGED <<plan, iter, candidate_pix, pc, cur, loc, ok, ind, stor, qe,
                 nPixel_retained, image, img_range_step, ix, kept>>

\* Threads share the cells; each is added up by one of them.
Combined(c) ==
  LET sum[t \in 0..num_threads] == IF t = 0 THEN image[c] ELSE Plus(sum[t - 1], stor[t][c])
  IN  sum[num_threads]
CombineCell ==
  /\ stage = "combine"
  /\ \E c \in todo :
       /\ todo' = todo \ {c}
       /\ image' = [image EXCEPT ![c] = Combined(c)]
  /\ UNCHANGED <<plan, stage, iter, candidate_pix, pc, cur, loc, ok, ind, stor, qe,
                 nPixel_retained, img_range_step, ix, kept>>

\* Indexes are compressed by ok in the order of the pixels; the range is
\* that of all threads, and widens the one of the cut if pixels are retained.
Chosen ==
  LET ic[j \in 0..Len(candidate_pix)] ==
        IF j = 0 THEN << >> ELSE IF ok[j] THEN Append(ic[j - 1], j) ELSE ic[j - 1]
  IN  ic[Len(candidate_pix)]
PixRetained == [k \in DOMAIN Chosen |-> candidate_pix[Chosen[k]]]      \* get_pixels(ok)
Widened ==
  LET range[t \in 0..num_threads] ==
        IF t = 0 THEN img_range_step ELSE Wider(range[t - 1], qe[t])
  IN  range[num_threads]

Compress ==
  /\ stage = "combine" /\ todo = {}
  /\ ix' = IF keep_pix THEN [k \in DOMAIN Chosen |-> ind[Chosen[k]]] ELSE << >>
  /\ img_range_step' = IF nPixel_retained > 0 THEN Widened ELSE img_range_step
  /\ stage' = IF keep_pix THEN "keep" ELSE "chunk"
  /\ UNCHANGED <<plan, iter, candidate_pix, kernel, image, kept>>

(***************************************************************************)
(* sort_pixels_by_bins: cells begin where npix says, pixels are put one    *)
(* after the other at the place their cell has come to.  When npix does    *)
(* not add up to the indexes it throws, and sort_pix sorts the indexes.    *)
(***************************************************************************)
Total(npix) == SumTo(npix, NumCells)
First(npix, c) == SumTo(npix, c - 1)
ByBins(npix) == [c \in Cells |-> First(npix, c)]
ByIndex(idx) == [c \in Cells |-> Cardinality({l \in DOMAIN idx : idx[l] < c})]
Put(pix, idx, begin) ==
  LET place(k) == begin[idx[k]] + Cardinality({l \in 1..k : idx[l] = idx[k]})
      last(s)  == Max({k \in DOMAIN pix : place(k) = s})
  IN  [s \in DOMAIN pix |-> IF \E k \in DOMAIN pix : place(k) = s THEN pix[last(s)] ELSE 0]
SortPix(pix, idx, npix) ==
  Put(pix, idx, IF Total(npix) = Len(idx) THEN ByBins(npix) ELSE ByIndex(idx))

(***************************************************************************)
(* Retained pixels: in memory, or in tmp files.                            *)
(***************************************************************************)
Add(m) ==
  IF nPixel_retained = 0 THEN m
  ELSE [blocks |-> m.blocks \o PixRetained, ix |-> m.ix \o ix, n |-> m.n + nPixel_retained]

\* save_pixels_to_file
File(m) == LET now == [c \in Cells |-> Npix[c] - npix_prev[c]]
           IN  [npix |-> now, pix |-> SortPix(m.blocks, m.ix, now), tot |-> m.n]
FlushSum(m) ==                              \* mutant: npix_prev stays
  IF m.blocks = << >> THEN mem' = m /\ UNCHANGED <<npix_prev, infiles>>
  ELSE mem' = NoPixels /\ infiles' = Append(infiles, File(m)) /\ UNCHANGED npix_prev
Flush(m) ==
  IF m.blocks = << >> THEN mem' = m /\ UNCHANGED <<npix_prev, infiles>>
  ELSE mem' = NoPixels /\ npix_prev' = Npix /\ infiles' = Append(infiles, File(m))

KeepInMemory ==
  /\ stage = "keep" /\ ~use_tmp_files
  /\ stage' = "chunk" /\ mem' = Add(mem)
  /\ UNCHANGED <<plan, iter, candidate_pix, kernel, image, img_range_step, ix,
                 npix_prev, infiles, pix_out, sums>>

AccumulateToFile ==                         \* accumulate_pix_to_file
  /\ stage = "keep" /\ use_tmp_files
  /\ stage' = "chunk"
  /\ IF Add(mem).n > mem_chunk_size THEN Flush(Add(mem))
     ELSE mem' = Add(mem) /\ UNCHANGED <<npix_prev, infiles>>
  /\ UNCHANGED <<plan, iter, candidate_pix, kernel, image, img_range_step, ix, pix_out, sums>>

\* combine_pixels: what is left goes to the last file, or all is sorted.
FinishFiles ==
  /\ stage = "chunk" /\ iter = Len(block_chunks) /\ keep_pix /\ use_tmp_files
  /\ Flush(mem) /\ stage' = "done"
  /\ UNCHANGED <<plan, iter, candidate_pix, kernel, image, img_range_step, ix, pix_out, sums>>

FinishInMemory ==
  /\ stage = "chunk" /\ iter = Len(block_chunks) /\ keep_pix /\ ~use_tmp_files
  /\ pix_out' = SortPix(mem.blocks, mem.ix, Npix) /\ mem' = NoPixels
  /\ stage' = "sums" /\ todo' = Cells /\ sums' = [c \in Cells |-> Counted({})[2]]
  /\ UNCHANGED <<plan, iter, candidate_pix, pc, cur, loc, ok, ind, stor, qe, nPixel_retained,
                 image, img_range_step, ix, npix_prev, infiles>>

FinishImage ==
  /\ stage = "chunk" /\ iter = Len(block_chunks) /\ ~keep_pix
  /\ stage' = "done"
  /\ UNCHANGED <<plan, iter, candidate_pix, kernel, image, img_range_step, ix, kept>>

\* compute_pix_sums: cells are shared by threads, npix says where they begin.
Summed(c) ==
  [p \in Source |-> Cardinality({k \in 1..Npix[c] : pix_out[First(Npix, c) + k] = p})]
SumCell ==
  /\ stage = "sums"
  /\ \E c \in todo :
       /\ todo' = todo \ {c}
       /\ sums' = [sums EXCEPT ![c] = Summed(c)]
  /\ UNCHANGED <<plan, stage, iter, candidate_pix, pc, cur, loc, ok, ind, stor, qe,
                 nPixel_retained, image, img_range_step, ix, mem, npix_prev, infiles, pix_out>>

FinishSums ==
  /\ stage = "sums" /\ todo = {}
  /\ stage' = "done"
  /\ UNCHANGED <<plan, iter, candidate_pix, kernel, image, img_range_step, ix, kept>>

Step(t) == Reject(t) \/ Accept(t) \/ AddSignal(t)
Single ==
  \/ SplitChunk \/ SplitDone \/ NextChunk \/ EnterCombine \/ CombineCell \/ Compress
  \/ KeepInMemory \/ AccumulateToFile
  \/ FinishFiles \/ FinishInMemory \/ FinishImage \/ SumCell \/ FinishSums
Finished == stage = "done" /\ UNCHANGED vars
Next == (\E t \in Threads : Step(t)) \/ Single \/ Finished

\* A cut begins, chunk by chunk, and ends in one of the ways above.
Spec == Init /\ [][Next]_vars

(***************************************************************************)
(* Properties.                                                             *)
(***************************************************************************)
\* Every variable keeps its type.
Sum == Nat \X [Source -> Nat]
TypeOK ==
  /\ ranges \in AllRanges /\ u \in [Source -> Coords]
  /\ mem_chunk_size \in BufSizes /\ num_threads \in Nat \ {0}
  /\ keep_pix \in BOOLEAN /\ return_cut \in BOOLEAN
  /\ stage \in {"split", "chunk", "classify", "combine", "keep", "sums", "done"}
  /\ \A k \in DOMAIN block_chunks : Positions(block_chunks[k]) \subseteq Source
  /\ first_ind \in 1..(Len(blocks) + 1)
  /\ iter \in 0..Len(block_chunks) /\ candidate_pix \in Seq(Source)
  /\ pc \in [Threads -> {"loop", "add"}] /\ cur \in [Threads -> Nat]
  /\ loc \in [Threads -> Sum]
  /\ todo \subseteq Cells \cup DOMAIN candidate_pix
  /\ ok \in [DOMAIN candidate_pix -> BOOLEAN]
  /\ ind \in [DOMAIN candidate_pix -> Cells \cup {0}]
  /\ stor \in [Threads -> [Cells -> Sum]] /\ qe \in [Threads -> Int \X Int]
  /\ nPixel_retained \in Nat /\ image \in [Cells -> Sum]
  /\ img_range_step \in Int \X Int /\ ix \in Seq(Cells)
  /\ mem \in [blocks : Seq(Source), ix : Seq(Cells), n : Nat]
  /\ npix_prev \in [Cells -> Nat] /\ sums \in [Cells -> [Source -> Nat]]
  /\ \A k \in DOMAIN infiles :
       infiles[k] \in [npix : [Cells -> Nat], pix : Seq(Source), tot : Nat]
  /\ pix_out \in Seq(Source)

InCell(ps, c) == {p \in ps : CellOf[u[p]] = c}
Retained(ps) == {p \in ps : CellOf[u[p]] # OffGrid}
Read == UNION {ToSet(PixelsOf(block_chunks[k])) : k \in 1..iter}
AtRest == stage \in {"split", "chunk", "keep", "sums", "done"}

\* Whatever thread takes a pixel, it is counted once with its signal, in the
\* cell it belongs to, chunk after chunk; and the range of the cut is the range
\* of the pixels retained, no wider.
ImageCountsRead ==
  AtRest =>
    /\ \A c \in Cells : image[c] = Counted(InCell(Read, c))
    /\ img_range_step =
         IF Retained(Read) = {} THEN NoRange
         ELSE <<Min({u[p] : p \in Retained(Read)}), Max({u[p] : p \in Retained(Read)})>>

\* The chunks leave out no pixel of the ranges that may contribute.
EveryCandidateCut ==
  stage = "done" => \A c \in Cells : image[c] = Counted(InCell(Source, c))

\* Files hold every retained pixel once, in the section of its cell, and
\* their counts add up to the image.
OnFile == UNION {{f} \X DOMAIN infiles[f].pix : f \in DOMAIN infiles}
PixAt(x) == infiles[x[1]].pix[x[2]]
FilesHoldRetained ==
  /\ \A f \in DOMAIN infiles :
       LET file == infiles[f]
       IN  /\ file.tot = Len(file.pix) /\ Total(file.npix) = Len(file.pix)
           /\ \A c \in Cells : \A k \in 1..file.npix[c] :
                CellOf[u[file.pix[First(file.npix, c) + k]]] = c
  /\ {PixAt(x) : x \in OnFile} = Retained(Read)
  /\ \A x, y \in OnFile : x # y => PixAt(x) # PixAt(y)
  /\ \A c \in Cells :
       SumTo([f \in DOMAIN infiles |-> infiles[f].npix[c]], Len(infiles)) = Npix[c]

\* Pixels kept in memory give the image again.
SumsAgree ==
  /\ ToSet(pix_out) = Retained(Read) /\ Len(pix_out) = Cardinality(Retained(Read))
  /\ \A c \in Cells : sums[c] = image[c][2]

\* The pixels a cut keeps, in tmp files or in memory, are those of its image.
KeptPixelsMatchImage ==
  stage = "done" /\ keep_pix => IF use_tmp_files THEN FilesHoldRetained ELSE SumsAgree
=============================================================================
