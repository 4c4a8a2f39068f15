--------------------------- MODULE PixMemMapProofs ---------------------------
(***************************************************************************)
(* pix_mem_map on any file, with windows of any size, with and without its *)
(* read thread: every answer is that of the file's map, and the windows in *)
(* memory and read ahead are pieces of it that follow one another.         *)
(***************************************************************************)
EXTENDS PixMemMap, WellFoundedInduction, TLAPS

\* A set of numbers has a least one.
LEMMA LeastOfNats ==
  ASSUME NEW S \in SUBSET Nat, S # {}
  PROVE  \E x \in S : \A y \in S : x <= y
<1>1. PICK x \in S : \A y \in S : ~ (<<y, x>> \in OpToRel(<, Nat))
  BY WFMin, NatLessThanWellFounded
<1>2. \A y \in S : ~ (y < x)
  BY <1>1 DEF OpToRel
<1> QED
  BY <1>2

\* That is its Min.
LEMMA MinOfNats ==
  ASSUME NEW S \in SUBSET Nat, S # {}
  PROVE  Min(S) \in S /\ \A y \in S : Min(S) <= y
BY LeastOfNats DEF Min

\* A finite set of numbers has a greatest one, its Max.
LEMMA MaxOfNats ==
  ASSUME NEW S \in SUBSET Nat, S # {}, NEW n \in Nat, \A x \in S : x <= n
  PROVE  Max(S) \in S /\ \A y \in S : Max(S) >= y
<1> DEFINE T == {m \in 0..n : n - m \in S}
<1>1. T \in SUBSET Nat
  OBVIOUS
<1>2. \A x \in S : x \in Nat /\ n - x \in 0..n /\ n - (n - x) = x
  OBVIOUS
<1>3. \A x \in S : n - x \in T
  BY <1>2
<1>4. PICK t \in T : \A y \in T : t <= y
  BY <1>1, <1>3, LeastOfNats
<1>5. n - t \in S /\ \A y \in S : n - t >= y
  BY <1>2, <1>3, <1>4
<1> QED
  BY <1>5 DEF Max

\* A file is the positions its bins begin at.
LEMMA FileFacts ==
  ASSUME NEW file \in Files
  PROVE  /\ file \in [0..NumBins -> Nat] /\ file[0] = 0
         /\ \A a, b \in 0..NumBins : a <= b => file[a] <= file[b]
         /\ NumBins \in Nat /\ NumBins > 0
BY FilesAssumption

\* Every bin ends where the next one begins, inside the file.
LEMMA NpixFacts ==
  ASSUME NEW file \in Files, NEW b \in Bins
  PROVE  /\ file[b] \in Nat /\ NpixOf(file, b) \in Nat
         /\ file[b] + NpixOf(file, b) = file[b + 1]
         /\ file[b + 1] <= file[NumBins] /\ file[NumBins] \in Nat
<1>1. b \in 0..NumBins /\ b + 1 \in 0..NumBins /\ NumBins \in 0..NumBins
  BY FilesAssumption DEF Bins
<1> QED
  BY <1>1, FileFacts DEF NpixOf, PixIn

\* The pixels of whole bins that fit n pixels.
LEMMA WholeBinsFacts ==
  ASSUME NEW file \in Files, NEW b \in Bins, NEW n \in Nat
  PROVE  WholeBins(file, b, n) \in Nat
<1> DEFINE S == {PixIn(file, b, k) : k \in {j \in (b + 1)..NumBins : PixIn(file, b, j) <= n}}
<1>1. CASE NpixOf(file, b) >= n
  BY <1>1, NpixFacts DEF WholeBins
<1>2. CASE ~(NpixOf(file, b) >= n)
  <2>1. b \in Nat /\ b + 1 <= NumBins /\ NumBins \in Nat /\ b + 1 \in (b + 1)..NumBins
    BY FilesAssumption DEF Bins
  <2>2. PixIn(file, b, b + 1) \in S
    BY <1>2, <2>1, NpixFacts DEF NpixOf
  <2>3. ASSUME NEW k \in (b + 1)..NumBins
        PROVE  PixIn(file, b, k) \in Nat
    <3>1. k \in 0..NumBins /\ b \in 0..NumBins /\ b <= k
      BY <2>1
    <3>2. file[b] \in Nat /\ file[k] \in Nat /\ file[b] <= file[k]
      BY <3>1, FileFacts
    <3> QED
      BY <3>2 DEF PixIn
  <2>4. S \in SUBSET Nat /\ \A x \in S : x <= n
    BY <2>3
  <2>5. WholeBins(file, b, n) = Max(S)
    BY <1>2 DEF WholeBins
  <2> HIDE DEF S
  <2> QED
    BY <2>2, <2>4, <2>5, MaxOfNats
<1> QED
  BY <1>1, <1>2

\* They are those of the bins up to some bin k that is the last, or the next of
\* which does not fit, or with which the n pixels are full.
LEMMA WholeBinsIs ==
  ASSUME NEW file \in Files, NEW b \in Bins, NEW n \in Nat, NpixOf(file, b) < n,
         NEW k \in (b + 1)..NumBins, PixIn(file, b, k) <= n,
         k = NumBins \/ PixIn(file, b, k + 1) > n \/ PixIn(file, b, k) = n
  PROVE  WholeBins(file, b, n) = PixIn(file, b, k)
<1> DEFINE K == {j \in (b + 1)..NumBins : PixIn(file, b, j) <= n}
           S == {PixIn(file, b, j) : j \in K}
<1>1. b \in Nat /\ NumBins \in Nat /\ b \in 0..NumBins
  BY FilesAssumption DEF Bins
<1>2. \A j \in K : PixIn(file, b, j) \in Nat /\ PixIn(file, b, j) <= PixIn(file, b, k)
  <2> TAKE j \in K
  <2>1. j \in 0..NumBins /\ k \in 0..NumBins /\ b <= j /\ PixIn(file, b, j) <= n
    BY <1>1
  <2>2. file[b] \in Nat /\ file[j] \in Nat /\ file[k] \in Nat /\ file[b] <= file[j]
    BY <1>1, <2>1, FileFacts
  <2>3. CASE j <= k
    <3>1. file[j] <= file[k]
      BY <2>1, <2>3, FileFacts
    <3> QED
      BY <2>2, <3>1 DEF PixIn
  <2>4. CASE j > k
    <3>1. k # NumBins /\ k + 1 \in 0..NumBins /\ k + 1 <= j
      BY <1>1, <2>1, <2>4
    <3>2. file[k + 1] <= file[j] /\ file[k + 1] \in Nat
      BY <2>1, <3>1, FileFacts
    <3>3. PixIn(file, b, k) = n
      BY <2>1, <2>2, <3>1, <3>2 DEF PixIn
    <3> QED
      BY <2>1, <2>2, <3>3 DEF PixIn
  <2> QED
    BY <1>1, <2>1, <2>3, <2>4
<1>3. S \in SUBSET Nat /\ PixIn(file, b, k) \in S /\ \A x \in S : x <= PixIn(file, b, k)
  BY <1>2
<1>4. WholeBins(file, b, n) = Max(S)
  BY NpixFacts DEF WholeBins
<1> HIDE DEF S
<1>5. Max(S) \in S /\ \A y \in S : Max(S) >= y
  <2>1. PixIn(file, b, k) \in Nat
    BY <1>3
  <2> QED
    BY <1>3, <2>1, MaxOfNats
<1>6. Max(S) \in Nat /\ PixIn(file, b, k) \in Nat
  BY <1>3, <1>5
<1>7. Max(S) >= PixIn(file, b, k) /\ Max(S) <= PixIn(file, b, k)
  BY <1>3, <1>5
<1>8. Max(S) = PixIn(file, b, k)
  BY <1>6, <1>7
<1> QED
  BY <1>4, <1>8
(***************************************************************************)
(* The invariant.                                                          *)
(***************************************************************************)
Updating == cpc \in {"update", "request", "get"}
Ending   == cpc \in {"finish", "join", "finished"}

\* While the window is being updated its limits are locals of the method.
WFirst == IF Updating THEN loc.start ELSE num_first_buf_bin
WLast  == IF Updating THEN loc.end ELSE num_last_buf_bin

\* The first n cells of buf are those of the bins of a file from first on.
Describes(file, buf, n, first) ==
  /\ n <= Len(buf)
  /\ \A i \in 1..n :
       buf[i] = [num |-> NpixOf(file, first + i - 1), pos |-> PixIn(file, first, first + i - 1)]

\* The bin asked for, and where the caller may be with it.
CallInv ==
  /\ cpc \in {"expand", "extend"} => call.op = "expand"
  /\ cpc \in {"expand", "extend", "return"} =>
       InWindow(call.bin, num_first_buf_bin, num_last_buf_bin)
  /\ cpc \in {"lookup", "update", "request", "get"} => call.op # "none"
  /\ Updating => call.bin >= loc.start
  /\ cpc \in {"request", "get"} => ~Loaded
  /\ cpc \in {"request", "get", "finish", "join", "finished"} => mode.threads
  /\ mode.threads => (read_job_completed <=> Ending)

\* The window is a piece of the map at its place.  A window of one cell fills
\* the buffer or ends the file, so that the last cell is the one LastFilled
\* takes; and a window is empty only before the first read.
WindowInv ==
  /\ WFirst <= WLast /\ WLast <= NumBins /\ Len(nbin_buffer) >= 1
  /\ Describes(start, nbin_buffer, WLast - WFirst, WFirst)
  /\ prebuf_pix_num = start[WFirst]
  /\ map_capacity_isknown <=> WLast = NumBins
  /\ WLast - WFirst = 1 => Len(nbin_buffer) = 1 \/ WLast = NumBins
  /\ ~Updating /\ WFirst = WLast =>
       WLast = 0 /\ End(nbin_buffer[Len(nbin_buffer)]) = 0

\* The number of filled cells, and the cell before the next window.
FilledInv ==
  /\ ~Updating /\ cpc # "extend" => buf_end = WLast - WFirst
  /\ Updating /\ Loaded => loc.end_buf = WLast - WFirst
  /\ Updating /\ ~Loaded =>
       /\ loc.n_last + 1 \in 1..Len(nbin_buffer)
       /\ PixelsPassed = start[loc.end]

\* Without threads bins are asked for in turn, and one window always follows
\* the one before; only the very first call may ask for the second bin.
PlainInv ==
  ~mode.threads =>
    /\ cpc # "idle" => cur = call.bin
    /\ cpc \in {"idle", "expand", "extend", "return"} =>
         InWindow(cur, num_first_buf_bin, num_last_buf_bin) \/ (num_last_buf_bin = 0 /\ cur = 0)
    /\ cpc = "lookup" =>
         /\ call.bin >= num_first_buf_bin
         /\ call.bin <= num_last_buf_bin \/ (num_last_buf_bin = 0 /\ call.bin = 1)
    /\ cpc = "update" /\ ~Loaded =>
         call.bin = loc.end \/ (loc.n_last = Len(nbin_buffer) - 1 /\ call.bin = loc.end + 1)

\* What the thread offers is the file's map from its first bin on.
ThreadInv ==
  mode.threads =>
    /\ n_first_rbuf_bin = NumBins => thread_read_to_end
    /\ nbins_read /\ ~read_job_completed =>
         /\ rbuf_nbin_end = n_first_rbuf_bin + rbuf_end
         /\ Describes(start, thread_nbin_buffer, rbuf_end, n_first_rbuf_bin)
         /\ thread_read_to_end <=> rbuf_nbin_end = NumBins
         /\ n_first_rbuf_bin < NumBins =>
              rbuf_end >= 1 /\ (rbuf_end = BufSize \/ rbuf_nbin_end = NumBins)

\* It starts where the caller's window ends, or the caller restarts from the
\* first bin and has yet to tell the thread.
Follows(last) == n_first_rbuf_bin = last
Restarting == loc.start = 0 /\ loc.end = 0 /\ call.bin < n_first_rbuf_bin
AheadInv ==
  mode.threads =>
    /\ cpc \in {"idle", "lookup", "expand", "return"} => Follows(num_last_buf_bin)
    /\ cpc = "extend" => Follows(loc.start)
    /\ cpc = "update" => Follows(loc.end) \/ Restarting
    /\ cpc = "request" => Restarting
    /\ cpc = "get" => Follows(loc.end)

\* The map being extended continues the window and has not yet been enough.
ExtendInv ==
  cpc = "extend" =>
    /\ ~map_capacity_isknown
    /\ loc.start >= num_last_buf_bin /\ loc.start <= NumBins
    /\ Len(holder) = loc.start - call.bin
    /\ Describes(start, holder, Len(holder), call.bin)
    /\ loc.end = PixIn(start, call.bin, loc.start)
    /\ eop <=> loc.start = NumBins
    /\ loc.start = num_last_buf_bin => loc.end < call.fit

IInv ==
  /\ TypeOK /\ CallInv /\ WindowInv /\ FilledInv /\ PlainInv
  /\ ThreadInv /\ AheadInv /\ ExtendInv /\ AnswersRight

(***************************************************************************)
(* Maps in memory.                                                         *)
(***************************************************************************)
\* A map is what is defined cell by cell.
LEMMA MadeOf ==
  ASSUME NEW n \in Nat, NEW f \in [1..n -> CellType]
  PROVE  f \in Seq(CellType) /\ Len(f) = n
OBVIOUS

\* One cell of a map overwritten leaves a map.
LEMMA CellSet ==
  ASSUME NEW map \in Seq(CellType), NEW i \in Int, NEW cell \in CellType
  PROVE  [map EXCEPT ![i] = cell] \in Seq(CellType)
<1>1. Len(map) \in Nat /\ map \in [1..Len(map) -> CellType]
  OBVIOUS
<1>2. [map EXCEPT ![i] = cell] \in [1..Len(map) -> CellType]
  BY <1>1, Zenon
<1> QED
  BY <1>1, <1>2, MadeOf

LEMMA ZerosFacts ==
  ASSUME NEW n \in Nat
  PROVE  /\ Zeros(n) \in Seq(CellType) /\ Len(Zeros(n)) = n
         /\ \A i \in 1..n : Zeros(n)[i] = [num |-> 0, pos |-> 0]
<1>1. Zeros(n) \in [1..n -> CellType]
  BY DEF Zeros, CellType
<1> QED
  BY <1>1, MadeOf DEF Zeros

LEMMA PixInFacts ==
  ASSUME NEW file \in Files, NEW a \in 0..NumBins, NEW b \in a..NumBins
  PROVE  /\ PixIn(file, a, b) \in Nat /\ file[a] \in Nat /\ file[b] \in Nat
         /\ file[a] + PixIn(file, a, b) = file[b]
<1>1. b \in 0..NumBins /\ a <= b
  BY FileFacts
<1> QED
  BY <1>1, FileFacts DEF PixIn

\* The cell of a bin, from the first bin of a window on.
LEMMA BinCell ==
  ASSUME NEW file \in Files, NEW first \in 0..NumBins, NEW b \in first..(NumBins - 1)
  PROVE  /\ [num |-> NpixOf(file, b), pos |-> PixIn(file, first, b)] \in CellType
         /\ PixIn(file, first, b) + NpixOf(file, b) = PixIn(file, first, b + 1)
<1>1. NumBins \in Nat /\ first \in Nat /\ b \in Nat /\ b >= first /\ b + 1 <= NumBins
  BY FileFacts
<1>2. /\ b \in first..NumBins /\ b + 1 \in first..NumBins /\ b \in 0..NumBins
      /\ b + 1 \in b..NumBins
  BY <1>1
<1> QED
  BY <1>2, PixInFacts DEF NpixOf, CellType, PixIn

LEMMA DescribedCell ==
  ASSUME NEW file \in Files, NEW buf \in Seq(CellType), NEW first \in 0..NumBins,
         NEW n \in Nat, first + n <= NumBins, Describes(file, buf, n, first),
         NEW i \in 1..n
  PROVE  /\ i \in 1..Len(buf) /\ buf[i] \in CellType
         /\ buf[i].num = NpixOf(file, first + i - 1)
         /\ buf[i].pos = PixIn(file, first, first + i - 1)
         /\ End(buf[i]) = PixIn(file, first, first + i)
         /\ PixIn(file, first, first + i) \in Nat
         /\ first + i - 1 \in first..(NumBins - 1) /\ first + i \in first..NumBins
<1>1. /\ first \in Nat /\ i \in Nat /\ NumBins \in Nat /\ i >= 1 /\ i <= n
      /\ n <= Len(buf) /\ Len(buf) \in Nat
  BY FileFacts DEF Describes
<1>2. first + i - 1 \in first..(NumBins - 1) /\ first + i \in first..NumBins /\ i \in 1..Len(buf)
  BY <1>1
<1>3. first + i - 1 + 1 = first + i
  BY <1>1
<1>4. buf[i] = [num |-> NpixOf(file, first + i - 1), pos |-> PixIn(file, first, first + i - 1)]
  BY DEF Describes
<1>5. PixIn(file, first, first + i - 1) + NpixOf(file, first + i - 1) = PixIn(file, first, first + i)
  BY <1>2, <1>3, BinCell
<1>6. PixIn(file, first, first + i) \in Nat
  BY <1>2, PixInFacts
<1> QED
  BY <1>2, <1>4, <1>5, <1>6 DEF End

\* _read_bins describes the bins from the one it is asked for on.
LEMMA ReadBinsFacts ==
  ASSUME NEW buf \in Seq(CellType), Len(buf) >= 1, NEW from \in Bins, start \in Files
  PROVE  LET n == ReadCount(from, Len(buf))
         IN  /\ n \in 1..Len(buf) /\ from + n <= NumBins
             /\ ReadsToEnd(from, Len(buf)) <=> from + n = NumBins
             /\ n = Len(buf) \/ from + n = NumBins
             /\ ReadBins(from, buf) \in Seq(CellType) /\ Len(ReadBins(from, buf)) = Len(buf)
             /\ Describes(start, ReadBins(from, buf), n, from)
<1> DEFINE n == ReadCount(from, Len(buf))
<1>1. Len(buf) \in Nat /\ from \in Nat /\ NumBins \in Nat /\ from < NumBins
  BY FilesAssumption DEF Bins
<1>2. /\ n \in 1..Len(buf) /\ from + n <= NumBins
      /\ ReadsToEnd(from, Len(buf)) <=> from + n = NumBins
      /\ n = Len(buf) \/ from + n = NumBins
  BY <1>1 DEF ReadCount, ReadsToEnd
<1> HIDE DEF n
<1>3. \A i \in 1..Len(buf) :
        i <= n => [num |-> NpixOf(start, from + i - 1), pos |-> PixIn(start, from, from + i - 1)]
                    \in CellType
  <2> TAKE i \in 1..Len(buf)
  <2> HAVE i <= n
  <2>1. from \in 0..NumBins /\ from + i - 1 \in from..(NumBins - 1)
    BY <1>1, <1>2
  <2> QED
    BY <2>1, BinCell
<1>4. ReadBins(from, buf) =
        [i \in 1..Len(buf) |->
           IF i <= n
           THEN [num |-> NpixOf(start, from + i - 1), pos |-> PixIn(start, from, from + i - 1)]
           ELSE buf[i]]
  BY DEF ReadBins, n
<1>5. ReadBins(from, buf) \in [1..Len(buf) -> CellType]
  BY <1>3, <1>4
<1>6. ReadBins(from, buf) \in Seq(CellType) /\ Len(ReadBins(from, buf)) = Len(buf)
  BY <1>1, <1>5, MadeOf
<1>7. Describes(start, ReadBins(from, buf), n, from)
  <2>1. n <= Len(buf) /\ \A i \in 1..n : i \in 1..Len(buf) /\ i <= n
    BY <1>1, <1>2
  <2>2. \A i \in 1..n :
          ReadBins(from, buf)[i] =
            [num |-> NpixOf(start, from + i - 1), pos |-> PixIn(start, from, from + i - 1)]
    BY <1>4, <2>1
  <2> QED
    BY <1>6, <2>1, <2>2 DEF Describes
<1> QED
  BY <1>2, <1>6, <1>7 DEF n

\* The first cells of a map are a map of the same bins.
LEMMA FirstCells ==
  ASSUME NEW file, NEW buf \in Seq(CellType), NEW n \in Nat, NEW first \in Nat,
         Describes(file, buf, n, first)
  PROVE  LET chunk == SubSeq(buf, 1, n)
         IN  /\ chunk \in Seq(CellType) /\ Len(chunk) = n
             /\ Describes(file, chunk, n, first)
<1>1. n <= Len(buf) /\ Len(buf) \in Nat
  BY DEF Describes
<1>2. SubSeq(buf, 1, n) = [i \in 1..n |-> buf[i]]
  BY <1>1
<1>3. SubSeq(buf, 1, n) \in [1..n -> CellType]
  <2>1. \A i \in 1..n : i \in 1..Len(buf)
    BY <1>1
  <2>2. \A i \in 1..n : buf[i] \in CellType
    BY <2>1
  <2> QED
    BY <1>2, <2>2
<1>4. SubSeq(buf, 1, n) \in Seq(CellType) /\ Len(SubSeq(buf, 1, n)) = n
  BY <1>3, MadeOf
<1> QED
  BY <1>2, <1>4 DEF Describes

\* Two maps, one after the other.
LEMMA JoinedFacts ==
  ASSUME NEW s \in Seq(CellType), NEW t \in Seq(CellType)
  PROVE  /\ s \o t \in Seq(CellType) /\ Len(s \o t) = Len(s) + Len(t)
         /\ \A i \in 1..(Len(s) + Len(t)) :
              (s \o t)[i] = IF i <= Len(s) THEN s[i] ELSE t[i - Len(s)]
OBVIOUS

\* A chunk added to a map that ends where the chunk begins continues it.
LEMMA AddChunkFacts ==
  ASSUME NEW file \in Files, NEW map \in Seq(CellType), NEW chunk \in Seq(CellType),
         NEW first \in 0..NumBins, Len(map) >= 1,
         first + Len(map) + Len(chunk) <= NumBins,
         Describes(file, map, Len(map), first),
         Describes(file, chunk, Len(chunk), first + Len(map))
  PROVE  /\ AddChunk(chunk, map) \in Seq(CellType)
         /\ Len(AddChunk(chunk, map)) = Len(map) + Len(chunk)
         /\ Describes(file, AddChunk(chunk, map), Len(map) + Len(chunk), first)
<1> DEFINE m == Len(map)
           c == Len(chunk)
           tail == [i \in 1..c |-> [num |-> chunk[i].num,
                                    pos |-> chunk[i].pos + End(map[m])]]
<1>1. m \in Nat /\ c \in Nat /\ first \in Nat /\ NumBins \in Nat /\ m >= 1
  BY FileFacts
<1>2. m \in 1..m /\ first + m <= NumBins /\ first + m \in 0..NumBins
  BY <1>1
<1>3. End(map[m]) = PixIn(file, first, first + m)
  BY <1>1, <1>2, DescribedCell
<1>4. \A i \in 1..c :
        tail[i] = [num |-> NpixOf(file, first + (m + i) - 1),
                   pos |-> PixIn(file, first, first + (m + i) - 1)]
  <2> TAKE i \in 1..c
  <2>1. /\ chunk[i].num = NpixOf(file, first + m + i - 1)
        /\ chunk[i].pos = PixIn(file, first + m, first + m + i - 1)
        /\ first + m + i - 1 \in (first + m)..(NumBins - 1)
    BY <1>1, <1>2, DescribedCell
  <2>2. /\ first + m \in first..NumBins /\ first + m + i - 1 \in (first + m)..NumBins
        /\ first + m + i - 1 \in 0..NumBins
    BY <1>1, <2>1
  <2>3. file[first] \in Nat /\ file[first + m] \in Nat /\ file[first + m + i - 1] \in Nat
    BY <1>2, <2>2, FileFacts
  <2>4. PixIn(file, first + m, first + m + i - 1) + PixIn(file, first, first + m)
          = PixIn(file, first, first + m + i - 1)
    BY <2>3 DEF PixIn
  <2>5. first + m + i - 1 = first + (m + i) - 1
    BY <1>1
  <2> QED
    BY <1>3, <2>1, <2>4, <2>5
<1>5. \A i \in 1..c : tail[i] \in CellType
  <2> TAKE i \in 1..c
  <2>1. first + (m + i) - 1 \in first..(NumBins - 1)
    BY <1>1
  <2> HIDE DEF tail
  <2> QED
    BY <1>4, <2>1, BinCell
<1>6. tail \in Seq(CellType) /\ Len(tail) = c
  <2>1. tail \in [1..c -> CellType]
    BY <1>5
  <2> QED
    BY <1>1, <2>1, MadeOf
<1>7. AddChunk(chunk, map) = map \o tail
  BY DEF AddChunk
<1> HIDE DEF tail
<1>8. /\ AddChunk(chunk, map) \in Seq(CellType) /\ Len(AddChunk(chunk, map)) = m + c
      /\ \A i \in 1..(m + c) :
           AddChunk(chunk, map)[i] = IF i <= m THEN map[i] ELSE tail[i - m]
  <2>1. /\ map \o tail \in Seq(CellType) /\ Len(map \o tail) = Len(map) + Len(tail)
        /\ \A i \in 1..(Len(map) + Len(tail)) :
             (map \o tail)[i] = IF i <= Len(map) THEN map[i] ELSE tail[i - Len(map)]
    BY <1>6, JoinedFacts
  <2> QED
    BY <1>6, <1>7, <2>1
<1>9. \A i \in 1..(m + c) :
        AddChunk(chunk, map)[i] = [num |-> NpixOf(file, first + i - 1),
                                   pos |-> PixIn(file, first, first + i - 1)]
  <2> TAKE i \in 1..(m + c)
  <2>1. CASE i <= m
    <3>1. i \in 1..m
      BY <1>1, <2>1
    <3> QED
      BY <1>8, <2>1, <3>1 DEF Describes
  <2>2. CASE i > m
    <3>1. i - m \in 1..c /\ m + (i - m) = i /\ ~(i <= m)
      BY <1>1, <2>2
    <3>2. AddChunk(chunk, map)[i] = tail[i - m]
      BY <1>8, <3>1
    <3> QED
      BY <1>4, <3>1, <3>2
  <2> QED
    BY <1>1, <2>1, <2>2
<1>10. m + c <= Len(AddChunk(chunk, map))
  BY <1>1, <1>8
<1> QED
  BY <1>8, <1>9, <1>10 DEF Describes

(***************************************************************************)
(* What the invariant says at the places of a call.                        *)
(***************************************************************************)
LEMMA Fixed ==
  ASSUME [Next]_vars
  PROVE  mode' = mode /\ start' = start
BY DEF Next, vars, Call, Methods, LookupHit, LookupAhead, LookupBehind, UpdateDone, UpdateRead,
       QueryData, RequestToRead, UpdateGet, ExpandReturn, ExpandStart, ExtendRead, ExtendGet,
       Flatten, Return, FinishNotify, FinishJoin, FinishSet, Job, JobLoop, JobTest, JobBlock,
       JobRelock, JobRead, JobSpurious, Finished, callerVars

LEMMA MapFacts ==
  ASSUME IInv
  PROVE  /\ start \in Files /\ mode \in Modes /\ NumBins \in Nat /\ NumBins >= 1
         /\ BufSize \in Nat /\ BufSize >= 1
         /\ \A n \in Fits : n \in Nat
         /\ num_first_buf_bin \in 0..NumBins /\ num_last_buf_bin \in 0..NumBins
         /\ WFirst \in 0..NumBins /\ WLast \in 0..NumBins /\ WFirst <= WLast
         /\ start[WFirst] \in Nat /\ start[WLast] \in Nat
         /\ nbin_buffer \in Seq(CellType) /\ Len(nbin_buffer) \in Nat /\ Len(nbin_buffer) >= 1
         /\ call.bin \in Bins /\ call.fit \in Nat
         /\ loc.start \in Nat /\ loc.end \in Nat /\ loc.end_buf \in Nat /\ loc.n_last \in Nat
         /\ holder \in Seq(CellType) /\ Len(holder) \in Nat
         /\ thread_nbin_buffer \in Seq(CellType) /\ Len(thread_nbin_buffer) = BufSize
         /\ n_first_rbuf_bin \in 0..NumBins /\ rbuf_nbin_end \in 0..NumBins
         /\ rbuf_end \in 0..BufSize
<1>1. TypeOK /\ WindowInv
  BY DEF IInv
<1>2. NumBins \in Nat /\ NumBins >= 1 /\ BufSize \in Nat /\ BufSize >= 1
  BY FilesAssumption, MapAssumption
<1>3. /\ call.bin \in Bins /\ call.fit \in Nat
      /\ loc.start \in Nat /\ loc.end \in Nat /\ loc.end_buf \in Nat /\ loc.n_last \in Nat
      /\ nbin_buffer \in Seq(CellType) /\ holder \in Seq(CellType)
      /\ thread_nbin_buffer \in Seq(CellType) /\ Len(thread_nbin_buffer) = BufSize
      /\ start \in Files /\ mode \in Modes
      /\ num_first_buf_bin \in 0..NumBins /\ num_last_buf_bin \in 0..NumBins
      /\ n_first_rbuf_bin \in 0..NumBins /\ rbuf_nbin_end \in 0..NumBins
      /\ rbuf_end \in 0..BufSize
  BY <1>1 DEF TypeOK
<1>4. WFirst \in 0..NumBins /\ WLast \in 0..NumBins /\ WFirst <= WLast
  <2>1. WFirst \in Nat /\ WLast \in Nat
    BY <1>2, <1>3 DEF WFirst, WLast
  <2> QED
    BY <1>1, <1>2, <2>1 DEF WindowInv
<1>5. start[WFirst] \in Nat /\ start[WLast] \in Nat
  BY <1>3, <1>4, FileFacts
<1>6. \A n \in Fits : n \in Nat
  BY MapAssumption
<1>7. Len(nbin_buffer) \in Nat /\ Len(nbin_buffer) >= 1 /\ Len(holder) \in Nat
  BY <1>1, <1>3 DEF WindowInv
<1> QED
  BY <1>2, <1>3, <1>4, <1>5, <1>6, <1>7

\* A cell of the window.
LEMMA WindowCell ==
  ASSUME IInv, ~Updating, NEW b \in Int, InWindow(b, num_first_buf_bin, num_last_buf_bin)
  PROVE  /\ Loc(b) \in 1..Len(nbin_buffer) /\ Loc(b) \in 1..(num_last_buf_bin - num_first_buf_bin)
         /\ nbin_buffer[Loc(b)] \in CellType
         /\ nbin_buffer[Loc(b)].num = NpixOf(start, b)
         /\ nbin_buffer[Loc(b)].pos = PixIn(start, num_first_buf_bin, b)
         /\ End(nbin_buffer[Loc(b)]) = PixIn(start, num_first_buf_bin, b + 1)
         /\ b \in num_first_buf_bin..(NumBins - 1) /\ b \in Bins
<1> DEFINE n == num_last_buf_bin - num_first_buf_bin
<1>1. /\ num_first_buf_bin \in 0..NumBins /\ num_last_buf_bin \in 0..NumBins
      /\ NumBins \in Nat /\ b >= num_first_buf_bin /\ b < num_last_buf_bin
      /\ start \in Files /\ nbin_buffer \in Seq(CellType)
  BY MapFacts DEF InWindow
<1>2. Describes(start, nbin_buffer, n, num_first_buf_bin)
  BY DEF IInv, WindowInv, WFirst, WLast
<1>3. /\ n \in Nat /\ Loc(b) \in 1..n /\ num_first_buf_bin + n <= NumBins
      /\ num_first_buf_bin + Loc(b) - 1 = b /\ num_first_buf_bin + Loc(b) = b + 1
      /\ b \in num_first_buf_bin..(NumBins - 1) /\ b \in 0..(NumBins - 1)
  BY <1>1 DEF Loc
<1> HIDE DEF n
<1>4. /\ Loc(b) \in 1..Len(nbin_buffer) /\ nbin_buffer[Loc(b)] \in CellType
      /\ nbin_buffer[Loc(b)].num = NpixOf(start, b)
      /\ nbin_buffer[Loc(b)].pos = PixIn(start, num_first_buf_bin, b)
      /\ End(nbin_buffer[Loc(b)]) = PixIn(start, num_first_buf_bin, b + 1)
  BY <1>1, <1>2, <1>3, DescribedCell, SMTT(30)
<1> QED
  BY <1>3, <1>4 DEF n, Bins

\* The bin asked for, once it is in the window, and the pixels described from
\* it on.
LEMMA BinFacts ==
  ASSUME IInv, cpc \in {"expand", "extend", "return"}
  PROVE  /\ ~Updating /\ InWindow(call.bin, num_first_buf_bin, num_last_buf_bin)
         /\ call.bin \in num_first_buf_bin..(NumBins - 1) /\ num_last_buf_bin > call.bin
         /\ start[call.bin] \in Nat /\ start[num_first_buf_bin] \in Nat
         /\ start[num_last_buf_bin] \in Nat
         /\ BinInfo.num = NpixOf(start, call.bin) /\ NpixOf(start, call.bin) \in Nat
         /\ BinInfo.pos = start[call.bin] - start[num_first_buf_bin]
         /\ BinInfo.pos \in Nat
         /\ Described = PixIn(start, call.bin, num_last_buf_bin) /\ Described \in Nat
         /\ prebuf_pix_num = start[num_first_buf_bin]
<1>1. ~Updating /\ InWindow(call.bin, num_first_buf_bin, num_last_buf_bin)
  BY DEF IInv, CallInv, Updating
<1>2. /\ num_first_buf_bin \in 0..NumBins /\ num_last_buf_bin \in 0..NumBins /\ NumBins \in Nat
      /\ call.bin \in Bins /\ start \in Files
  BY MapFacts
<1>3. /\ call.bin \in Nat /\ call.bin \in num_first_buf_bin..(NumBins - 1)
      /\ num_last_buf_bin > call.bin /\ num_last_buf_bin - 1 \in Int
      /\ call.bin \in num_first_buf_bin..NumBins /\ num_last_buf_bin \in call.bin..NumBins
      /\ call.bin \in 0..NumBins
      /\ InWindow(num_last_buf_bin - 1, num_first_buf_bin, num_last_buf_bin)
  BY <1>1, <1>2 DEF Bins, InWindow
<1>4. start[call.bin] \in Nat /\ start[num_first_buf_bin] \in Nat /\ start[num_last_buf_bin] \in Nat
  BY <1>2, <1>3, FileFacts
<1>5. BinInfo.num = NpixOf(start, call.bin) /\ BinInfo.pos = PixIn(start, num_first_buf_bin, call.bin)
  BY <1>1, <1>3, WindowCell DEF BinInfo
<1>6. NpixOf(start, call.bin) \in Nat /\ PixIn(start, num_first_buf_bin, call.bin) \in Nat
      /\ PixIn(start, call.bin, num_last_buf_bin) \in Nat
  BY <1>2, <1>3, NpixFacts, PixInFacts
<1>7. End(nbin_buffer[num_last_buf_bin - num_first_buf_bin])
        = PixIn(start, num_first_buf_bin, num_last_buf_bin)
  <2>1. Loc(num_last_buf_bin - 1) = num_last_buf_bin - num_first_buf_bin
        /\ num_last_buf_bin - 1 + 1 = num_last_buf_bin
    BY <1>2 DEF Loc
  <2> QED
    BY <1>1, <1>3, <2>1, WindowCell
<1>8. Described = PixIn(start, call.bin, num_last_buf_bin)
  BY <1>4, <1>5, <1>7 DEF Described, PixIn
<1>9. prebuf_pix_num = start[num_first_buf_bin]
  BY <1>1 DEF IInv, WindowInv, WFirst
<1> QED
  BY <1>1, <1>3, <1>4, <1>5, <1>6, <1>8, <1>9 DEF PixIn

\* A bin missed lies behind the window that is being updated.
LEMMA MissFacts ==
  ASSUME IInv, Updating, ~Loaded
  PROVE  /\ loc.end \in Bins /\ loc.end <= call.bin /\ ~map_capacity_isknown
         /\ loc.n_last + 1 \in 1..Len(nbin_buffer) /\ PixelsPassed = start[loc.end]
         /\ start[loc.end] \in Nat
<1>1. loc.end <= call.bin /\ call.bin \in Bins /\ loc.end \in Nat /\ loc.end = WLast
  <2>1. call.bin \in Bins /\ loc.start \in Nat /\ loc.end \in Nat /\ call.bin \in Nat
    BY MapFacts DEF Bins
  <2>2. call.bin >= loc.start
    BY DEF IInv, CallInv
  <2> QED
    BY <2>1, <2>2 DEF Loaded, InWindow, WLast
<1>2. loc.end \in Bins /\ WLast # NumBins /\ call.bin \in Nat
  BY <1>1, MapFacts, SMTT(30) DEF Bins
<1> QED
  BY <1>1, <1>2, MapFacts DEF IInv, WindowInv, FilledInv

\* What the thread offers while the caller needs a bin from its first one on.
LEMMA OfferFacts ==
  ASSUME IInv, mode.threads, ~Ending, nbins_read, n_first_rbuf_bin \in Bins
  PROVE  /\ rbuf_end \in 1..BufSize /\ rbuf_nbin_end = n_first_rbuf_bin + rbuf_end
         /\ rbuf_nbin_end <= NumBins
         /\ rbuf_end = BufSize \/ rbuf_nbin_end = NumBins
         /\ Describes(start, thread_nbin_buffer, rbuf_end, n_first_rbuf_bin)
         /\ thread_read_to_end <=> rbuf_nbin_end = NumBins
<1>1. ~read_job_completed /\ n_first_rbuf_bin < NumBins
  BY MapFacts DEF IInv, CallInv, Bins
<1> QED
  BY <1>1, MapFacts DEF IInv, ThreadInv

\* The rest of the window is a map of its bins.
LEMMA KeptFacts ==
  ASSUME IInv, cpc = "expand"
  PROVE  /\ Kept \in Seq(CellType) /\ Len(Kept) = num_last_buf_bin - call.bin
         /\ Describes(start, Kept, Len(Kept), call.bin)
<1> DEFINE n == num_last_buf_bin - call.bin
<1>1. /\ call.bin \in num_first_buf_bin..(NumBins - 1) /\ num_last_buf_bin > call.bin
      /\ num_first_buf_bin \in 0..NumBins /\ num_last_buf_bin \in 0..NumBins /\ NumBins \in Nat
      /\ start \in Files /\ ~Updating
  BY BinFacts, MapFacts
<1>2. n \in Nat
  BY <1>1
<1>3. \A i \in 1..n :
        Kept[i] = [num |-> NpixOf(start, call.bin + i - 1),
                   pos |-> PixIn(start, call.bin, call.bin + i - 1)]
  <2> TAKE i \in 1..n
  <2> DEFINE b == call.bin + i - 1
  <2>1. /\ b \in Int /\ b \in 0..NumBins /\ InWindow(b, num_first_buf_bin, num_last_buf_bin)
        /\ Loc(call.bin) + i - 1 = Loc(b)
    BY <1>1 DEF InWindow, Loc
  <2> HIDE DEF b
  <2>2. nbin_buffer[Loc(b)].num = NpixOf(start, b)
        /\ nbin_buffer[Loc(b)].pos = PixIn(start, num_first_buf_bin, b)
    BY <1>1, <2>1, WindowCell
  <2>3. start[b] \in Nat /\ start[call.bin] \in Nat /\ start[num_first_buf_bin] \in Nat
        /\ BinInfo.pos = start[call.bin] - start[num_first_buf_bin]
    BY <1>1, <2>1, FileFacts, BinFacts
  <2>4. Kept[i] = [num |-> nbin_buffer[Loc(b)].num, pos |-> nbin_buffer[Loc(b)].pos - BinInfo.pos]
    BY <2>1 DEF Kept
  <2>5. nbin_buffer[Loc(b)].pos - BinInfo.pos = PixIn(start, call.bin, b)
    BY <2>2, <2>3 DEF PixIn
  <2> QED
    BY <2>2, <2>4, <2>5 DEF b
<1>4. \A i \in 1..n : Kept[i] \in CellType
  <2> TAKE i \in 1..n
  <2>1. call.bin + i - 1 \in call.bin..(NumBins - 1) /\ call.bin \in 0..NumBins
    BY <1>1
  <2> QED
    BY <1>1, <1>3, <2>1, BinCell
<1>5. Kept \in Seq(CellType) /\ Len(Kept) = n
  <2>1. Kept \in [1..n -> CellType]
    BY <1>4 DEF Kept
  <2> QED
    BY <1>2, <2>1, MadeOf
<1> QED
  BY <1>2, <1>3, <1>5 DEF Describes

\* A chunk that begins with the next bin extends the map.
LEMMA ExtendFacts ==
  ASSUME IInv, cpc = "extend", NEW chunk \in Seq(CellType), Len(chunk) >= 1,
         loc.start + Len(chunk) <= NumBins, Describes(start, chunk, Len(chunk), loc.start)
  PROVE  LET map == AddChunk(chunk, holder)
             next == loc.start + Len(chunk)
         IN  /\ map \in Seq(CellType) /\ Len(map) = next - call.bin
             /\ Describes(start, map, Len(map), call.bin)
             /\ loc.end + End(chunk[Len(chunk)]) = PixIn(start, call.bin, next)
             /\ End(chunk[Len(chunk)]) \in Nat
<1> DEFINE c == Len(chunk)
           next == loc.start + c
<1>1. /\ Len(holder) = loc.start - call.bin /\ Describes(start, holder, Len(holder), call.bin)
      /\ loc.end = PixIn(start, call.bin, loc.start) /\ loc.start >= num_last_buf_bin
  BY DEF IInv, ExtendInv
<1>2. /\ start \in Files /\ holder \in Seq(CellType) /\ loc.start \in Nat /\ NumBins \in Nat
      /\ call.bin \in Nat /\ call.bin < num_last_buf_bin /\ num_last_buf_bin \in Nat /\ c \in Nat
  BY MapFacts, BinFacts DEF Bins
<1>3. /\ Len(holder) >= 1 /\ call.bin + Len(holder) = loc.start /\ call.bin \in 0..NumBins
      /\ call.bin + Len(holder) + c <= NumBins /\ loc.start \in 0..NumBins
      /\ next \in 0..NumBins /\ c \in 1..c /\ Len(holder) + c = next - call.bin
  BY <1>1, <1>2, SMTT(30)
<1>4. /\ AddChunk(chunk, holder) \in Seq(CellType)
      /\ Len(AddChunk(chunk, holder)) = Len(holder) + c
      /\ Describes(start, AddChunk(chunk, holder), Len(holder) + c, call.bin)
  BY <1>1, <1>2, <1>3, AddChunkFacts
<1>5. End(chunk[c]) = PixIn(start, loc.start, next) /\ End(chunk[c]) \in Nat
  BY <1>2, <1>3, DescribedCell
<1>6. loc.end + End(chunk[c]) = PixIn(start, call.bin, next)
  <2>1. start[call.bin] \in Nat /\ start[loc.start] \in Nat /\ start[next] \in Nat
    BY <1>2, <1>3, FileFacts
  <2> QED
    BY <1>1, <1>5, <2>1 DEF PixIn
<1> QED
  BY <1>3, <1>4, <1>5, <1>6

\* Without threads the chunk is read, ...
LEMMA ReadChunk ==
  ASSUME IInv, ExtendRead
  PROVE  \E chunk \in Seq(CellType) :
           /\ Len(chunk) >= 1 /\ loc.start + Len(chunk) <= NumBins
           /\ Describes(start, chunk, Len(chunk), loc.start)
           /\ holder' = AddChunk(chunk, holder) /\ buf_end' = Len(chunk)
           /\ eop' <=> loc.start + Len(chunk) = NumBins
           /\ loc' = [loc EXCEPT !.start = @ + Len(chunk), !.end = @ + End(chunk[Len(chunk)])]
<1> DEFINE n == ReadCount(loc.start, BufSize)
           buf == ReadBins(loc.start, Zeros(BufSize))
           chunk == SubSeq(buf, 1, n)
<1>1. loc.start \in Bins
  BY MapFacts, SMTT(30) DEF IInv, ExtendInv, ExtendRead, NeedMore, Bins
<1>2. BufSize \in Nat /\ BufSize >= 1 /\ start \in Files /\ loc.start \in Nat
  BY MapFacts
<1>3. Zeros(BufSize) \in Seq(CellType) /\ Len(Zeros(BufSize)) = BufSize
  BY <1>2, ZerosFacts
<1>4. /\ n \in 1..BufSize /\ loc.start + n <= NumBins
      /\ ReadsToEnd(loc.start, BufSize) <=> loc.start + n = NumBins
      /\ buf \in Seq(CellType) /\ Len(buf) = BufSize /\ Describes(start, buf, n, loc.start)
  BY <1>1, <1>2, <1>3, ReadBinsFacts
<1>5. /\ holder' = AddChunk(chunk, holder) /\ buf_end' = n
      /\ eop' = ReadsToEnd(loc.start, BufSize)
      /\ loc' = [loc EXCEPT !.start = @ + n, !.end = @ + End(chunk[n])]
  BY DEF ExtendRead
<1> HIDE DEF n, buf
<1>6. n \in Nat /\ n >= 1
  BY <1>2, <1>4
<1>7. chunk \in Seq(CellType) /\ Len(chunk) = n /\ Describes(start, chunk, n, loc.start)
  BY <1>2, <1>4, <1>6, FirstCells
<1> HIDE DEF chunk
<1> QED
  BY <1>4, <1>5, <1>6, <1>7

\* ... with threads it is what the thread offers.
LEMMA GetChunk ==
  ASSUME IInv, ExtendGet
  PROVE  \E chunk \in Seq(CellType) :
           /\ Len(chunk) >= 1 /\ loc.start + Len(chunk) <= NumBins
           /\ Describes(start, chunk, Len(chunk), loc.start)
           /\ holder' = AddChunk(chunk, holder) /\ buf_end' = Len(chunk)
           /\ eop' <=> loc.start + Len(chunk) = NumBins
           /\ loc' = [loc EXCEPT !.start = @ + Len(chunk), !.end = @ + End(chunk[Len(chunk)])]
           /\ rbuf_nbin_end = loc.start + Len(chunk)
<1> DEFINE chunk == SubSeq(thread_nbin_buffer, 1, rbuf_end)
<1>1. n_first_rbuf_bin = loc.start /\ loc.start \in Bins
  BY MapFacts DEF IInv, ExtendInv, AheadInv, Follows, ExtendGet, NeedMore, Bins
<1>2. /\ rbuf_end \in 1..BufSize /\ rbuf_nbin_end = loc.start + rbuf_end
      /\ rbuf_nbin_end <= NumBins
      /\ Describes(start, thread_nbin_buffer, rbuf_end, loc.start)
      /\ thread_read_to_end <=> rbuf_nbin_end = NumBins
  BY <1>1, OfferFacts DEF ExtendGet, Ending, ThreadHasData
<1>3. rbuf_end \in Nat /\ rbuf_end >= 1 /\ loc.start \in Nat
      /\ thread_nbin_buffer \in Seq(CellType)
  BY <1>2, MapFacts
<1>4. /\ holder' = AddChunk(chunk, holder) /\ buf_end' = rbuf_end /\ eop' = thread_read_to_end
      /\ loc' = [loc EXCEPT !.start = rbuf_nbin_end, !.end = @ + End(chunk[rbuf_end])]
  BY DEF ExtendGet
<1>5. chunk \in Seq(CellType) /\ Len(chunk) = rbuf_end /\ Describes(start, chunk, rbuf_end, loc.start)
  BY <1>2, <1>3, FirstCells
<1> HIDE DEF chunk
<1> QED
  BY <1>2, <1>3, <1>4, <1>5

\* Part of a map is a map.
LEMMA RestFacts ==
  ASSUME NEW s \in Seq(CellType), NEW n \in Nat
  PROVE  /\ SubSeq(s, n + 1, Len(s)) \in Seq(CellType)
         /\ Len(SubSeq(s, n + 1, Len(s))) = IF n < Len(s) THEN Len(s) - n ELSE 0
<1> DEFINE m == IF n < Len(s) THEN Len(s) - n ELSE 0
           rest == SubSeq(s, n + 1, Len(s))
<1>1. m \in Nat /\ Len(s) \in Nat
  OBVIOUS
<1>2. rest = [i \in 1..m |-> s[n + i]]
  OBVIOUS
<1>3. \A i \in 1..m : s[n + i] \in CellType
  OBVIOUS
<1> HIDE DEF m, rest
<1>4. rest \in [1..m -> CellType]
  BY <1>2, <1>3
<1>5. rest \in Seq(CellType) /\ Len(rest) = m
  BY <1>1, <1>4, MadeOf
<1> QED
  BY <1>5 DEF m, rest

\* _flatten_memory_map leaves a window from the bin asked for to the end of what
\* was collected, at its place and longer than the one before.
LEMMA FlattenFacts ==
  ASSUME IInv, Flatten
  PROVE  /\ nbin_buffer' \in Seq(CellType) /\ Len(nbin_buffer') >= 1
         /\ Describes(start, nbin_buffer', loc.start - call.bin, call.bin)
         /\ prebuf_pix_num' = start[call.bin] /\ prebuf_pix_num' \in Nat
         /\ num_first_buf_bin' = call.bin /\ num_last_buf_bin' = loc.start
         /\ buf_end' = loc.start - call.bin
         /\ call.bin \in Bins /\ loc.start \in 0..NumBins /\ loc.start >= call.bin + 2
         /\ map_capacity_isknown' <=> loc.start = NumBins
         /\ numPixInMap' \in Nat \cup {Unknown}
         /\ cpc' = "lookup" /\ loc' = NoLoc /\ holder' = << >> /\ ~eop'
<1>1. /\ ~map_capacity_isknown /\ loc.start >= num_last_buf_bin /\ loc.start <= NumBins
      /\ Len(holder) = loc.start - call.bin
      /\ Describes(start, holder, Len(holder), call.bin)
      /\ eop <=> loc.start = NumBins
      /\ loc.start = num_last_buf_bin => loc.end < call.fit
  BY DEF IInv, ExtendInv, Flatten
<1>2. /\ call.bin \in Bins /\ call.bin \in Nat /\ loc.start \in Nat /\ NumBins \in Nat
      /\ num_last_buf_bin \in Nat /\ call.bin < num_last_buf_bin
      /\ holder \in Seq(CellType) /\ nbin_buffer \in Seq(CellType) /\ start \in Files
  BY MapFacts, BinFacts DEF Bins, Flatten
<1>3. num_last_buf_bin # NumBins
  BY <1>1 DEF IInv, WindowInv, WLast, Updating, Flatten
<1>4. loc.start # num_last_buf_bin
  BY <1>1, <1>3 DEF Flatten, NeedMore
<1>5. /\ loc.start >= call.bin + 2 /\ loc.start \in 0..NumBins /\ Len(holder) >= 2
      /\ Len(holder) \in Nat
  BY <1>1, <1>2, <1>4
<1> DEFINE rest == SubSeq(nbin_buffer, Len(holder) + 1, Len(nbin_buffer))
<1>6. rest \in Seq(CellType) /\ nbin_buffer' = holder \o rest
  BY <1>2, <1>5, RestFacts DEF Flatten
<1> HIDE DEF rest
<1>7. /\ nbin_buffer' \in Seq(CellType) /\ Len(nbin_buffer') = Len(holder) + Len(rest)
      /\ Len(rest) \in Nat
      /\ \A i \in 1..Len(holder) : nbin_buffer'[i] = holder[i]
  <2>1. /\ holder \o rest \in Seq(CellType) /\ Len(holder \o rest) = Len(holder) + Len(rest)
        /\ \A i \in 1..(Len(holder) + Len(rest)) :
             (holder \o rest)[i] = IF i <= Len(holder) THEN holder[i] ELSE rest[i - Len(holder)]
    BY <1>2, <1>6, JoinedFacts
  <2>2. Len(rest) \in Nat
    BY <1>6
  <2>3. \A i \in 1..Len(holder) : i \in 1..(Len(holder) + Len(rest)) /\ i <= Len(holder)
    BY <1>5, <2>2
  <2> QED
    BY <1>6, <2>1, <2>2, <2>3
<1>8. Describes(start, nbin_buffer', loc.start - call.bin, call.bin) /\ Len(nbin_buffer') >= 1
  BY <1>1, <1>5, <1>7 DEF Describes
<1>9. prebuf_pix_num' = start[call.bin] /\ start[call.bin] \in Nat
  BY BinFacts, SMTT(30) DEF Flatten
<1>10. /\ num_first_buf_bin' = call.bin /\ num_last_buf_bin' = loc.start
       /\ buf_end' = loc.start - call.bin
       /\ cpc' = "lookup" /\ loc' = NoLoc /\ holder' = << >> /\ ~eop'
  <2>1. num_last_buf_bin' = call.bin + Len(holder) /\ buf_end' = Len(holder)
        /\ num_first_buf_bin' = call.bin
        /\ cpc' = "lookup" /\ loc' = NoLoc /\ holder' = << >> /\ eop' = FALSE
    BY DEF Flatten
  <2> QED
    BY <1>1, <1>2, <2>1
<1>11. map_capacity_isknown' <=> loc.start = NumBins
  BY <1>1 DEF Flatten, capVars
<1>12. numPixInMap' \in Nat \cup {Unknown}
  <2>1. End(holder[Len(holder)]) \in Nat
    <3>1. /\ Len(holder) \in 1..Len(holder) /\ call.bin \in 0..NumBins
          /\ call.bin + Len(holder) <= NumBins
      BY <1>1, <1>2, <1>5
    <3>2. /\ End(holder[Len(holder)]) = PixIn(start, call.bin, call.bin + Len(holder))
          /\ PixIn(start, call.bin, call.bin + Len(holder)) \in Nat
      BY <1>1, <1>2, <1>5, <3>1, DescribedCell, SMTT(30)
    <3> QED  BY <3>2
  <2>2. numPixInMap \in Nat \cup {Unknown}
    BY DEF IInv, TypeOK
  <2>3. \/ numPixInMap' = numPixInMap
        \/ numPixInMap' = prebuf_pix_num' + End(holder[Len(holder)])
    BY DEF Flatten, capVars
  <2> QED
    BY <1>9, <2>1, <2>2, <2>3
<1> QED
  BY <1>2, <1>5, <1>7, <1>8, <1>9, <1>10, <1>11, <1>12

(***************************************************************************)
(* The initial state.                                                      *)
(***************************************************************************)
LEMMA InitInv ==
  ASSUME Init
  PROVE  IInv
<1>1. /\ mode \in Modes /\ start \in Files /\ NumBins \in Nat /\ NumBins >= 1
      /\ BufSize \in Nat /\ BufSize >= 1
  BY FilesAssumption, MapAssumption DEF Init
<1>2. start[0] = 0 /\ 0 \in Bins /\ 0 \in 0..NumBins
  BY <1>1, FileFacts DEF Bins
<1>3. /\ Zeros(BufSize) \in Seq(CellType) /\ Len(Zeros(BufSize)) = BufSize
      /\ Zeros(BufSize)[BufSize] = [num |-> 0, pos |-> 0]
  BY <1>1, ZerosFacts
<1>4. ~Updating /\ ~Ending /\ WFirst = 0 /\ WLast = 0
  BY DEF Init, Updating, Ending, WFirst, WLast
<1>5. TypeOK
  <2>1. holder \in Seq(CellType)
    BY DEF Init
  <2>2. /\ nbin_buffer \in Seq(CellType) /\ thread_nbin_buffer \in Seq(CellType)
        /\ Len(thread_nbin_buffer) = BufSize
    BY <1>3 DEF Init
  <2>3. /\ call \in [op : {"none", "npix", "expand"}, bin : Bins, fit : Nat]
        /\ loc \in [start : Nat, end : Nat, end_buf : Nat, n_last : Nat]
        /\ ans \in [num : Nat, start : Nat, eop : BOOLEAN]
    BY <1>2 DEF Init, NoCall, NoLoc, NoAns
  <2>4. tpc \in {"loop", "test", "block", "asleep", "relock", "reading", "ended"}
    BY DEF Init
  <2>5. 0 \in 0..BufSize /\ Unknown \in Nat \cup {Unknown}
    BY <1>1
  <2> QED
    BY <1>1, <1>2, <2>1, <2>2, <2>3, <2>4, <2>5 DEF Init, TypeOK
<1>6. CallInv
  BY <1>4 DEF Init, CallInv
<1>7. WindowInv
  <2>1. Describes(start, nbin_buffer, 0, 0)
    BY <1>1, <1>3 DEF Describes, Init
  <2> QED
    BY <1>1, <1>2, <1>3, <1>4, <2>1 DEF Init, WindowInv, End
<1>8. FilledInv /\ PlainInv
  BY <1>4 DEF Init, FilledInv, PlainInv
<1>9. ThreadInv /\ AheadInv
  BY <1>1 DEF Init, ThreadInv, AheadInv, Follows
<1>10. ExtendInv /\ AnswersRight
  BY DEF Init, ExtendInv, AnswersRight
<1> QED
  BY <1>5, <1>6, <1>7, <1>8, <1>9, <1>10 DEF IInv

(***************************************************************************)
(* The window.                                                             *)
(***************************************************************************)
\* A turn of the loop without threads reads the window that follows, ...
LEMMA UpdateReadFacts ==
  ASSUME IInv, UpdateRead
  PROVE  LET n == ReadCount(loc.end, Len(nbin_buffer))
         IN  /\ Updating /\ Updating' /\ loc.end \in Bins /\ loc.end <= call.bin
             /\ n \in Nat /\ n >= 1 /\ loc.end + n <= NumBins
             /\ n = Len(nbin_buffer) \/ loc.end + n = NumBins
             /\ nbin_buffer' \in Seq(CellType) /\ Len(nbin_buffer') = Len(nbin_buffer)
             /\ Describes(start, nbin_buffer', n, loc.end)
             /\ prebuf_pix_num' = start[loc.end]
             /\ loc' = [start |-> loc.end, end |-> loc.end + n, end_buf |-> n, n_last |-> loc.n_last]
             /\ loc'.start = loc.end /\ loc'.end = loc.end + n
             /\ map_capacity_isknown' <=> loc.end + n = NumBins
             /\ numPixInMap' \in {numPixInMap, PixelsPassed + End(nbin_buffer'[n])}
<1> DEFINE n == ReadCount(loc.end, Len(nbin_buffer))
<1>1. Updating /\ ~Loaded
  BY DEF UpdateRead, Updating
<1>2. /\ loc.end \in Bins /\ loc.end <= call.bin /\ ~map_capacity_isknown
      /\ PixelsPassed = start[loc.end]
  BY <1>1, MissFacts
<1>3. Len(nbin_buffer) \in Nat /\ Len(nbin_buffer) >= 1 /\ nbin_buffer \in Seq(CellType)
      /\ start \in Files
  BY MapFacts
<1>4. /\ n \in 1..Len(nbin_buffer) /\ loc.end + n <= NumBins
      /\ ReadsToEnd(loc.end, Len(nbin_buffer)) <=> loc.end + n = NumBins
      /\ n = Len(nbin_buffer) \/ loc.end + n = NumBins
      /\ ReadBins(loc.end, nbin_buffer) \in Seq(CellType)
      /\ Len(ReadBins(loc.end, nbin_buffer)) = Len(nbin_buffer)
      /\ Describes(start, ReadBins(loc.end, nbin_buffer), n, loc.end)
  BY <1>2, <1>3, ReadBinsFacts
<1>5. /\ prebuf_pix_num' = PixelsPassed /\ nbin_buffer' = ReadBins(loc.end, nbin_buffer)
      /\ loc' = [start |-> loc.end, end |-> loc.end + n, end_buf |-> n, n_last |-> loc.n_last]
      /\ cpc' = "update"
      /\ map_capacity_isknown' <=> ReadsToEnd(loc.end, Len(nbin_buffer))
      /\ numPixInMap' \in {numPixInMap, PixelsPassed + End(nbin_buffer'[n])}
  BY <1>2 DEF UpdateRead, NoteCapacity, capVars
<1> HIDE DEF n
<1>6. Updating' /\ n \in Nat /\ n >= 1 /\ loc'.start = loc.end /\ loc'.end = loc.end + n
  BY <1>3, <1>4, <1>5 DEF Updating
<1> QED
  BY <1>1, <1>2, <1>4, <1>5, <1>6 DEF n

\* ... and with threads takes it from the thread.
LEMMA UpdateGetFacts ==
  ASSUME IInv, UpdateGet
  PROVE  /\ Updating /\ Updating' /\ loc.end \in Bins /\ loc.end <= call.bin
         /\ rbuf_end \in 1..BufSize /\ rbuf_nbin_end = loc.end + rbuf_end
         /\ rbuf_nbin_end <= NumBins
         /\ rbuf_end = BufSize \/ rbuf_nbin_end = NumBins
         /\ nbin_buffer' \in Seq(CellType) /\ Len(nbin_buffer') = BufSize
         /\ Describes(start, nbin_buffer', rbuf_end, loc.end)
         /\ prebuf_pix_num' = start[loc.end]
         /\ loc' = [start |-> loc.end, end |-> rbuf_nbin_end, end_buf |-> rbuf_end,
                    n_last |-> rbuf_end - 1]
         /\ loc'.start = loc.end /\ loc'.end = rbuf_nbin_end
         /\ map_capacity_isknown' <=> rbuf_nbin_end = NumBins
         /\ numPixInMap' \in {numPixInMap, PixelsPassed + End(nbin_buffer'[rbuf_end])}
         /\ cpc' = "update"
<1>1. Updating /\ ~Loaded /\ mode.threads /\ ~Ending /\ nbins_read
  BY DEF IInv, UpdateGet, Updating, CallInv, Ending, ThreadHasData
<1>2. /\ loc.end \in Bins /\ loc.end <= call.bin /\ ~map_capacity_isknown
      /\ PixelsPassed = start[loc.end]
  BY <1>1, MissFacts
<1>3. n_first_rbuf_bin = loc.end
  BY <1>1 DEF IInv, AheadInv, Follows, UpdateGet
<1>4. /\ rbuf_end \in 1..BufSize /\ rbuf_nbin_end = loc.end + rbuf_end
      /\ rbuf_nbin_end <= NumBins
      /\ rbuf_end = BufSize \/ rbuf_nbin_end = NumBins
      /\ Describes(start, thread_nbin_buffer, rbuf_end, loc.end)
      /\ thread_read_to_end <=> rbuf_nbin_end = NumBins
  BY <1>1, <1>2, <1>3, OfferFacts
<1>5. rbuf_end > 0 /\ thread_nbin_buffer \in Seq(CellType) /\ Len(thread_nbin_buffer) = BufSize
  BY <1>4, MapFacts
<1>6. /\ prebuf_pix_num' = start[loc.end] /\ nbin_buffer' = thread_nbin_buffer
      /\ loc' = [start |-> loc.end, end |-> rbuf_nbin_end, end_buf |-> rbuf_end,
                 n_last |-> rbuf_end - 1]
      /\ map_capacity_isknown' <=> thread_read_to_end
      /\ numPixInMap' \in {numPixInMap, PixelsPassed + End(nbin_buffer'[rbuf_end])}
      /\ cpc' = "update"
  BY <1>2, <1>3, <1>5 DEF UpdateGet, NoteCapacity, capVars
<1>7. Updating' /\ loc'.start = loc.end /\ loc'.end = rbuf_nbin_end
  BY <1>6 DEF Updating
<1> QED
  BY <1>1, <1>2, <1>4, <1>5, <1>6, <1>7

\* Most steps leave the window alone.
LEMMA SameWindow ==
  ASSUME WindowInv, start' = start, Updating' <=> Updating, WFirst' = WFirst, WLast' = WLast,
         nbin_buffer' = nbin_buffer, prebuf_pix_num' = prebuf_pix_num,
         map_capacity_isknown' = map_capacity_isknown
  PROVE  WindowInv'
BY DEF WindowInv, End

LEMMA WindowStep ==
  ASSUME IInv, [Next]_vars
  PROVE  WindowInv'
<1>1. TypeOK /\ CallInv /\ WindowInv /\ start' = start
  BY Fixed DEF IInv
<1>2. CASE LookupAhead
  <2>1. Updating' /\ WFirst' = WFirst /\ WLast' = WLast /\ ~Updating
    BY <1>2 DEF LookupAhead, Updating, WFirst, WLast
  <2> QED
    BY <1>1, <1>2, <2>1 DEF LookupAhead, windowVars, capVars, WindowInv
<1>3. CASE LookupBehind
  <2>1. Updating' /\ WFirst' = 0 /\ WLast' = 0
    BY <1>3 DEF LookupBehind, Updating, WFirst, WLast
  <2>2. start[0] = 0 /\ NumBins # 0 /\ 0 <= NumBins
    BY MapFacts, FileFacts
  <2>3. Len(nbin_buffer') = Len(nbin_buffer)
    BY <1>3, MapFacts DEF LookupBehind
  <2>4. Describes(start, nbin_buffer', 0, 0)
    BY <2>3, MapFacts DEF Describes
  <2>5. Len(nbin_buffer') >= 1 /\ prebuf_pix_num' = 0 /\ ~map_capacity_isknown'
    BY <1>3, <2>3, MapFacts DEF LookupBehind
  <2> QED
    BY <1>1, <2>1, <2>2, <2>4, <2>5 DEF WindowInv
<1>4. CASE UpdateDone
  <2>1. ~Updating' /\ WFirst' = loc.start /\ WLast' = loc.end /\ Updating
        /\ WFirst = loc.start /\ WLast = loc.end
    BY <1>4 DEF UpdateDone, Updating, WFirst, WLast
  <2>2. loc.start # loc.end
    BY <1>4, MapFacts, SMTT(30) DEF UpdateDone, Loaded, InWindow, Bins
  <2> QED
    BY <1>1, <1>4, <2>1, <2>2 DEF UpdateDone, capVars, WindowInv
<1>5. CASE UpdateRead
  <2> DEFINE n == ReadCount(loc.end, Len(nbin_buffer))
  <2>1. /\ Updating /\ Updating' /\ n \in Nat /\ n >= 1 /\ loc.end + n <= NumBins
        /\ n = Len(nbin_buffer) \/ loc.end + n = NumBins
        /\ prebuf_pix_num' = start[loc.end] /\ Len(nbin_buffer') = Len(nbin_buffer)
        /\ Describes(start, nbin_buffer', n, loc.end)
        /\ loc'.start = loc.end /\ loc'.end = loc.end + n
        /\ map_capacity_isknown' <=> loc.end + n = NumBins
    BY <1>5, UpdateReadFacts
  <2> HIDE DEF n
  <2>2. WFirst' = loc.end /\ WLast' = loc.end + n
    BY <2>1 DEF WFirst, WLast
  <2>3. loc.end \in Nat /\ NumBins \in Nat /\ Len(nbin_buffer) \in Nat /\ Len(nbin_buffer) >= 1
    BY MapFacts
  <2>4. n = 1 => Len(nbin_buffer') = 1 \/ WLast' = NumBins
    BY <2>1, <2>2, <2>3
  <2>5. /\ WFirst' <= WLast' /\ WLast' <= NumBins /\ WLast' - WFirst' = n
        /\ Len(nbin_buffer') >= 1
    BY <2>1, <2>2, <2>3
  <2>6. Describes(start, nbin_buffer', WLast' - WFirst', WFirst')
    BY <2>1, <2>2, <2>5
  <2>7. map_capacity_isknown' <=> WLast' = NumBins
    BY <2>1, <2>2
  <2> QED
    BY <1>1, <2>1, <2>2, <2>4, <2>5, <2>6, <2>7 DEF WindowInv
<1>6. CASE UpdateGet
  <2>1. /\ Updating /\ Updating' /\ rbuf_end \in 1..BufSize /\ rbuf_nbin_end = loc.end + rbuf_end
        /\ rbuf_nbin_end <= NumBins
        /\ rbuf_end = BufSize \/ rbuf_nbin_end = NumBins
        /\ prebuf_pix_num' = start[loc.end] /\ Len(nbin_buffer') = BufSize
        /\ Describes(start, nbin_buffer', rbuf_end, loc.end)
        /\ loc'.start = loc.end /\ loc'.end = rbuf_nbin_end
        /\ map_capacity_isknown' <=> rbuf_nbin_end = NumBins
    BY <1>6, UpdateGetFacts
  <2>2. WFirst' = loc.end /\ WLast' = rbuf_nbin_end
    BY <2>1 DEF WFirst, WLast
  <2>3. loc.end \in Nat /\ rbuf_end \in Nat /\ rbuf_end >= 1 /\ NumBins \in Nat
        /\ BufSize \in Nat /\ BufSize >= 1
    BY <2>1, MapFacts
  <2>4. /\ WFirst' <= WLast' /\ WLast' <= NumBins /\ WLast' - WFirst' = rbuf_end
        /\ Len(nbin_buffer') >= 1
        /\ rbuf_end = 1 => Len(nbin_buffer') = 1 \/ WLast' = NumBins
    BY <2>1, <2>2, <2>3
  <2>5. Describes(start, nbin_buffer', WLast' - WFirst', WFirst')
    BY <2>1, <2>2, <2>4
  <2>6. map_capacity_isknown' <=> WLast' = NumBins
    BY <2>1, <2>2
  <2> QED
    BY <1>1, <2>1, <2>2, <2>4, <2>5, <2>6 DEF WindowInv
<1>7. CASE Flatten
  <2>1. ~Updating'
    BY <1>7, FlattenFacts DEF Updating
  <2>2. WFirst' = call.bin /\ WLast' = loc.start
    BY <1>7, <2>1, FlattenFacts DEF WFirst, WLast
  <2>3. /\ call.bin <= loc.start /\ loc.start <= NumBins /\ loc.start # call.bin
        /\ loc.start - call.bin # 1
    <3>1. call.bin \in Bins /\ loc.start \in 0..NumBins /\ loc.start >= call.bin + 2
      BY <1>7, FlattenFacts
    <3>2. NumBins \in Nat
      BY MapFacts
    <3> QED
      BY <3>1, <3>2 DEF Bins
  <2> QED
    BY <1>1, <1>7, <2>1, <2>2, <2>3, FlattenFacts DEF WindowInv
<1>8. CASE QueryData \/ RequestToRead
  <2>1. Updating' /\ Updating /\ loc' = loc
    BY <1>8 DEF QueryData, RequestToRead, Updating
  <2>2. WFirst' = WFirst /\ WLast' = WLast
    BY <2>1 DEF WFirst, WLast
  <2> QED
    BY <1>1, <1>8, <2>1, <2>2, SameWindow DEF QueryData, RequestToRead, windowVars, capVars
<1>9. CASE Call \/ LookupHit \/ ExpandReturn \/ ExpandStart \/ ExtendRead \/ ExtendGet \/ Return
            \/ FinishSet \/ FinishNotify \/ FinishJoin
  <2>1. /\ ~Updating /\ ~Updating'
        /\ num_first_buf_bin' = num_first_buf_bin /\ num_last_buf_bin' = num_last_buf_bin
        /\ nbin_buffer' = nbin_buffer /\ prebuf_pix_num' = prebuf_pix_num
        /\ map_capacity_isknown' = map_capacity_isknown
    BY <1>9 DEF Call, LookupHit, ExpandReturn, ExpandStart, ExtendRead, ExtendGet, Return,
                FinishSet, FinishNotify, FinishJoin, windowVars, capVars, Updating
  <2>2. WFirst' = WFirst /\ WLast' = WLast
    BY <2>1 DEF WFirst, WLast
  <2> QED
    BY <1>1, <2>1, <2>2, SameWindow
<1>10. CASE Job \/ JobSpurious \/ UNCHANGED vars
  <2>1. /\ cpc' = cpc /\ loc' = loc
        /\ num_first_buf_bin' = num_first_buf_bin /\ num_last_buf_bin' = num_last_buf_bin
        /\ nbin_buffer' = nbin_buffer /\ prebuf_pix_num' = prebuf_pix_num
        /\ map_capacity_isknown' = map_capacity_isknown
    BY <1>10 DEF Job, JobLoop, JobTest, JobBlock, JobRelock, JobRead, JobSpurious, callerVars,
                 vars, windowVars, capVars
  <2>2. (Updating' <=> Updating) /\ WFirst' = WFirst /\ WLast' = WLast
    BY <2>1 DEF Updating, WFirst, WLast
  <2> QED
    BY <1>1, <2>1, <2>2, SameWindow
<1> QED
  BY <1>2, <1>3, <1>4, <1>5, <1>6, <1>7, <1>8, <1>9, <1>10 DEF Next, Methods, Finished

LEMMA FilledStep ==
  ASSUME IInv, [Next]_vars
  PROVE  FilledInv'
<1>1. TypeOK /\ CallInv /\ WindowInv /\ FilledInv /\ start' = start
  BY Fixed DEF IInv
<1>2. CASE LookupAhead
  <2> DEFINE n == num_last_buf_bin - num_first_buf_bin
             last == LastFilled + 1
  <2>1. /\ ~Updating /\ Updating' /\ call.bin >= num_last_buf_bin /\ buf_end = n
        /\ WFirst = num_first_buf_bin /\ WLast = num_last_buf_bin
    BY <1>1, <1>2 DEF LookupAhead, Updating, FilledInv, WFirst, WLast
  <2>2. /\ loc'.end = num_last_buf_bin /\ loc'.n_last = LastFilled
        /\ nbin_buffer' = nbin_buffer /\ prebuf_pix_num' = prebuf_pix_num /\ call' = call
    BY <1>2 DEF LookupAhead, windowVars, callVars
  <2>3. ~Loaded'
    BY <2>1, <2>2, MapFacts DEF Loaded, InWindow, Bins
  <2>4. /\ num_first_buf_bin \in 0..NumBins /\ num_last_buf_bin \in 0..NumBins
        /\ NumBins \in Nat /\ call.bin \in 0..(NumBins - 1) /\ start \in Files
        /\ nbin_buffer \in Seq(CellType) /\ Len(nbin_buffer) \in Nat /\ Len(nbin_buffer) >= 1
    BY MapFacts DEF Bins
  <2>5. /\ n \in Nat /\ num_first_buf_bin + n = num_last_buf_bin /\ num_last_buf_bin # NumBins
        /\ Describes(start, nbin_buffer, n, num_first_buf_bin)
        /\ prebuf_pix_num = start[num_first_buf_bin]
        /\ n = 1 => Len(nbin_buffer) = 1
        /\ n = 0 => num_last_buf_bin = 0 /\ End(nbin_buffer[Len(nbin_buffer)]) = 0
    BY <1>1, <2>1, <2>4 DEF WindowInv
  <2>6. last \in 1..Len(nbin_buffer) /\ prebuf_pix_num + End(nbin_buffer[last]) = start[num_last_buf_bin]
    <3>1. CASE n = 0
      <4>1. last = Len(nbin_buffer)
        BY <2>1, <2>4, <3>1 DEF LastFilled
      <4>2. start[num_last_buf_bin] \in Nat /\ num_first_buf_bin = num_last_buf_bin
        BY <2>4, <2>5, <3>1, FileFacts
      <4> QED
        BY <2>4, <2>5, <3>1, <4>1, <4>2
    <3>2. CASE n > 0
      <4>1. last = n /\ n <= Len(nbin_buffer)
        <5>1. n <= Len(nbin_buffer)
          BY <2>5 DEF Describes
        <5>2. buf_end = n /\ n \in Nat /\ n > 0 /\ (n = 1 => Len(nbin_buffer) = 1)
          BY <2>1, <2>5, <3>2
        <5> HIDE DEF n
        <5>3. last = n
          <6>1. CASE n = 1
            BY <2>4, <5>2, <6>1 DEF LastFilled
          <6>2. CASE n > 1
            BY <5>2, <6>2 DEF LastFilled
          <6> QED
            BY <5>2, <6>1, <6>2
        <5> QED
          BY <5>1, <5>3
      <4>2. n \in 1..n
        BY <2>5, <3>2
      <4>3. End(nbin_buffer[n]) = PixIn(start, num_first_buf_bin, num_first_buf_bin + n)
        BY <2>4, <2>5, <4>2, DescribedCell
      <4>4. start[num_first_buf_bin] \in Nat /\ start[num_last_buf_bin] \in Nat
        BY <2>4, FileFacts
      <4>5. prebuf_pix_num + End(nbin_buffer[n]) = start[num_last_buf_bin]
        BY <2>5, <4>3, <4>4 DEF PixIn
      <4> QED
        BY <2>5, <3>2, <4>1, <4>5, <2>4
    <3> QED
      BY <2>5, <3>1, <3>2
  <2> HIDE DEF last
  <2>7. loc'.n_last + 1 = last /\ PixelsPassed' = prebuf_pix_num + End(nbin_buffer[last])
    BY <2>2 DEF last, PixelsPassed, End
  <2> QED
    BY <1>1, <2>1, <2>2, <2>3, <2>6, <2>7 DEF FilledInv
<1>3. CASE LookupBehind
  <2> DEFINE last == LastFilled + 1
  <2>1. /\ ~Updating /\ Updating' /\ loc'.start = 0 /\ loc'.end = 0 /\ loc'.n_last = LastFilled
        /\ nbin_buffer' = [nbin_buffer EXCEPT ![last] = [num |-> 0, pos |-> 0]]
        /\ prebuf_pix_num' = 0 /\ call' = call
    BY <1>3 DEF LookupBehind, Updating, callVars
  <2>2. buf_end <= Len(nbin_buffer) /\ buf_end \in Nat
    <3>1. buf_end = WLast - WFirst
      BY <1>1, <1>3, <2>1 DEF FilledInv, LookupBehind
    <3>2. WLast - WFirst <= Len(nbin_buffer)
      BY <1>1 DEF WindowInv, Describes
    <3> QED
      BY <3>1, <3>2, MapFacts, SMTT(30)
  <2>3. nbin_buffer \in Seq(CellType) /\ Len(nbin_buffer) \in Nat /\ Len(nbin_buffer) >= 1
    BY MapFacts
  <2>4. last \in 1..Len(nbin_buffer)
    BY <2>2, <2>3 DEF LastFilled
  <2>5. ~Loaded'
    BY <2>1, MapFacts, SMTT(30) DEF Loaded, InWindow, Bins
  <2>6. Len(nbin_buffer') = Len(nbin_buffer) /\ nbin_buffer'[last] = [num |-> 0, pos |-> 0]
    BY <2>1, <2>3, <2>4
  <2>7. start[0] = 0
    BY MapFacts, FileFacts
  <2>8. PixelsPassed' = start[loc'.end] /\ loc'.n_last + 1 = last
    BY <2>1, <2>6, <2>7 DEF PixelsPassed, End
  <2> QED
    BY <1>1, <2>1, <2>4, <2>5, <2>6, <2>8 DEF FilledInv
<1>4. CASE UpdateDone
  <2>1. /\ ~Updating' /\ WFirst' = loc.start /\ WLast' = loc.end /\ Updating
        /\ WFirst = loc.start /\ WLast = loc.end /\ Loaded /\ buf_end' = loc.end_buf
    BY <1>4 DEF UpdateDone, Updating, WFirst, WLast
  <2> QED
    BY <1>1, <2>1 DEF FilledInv
<1>5. CASE UpdateRead
  <2> DEFINE n == ReadCount(loc.end, Len(nbin_buffer))
  <2>1. /\ Updating' /\ n \in Nat /\ n >= 1 /\ loc.end + n <= NumBins /\ loc.end \in Bins
        /\ n = Len(nbin_buffer) \/ loc.end + n = NumBins
        /\ prebuf_pix_num' = start[loc.end]
        /\ nbin_buffer' \in Seq(CellType) /\ Len(nbin_buffer') = Len(nbin_buffer)
        /\ Describes(start, nbin_buffer', n, loc.end)
        /\ loc' = [start |-> loc.end, end |-> loc.end + n, end_buf |-> n, n_last |-> loc.n_last]
    BY <1>5, UpdateReadFacts
  <2>2. call' = call /\ cpc = "update" /\ ~Loaded /\ ~mode.threads
    BY <1>5 DEF UpdateRead, callVars
  <2> HIDE DEF n
  <2>3. WFirst' = loc.end /\ WLast' = loc.end + n /\ loc'.end_buf = n /\ loc'.n_last = loc.n_last
        /\ loc'.start = loc.end /\ loc'.end = loc.end + n
    BY <2>1 DEF WFirst, WLast
  <2>4. /\ loc.end \in Nat /\ NumBins \in Nat /\ call.bin \in 0..(NumBins - 1)
        /\ Len(nbin_buffer) \in Nat /\ Len(nbin_buffer) >= 1 /\ start \in Files
    BY MapFacts DEF Bins
  <2>5. ~Loaded' => n = Len(nbin_buffer) /\ n = 1 /\ loc.n_last + 1 = n
    <3>1. ~Loaded' => ~(call.bin >= loc.end /\ call.bin < loc.end + n)
      BY <2>2, <2>3 DEF Loaded, InWindow
    <3>2. \/ call.bin = loc.end
          \/ loc.n_last = Len(nbin_buffer) - 1 /\ call.bin = loc.end + 1
      BY <2>2 DEF IInv, PlainInv
    <3> QED
      BY <2>1, <2>4, <3>1, <3>2
  <2>6. ~Loaded' => PixelsPassed' = start[loc.end + n]
    <3>1. SUFFICES ASSUME ~Loaded' PROVE PixelsPassed' = start[loc.end + n]
      OBVIOUS
    <3>2. PixelsPassed' = prebuf_pix_num' + End(nbin_buffer'[n])
      BY <2>3, <2>5, <3>1 DEF PixelsPassed, End
    <3>3. n \in 1..n /\ loc.end \in 0..NumBins /\ loc.end + n \in 0..NumBins
      BY <2>1, <2>4
    <3>4. End(nbin_buffer'[n]) = PixIn(start, loc.end, loc.end + n)
      BY <2>1, <2>4, <3>3, DescribedCell
    <3>5. start[loc.end] \in Nat /\ start[loc.end + n] \in Nat
      BY <2>4, <3>3, FileFacts
    <3> QED
      BY <2>1, <3>2, <3>4, <3>5 DEF PixIn
  <2>7. ~Loaded' => loc'.n_last + 1 \in 1..Len(nbin_buffer')
    BY <2>1, <2>3, <2>4, <2>5
  <2>8. loc'.end_buf = WLast' - WFirst'
    BY <2>1, <2>3, <2>4
  <2> QED
    BY <1>1, <2>1, <2>3, <2>6, <2>7, <2>8 DEF FilledInv
<1>6. CASE UpdateGet
  <2>1. /\ Updating' /\ rbuf_end \in 1..BufSize /\ rbuf_nbin_end = loc.end + rbuf_end
        /\ rbuf_nbin_end <= NumBins
        /\ prebuf_pix_num' = start[loc.end]
        /\ nbin_buffer' \in Seq(CellType) /\ Len(nbin_buffer') = BufSize
        /\ Describes(start, nbin_buffer', rbuf_end, loc.end)
        /\ loc' = [start |-> loc.end, end |-> rbuf_nbin_end, end_buf |-> rbuf_end,
                   n_last |-> rbuf_end - 1]
    BY <1>6, UpdateGetFacts
  <2>2. /\ WFirst' = loc.end /\ WLast' = rbuf_nbin_end /\ loc'.end_buf = rbuf_end
        /\ loc'.n_last = rbuf_end - 1 /\ loc'.end = rbuf_nbin_end
    BY <2>1 DEF WFirst, WLast
  <2>3. /\ loc.end \in Nat /\ NumBins \in Nat /\ rbuf_end \in Nat /\ rbuf_end >= 1
        /\ start \in Files /\ BufSize \in Nat
    BY <2>1, MapFacts
  <2>4. loc'.n_last + 1 = rbuf_end /\ loc'.end_buf = WLast' - WFirst'
    BY <2>1, <2>2, <2>3
  <2>5. PixelsPassed' = start[rbuf_nbin_end]
    <3>1. PixelsPassed' = prebuf_pix_num' + End(nbin_buffer'[rbuf_end])
      BY <2>4 DEF PixelsPassed, End
    <3>2. /\ rbuf_end \in 1..rbuf_end /\ loc.end \in 0..NumBins /\ rbuf_nbin_end \in 0..NumBins
          /\ loc.end + rbuf_end <= NumBins
      BY <2>1, <2>3
    <3>3. End(nbin_buffer'[rbuf_end]) = PixIn(start, loc.end, loc.end + rbuf_end)
      BY <2>1, <2>3, <3>2, DescribedCell
    <3>4. start[loc.end] \in Nat /\ start[rbuf_nbin_end] \in Nat
      BY <2>3, <3>2, FileFacts
    <3> QED
      BY <2>1, <3>1, <3>3, <3>4 DEF PixIn
  <2> QED
    BY <1>1, <2>1, <2>2, <2>4, <2>5 DEF FilledInv
<1>7. CASE Flatten
  <2>1. ~Updating' /\ num_first_buf_bin' = call.bin /\ num_last_buf_bin' = loc.start
        /\ buf_end' = loc.start - call.bin
    BY <1>7, FlattenFacts DEF Updating
  <2>2. WFirst' = call.bin /\ WLast' = loc.start
    BY <2>1 DEF WFirst, WLast
  <2> QED
    BY <2>1, <2>2 DEF FilledInv
<1>8. CASE QueryData \/ RequestToRead
  <2>1. Updating' /\ Updating /\ loc' = loc /\ call' = call /\ nbin_buffer' = nbin_buffer
        /\ prebuf_pix_num' = prebuf_pix_num
    BY <1>8 DEF QueryData, RequestToRead, Updating, callVars, windowVars
  <2>2. /\ WFirst' = WFirst /\ WLast' = WLast /\ Loaded' = Loaded
        /\ PixelsPassed' = PixelsPassed
    BY <2>1 DEF WFirst, WLast, Loaded, PixelsPassed, End
  <2> QED
    BY <1>1, <2>1, <2>2 DEF FilledInv
<1>9. CASE Call \/ LookupHit \/ ExpandReturn \/ Return \/ FinishSet \/ FinishNotify \/ FinishJoin
  <2>1. /\ ~Updating /\ ~Updating' /\ cpc # "extend" /\ cpc' # "extend" /\ buf_end' = buf_end
        /\ num_first_buf_bin' = num_first_buf_bin /\ num_last_buf_bin' = num_last_buf_bin
    BY <1>9 DEF Call, LookupHit, ExpandReturn, Return, FinishSet, FinishNotify, FinishJoin,
                windowVars, Updating
  <2>2. WFirst' = WFirst /\ WLast' = WLast
    BY <2>1 DEF WFirst, WLast
  <2> QED
    BY <1>1, <2>1, <2>2 DEF FilledInv
<1>10. CASE ExpandStart \/ ExtendRead \/ ExtendGet
  <2>1. cpc' = "extend"
    BY <1>10 DEF ExpandStart, ExtendRead, ExtendGet
  <2> QED
    BY <2>1 DEF FilledInv, Updating
<1>11. CASE Job \/ JobSpurious \/ UNCHANGED vars
  <2>1. /\ cpc' = cpc /\ loc' = loc /\ call' = call /\ buf_end' = buf_end
        /\ num_first_buf_bin' = num_first_buf_bin /\ num_last_buf_bin' = num_last_buf_bin
        /\ nbin_buffer' = nbin_buffer /\ prebuf_pix_num' = prebuf_pix_num
    BY <1>11 DEF Job, JobLoop, JobTest, JobBlock, JobRelock, JobRead, JobSpurious, callerVars,
                 vars, windowVars, callVars
  <2>2. /\ (Updating' <=> Updating) /\ WFirst' = WFirst /\ WLast' = WLast /\ Loaded' = Loaded
        /\ PixelsPassed' = PixelsPassed
    BY <2>1 DEF Updating, WFirst, WLast, Loaded, PixelsPassed, End
  <2> QED
    BY <1>1, <2>1, <2>2 DEF FilledInv
<1> QED
  BY <1>2, <1>3, <1>4, <1>5, <1>6, <1>7, <1>8, <1>9, <1>10, <1>11 DEF Next, Methods, Finished

(***************************************************************************)
(* The call.                                                               *)
(***************************************************************************)
LEMMA CallStep ==
  ASSUME IInv, [Next]_vars
  PROVE  CallInv'
<1>1. CallInv /\ mode' = mode /\ call.bin \in Nat
  BY Fixed, MapFacts DEF IInv, Bins
<1> USE DEF CallInv, Updating, Ending
<1>2. CASE Call
  BY <1>1, <1>2 DEF Call, threadVars
<1>3. CASE LookupHit
  <2>1. call.op \in {"npix", "expand"}
    BY <1>1, <1>3 DEF LookupHit, IInv, TypeOK
  <2> QED
    BY <1>1, <1>3, <2>1 DEF LookupHit, windowVars, callVars, threadVars, InWindow
<1>4. CASE LookupAhead \/ LookupBehind
  <2>1. call.bin >= loc'.start
    <3>1. CASE LookupAhead
      <4>1. num_first_buf_bin <= num_last_buf_bin
        BY <3>1 DEF IInv, WindowInv, WFirst, WLast, LookupAhead
      <4> QED
        BY <1>1, <3>1, <4>1, MapFacts DEF LookupAhead
    <3>2. CASE LookupBehind
      BY <1>1, <3>2 DEF LookupBehind
    <3> QED  BY <1>4, <3>1, <3>2
  <2>2. cpc = "lookup" /\ cpc' = "update" /\ call' = call
        /\ read_job_completed' = read_job_completed
    BY <1>4 DEF LookupAhead, LookupBehind, callVars, threadVars
  <2> QED
    BY <1>1, <2>1, <2>2
<1>5. CASE UpdateDone
  BY <1>1, <1>5 DEF UpdateDone, callVars, threadVars
<1>6. CASE UpdateRead
  <2>1. loc'.start = loc.end /\ loc.end <= call.bin
    BY <1>6, UpdateReadFacts
  <2> QED
    BY <1>1, <1>6, <2>1, MapFacts DEF UpdateRead, callVars, threadVars
<1>7. CASE UpdateGet
  <2>1. loc'.start = loc.end /\ loc.end <= call.bin /\ cpc' = "update"
    BY <1>7, UpdateGetFacts
  <2> QED
    BY <1>1, <1>7, <2>1, MapFacts DEF UpdateGet, TakeThreadData, callVars
<1>8. CASE QueryData \/ RequestToRead
  <2>1. ~Loaded /\ loc' = loc /\ call' = call
    BY <1>1, <1>8 DEF QueryData, RequestToRead, callVars
  <2>2. ~Loaded'
    BY <2>1 DEF Loaded, InWindow
  <2> QED
    BY <1>1, <1>8, <2>1, <2>2 DEF QueryData, RequestToRead, threadVars
<1>9. CASE ExpandReturn \/ ExpandStart
  BY <1>1, <1>9 DEF ExpandReturn, ExpandStart, windowVars, callVars, threadVars, InWindow
<1>10. CASE ExtendRead \/ ExtendGet
  BY <1>1, <1>10 DEF ExtendRead, ExtendGet, TakeThreadData, callVars, threadVars, InWindow
<1>11. CASE Flatten
  <2>1. cpc' = "lookup" /\ call.op = "expand" /\ call' = call /\ cpc = "extend"
        /\ read_job_completed' = read_job_completed
    BY <1>1, <1>11 DEF Flatten, callVars, threadVars
  <2> QED
    BY <1>1, <2>1
<1>12. CASE Return
  BY <1>1, <1>12 DEF Return, threadVars
<1>13. CASE FinishSet \/ FinishNotify \/ FinishJoin
  BY <1>1, <1>13 DEF FinishSet, FinishNotify, FinishJoin, callVars, threadVars
<1>14. CASE Job \/ JobSpurious \/ UNCHANGED vars
  <2>1. /\ cpc' = cpc /\ loc' = loc /\ call' = call
        /\ num_first_buf_bin' = num_first_buf_bin /\ num_last_buf_bin' = num_last_buf_bin
        /\ read_job_completed' = read_job_completed
    BY <1>14 DEF Job, JobLoop, JobTest, JobBlock, JobRelock, JobRead, JobSpurious, callerVars,
                 threadVars, vars, windowVars, callVars
  <2> QED
    BY <1>1, <2>1 DEF Loaded, InWindow
<1> QED
  BY <1>2, <1>3, <1>4, <1>5, <1>6, <1>7, <1>8, <1>9, <1>10, <1>11, <1>12, <1>13, <1>14
     DEF Next, Methods, Finished

LEMMA PlainStep ==
  ASSUME IInv, [Next]_vars
  PROVE  PlainInv'
<1>1. /\ CallInv /\ PlainInv /\ mode' = mode /\ call.bin \in Nat /\ NumBins \in Nat
      /\ num_first_buf_bin \in Nat /\ num_last_buf_bin \in Nat /\ call.bin < NumBins
      /\ ~mode.threads => mode.access = "sequential"
  BY Fixed, MapFacts, MapAssumption, SMTT(30) DEF IInv, Bins
<1> SUFFICES ASSUME ~mode.threads PROVE PlainInv'
  BY <1>1 DEF PlainInv
<1> USE DEF PlainInv
<1>2. CASE Call
  <2>1. PICK b \in {cur, cur + 1} :
          cur' = b /\ cpc = "idle" /\ cpc' = "lookup" /\ call'.bin = b
          /\ num_first_buf_bin' = num_first_buf_bin /\ num_last_buf_bin' = num_last_buf_bin
    BY <1>1, <1>2 DEF Call, AskableBins, windowVars
  <2>2. cur \in Nat
    BY DEF IInv, TypeOK, Bins
  <2>3. num_first_buf_bin <= num_last_buf_bin
    BY <2>1 DEF IInv, WindowInv, WFirst, WLast, Updating
  <2> QED
    BY <1>1, <2>1, <2>2, <2>3 DEF InWindow
<1>3. CASE LookupHit
  BY <1>1, <1>3 DEF LookupHit, windowVars, callVars, InWindow
<1>4. CASE LookupAhead
  <2>1. /\ cpc = "lookup" /\ cpc' = "update" /\ call' = call /\ cur' = cur
        /\ loc'.end = num_last_buf_bin /\ loc'.n_last = LastFilled
        /\ nbin_buffer' = nbin_buffer /\ call.bin >= num_last_buf_bin
    BY <1>4 DEF LookupAhead, windowVars, callVars
  <2>2. num_last_buf_bin = 0 => LastFilled = Len(nbin_buffer) - 1
    <3>1. /\ buf_end = num_last_buf_bin - num_first_buf_bin
          /\ num_first_buf_bin <= num_last_buf_bin
      BY <2>1 DEF IInv, FilledInv, WindowInv, WFirst, WLast, Updating
    <3> QED
      BY <1>1, <3>1 DEF LastFilled
  <2>3. call.bin = loc'.end \/ (loc'.n_last = Len(nbin_buffer) - 1 /\ call.bin = loc'.end + 1)
    BY <1>1, <2>1, <2>2
  <2> QED
    BY <1>1, <2>1, <2>3
<1>5. CASE LookupBehind
  BY <1>1, <1>5 DEF LookupBehind
<1>6. CASE UpdateDone
  <2>1. /\ cpc = "update" /\ cpc' = "lookup" /\ call' = call /\ cur' = cur
        /\ call.bin >= loc.start /\ call.bin < loc.end
        /\ num_first_buf_bin' = loc.start /\ num_last_buf_bin' = loc.end
    BY <1>6 DEF UpdateDone, callVars, Loaded, InWindow
  <2> QED
    BY <1>1, <2>1, MapFacts
<1>7. CASE UpdateRead
  <2> DEFINE n == ReadCount(loc.end, Len(nbin_buffer))
  <2>1. /\ cpc = "update" /\ cpc' = "update" /\ call' = call /\ cur' = cur /\ ~Loaded
    BY <1>7 DEF UpdateRead, callVars
  <2>2. /\ n \in Nat /\ n >= 1 /\ loc.end \in Bins /\ loc.end <= call.bin
        /\ n = Len(nbin_buffer) \/ loc.end + n = NumBins
        /\ loc'.start = loc.end /\ loc'.end = loc.end + n
    BY <1>7, UpdateReadFacts
  <2> HIDE DEF n
  <2>3. loc.end \in Nat /\ Len(nbin_buffer) \in Nat
    BY MapFacts
  <2>4. ~Loaded' => call.bin = loc'.end
    BY <1>1, <2>1, <2>2, <2>3 DEF Loaded, InWindow
  <2> QED
    BY <1>1, <2>1, <2>4
<1>8. CASE QueryData \/ RequestToRead \/ UpdateGet
  BY <1>1, <1>8 DEF QueryData, RequestToRead, UpdateGet, CallInv
<1>9. CASE ExpandReturn \/ ExpandStart \/ ExtendRead \/ ExtendGet
  BY <1>1, <1>9 DEF ExpandReturn, ExpandStart, ExtendRead, ExtendGet, windowVars, callVars, InWindow
<1>10. CASE Flatten
  <2>1. /\ cpc' = "lookup" /\ num_first_buf_bin' = call.bin /\ num_last_buf_bin' = loc.start
        /\ loc.start >= call.bin + 2
    BY <1>10, FlattenFacts
  <2>2. cpc = "extend" /\ call' = call /\ cur' = cur
    BY <1>10 DEF Flatten, callVars
  <2> QED
    BY <1>1, <2>1, <2>2, MapFacts, SMTT(30)
<1>11. CASE Return
  <2>1. cpc = "return" /\ cpc' = "idle" /\ cur' = cur
        /\ num_first_buf_bin' = num_first_buf_bin /\ num_last_buf_bin' = num_last_buf_bin
    BY <1>11 DEF Return, windowVars
  <2> QED
    BY <1>1, <2>1 DEF InWindow
<1>12. CASE FinishSet \/ FinishNotify \/ FinishJoin
  BY <1>1, <1>12 DEF FinishSet, FinishNotify, FinishJoin, CallInv
<1>13. CASE Job \/ JobSpurious \/ UNCHANGED vars
  <2>1. /\ cpc' = cpc /\ loc' = loc /\ call' = call /\ cur' = cur /\ nbin_buffer' = nbin_buffer
        /\ num_first_buf_bin' = num_first_buf_bin /\ num_last_buf_bin' = num_last_buf_bin
    BY <1>13 DEF Job, JobLoop, JobTest, JobBlock, JobRelock, JobRead, JobSpurious, callerVars,
                 vars, windowVars, callVars
  <2> QED
    BY <1>1, <2>1 DEF Loaded, InWindow
<1> QED
  BY <1>2, <1>3, <1>4, <1>5, <1>6, <1>7, <1>8, <1>9, <1>10, <1>11, <1>12, <1>13
     DEF Next, Methods, Finished

(***************************************************************************)
(* The thread.                                                             *)
(***************************************************************************)
LEMMA ThreadStep ==
  ASSUME IInv, [Next]_vars
  PROVE  ThreadInv'
<1>1. CallInv /\ ThreadInv /\ mode' = mode /\ start' = start
  BY Fixed DEF IInv
<1> SUFFICES ASSUME mode.threads PROVE ThreadInv'
  BY <1>1 DEF ThreadInv
<1> USE DEF ThreadInv
<1>2. CASE RequestToRead
  <2>1. loc.start # NumBins
    BY <1>2, MapFacts DEF IInv, AheadInv, Restarting, RequestToRead
  <2> QED
    BY <1>1, <1>2, <2>1 DEF RequestToRead
<1>3. CASE UpdateGet \/ ExtendGet
  <2>1. ~read_job_completed /\ nbins_read
    BY <1>1, <1>3 DEF CallInv, Ending, UpdateGet, ExtendGet, ThreadHasData
  <2>2. n_first_rbuf_bin' = rbuf_nbin_end /\ ~nbins_read' /\ thread_read_to_end' = thread_read_to_end
    BY <1>3 DEF UpdateGet, ExtendGet, TakeThreadData
  <2> QED
    BY <1>1, <2>1, <2>2
<1>4. CASE JobRead
  <2>1. /\ n_first_rbuf_bin' = n_first_rbuf_bin /\ read_job_completed' = read_job_completed
        /\ n_first_rbuf_bin \in 0..NumBins /\ NumBins \in Nat
        /\ BufSize \in Nat /\ BufSize >= 1
        /\ thread_nbin_buffer \in Seq(CellType) /\ Len(thread_nbin_buffer) = BufSize
        /\ start \in Files
    BY <1>4, MapFacts DEF JobRead
  <2>2. CASE read_job_completed
    BY <1>1, <1>4, <2>1, <2>2 DEF JobRead
  <2>3. CASE ~read_job_completed /\ n_first_rbuf_bin < NumBins
    <3> DEFINE n == ReadCount(n_first_rbuf_bin, BufSize)
    <3>1. n_first_rbuf_bin \in Bins
      BY <2>1, <2>3 DEF Bins
    <3>2. /\ n \in 1..BufSize
          /\ ReadsToEnd(n_first_rbuf_bin, BufSize) <=> n_first_rbuf_bin + n = NumBins
          /\ n = BufSize \/ n_first_rbuf_bin + n = NumBins
          /\ Describes(start, ReadBins(n_first_rbuf_bin, thread_nbin_buffer), n, n_first_rbuf_bin)
      BY <2>1, <3>1, ReadBinsFacts
    <3>3. /\ thread_nbin_buffer' = ReadBins(n_first_rbuf_bin, thread_nbin_buffer)
          /\ rbuf_nbin_end' = n_first_rbuf_bin + n /\ rbuf_end' = n
          /\ thread_read_to_end' = ReadsToEnd(n_first_rbuf_bin, BufSize)
      BY <1>4, <2>1, <2>3 DEF JobRead
    <3> HIDE DEF n
    <3>4. Describes(start, thread_nbin_buffer', rbuf_end', n_first_rbuf_bin')
      BY <2>1, <3>2, <3>3
    <3>5. n >= 1
      BY <2>1, <3>2
    <3> QED
      BY <1>1, <2>1, <2>3, <3>2, <3>3, <3>4, <3>5
  <2>4. CASE ~read_job_completed /\ n_first_rbuf_bin >= NumBins
    <3>1. /\ n_first_rbuf_bin = NumBins /\ rbuf_nbin_end' = NumBins /\ rbuf_end' = 0
          /\ thread_read_to_end' = thread_read_to_end
          /\ Len(thread_nbin_buffer') = Len(thread_nbin_buffer)
      BY <1>4, <2>1, <2>4 DEF JobRead
    <3>2. Describes(start, thread_nbin_buffer', 0, n_first_rbuf_bin)
      BY <2>1, <3>1 DEF Describes
    <3>3. rbuf_nbin_end' = n_first_rbuf_bin + rbuf_end'
      BY <2>1, <3>1
    <3> QED
      BY <1>1, <2>1, <3>1, <3>2, <3>3
  <2> QED
    BY <2>1, <2>2, <2>3, <2>4
<1>5. CASE FinishSet
  BY <1>1, <1>5 DEF FinishSet
<1>6. CASE Call \/ LookupHit \/ LookupAhead \/ LookupBehind \/ UpdateDone \/ UpdateRead \/ QueryData
            \/ ExpandReturn \/ ExpandStart \/ ExtendRead \/ Flatten \/ Return
            \/ FinishNotify \/ FinishJoin
            \/ JobLoop \/ JobTest \/ JobBlock \/ JobRelock \/ JobSpurious \/ UNCHANGED vars
  <2>1. UNCHANGED threadVars
    BY <1>6 DEF Call, LookupHit, LookupAhead, LookupBehind, UpdateDone, UpdateRead, QueryData,
                ExpandReturn, ExpandStart, ExtendRead, Flatten, Return, FinishNotify, FinishJoin,
                JobLoop, JobTest, JobBlock, JobRelock, JobSpurious, vars
  <2> QED
    BY <1>1, <2>1 DEF threadVars
<1> QED
  BY <1>2, <1>3, <1>4, <1>5, <1>6 DEF Next, Methods, Job, Finished

LEMMA AheadStep ==
  ASSUME IInv, [Next]_vars
  PROVE  AheadInv'
<1>1. /\ CallInv /\ AheadInv /\ mode' = mode /\ call.bin \in Nat /\ NumBins \in Nat
      /\ n_first_rbuf_bin \in Nat
  BY Fixed, MapFacts DEF IInv, Bins
<1> SUFFICES ASSUME mode.threads PROVE AheadInv'
  BY <1>1 DEF AheadInv
<1> USE DEF AheadInv, Follows, Restarting
<1>2. CASE Call \/ LookupHit \/ ExpandReturn \/ Return
  BY <1>1, <1>2 DEF Call, LookupHit, ExpandReturn, Return, windowVars, threadVars
<1>3. CASE LookupAhead
  BY <1>1, <1>3 DEF LookupAhead, threadVars
<1>4. CASE LookupBehind
  <2>1. num_first_buf_bin <= num_last_buf_bin
    BY <1>4 DEF IInv, WindowInv, WFirst, WLast, Updating, LookupBehind
  <2>2. call.bin < n_first_rbuf_bin
    BY <1>1, <1>4, <2>1, MapFacts DEF LookupBehind
  <2> QED
    BY <1>1, <1>4, <2>2 DEF LookupBehind, threadVars, callVars
<1>5. CASE UpdateDone
  <2>1. loc.end # loc.start
    BY <1>1, <1>5, MapFacts DEF UpdateDone, Loaded, InWindow
  <2> QED
    BY <1>1, <1>5, <2>1 DEF UpdateDone, threadVars
<1>6. CASE QueryData
  <2>1. loc.end <= call.bin /\ loc.end \in Nat
    BY <1>6, MissFacts, MapFacts DEF QueryData, Updating
  <2> QED
    BY <1>1, <1>6, <2>1 DEF QueryData, threadVars, callVars
<1>7. CASE RequestToRead
  BY <1>1, <1>7 DEF RequestToRead
<1>8. CASE UpdateGet
  <2>1. loc'.end = rbuf_nbin_end /\ n_first_rbuf_bin' = rbuf_nbin_end /\ cpc' = "update"
    BY <1>8, UpdateGetFacts DEF UpdateGet, TakeThreadData
  <2> QED
    BY <1>1, <2>1
<1>9. CASE ExpandStart
  <2>1. loc'.start = num_last_buf_bin
    BY <1>9 DEF ExpandStart, NoLoc
  <2> QED
    BY <1>1, <1>9, <2>1 DEF ExpandStart, threadVars
<1>10. CASE ExtendGet
  <2>1. loc'.start = rbuf_nbin_end
    <3>1. loc \in [start : Nat, end : Nat, end_buf : Nat, n_last : Nat]
      BY DEF IInv, TypeOK
    <3> QED
      BY <1>10, <3>1 DEF ExtendGet
  <2> QED
    BY <1>1, <1>10, <2>1 DEF ExtendGet, TakeThreadData
<1>11. CASE Flatten
  <2>1. num_last_buf_bin' = loc.start /\ cpc' = "lookup"
    BY <1>11, FlattenFacts
  <2> QED
    BY <1>1, <1>11, <2>1 DEF Flatten, threadVars
<1>12. CASE FinishSet \/ FinishNotify \/ FinishJoin
  BY <1>1, <1>12 DEF FinishSet, FinishNotify, FinishJoin
<1>13. CASE UpdateRead \/ ExtendRead
  BY <1>13 DEF UpdateRead, ExtendRead
<1>14. CASE Job \/ JobSpurious \/ UNCHANGED vars
  <2>1. /\ cpc' = cpc /\ loc' = loc /\ call' = call /\ num_last_buf_bin' = num_last_buf_bin
        /\ n_first_rbuf_bin' = n_first_rbuf_bin
    BY <1>14 DEF Job, JobLoop, JobTest, JobBlock, JobRelock, JobRead, JobSpurious, callerVars,
                 vars, windowVars, callVars, threadVars
  <2> QED
    BY <1>1, <2>1
<1> QED
  BY <1>2, <1>3, <1>4, <1>5, <1>6, <1>7, <1>8, <1>9, <1>10, <1>11, <1>12, <1>13, <1>14
     DEF Next, Methods, Finished

(***************************************************************************)
(* Extending the map.                                                      *)
(***************************************************************************)
LEMMA ExtendStep ==
  ASSUME IInv, [Next]_vars
  PROVE  ExtendInv'
<1>1. ExtendInv /\ start' = start /\ NumBins \in Nat /\ num_last_buf_bin \in Nat
  BY Fixed, MapFacts DEF IInv
<1> USE DEF ExtendInv
<1>2. CASE ExpandStart
  <2>1. /\ cpc = "expand" /\ ~map_capacity_isknown /\ holder' = Kept /\ eop' = FALSE
        /\ loc'.start = num_last_buf_bin /\ loc'.end = Described /\ Described < call.fit
        /\ call' = call /\ num_last_buf_bin' = num_last_buf_bin
        /\ map_capacity_isknown' = map_capacity_isknown
    BY <1>2 DEF ExpandStart, NoLoc, windowVars, capVars, callVars
  <2>2. num_last_buf_bin # NumBins /\ num_last_buf_bin <= NumBins
    BY <2>1, MapFacts DEF IInv, WindowInv, WLast, Updating
  <2>3. Len(Kept) = num_last_buf_bin - call.bin /\ Describes(start, Kept, Len(Kept), call.bin)
    BY <2>1, KeptFacts
  <2>4. Described = PixIn(start, call.bin, num_last_buf_bin)
    BY <2>1, BinFacts
  <2> QED
    BY <1>1, <2>1, <2>2, <2>3, <2>4
<1>3. CASE ExtendRead \/ ExtendGet
  <2>1. PICK chunk \in Seq(CellType) :
          /\ Len(chunk) >= 1 /\ loc.start + Len(chunk) <= NumBins
          /\ Describes(start, chunk, Len(chunk), loc.start)
          /\ holder' = AddChunk(chunk, holder)
          /\ eop' <=> loc.start + Len(chunk) = NumBins
          /\ loc' = [loc EXCEPT !.start = @ + Len(chunk), !.end = @ + End(chunk[Len(chunk)])]
    BY <1>3, ReadChunk, GetChunk
  <2>2. /\ cpc = "extend" /\ call' = call /\ num_last_buf_bin' = num_last_buf_bin
        /\ map_capacity_isknown' = map_capacity_isknown
    BY <1>3 DEF ExtendRead, ExtendGet, windowVars, capVars, callVars
  <2> DEFINE next == loc.start + Len(chunk)
             map == AddChunk(chunk, holder)
  <2>3. /\ Len(map) = next - call.bin /\ Describes(start, map, Len(map), call.bin)
        /\ loc.end + End(chunk[Len(chunk)]) = PixIn(start, call.bin, next)
    BY <2>1, <2>2, ExtendFacts
  <2>4. loc'.start = next /\ loc'.end = PixIn(start, call.bin, next)
    <3>1. loc \in [start : Nat, end : Nat, end_buf : Nat, n_last : Nat]
      BY DEF IInv, TypeOK
    <3>2. loc'.start = next /\ loc'.end = loc.end + End(chunk[Len(chunk)])
      BY <2>1, <3>1
    <3> QED
      BY <2>3, <3>2
  <2>5. next > num_last_buf_bin /\ next <= NumBins
    BY <1>1, <2>1, <2>2, MapFacts
  <2> HIDE DEF next, map
  <2>6. holder' = map /\ (eop' <=> next = NumBins)
    BY <2>1 DEF next, map
  <2>7. next >= num_last_buf_bin /\ next # num_last_buf_bin
    BY <1>1, <2>5, MapFacts, SMTT(30) DEF next
  <2> QED
    BY <1>1, <2>2, <2>3, <2>4, <2>5, <2>6, <2>7
<1>4. CASE Call \/ LookupHit \/ LookupAhead \/ LookupBehind \/ UpdateDone \/ UpdateRead \/ QueryData
            \/ RequestToRead \/ UpdateGet \/ ExpandReturn \/ Flatten \/ Return
            \/ FinishSet \/ FinishNotify \/ FinishJoin
  <2>1. cpc' # "extend"
    BY <1>4 DEF Call, LookupHit, LookupAhead, LookupBehind, UpdateDone, UpdateRead, QueryData,
                RequestToRead, UpdateGet, ExpandReturn, Flatten, Return, FinishSet, FinishNotify,
                FinishJoin
  <2> QED
    BY <2>1
<1>5. CASE Job \/ JobSpurious \/ UNCHANGED vars
  <2>1. /\ cpc' = cpc /\ loc' = loc /\ call' = call /\ num_last_buf_bin' = num_last_buf_bin
        /\ holder' = holder /\ eop' = eop /\ map_capacity_isknown' = map_capacity_isknown
    BY <1>5 DEF Job, JobLoop, JobTest, JobBlock, JobRelock, JobRead, JobSpurious, callerVars,
                vars, windowVars, capVars, callVars
  <2> QED
    BY <1>1, <2>1
<1> QED
  BY <1>2, <1>3, <1>4, <1>5 DEF Next, Methods, Finished

(***************************************************************************)
(* The answer.                                                             *)
(***************************************************************************)
\* lower_bound finds the bin before which the whole bins that fit end.
LEMMA FirstOutFacts ==
  ASSUME IInv, cpc = "expand", BinInfo.num < call.fit, Described > call.fit
  PROVE  \E k \in (call.bin + 1)..(NumBins - 1) :
           /\ nbin_buffer[FirstOut(call.fit)].pos - BinInfo.pos = PixIn(start, call.bin, k)
           /\ PixIn(start, call.bin, k) <= call.fit /\ PixIn(start, call.bin, k + 1) > call.fit
<1> DEFINE last == num_last_buf_bin - num_first_buf_bin
           S == {i \in Loc(call.bin)..last : End(nbin_buffer[i]) > call.fit + BinInfo.pos}
           m == FirstOut(call.fit)
           k == num_first_buf_bin + m - 1
<1>1. /\ ~Updating /\ InWindow(call.bin, num_first_buf_bin, num_last_buf_bin)
      /\ call.bin \in num_first_buf_bin..(NumBins - 1) /\ num_last_buf_bin > call.bin
      /\ start[call.bin] \in Nat /\ start[num_first_buf_bin] \in Nat
      /\ start[num_last_buf_bin] \in Nat
      /\ BinInfo.num = NpixOf(start, call.bin) /\ NpixOf(start, call.bin) \in Nat
      /\ BinInfo.pos = start[call.bin] - start[num_first_buf_bin]
      /\ Described = PixIn(start, call.bin, num_last_buf_bin)
  BY BinFacts
<1>2. /\ num_first_buf_bin \in Nat /\ num_last_buf_bin \in 0..NumBins /\ NumBins \in Nat
      /\ call.bin \in Nat /\ start \in Files /\ call.fit \in Nat
  BY <1>1, MapFacts, SMTT(30)
\* Cell i of the window is that of bin b.
<1>3. \A b \in call.bin..(num_last_buf_bin - 1) :
        /\ b \in 0..NumBins /\ b + 1 \in 0..NumBins
        /\ start[b] \in Nat /\ start[b + 1] \in Nat
        /\ nbin_buffer[Loc(b)].pos - BinInfo.pos = PixIn(start, call.bin, b)
        /\ End(nbin_buffer[Loc(b)]) - BinInfo.pos = PixIn(start, call.bin, b + 1)
  <2> TAKE b \in call.bin..(num_last_buf_bin - 1)
  <2>1. b \in Int /\ InWindow(b, num_first_buf_bin, num_last_buf_bin)
        /\ b \in 0..NumBins /\ b + 1 \in 0..NumBins
    BY <1>1, <1>2 DEF InWindow
  <2>2. /\ nbin_buffer[Loc(b)].pos = PixIn(start, num_first_buf_bin, b)
        /\ End(nbin_buffer[Loc(b)]) = PixIn(start, num_first_buf_bin, b + 1)
    BY <1>1, <2>1, WindowCell
  <2>3. start[b] \in Nat /\ start[b + 1] \in Nat
    BY <1>2, <2>1, FileFacts
  <2> QED
    BY <1>1, <2>1, <2>2, <2>3 DEF PixIn
<1>4. \A i \in Loc(call.bin)..last :
        /\ num_first_buf_bin + i - 1 \in call.bin..(num_last_buf_bin - 1)
        /\ i = Loc(num_first_buf_bin + i - 1)
  BY <1>1, <1>2 DEF Loc
<1>5. last \in S
  <2>1. last \in Loc(call.bin)..last
    BY <1>1, <1>2 DEF Loc
  <2>2. End(nbin_buffer[last]) - BinInfo.pos = Described
    BY <1>1, <1>2 DEF Described, PixIn
  <2>3. End(nbin_buffer[last]) \in Int
    <3>1. num_first_buf_bin + last - 1 \in call.bin..(num_last_buf_bin - 1)
          /\ last = Loc(num_first_buf_bin + last - 1)
      BY <1>4, <2>1
    <3> HIDE DEF last
    <3>2. num_first_buf_bin + last - 1 \in Int
          /\ InWindow(num_first_buf_bin + last - 1, num_first_buf_bin, num_last_buf_bin)
      BY <1>1, <1>2, <3>1 DEF InWindow
    <3>3. nbin_buffer[last] \in CellType
      BY <1>1, <3>1, <3>2, WindowCell
    <3> QED
      BY <3>3 DEF End, CellType
  <2> QED
    BY <1>1, <1>2, <2>1, <2>2, <2>3
<1>6. m \in S /\ \A i \in S : m <= i
  <2>1. S \in SUBSET Nat
    BY <1>1, <1>2 DEF Loc
  <2>2. m = Min(S)
    BY DEF FirstOut
  <2> HIDE DEF S, m
  <2> QED
    BY <1>5, <2>1, <2>2, MinOfNats
<1> HIDE DEF m
<1>7. k \in call.bin..(num_last_buf_bin - 1) /\ m = Loc(k) /\ m \in Nat
  BY <1>1, <1>2, <1>4, <1>6 DEF Loc
<1>8. PixIn(start, call.bin, k + 1) > call.fit
  <2>1. /\ End(nbin_buffer[m]) - BinInfo.pos = PixIn(start, call.bin, k + 1)
        /\ start[k + 1] \in Nat
    BY <1>3, <1>7
  <2>2. End(nbin_buffer[m]) > call.fit + BinInfo.pos
    BY <1>6
  <2>3. End(nbin_buffer[m]) \in Int
    <3>1. k \in Int /\ InWindow(k, num_first_buf_bin, num_last_buf_bin)
      BY <1>1, <1>2, <1>7 DEF InWindow
    <3>2. nbin_buffer[m] \in CellType
      BY <1>1, <1>7, <3>1, WindowCell
    <3> QED
      BY <3>2 DEF End, CellType
  <2> QED
    BY <1>1, <1>2, <2>1, <2>2, <2>3
<1>9. k # call.bin
  <2>1. PixIn(start, call.bin, call.bin + 1) < call.fit
    BY <1>1 DEF NpixOf
  <2>2. PixIn(start, call.bin, call.bin + 1) \in Int /\ PixIn(start, call.bin, k + 1) \in Int
    BY <1>1, <1>2, <1>3, <1>7 DEF PixIn
  <2> QED
    BY <1>2, <1>8, <2>1, <2>2
<1>10. PixIn(start, call.bin, k) <= call.fit
  <2>1. k - 1 \in call.bin..(num_last_buf_bin - 1) /\ Loc(k - 1) = m - 1 /\ k - 1 + 1 = k
        /\ m - 1 \in Loc(call.bin)..last
    BY <1>1, <1>2, <1>7, <1>9 DEF Loc
  <2>2. m - 1 \notin S
    BY <1>6, <1>7
  <2>3. End(nbin_buffer[m - 1]) - BinInfo.pos = PixIn(start, call.bin, k) /\ start[k] \in Nat
    BY <1>3, <1>7, <2>1
  <2>4. ~(End(nbin_buffer[m - 1]) > call.fit + BinInfo.pos)
    BY <2>1, <2>2
  <2>5. End(nbin_buffer[m - 1]) \in Int
    <3>1. k - 1 \in Int /\ InWindow(k - 1, num_first_buf_bin, num_last_buf_bin)
      BY <1>1, <1>2, <2>1 DEF InWindow
    <3>2. nbin_buffer[m - 1] \in CellType
      BY <1>1, <2>1, <3>1, WindowCell
    <3> QED
      BY <3>2 DEF End, CellType
  <2> QED
    BY <1>1, <1>2, <2>3, <2>4, <2>5
<1>11. nbin_buffer[m].pos - BinInfo.pos = PixIn(start, call.bin, k)
  BY <1>3, <1>7
<1>12. k \in (call.bin + 1)..(NumBins - 1)
  BY <1>2, <1>7, <1>9
<1> QED
  BY <1>8, <1>10, <1>11, <1>12 DEF m

LEMMA AnswerStep ==
  ASSUME IInv, [Next]_vars
  PROVE  AnswersRight'
<1>1. AnswersRight /\ start' = start /\ call.bin \in Bins /\ start \in Files
  BY Fixed, MapFacts DEF IInv
<1>2. CASE LookupHit
  <2>1. CASE call.op = "npix"
    <3>1. /\ ~Updating /\ InWindow(call.bin, num_first_buf_bin, num_last_buf_bin)
          /\ call.bin \in Int
      BY <1>1, <1>2, MapFacts, SMTT(30) DEF LookupHit, Updating, Bins
    <3>2. /\ nbin_buffer[Loc(call.bin)].num = NpixOf(start, call.bin)
          /\ nbin_buffer[Loc(call.bin)].pos = PixIn(start, num_first_buf_bin, call.bin)
      BY <3>1, WindowCell
    <3>3. ans'.num = NpixOf(start, call.bin)
          /\ ans'.start = prebuf_pix_num + PixIn(start, num_first_buf_bin, call.bin)
      BY <1>2, <2>1, <3>2 DEF LookupHit, Loc
    <3>4. prebuf_pix_num = start[num_first_buf_bin]
      BY <3>1 DEF IInv, WindowInv, WFirst
    <3>5. start[call.bin] \in Nat /\ start[num_first_buf_bin] \in Nat
      <4>1. call.bin \in 0..NumBins /\ num_first_buf_bin \in 0..NumBins
        BY MapFacts DEF Bins
      <4> QED
        BY <1>1, <4>1, FileFacts
    <3>6. ans'.start = start[call.bin]
      BY <3>3, <3>4, <3>5 DEF PixIn
    <3> QED
      BY <1>1, <1>2, <2>1, <3>3, <3>6 DEF LookupHit, AnswersRight, callVars
  <2>2. CASE call.op # "npix"
    BY <1>2, <2>2 DEF LookupHit, AnswersRight
  <2> QED  BY <2>1, <2>2
<1>3. CASE ExpandReturn
  <2> DEFINE whole == WholeBins(start, call.bin, call.fit)
             left == PixIn(start, call.bin, NumBins)
  <2>1. /\ call.bin \in num_first_buf_bin..(NumBins - 1) /\ num_last_buf_bin > call.bin
        /\ start[call.bin] \in Nat /\ start[num_last_buf_bin] \in Nat
        /\ BinInfo.num = NpixOf(start, call.bin) /\ NpixOf(start, call.bin) \in Nat
        /\ Described = PixIn(start, call.bin, num_last_buf_bin) /\ Described \in Nat
        /\ call.op = "expand" /\ cpc = "expand"
    BY <1>3, BinFacts DEF IInv, CallInv, ExpandReturn
  <2>2. /\ call.bin \in Nat /\ NumBins \in Nat /\ num_last_buf_bin \in 0..NumBins
        /\ call.fit \in Nat /\ num_last_buf_bin \in (call.bin + 1)..NumBins
    <3>1. NumBins \in Nat /\ num_last_buf_bin \in 0..NumBins /\ call.fit \in Nat
      BY MapFacts
    <3>2. call.bin \in Nat /\ call.bin < num_last_buf_bin
      BY <1>1, <2>1, <3>1 DEF Bins
    <3> QED
      BY <3>1, <3>2
  \* As many pixels are left as any bins from this one on have, and more.
  <2>3. \A k \in (call.bin + 1)..NumBins :
          /\ PixIn(start, call.bin, k) \in Nat /\ PixIn(start, call.bin, k) <= left
          /\ left \in Nat
    <3> TAKE k \in (call.bin + 1)..NumBins
    <3>1. k \in 0..NumBins /\ k <= NumBins /\ call.bin \in 0..NumBins /\ call.bin <= k
          /\ NumBins \in 0..NumBins
      BY <2>2
    <3>2. start[k] <= start[NumBins] /\ start[call.bin] <= start[k]
          /\ start[k] \in Nat /\ start[NumBins] \in Nat
      BY <1>1, <3>1, FileFacts
    <3> QED
      BY <2>1, <3>2 DEF PixIn
  <2>4. ans'.num = whole /\ (ans'.eop <=> left < call.fit)
    <3>1. CASE BinInfo.num >= call.fit
      <4>1. ans' = [num |-> BinInfo.num, start |-> 0, eop |-> FALSE]
        BY <1>3, <2>1, <2>2, <3>1 DEF ExpandReturn
      <4>2. whole = NpixOf(start, call.bin)
        BY <2>1, <3>1 DEF WholeBins
      <4>3. NpixOf(start, call.bin) <= left
        <5>1. call.bin + 1 \in (call.bin + 1)..NumBins
          BY <2>1, <2>2
        <5> QED
          BY <2>3, <5>1 DEF NpixOf
      <4>4. ~(left < call.fit)
        BY <2>1, <2>2, <2>3, <3>1, <4>3
      <4> QED
        BY <2>1, <4>1, <4>2, <4>4
    <3>2. CASE BinInfo.num < call.fit /\ Described = call.fit
      <4>1. ans' = [num |-> Described, start |-> 0, eop |-> FALSE]
        BY <1>3, <2>1, <2>2, <3>2 DEF ExpandReturn
      <4>2. /\ PixIn(start, call.bin, num_last_buf_bin) = call.fit
            /\ call.fit <= call.fit /\ NpixOf(start, call.bin) < call.fit
        BY <2>1, <2>2, <3>2
      <4>3. whole = Described
        BY <1>1, <2>1, <2>2, <4>2, WholeBinsIs
      <4>4. ~(left < call.fit)
        <5>1. call.fit <= left /\ left \in Nat
          BY <2>2, <2>3, <4>2
        <5> QED
          BY <2>2, <5>1
      <4> QED
        BY <4>1, <4>3, <4>4
    <3>3. CASE BinInfo.num < call.fit /\ Described > call.fit
      <4>1. ans' = [num |-> nbin_buffer[FirstOut(call.fit)].pos - BinInfo.pos,
                    start |-> 0, eop |-> FALSE]
        BY <1>3, <2>1, <2>2, <3>3 DEF ExpandReturn
      <4>2. PICK k \in (call.bin + 1)..(NumBins - 1) :
              /\ nbin_buffer[FirstOut(call.fit)].pos - BinInfo.pos = PixIn(start, call.bin, k)
              /\ PixIn(start, call.bin, k) <= call.fit
              /\ PixIn(start, call.bin, k + 1) > call.fit
        BY <2>1, <3>3, FirstOutFacts
      <4>3. k \in (call.bin + 1)..NumBins /\ k + 1 \in (call.bin + 1)..NumBins
        BY <2>2
      <4>4. whole = PixIn(start, call.bin, k)
        BY <1>1, <2>1, <2>2, <3>3, <4>2, <4>3, WholeBinsIs
      <4>5. ~(left < call.fit)
        BY <2>2, <2>3, <4>2, <4>3
      <4> QED
        BY <4>1, <4>2, <4>4, <4>5
    <3>4. CASE BinInfo.num < call.fit /\ Described < call.fit
      <4>1. ans' = [num |-> Described, start |-> 0, eop |-> TRUE] /\ map_capacity_isknown
        BY <1>3, <2>1, <2>2, <3>4 DEF ExpandReturn
      <4>2. num_last_buf_bin = NumBins
        BY <2>1, <4>1 DEF IInv, WindowInv, WLast, Updating
      <4>3. whole = Described
        BY <1>1, <2>1, <2>2, <3>4, <4>2, WholeBinsIs
      <4>4. left < call.fit
        BY <2>1, <3>4, <4>2
      <4> QED
        BY <4>1, <4>3, <4>4
    <3> QED
      BY <2>1, <2>2, <3>1, <3>2, <3>3, <3>4
  <2>5. call' = call
    BY <1>3 DEF ExpandReturn, callVars
  <2> HIDE DEF whole, left
  <2>6. ans'.num = WholeBins(start, call.bin, call.fit)
        /\ (ans'.eop <=> PixIn(start, call.bin, NumBins) < call.fit)
    BY <2>4 DEF whole, left
  <2> QED
    BY <1>1, <2>1, <2>5, <2>6 DEF AnswersRight
<1>4. CASE Call \/ LookupAhead \/ LookupBehind \/ UpdateDone \/ UpdateRead \/ QueryData
            \/ RequestToRead \/ UpdateGet \/ ExpandStart \/ ExtendRead \/ ExtendGet \/ Flatten
            \/ Return \/ FinishSet \/ FinishNotify \/ FinishJoin
  <2>1. cpc' # "return"
    BY <1>4 DEF Call, LookupAhead, LookupBehind, UpdateDone, UpdateRead, QueryData,
                RequestToRead, UpdateGet, ExpandStart, ExtendRead, ExtendGet, Flatten, Return,
                FinishSet, FinishNotify, FinishJoin
  <2> QED
    BY <2>1 DEF AnswersRight
<1>5. CASE Job \/ JobSpurious \/ UNCHANGED vars
  <2>1. cpc' = cpc /\ call' = call /\ ans' = ans
    BY <1>5 DEF Job, JobLoop, JobTest, JobBlock, JobRelock, JobRead, JobSpurious, callerVars,
                vars, callVars
  <2> QED
    BY <1>1, <2>1 DEF AnswersRight
<1> QED
  BY <1>2, <1>3, <1>4, <1>5 DEF Next, Methods, Finished

(***************************************************************************)
(* The types.                                                              *)
(***************************************************************************)
\* The thread gets a vector of its own size back.
LEMMA TakeFacts ==
  ASSUME IInv, NEW inbuf \in Seq(CellType), TakeThreadData(inbuf)
  PROVE  /\ thread_nbin_buffer' \in Seq(CellType) /\ Len(thread_nbin_buffer') = BufSize
         /\ n_first_rbuf_bin' = rbuf_nbin_end /\ ~nbins_read' /\ nbins_read' \in BOOLEAN
         /\ tpc' = Woken
         /\ UNCHANGED <<read_job_completed, thread_read_to_end, rbuf_nbin_end, rbuf_end>>
<1>1. BufSize \in Nat /\ Len(thread_nbin_buffer) = BufSize /\ Len(inbuf) \in Nat
  BY MapFacts
<1> DEFINE cell(i) == IF i <= Len(inbuf) THEN inbuf[i] ELSE [num |-> 0, pos |-> 0]
<1>2. \A i \in 1..BufSize : cell(i) \in CellType
  <2> TAKE i \in 1..BufSize
  <2>1. CASE i <= Len(inbuf)
    <3>1. i \in 1..Len(inbuf)
      BY <1>1, <2>1
    <3>2. inbuf[i] \in CellType
      BY <3>1
    <3> QED
      BY <2>1, <3>2
  <2>2. CASE ~(i <= Len(inbuf))
    BY <2>2 DEF CellType
  <2> QED  BY <2>1, <2>2
<1>3. thread_nbin_buffer' = [i \in 1..BufSize |-> cell(i)]
  BY <1>1 DEF TakeThreadData
<1> HIDE DEF cell
<1>4. thread_nbin_buffer' \in [1..BufSize -> CellType]
  BY <1>2, <1>3
<1> QED
  BY <1>1, <1>4, MadeOf DEF TakeThreadData

\* What has been read in a turn of the loop ends at some pixel of the file.
LEMMA CapacityType ==
  ASSUME IInv, NEW buf \in Seq(CellType), NEW n \in Nat, n >= 1, NEW first \in Bins,
         first + n <= NumBins, Describes(start, buf, n, first)
  PROVE  End(buf[n]) \in Nat /\ start[first] \in Nat
<1>1. start \in Files /\ NumBins \in Nat
  BY MapFacts
<1>2. first \in 0..NumBins /\ n \in 1..n
  BY <1>1 DEF Bins
<1>3. /\ End(buf[n]) = PixIn(start, first, first + n)
      /\ PixIn(start, first, first + n) \in Nat
  BY <1>1, <1>2, DescribedCell
<1> QED
  BY <1>1, <1>2, <1>3, FileFacts

LEMMA TypeStep ==
  ASSUME IInv, [Next]_vars
  PROVE  TypeOK'
<1>1. TypeOK /\ mode' = mode /\ start' = start
  BY Fixed DEF IInv
<1>2. CASE Call
  <2>1. PICK b \in Bins :
          /\ cur' = b
          /\ \/ call' = [op |-> "npix", bin |-> b, fit |-> 0]
             \/ \E n \in Fits : call' = [op |-> "expand", bin |-> b, fit |-> n]
    BY <1>2 DEF Call, AskableBins
  <2>2. call' \in [op : {"none", "npix", "expand"}, bin : Bins, fit : Nat]
    BY <2>1, MapFacts
  <2> QED
    BY <1>1, <1>2, <2>1, <2>2 DEF Call, TypeOK, windowVars, capVars, threadVars
<1>3. CASE LookupHit
  <2>1. ans' \in [num : Nat, start : Nat, eop : BOOLEAN]
    <3>1. CASE call.op = "npix"
      <4>1. /\ ~Updating /\ InWindow(call.bin, num_first_buf_bin, num_last_buf_bin)
            /\ call.bin \in Int
        BY <1>3, MapFacts DEF LookupHit, Updating, Bins
      <4>2. nbin_buffer[Loc(call.bin)] \in CellType
        BY <4>1, WindowCell
      <4>3. prebuf_pix_num \in Nat
        BY <1>1 DEF TypeOK
      <4>4. ans' = [num |-> nbin_buffer[Loc(call.bin)].num,
                    start |-> prebuf_pix_num + nbin_buffer[Loc(call.bin)].pos, eop |-> FALSE]
        BY <1>3, <3>1 DEF LookupHit, Loc
      <4> QED
        BY <4>2, <4>3, <4>4 DEF CellType
    <3>2. CASE call.op # "npix"
      BY <1>1, <1>3, <3>2 DEF LookupHit, TypeOK
    <3> QED  BY <3>1, <3>2
  <2>2. cpc' \in {"return", "expand"}
    BY <1>3 DEF LookupHit
  <2> QED
    BY <1>1, <1>3, <2>1, <2>2 DEF LookupHit, TypeOK, windowVars, capVars, callVars, threadVars
<1>4. CASE LookupAhead
  <2>1. loc' \in [start : Nat, end : Nat, end_buf : Nat, n_last : Nat]
    <3>1. num_first_buf_bin \in Nat /\ num_last_buf_bin \in Nat /\ buf_end \in Nat
      BY <1>1, MapFacts DEF TypeOK
    <3>2. LastFilled \in Nat /\ (IF buf_end > 0 THEN buf_end - 1 ELSE 0) \in Nat
      BY <3>1, MapFacts DEF LastFilled
    <3> QED
      BY <1>4, <3>1, <3>2 DEF LookupAhead
  <2> QED
    BY <1>1, <1>4, <2>1 DEF LookupAhead, TypeOK, windowVars, capVars, callVars, threadVars
<1>5. CASE LookupBehind
  <2>1. loc' \in [start : Nat, end : Nat, end_buf : Nat, n_last : Nat]
    <3>1. buf_end \in Nat
      BY <1>1, MapFacts DEF TypeOK
    <3>2. LastFilled \in Nat /\ (IF buf_end > 0 THEN buf_end - 1 ELSE 0) \in Nat
      BY <3>1, MapFacts DEF LastFilled
    <3> QED
      BY <1>5, <3>2 DEF LookupBehind
  <2>2. nbin_buffer' \in Seq(CellType)
    <3>1. [num |-> 0, pos |-> 0] \in CellType /\ nbin_buffer \in Seq(CellType)
      BY MapFacts DEF CellType
    <3>2. nbin_buffer' = [nbin_buffer EXCEPT ![LastFilled + 1] = [num |-> 0, pos |-> 0]]
      BY <1>5 DEF LookupBehind
    <3>3. LastFilled + 1 \in Int
      <4>1. buf_end \in Nat /\ Len(nbin_buffer) \in Nat
        BY <1>1, <3>1, MapFacts DEF TypeOK
      <4> QED
        BY <4>1 DEF LastFilled
    <3> HIDE DEF LastFilled
    <3> QED
      BY <3>1, <3>2, <3>3, CellSet
  <2>3. 0 \in 0..NumBins
    BY MapFacts
  <2> QED
    BY <1>1, <1>5, <2>1, <2>2, <2>3 DEF LookupBehind, TypeOK, callVars, threadVars
<1>6. CASE UpdateDone
  <2>1. Updating /\ Loaded
    BY <1>6 DEF UpdateDone, Updating
  <2>2. loc.start \in 0..NumBins /\ loc.end \in 0..NumBins /\ loc.start <= loc.end
    BY <2>1, MapFacts DEF WFirst, WLast
  <2>3. loc.end_buf = loc.end - loc.start
    BY <2>1 DEF IInv, FilledInv, WFirst, WLast
  <2>4. loc.end_buf \in 0..NumBins
    BY <2>2, <2>3, MapFacts, SMTT(30)
  <2>5. loc' \in [start : Nat, end : Nat, end_buf : Nat, n_last : Nat]
    BY <1>6 DEF UpdateDone, NoLoc
  <2> QED
    BY <1>1, <1>6, <2>2, <2>4, <2>5 DEF UpdateDone, TypeOK, capVars, callVars, threadVars
<1>7. CASE UpdateRead
  <2> DEFINE n == ReadCount(loc.end, Len(nbin_buffer))
  <2>1. /\ Updating /\ loc.end \in Bins /\ n \in Nat /\ n >= 1 /\ loc.end + n <= NumBins
        /\ nbin_buffer' \in Seq(CellType) /\ Describes(start, nbin_buffer', n, loc.end)
        /\ prebuf_pix_num' = start[loc.end]
        /\ loc' = [start |-> loc.end, end |-> loc.end + n, end_buf |-> n, n_last |-> loc.n_last]
        /\ map_capacity_isknown' <=> loc.end + n = NumBins
        /\ numPixInMap' \in {numPixInMap, PixelsPassed + End(nbin_buffer'[n])}
    BY <1>7, UpdateReadFacts
  <2> HIDE DEF n
  <2>2. End(nbin_buffer'[n]) \in Nat /\ start[loc.end] \in Nat
    BY <2>1, CapacityType
  <2>3. PixelsPassed = start[loc.end]
    BY <1>7, <2>1, MissFacts DEF UpdateRead
  <2>4. numPixInMap' \in Nat \cup {Unknown}
    <3>1. PixelsPassed + End(nbin_buffer'[n]) \in Nat
      BY <2>2, <2>3
    <3>2. numPixInMap \in Nat \cup {Unknown}
      BY <1>1 DEF TypeOK
    <3>3. numPixInMap' \in {numPixInMap, PixelsPassed + End(nbin_buffer'[n])}
      BY <2>1
    <3> QED
      BY <3>1, <3>2, <3>3
  <2>5. loc' \in [start : Nat, end : Nat, end_buf : Nat, n_last : Nat]
    BY <2>1, MapFacts, SMTT(30)
  <2>6. map_capacity_isknown' \in BOOLEAN
    BY <1>1, <1>7 DEF UpdateRead, NoteCapacity, capVars, TypeOK
  <2> QED
    BY <1>1, <1>7, <2>1, <2>2, <2>4, <2>5, <2>6 DEF UpdateRead, TypeOK, callVars, threadVars
<1>8. CASE UpdateGet
  <2>1. /\ Updating /\ loc.end \in Bins /\ rbuf_end \in 1..BufSize
        /\ rbuf_nbin_end = loc.end + rbuf_end /\ rbuf_nbin_end <= NumBins
        /\ nbin_buffer' \in Seq(CellType) /\ Describes(start, nbin_buffer', rbuf_end, loc.end)
        /\ prebuf_pix_num' = start[loc.end]
        /\ loc' = [start |-> loc.end, end |-> rbuf_nbin_end, end_buf |-> rbuf_end,
                   n_last |-> rbuf_end - 1]
        /\ numPixInMap' \in {numPixInMap, PixelsPassed + End(nbin_buffer'[rbuf_end])}
        /\ cpc' = "update"
    BY <1>8, UpdateGetFacts
  <2>2. rbuf_end \in Nat /\ rbuf_end >= 1 /\ rbuf_nbin_end \in 0..NumBins /\ loc.end \in Nat
        /\ rbuf_nbin_end \in Nat
    BY <2>1, MapFacts
  <2>3. End(nbin_buffer'[rbuf_end]) \in Nat /\ start[loc.end] \in Nat
    BY <2>1, <2>2, CapacityType
  <2>4. PixelsPassed = start[loc.end]
    BY <1>8, <2>1, MissFacts DEF UpdateGet, IInv, CallInv
  <2>5. numPixInMap' \in Nat \cup {Unknown}
    <3>1. PixelsPassed + End(nbin_buffer'[rbuf_end]) \in Nat
      BY <2>3, <2>4
    <3>2. numPixInMap \in Nat \cup {Unknown}
      BY <1>1 DEF TypeOK
    <3>3. numPixInMap' \in {numPixInMap, PixelsPassed + End(nbin_buffer'[rbuf_end])}
      BY <2>1
    <3> QED
      BY <3>1, <3>2, <3>3
  <2>6. loc' \in [start : Nat, end : Nat, end_buf : Nat, n_last : Nat]
    BY <2>1, <2>2
  <2>7. map_capacity_isknown' \in BOOLEAN
    BY <1>1, <1>8 DEF UpdateGet, NoteCapacity, capVars, TypeOK
  <2>8. /\ thread_nbin_buffer' \in Seq(CellType) /\ Len(thread_nbin_buffer') = BufSize
        /\ n_first_rbuf_bin' = rbuf_nbin_end /\ nbins_read' \in BOOLEAN
        /\ tpc' = Woken
        /\ UNCHANGED <<read_job_completed, thread_read_to_end, rbuf_nbin_end, rbuf_end>>
    BY <1>8, MapFacts, TakeFacts DEF UpdateGet
  <2>9. tpc' \in {"loop", "test", "block", "asleep", "relock", "reading", "ended"}
    BY <1>1, <2>8 DEF Woken, TypeOK
  <2> QED
    BY <1>1, <1>8, <2>1, <2>2, <2>3, <2>5, <2>6, <2>7, <2>8, <2>9 DEF UpdateGet, TypeOK, callVars
<1>9. CASE QueryData
  BY <1>1, <1>9 DEF QueryData, TypeOK, windowVars, capVars, callVars, threadVars
<1>10. CASE RequestToRead
  <2>1. loc.start \in 0..NumBins
    BY <1>10, MapFacts DEF RequestToRead, WFirst, Updating
  <2>2. tpc' \in {"loop", "test", "block", "asleep", "relock", "reading", "ended"}
    BY <1>1, <1>10 DEF RequestToRead, Woken, TypeOK
  <2> QED
    BY <1>1, <1>10, <2>1, <2>2 DEF RequestToRead, TypeOK, windowVars, capVars, callVars
<1>11. CASE ExpandReturn
  <2>1. ans'.num \in Nat
    <3>1. AnswersRight' /\ call' = call /\ call.op = "expand" /\ cpc' = "return"
      BY <1>11, AnswerStep DEF ExpandReturn, callVars, IInv, CallInv
    <3>2. ans'.num = WholeBins(start, call.bin, call.fit)
      BY <1>1, <3>1 DEF AnswersRight
    <3> QED
      BY <3>2, MapFacts, WholeBinsFacts
  <2>2. \E n, e : ans' = [num |-> n, start |-> 0, eop |-> e] /\ e \in BOOLEAN
    BY <1>11 DEF ExpandReturn
  <2>3. ans' \in [num : Nat, start : Nat, eop : BOOLEAN]
    BY <2>1, <2>2
  <2>4. cpc' = "return"
    BY <1>11 DEF ExpandReturn
  <2>5. UNCHANGED <<windowVars, capVars, callVars, loc, holder, eop, tpc, threadVars>>
    BY <1>11 DEF ExpandReturn
  <2> QED
    BY <1>1, <2>3, <2>4, <2>5 DEF TypeOK, windowVars, capVars, callVars, threadVars
<1>12. CASE ExpandStart
  <2>1. holder' \in Seq(CellType)
    BY <1>12, KeptFacts DEF ExpandStart
  <2>2. loc' \in [start : Nat, end : Nat, end_buf : Nat, n_last : Nat]
    <3>1. Described \in Nat /\ num_last_buf_bin \in Nat
      BY <1>12, BinFacts, MapFacts DEF ExpandStart
    <3> QED
      BY <1>12, <3>1 DEF ExpandStart, NoLoc
  <2> QED
    BY <1>1, <1>12, <2>1, <2>2 DEF ExpandStart, TypeOK, windowVars, capVars, callVars, threadVars
<1>13. CASE ExtendRead \/ ExtendGet
  <2>1. PICK chunk \in Seq(CellType) :
          /\ Len(chunk) >= 1 /\ loc.start + Len(chunk) <= NumBins
          /\ Describes(start, chunk, Len(chunk), loc.start)
          /\ holder' = AddChunk(chunk, holder) /\ buf_end' = Len(chunk)
          /\ loc' = [loc EXCEPT !.start = @ + Len(chunk), !.end = @ + End(chunk[Len(chunk)])]
    BY <1>13, ReadChunk, GetChunk
  <2>2. /\ AddChunk(chunk, holder) \in Seq(CellType) /\ End(chunk[Len(chunk)]) \in Nat
    BY <1>13, <2>1, ExtendFacts DEF ExtendRead, ExtendGet
  <2>3. holder' \in Seq(CellType) /\ buf_end' \in 0..NumBins
    BY <2>1, <2>2, MapFacts, SMTT(30)
  <2>4. loc' \in [start : Nat, end : Nat, end_buf : Nat, n_last : Nat]
    <3>1. loc \in [start : Nat, end : Nat, end_buf : Nat, n_last : Nat]
      BY <1>1 DEF TypeOK
    <3>2. loc.start + Len(chunk) \in Nat /\ loc.end + End(chunk[Len(chunk)]) \in Nat
      <4>1. loc.start \in Nat /\ loc.end \in Nat /\ Len(chunk) \in Nat
        BY <2>1, <3>1
      <4> QED
        BY <2>2, <4>1
    <3>3. loc' = [loc EXCEPT !.start = @ + Len(chunk), !.end = @ + End(chunk[Len(chunk)])]
      BY <2>1
    <3> QED
      BY <3>1, <3>2, <3>3
  <2>5. CASE ExtendRead
    <3>1. eop' \in BOOLEAN
      BY <2>5 DEF ExtendRead, ReadsToEnd
    <3> QED
      BY <1>1, <2>3, <2>4, <2>5, <3>1 DEF ExtendRead, TypeOK, capVars, callVars, threadVars
  <2>6. CASE ExtendGet
    <3>1. Zeros(BufSize) \in Seq(CellType)
      BY MapFacts, ZerosFacts
    <3>2. /\ thread_nbin_buffer' \in Seq(CellType) /\ Len(thread_nbin_buffer') = BufSize
          /\ n_first_rbuf_bin' = rbuf_nbin_end /\ nbins_read' \in BOOLEAN
          /\ tpc' = Woken
          /\ UNCHANGED <<read_job_completed, thread_read_to_end, rbuf_nbin_end, rbuf_end>>
      BY <2>6, <3>1, TakeFacts DEF ExtendGet
    <3>3. tpc' \in {"loop", "test", "block", "asleep", "relock", "reading", "ended"}
      BY <1>1, <3>2 DEF Woken, TypeOK
    <3>4. eop' \in BOOLEAN
      BY <1>1, <2>6 DEF ExtendGet, TypeOK
    <3> QED
      BY <1>1, <2>3, <2>4, <2>6, <3>2, <3>3, <3>4 DEF ExtendGet, TypeOK, capVars, callVars
  <2> QED
    BY <1>13, <2>5, <2>6
<1>14. CASE Flatten
  <2>1. /\ nbin_buffer' \in Seq(CellType) /\ prebuf_pix_num' \in Nat
        /\ num_first_buf_bin' = call.bin /\ num_last_buf_bin' = loc.start
        /\ buf_end' = loc.start - call.bin
        /\ call.bin \in Bins /\ loc.start \in 0..NumBins /\ loc.start >= call.bin + 2
        /\ numPixInMap' \in Nat \cup {Unknown}
        /\ cpc' = "lookup" /\ loc' = NoLoc /\ holder' = << >> /\ ~eop'
    BY <1>14, FlattenFacts
  <2>2. call.bin \in 0..NumBins /\ loc.start - call.bin \in 0..NumBins
    <3>1. NumBins \in Nat
      BY MapFacts
    <3> QED
      BY <2>1, <3>1 DEF Bins
  <2>3. eop' \in BOOLEAN /\ map_capacity_isknown' \in BOOLEAN
    BY <1>1, <1>14 DEF Flatten, TypeOK, capVars
  <2>4. loc' \in [start : Nat, end : Nat, end_buf : Nat, n_last : Nat] /\ holder' \in Seq(CellType)
    BY <2>1 DEF NoLoc
  <2>5. UNCHANGED <<callVars, ans, tpc, threadVars>>
    BY <1>14 DEF Flatten
  <2> QED
    BY <1>1, <2>1, <2>2, <2>3, <2>4, <2>5 DEF TypeOK, callVars, threadVars
<1>15. CASE Return
  <2>1. /\ call' \in [op : {"none", "npix", "expand"}, bin : Bins, fit : Nat]
        /\ ans' \in [num : Nat, start : Nat, eop : BOOLEAN]
    <3>1. 0 \in Bins
      BY MapFacts DEF Bins
    <3> QED
      BY <1>15, <3>1 DEF Return, NoCall, NoAns
  <2> QED
    BY <1>1, <1>15, <2>1 DEF Return, TypeOK, windowVars, capVars, threadVars
<1>16. CASE FinishSet \/ FinishJoin
  BY <1>1, <1>16 DEF FinishSet, FinishJoin, TypeOK, windowVars, capVars, callVars, threadVars
<1>17. CASE FinishNotify
  BY <1>1, <1>17 DEF FinishNotify, Woken, TypeOK, windowVars, capVars, callVars, threadVars
<1>18. CASE JobRead
  <2>1. /\ NumBins \in Nat /\ BufSize \in Nat /\ BufSize >= 1
        /\ thread_nbin_buffer \in Seq(CellType) /\ Len(thread_nbin_buffer) = BufSize
        /\ n_first_rbuf_bin \in 0..NumBins /\ start \in Files
    BY MapFacts
  <2>2. /\ thread_nbin_buffer' \in Seq(CellType) /\ Len(thread_nbin_buffer') = BufSize
        /\ rbuf_nbin_end' \in 0..NumBins /\ rbuf_end' \in 0..BufSize
        /\ thread_read_to_end' \in BOOLEAN
    <3>1. CASE read_job_completed
      BY <1>1, <1>18, <3>1 DEF JobRead, TypeOK
    <3>2. CASE ~read_job_completed /\ n_first_rbuf_bin < NumBins
      <4> DEFINE n == ReadCount(n_first_rbuf_bin, BufSize)
      <4>1. n_first_rbuf_bin \in Bins
        BY <2>1, <3>2 DEF Bins
      <4>2. /\ n \in 1..BufSize /\ n_first_rbuf_bin + n <= NumBins
            /\ ReadBins(n_first_rbuf_bin, thread_nbin_buffer) \in Seq(CellType)
            /\ Len(ReadBins(n_first_rbuf_bin, thread_nbin_buffer)) = BufSize
        BY <2>1, <4>1, ReadBinsFacts
      <4>3. /\ thread_nbin_buffer' = ReadBins(n_first_rbuf_bin, thread_nbin_buffer)
            /\ rbuf_nbin_end' = n_first_rbuf_bin + n /\ rbuf_end' = n
            /\ thread_read_to_end' \in BOOLEAN
        <5>1. ReadsToEnd(n_first_rbuf_bin, BufSize) \in BOOLEAN
          BY DEF ReadsToEnd
        <5>2. /\ thread_nbin_buffer' = ReadBins(n_first_rbuf_bin, thread_nbin_buffer)
              /\ rbuf_nbin_end' = n_first_rbuf_bin + n /\ rbuf_end' = n
              /\ thread_read_to_end' = ReadsToEnd(n_first_rbuf_bin, BufSize)
          BY <1>18, <2>1, <3>2 DEF JobRead
        <5> QED
          BY <5>1, <5>2
      <4> HIDE DEF n
      <4> QED
        BY <2>1, <4>2, <4>3
    <3>3. CASE ~read_job_completed /\ n_first_rbuf_bin >= NumBins
      <4>1. [num |-> 0, pos |-> 0] \in CellType
        BY DEF CellType
      <4>2. /\ thread_nbin_buffer' = [thread_nbin_buffer EXCEPT ![1] = [num |-> 0, pos |-> 0]]
            /\ rbuf_nbin_end' = NumBins /\ rbuf_end' = 0
            /\ thread_read_to_end' = thread_read_to_end
        BY <1>18, <2>1, <3>3 DEF JobRead
      <4>3. thread_nbin_buffer' \in Seq(CellType) /\ Len(thread_nbin_buffer') = BufSize
        BY <2>1, <4>1, <4>2
      <4> QED
        BY <1>1, <2>1, <4>2, <4>3 DEF TypeOK
    <3> QED
      BY <2>1, <3>1, <3>2, <3>3
  <2>3. /\ tpc' \in {"ended", "loop"} /\ nbins_read' = TRUE
        /\ UNCHANGED <<callerVars, read_job_completed, n_first_rbuf_bin>>
    BY <1>18 DEF JobRead
  <2> QED
    BY <1>1, <2>2, <2>3 DEF TypeOK, callerVars, windowVars, capVars, callVars
<1>19. CASE JobLoop \/ JobTest \/ JobBlock \/ JobRelock \/ JobSpurious
  <2>1. /\ tpc' \in {"loop", "test", "block", "asleep", "relock", "reading", "ended"}
        /\ UNCHANGED <<callerVars, threadVars>>
    BY <1>19 DEF JobLoop, JobTest, JobBlock, JobRelock, JobSpurious
  <2> QED
    BY <1>1, <2>1 DEF TypeOK, callerVars, windowVars, capVars, callVars, threadVars
<1>20. CASE UNCHANGED vars
  BY <1>1, <1>20 DEF TypeOK, vars, windowVars, capVars, callVars, threadVars
<1> QED
  BY <1>2, <1>3, <1>4, <1>5, <1>6, <1>7, <1>8, <1>9, <1>10, <1>11, <1>12, <1>13, <1>14, <1>15,
     <1>16, <1>17, <1>18, <1>19, <1>20 DEF Next, Methods, Job, Finished

(***************************************************************************)
(* Theorems.                                                               *)
(***************************************************************************)
\* The parts of the invariant keep each other true in every step of the caller
\* and of the read thread.
THEOREM Invariant == Spec => []IInv
<1>1. IInv /\ [Next]_vars => IInv'
  BY TypeStep, CallStep, WindowStep, FilledStep, PlainStep, ThreadStep, AheadStep, ExtendStep,
     AnswerStep DEF IInv
<1> QED
  BY InitInv, <1>1, PTL DEF Spec

\* Every variable keeps its type: windows lie in the file, and the two vectors
\* hold cells of the map.
THEOREM TypeCorrect == Spec => []TypeOK
<1>1. IInv => TypeOK
  BY DEF IInv
<1> QED
  BY Invariant, <1>1, PTL

\* get_npix_for_bin and check_expand_pix_map answer as the file's map says,
\* whatever windows were loaded before and whatever the read thread does.
THEOREM AnswersCorrect == Spec => []AnswersRight
<1>1. IInv => AnswersRight
  BY DEF IInv
<1> QED
  BY Invariant, <1>1, PTL

\* Between calls the window in memory is the file's map at its place, and what
\* the thread has read ahead is the map from there on.
THEOREM WindowsCorrect == Spec => []WindowsMatchFile
<1>1. IInv => WindowMatchesFile
  <2> SUFFICES ASSUME IInv, cpc \in {"idle", "return"} PROVE WindowMatchesFile
    BY DEF WindowMatchesFile
  <2>1. ~Updating /\ cpc # "extend"
    BY DEF Updating
  <2>2. /\ buf_end = num_last_buf_bin - num_first_buf_bin
        /\ prebuf_pix_num = start[num_first_buf_bin]
    BY <2>1 DEF IInv, FilledInv, WindowInv, WFirst, WLast
  <2>3. \A b \in num_first_buf_bin..(num_last_buf_bin - 1) :
          nbin_buffer[Loc(b)] = [num |-> NpixOf(start, b), pos |-> start[b] - prebuf_pix_num]
    <3> TAKE b \in num_first_buf_bin..(num_last_buf_bin - 1)
    <3>1. b \in Int /\ InWindow(b, num_first_buf_bin, num_last_buf_bin)
      BY MapFacts DEF InWindow
    <3>2. /\ nbin_buffer[Loc(b)] \in CellType
          /\ nbin_buffer[Loc(b)].num = NpixOf(start, b)
          /\ nbin_buffer[Loc(b)].pos = PixIn(start, num_first_buf_bin, b)
      BY <2>1, <3>1, WindowCell
    <3> QED
      BY <2>2, <3>2 DEF PixIn, CellType
  <2> QED
    BY <2>2, <2>3 DEF WindowMatchesFile
<1>2. IInv => ReadAheadContiguous
  <2> SUFFICES ASSUME IInv, mode.threads, cpc \in {"idle", "return"} PROVE ReadAheadContiguous
    BY DEF ReadAheadContiguous
  <2>1. n_first_rbuf_bin = num_last_buf_bin /\ ~read_job_completed
    BY DEF IInv, AheadInv, Follows, CallInv, Ending
  <2>2. ASSUME nbins_read
        PROVE  /\ rbuf_nbin_end = n_first_rbuf_bin + rbuf_end
               /\ thread_read_to_end \/ rbuf_nbin_end < NumBins
               /\ \A i \in 1..rbuf_end :
                    thread_nbin_buffer[i].num = NpixOf(start, n_first_rbuf_bin + i - 1)
    <3>1. /\ rbuf_nbin_end = n_first_rbuf_bin + rbuf_end
          /\ Describes(start, thread_nbin_buffer, rbuf_end, n_first_rbuf_bin)
          /\ thread_read_to_end <=> rbuf_nbin_end = NumBins
      BY <2>1, <2>2 DEF IInv, ThreadInv
    <3>2. rbuf_nbin_end \in 0..NumBins /\ NumBins \in Nat
      BY MapFacts
    <3>3. thread_read_to_end \/ rbuf_nbin_end < NumBins
      BY <3>1, <3>2
    <3>4. ASSUME NEW i \in 1..rbuf_end
          PROVE  thread_nbin_buffer[i].num = NpixOf(start, n_first_rbuf_bin + i - 1)
      <4>1. thread_nbin_buffer[i] = [num |-> NpixOf(start, n_first_rbuf_bin + i - 1),
                                     pos |-> PixIn(start, n_first_rbuf_bin,
                                                   n_first_rbuf_bin + i - 1)]
        BY <3>1 DEF Describes
      <4> QED
        BY <4>1
    <3> QED
      BY <3>1, <3>3, <3>4
  <2> QED
    BY <2>1, <2>2 DEF ReadAheadContiguous
<1> QED
  BY Invariant, <1>1, <1>2, PTL DEF WindowsMatchFile
=============================================================================
