------------------------------ MODULE CombineJob ------------------------------
(***************************************************************************)
(* combine_sqw_pix_job: tmp files combined in Matlab.  Readers take their  *)
(* files a section of bins and a buffer of pixels at a time.  A parallel   *)
(* job (combine_mode 1) sends each buffer to the writer, which keeps the   *)
(* bins not every reader has delivered in its pix_cache; in a serial job   *)
(* the one reader writes its buffers itself.                               *)
(*                                                                         *)
(* Bins are counted from 1.  Pixel <<r, i, k>> is pixel k of file i of     *)
(* reader r.  A MATLAB index error ends the job with an error.             *)
(***************************************************************************)
EXTENDS FiniteSets, SequencesExt, Sums

CONSTANTS
  NumBins,     \* bins of each file
  Inputs       \* [serial, buf, npix]: npix[r][i][b] pixels of bin b in file i of reader r

Input == [serial : BOOLEAN, buf : Nat \ {0}, npix : Seq(Seq(Seq(Nat)))]

ASSUME JobAssumption ==
  /\ NumBins \in Nat \ {0} /\ Inputs \subseteq Input
  /\ \A in \in Inputs : \A r \in DOMAIN in.npix :
       /\ Len(in.npix[r]) \in 1..in.buf
       /\ in.serial => Len(in.npix) = 1
       /\ \A i \in DOMAIN in.npix[r] : Len(in.npix[r][i]) = NumBins

VARIABLES
  input,
  \* of each reader: the section read so far, what is left of it
  ibin_end, nbins_start, npix_per_bins, npix_in_bins, npix_processed, n_pix_2process,
  pos_pixstart,             \* pixels taken from each file
  mess,                     \* messages to the writer, by reader
  \* the writer's pix_cache: by reader, but for the first bin
  bin_range_, bin_edges_, read_pix_cache_, last_bin_completed_, first_bin_to_process_,
  file,                     \* pixels written
  result                    \* "running", "done" or "error"

sectionVars == <<ibin_end, nbins_start, npix_per_bins, npix_in_bins, npix_processed,
                 n_pix_2process>>
cacheVars == <<bin_range_, bin_edges_, read_pix_cache_, last_bin_completed_,
               first_bin_to_process_>>
vars == <<input, sectionVars, pos_pixstart, mess, cacheVars, file, result>>

Readers == DOMAIN input.npix
Files(r) == DOMAIN input.npix[r]
Total(s) == SumTo(s, Len(s))
Cumsum(s) == [k \in DOMAIN s |-> SumTo(s, k)]
Fewest(a, b) == IF a < b THEN a ELSE b
From(s, k) == SubSeq(s, k, Len(s))
ByReader(v) == [r \in Readers |-> v]

Init ==
  /\ input \in Inputs
  /\ ibin_end = ByReader(0) /\ nbins_start = ByReader(1)
  /\ npix_per_bins = ByReader(<< >>) /\ npix_in_bins = ByReader(<< >>)
  /\ npix_processed = ByReader(0) /\ n_pix_2process = ByReader(0)
  /\ pos_pixstart = [r \in Readers |-> [i \in Files(r) |-> 0]]
  /\ mess = ByReader(<< >>)
  /\ bin_range_ = ByReader(<<0, 0>>) /\ bin_edges_ = ByReader(<< >>)
  /\ read_pix_cache_ = ByReader(<< >>) /\ last_bin_completed_ = ByReader(TRUE)
  /\ first_bin_to_process_ = 1
  /\ file = << >> /\ result = "running"

(***************************************************************************)
(* nbin_for_pixels: what to read next.  per[b][i] pixels of file i are     *)
(* left in bin b, cum sums them over files and bins.  A step gives the     *)
(* pixels to read, per and cum of what remains, the count of processed     *)
(* pixels and the number of bins read to the end.                          *)
(***************************************************************************)
Step(read, left, sums, processed, bins) ==
  [read |-> read, per |-> left, cum |-> sums, processed |-> processed, bins |-> bins]
Less(cum, n) == [k \in DOMAIN cum |-> cum[k] - n]

Everything(per, cum, processed) ==
  Step(per, << >>, << >>, processed + Last(cum), Len(per))

BinsThatFit(per, cum, processed, buf) ==
  LET n == Min({k \in DOMAIN cum : cum[k] > buf}) - 1
  IN  Step(SubSeq(per, 1, n), From(per, n + 1), Less(From(cum, n + 1), cum[n]),
           processed + cum[n], n)

\* A bin of up to two buffers.  All that was processed is taken off the sums.
WholeBin(per, cum, processed) ==
  Step(<<per[1]>>, Tail(per), Less(Tail(cum), processed + cum[1]), processed + cum[1], 1)

\* Of a larger bin, the files that fit and a part of the first one that does not.
\* The buffer counts as filled when its room is left over.
FilesThatFit(per, buf) == {i \in DOMAIN per[1] : per[1][i] <= buf}
OfThatFit(per, buf) ==
  [i \in DOMAIN per[1] |-> IF i \in FilesThatFit(per, buf) THEN per[1][i] ELSE 0]
Room(per, buf) == buf - Total(OfThatFit(per, buf))
ReadOfBin(per, buf) ==
  [i \in DOMAIN per[1] |->
     IF Room(per, buf) > 0 /\ (1..i) \ FilesThatFit(per, buf) = {i} THEN Room(per, buf)
     ELSE OfThatFit(per, buf)[i]]
Processed(per, buf) == buf - Fewest(Room(per, buf), 0)
PartOfBinKept(per, cum, processed, buf) ==     \* mutant: what is read stays to be read
  Step(<<ReadOfBin(per, buf)>>, per, [cum EXCEPT ![1] = @ - Processed(per, buf)],
       processed + Processed(per, buf), 0)
PartOfBin(per, cum, processed, buf) ==
  Step(<<ReadOfBin(per, buf)>>,
       [per EXCEPT ![1] = [i \in DOMAIN @ |-> @[i] - ReadOfBin(per, buf)[i]]],
       [cum EXCEPT ![1] = @ - Processed(per, buf)], processed + Processed(per, buf), 0)

NbinForPixels(per, cum, processed, buf) ==
  CASE Last(cum) <= buf /\ cum[1] <= buf -> Everything(per, cum, processed)
    [] Last(cum) > buf /\ cum[1] <= buf -> BinsThatFit(per, cum, processed, buf)
    [] cum[1] > buf /\ cum[1] <= 2 * buf -> WholeBin(per, cum, processed)
    [] OTHER -> PartOfBin(per, cum, processed, buf)

(***************************************************************************)
(* read_pix_for_nbins_block: the pixels of a step, bin by bin and in each  *)
(* bin file by file.                                                       *)
(***************************************************************************)
FromFile(read, i, n) == SumTo([b \in DOMAIN read |-> read[b][i]], n)
TakenFrom(r, i, read, b) ==
  [k \in 1..read[b][i] |-> <<r, i, pos_pixstart[r][i] + FromFile(read, i, b - 1) + k>>]
PixelsByFile(r, read) ==                  \* mutant: the files one after the other
  FlattenSeq([i \in Files(r) |->
    FlattenSeq([b \in DOMAIN read |-> TakenFrom(r, i, read, b)])])
PixelsOf(r, read) ==
  FlattenSeq([b \in DOMAIN read |->
    FlattenSeq([i \in Files(r) |-> TakenFrom(r, i, read, b)])])
BinTotals(read) == [b \in DOMAIN read |-> Total(read[b])]
EdgesOf(read) == <<1>> \o [b \in DOMAIN read |-> 1 + Cumsum(BinTotals(read))[b]]

(***************************************************************************)
(* A reader.                                                               *)
(***************************************************************************)
Message(range, pix, edges, completed) ==
  [bin_range |-> range, pix_data |-> pix, bin_edges |-> edges,
   last_bin_completed |-> completed]

Fail == result' = "error"
            /\ UNCHANGED <<input, sectionVars, pos_pixstart, mess, cacheVars, file>>

\* get_npix_section, and an empty message for a section without pixels.
ReadSection(r) ==
  LET start == ibin_end[r] + 1
      end == ibin_end[r] + Fewest(input.buf \div Len(input.npix[r]), NumBins - ibin_end[r])
      per == [k \in 1..(end - start + 1) |->
                [i \in Files(r) |-> input.npix[r][i][start + k - 1]]]
      cum == Cumsum(BinTotals(per))
  IN  /\ result = "running" /\ ibin_end[r] < NumBins
      /\ npix_processed[r] >= n_pix_2process[r]
      /\ ibin_end' = [ibin_end EXCEPT ![r] = end]
      /\ nbins_start' = [nbins_start EXCEPT ![r] = start]
      /\ npix_per_bins' = [npix_per_bins EXCEPT ![r] = per]
      /\ npix_in_bins' = [npix_in_bins EXCEPT ![r] = cum]
      /\ npix_processed' = [npix_processed EXCEPT ![r] = 0]
      /\ n_pix_2process' = [n_pix_2process EXCEPT ![r] = Last(cum)]
      /\ IF Last(cum) = 0 /\ ~input.serial
         THEN mess' = [mess EXCEPT ![r] =
                         Append(@, Message(<<start, end>>, << >>, << >>, TRUE))]
         ELSE UNCHANGED mess
      /\ UNCHANGED <<input, pos_pixstart, cacheVars, file, result>>

\* A single file from which nothing is read leaves pix_buf undefined, which a
\* message needs.
CannotRead(r, step) ==
  ~input.serial /\ Len(input.npix[r]) = 1 /\ FromFile(step.read, 1, Len(step.read)) = 0

\* One pass of the inner loop.
ReadBlock(r) ==
  LET step == NbinForPixels(npix_per_bins[r], npix_in_bins[r], npix_processed[r], input.buf)
      pix == PixelsOf(r, step.read)
      last == IF step.bins = 0 THEN nbins_start[r] ELSE nbins_start[r] + step.bins - 1
      m == Message(<<nbins_start[r], last>>, pix, EdgesOf(step.read), step.bins > 0)
  IN  /\ result = "running" /\ npix_processed[r] < n_pix_2process[r]
      /\ IF npix_in_bins[r] = << >> \/ CannotRead(r, step) THEN Fail
         ELSE /\ npix_per_bins' = [npix_per_bins EXCEPT ![r] = step.per]
              /\ npix_in_bins' = [npix_in_bins EXCEPT ![r] = step.cum]
              /\ npix_processed' = [npix_processed EXCEPT ![r] = step.processed]
              /\ pos_pixstart' = [pos_pixstart EXCEPT ![r] =
                   [i \in Files(r) |-> @[i] + FromFile(step.read, i, Len(step.read))]]
              /\ nbins_start' = [nbins_start EXCEPT ![r] = last + 1]
              /\ IF input.serial THEN file' = file \o pix /\ UNCHANGED mess
                 ELSE mess' = [mess EXCEPT ![r] = Append(@, m)] /\ UNCHANGED file
              /\ UNCHANGED <<input, ibin_end, n_pix_2process, cacheVars, result>>

ReaderDone(r) == ibin_end[r] = NumBins /\ npix_processed[r] >= n_pix_2process[r]

(***************************************************************************)
(* The writer: a message of each reader that has more to send is pushed    *)
(* into the cache, and the bins all readers have delivered are popped.     *)
(***************************************************************************)
Cached(r) == [range |-> bin_range_[r], edges |-> bin_edges_[r], pix |-> read_pix_cache_[r],
              completed |-> last_bin_completed_[r]]

\* push_messages.  A part of the bin the cache ends with is joined to it.
Pushed(c, m) ==
  LET end == Last(c.edges)
      more == IF c.range[2] = m.bin_range[1] THEN Tail(m.bin_edges) ELSE m.bin_edges
  IN  CASE m.pix_data = << >> ->
             [c EXCEPT !.range = <<first_bin_to_process_, m.bin_range[2]>>]
        [] m.pix_data # << >> /\ c.pix = << >> ->
             [range |-> m.bin_range, edges |-> m.bin_edges, pix |-> m.pix_data,
              completed |-> m.last_bin_completed]
        [] OTHER ->
             [range |-> <<c.range[1], m.bin_range[2]>>, completed |-> m.last_bin_completed,
              pix |-> c.pix \o m.pix_data,
              edges |-> Front(c.edges) \o [k \in DOMAIN more |-> more[k] + end - 1]]

\* Its check of the edges, when pixels are added to others.
Consistent(c, m, p) ==
  c.pix # << >> /\ m.pix_data # << >> => Len(p.edges) - 1 = p.range[2] - p.range[1] + 1

\* pop_pixels for a source: the bins up to last leave the cache.  A source that
\* is popped to its end waits for the bin it ended in, or for the next one.
Taken(c, last) == IF last < c.range[1] THEN 0 ELSE last - c.range[1] + 1
BinOfCache(c, b) ==
  LET k == b - c.range[1] + 1
  IN  IF c.edges = << >> \/ k \notin 1..Taken(c, b) THEN << >>
      ELSE SubSeq(c.pix, c.edges[k], c.edges[k + 1] - 1)

Kept(c, last, n) ==
  [c EXCEPT !.range[1] = last + 1, !.pix = From(@, c.edges[n + 1]),
            !.edges = Less(From(@, n + 1), c.edges[n + 1] - 1)]
PoppedAsReceived(c, last, n) ==           \* mutant: the next bin counts as received
  LET next == IF c.completed THEN c.range[2] + 1 ELSE c.range[2]
  IN  IF last < c.range[2] THEN Kept(c, last, n)
      ELSE [range |-> <<next, next>>, edges |-> << >>, pix |-> << >>,
            completed |-> c.completed]
Popped(c, last, n) ==
  LET next == IF c.completed THEN c.range[2] + 1 ELSE c.range[2]
  IN  IF last < c.range[2] THEN Kept(c, last, n)
      ELSE [range |-> <<next, next>>, edges |-> << >>, pix |-> << >>,
            completed |-> c.completed /\ next > NumBins]

\* data_surces_remain.
Providers == {r \in Readers : bin_range_[r][2] < NumBins \/ ~last_bin_completed_[r]}
InCache == \E r \in Readers : read_pix_cache_[r] # << >>

ReceiveAndWrite ==
  LET pushed == [r \in Readers |-> IF r \in Providers THEN Pushed(Cached(r), Head(mess[r]))
                                   ELSE Cached(r)]
      first == Min({pushed[r].range[1] : r \in Readers})
      last == Min({pushed[r].range[2] : r \in Readers})
      n == [r \in Readers |-> Taken(pushed[r], last)]
      pops == {r \in Readers : pushed[r].edges # << >> /\ n[r] > 0}
      next(k) == Min({last + 1} \cup {Popped(pushed[r], last, n[r]).range[1] :
                                        r \in {q \in pops : q < k}})
      popped == [r \in Readers |->
                   CASE pushed[r].edges = << >> ->
                          [pushed[r] EXCEPT !.range = <<next(r), next(r)>>]
                     [] r \in pops -> Popped(pushed[r], last, n[r])
                     [] OTHER -> pushed[r]]
  IN  /\ result = "running" /\ ~input.serial
      /\ Providers # {} \/ InCache
      /\ \A r \in Providers : mess[r] # << >>
      /\ IF \/ \E r \in Providers : ~Consistent(Cached(r), Head(mess[r]), pushed[r])
            \/ \E r \in pops : Len(pushed[r].edges) < n[r] + 1
         THEN Fail
         ELSE /\ mess' = [r \in Readers |-> IF r \in Providers THEN Tail(mess[r]) ELSE mess[r]]
              /\ file' = file \o FlattenSeq([b \in 1..Taken([range |-> <<first>>], last) |->
                           FlattenSeq([r \in Readers |->
                             BinOfCache(pushed[r], first + b - 1)])])
              /\ bin_range_' = [r \in Readers |-> popped[r].range]
              /\ bin_edges_' = [r \in Readers |-> popped[r].edges]
              /\ read_pix_cache_' = [r \in Readers |-> popped[r].pix]
              /\ last_bin_completed_' = [r \in Readers |-> popped[r].completed]
              /\ first_bin_to_process_' = next(Len(input.npix) + 1)
              /\ UNCHANGED <<input, sectionVars, pos_pixstart, result>>

\* The workers' counts npix_tot: each pixel taken from a file was sent.
PixelsTaken == UNION {UNION {{<<r, i, k>> : k \in 1..pos_pixstart[r][i]} : i \in Files(r)} :
                        r \in Readers}
NumberSent == Cardinality(PixelsTaken)

\* The job ends when every worker has; put_sqw_data_pix_from_file warns when the
\* pixels sent are not as many as those written.
FinishUnchecked ==                        \* mutant: the outputs are not compared
  /\ result = "running" /\ \A r \in Readers : ReaderDone(r)
  /\ input.serial \/ (Providers = {} /\ ~InCache)
  /\ result' = "done"
  /\ UNCHANGED <<input, sectionVars, pos_pixstart, mess, cacheVars, file>>
Finish ==
  /\ result = "running" /\ \A r \in Readers : ReaderDone(r)
  /\ input.serial \/ (Providers = {} /\ ~InCache)
  /\ result' = IF ~input.serial /\ NumberSent # Len(file) THEN "warned" ELSE "done"
  /\ UNCHANGED <<input, sectionVars, pos_pixstart, mess, cacheVars, file>>

Next ==
  \/ \E r \in Readers : ReadSection(r) \/ ReadBlock(r)
  \/ ReceiveAndWrite
  \/ Finish

Spec == Init /\ [][Next]_vars /\ WF_vars(Next)

(***************************************************************************)
(* Properties.                                                             *)
(***************************************************************************)
NumPixels(r, i) == Total(input.npix[r][i])
AllPixels == UNION {UNION {{<<r, i, k>> : k \in 1..NumPixels(r, i)} : i \in Files(r)} :
                      r \in Readers}
BinOf(p) == Min({b \in 1..NumBins : SumTo(input.npix[p[1]][p[2]], b) >= p[3]})
BinSize(r, b) == Total([i \in Files(r) |-> input.npix[r][i][b]])

\* No bin of a reader is larger than its buffer.
BinsFit == \A r \in Readers, b \in 1..NumBins : BinSize(r, b) <= input.buf

\* None is larger than two buffers, or there are no more than two files.  With
\* more, PartOfBin counts pixels as processed that it has not read.
PartsCounted ==
  \A r \in Readers : \/ Len(input.npix[r]) <= 2
                     \/ \A b \in 1..NumBins : BinSize(r, b) <= 2 * input.buf

\* No section of a reader is without pixels.
SectionSize(r) == input.buf \div Len(input.npix[r])
SectionsFilled ==
  \A r \in Readers, k \in 0..(NumBins - 1) :
    LET start == k * SectionSize(r) + 1
    IN  start <= NumBins =>
          \E b \in start..Fewest(start + SectionSize(r) - 1, NumBins) : BinSize(r, b) > 0

\* What is kept has its type, and a reader never reads beyond the pixels of a
\* file: the error of read_pixels for pixels that are not there is out of reach.
TypeOK ==
  /\ input \in Input /\ result \in {"running", "done", "warned", "error"}
  /\ \A r \in Readers :
       /\ ibin_end[r] \in 0..NumBins /\ nbins_start[r] \in Nat
       /\ npix_in_bins[r] \in Seq(Int) /\ npix_processed[r] \in Nat
       /\ Len(npix_per_bins[r]) = Len(npix_in_bins[r])
       /\ \A k \in DOMAIN npix_per_bins[r] : npix_per_bins[r][k] \in [Files(r) -> Nat]
       /\ \A i \in Files(r) : pos_pixstart[r][i] \in 0..NumPixels(r, i)
       /\ bin_range_[r] \in Nat \X Nat /\ bin_edges_[r] \in Seq(Nat \ {0})
       /\ Range(read_pix_cache_[r]) \subseteq AllPixels
       /\ last_bin_completed_[r] \in BOOLEAN
  /\ first_bin_to_process_ \in Nat /\ Range(file) \subseteq AllPixels

\* write_npix_to_pix_blocks and receive_data_write_output: a job that ends
\* without an error or a warning has written every pixel of every file, wherever
\* bins are empty, if what is read in parts is counted right; and no pixel is
\* ever written twice, however large the bins are.
NoneLostSilently ==
  /\ IsInjective(file)
  /\ result = "done" /\ PartsCounted => Range(file) = AllPixels

\* pop_pixels releases a bin only when all readers have delivered it, so pixels
\* are written in the order of their bins; in a parallel job this needs bins
\* that fit the buffers and sections that have pixels, in a serial one parts that
\* are counted right.
InBinOrder ==
  (IF input.serial THEN PartsCounted ELSE BinsFit /\ SectionsFilled) =>
    \A j \in 1..(Len(file) - 1) : BinOf(file[j]) <= BinOf(file[j + 1])

\* The loops of the readers and the writer come to an end, with everything
\* written, when bins fit the buffers and no section is empty.  (A writer that
\* is to have more of a reader with an empty last section waits for ever.)
Combines == BinsFit /\ (SectionsFilled \/ input.serial) => <>(result = "done")

\* data_surces_remain: 'return list of data sources, which still have not
\* presented all appropriate pixels to cache'.
SourcesRemain ==
  result = "running" /\ ~input.serial =>
    \A r \in Readers :
      (\E i \in Files(r) : pos_pixstart[r][i] < NumPixels(r, i)) => r \in Providers

=============================================================================
