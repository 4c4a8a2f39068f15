--------------------------- MODULE CombineSqwProofs ---------------------------
(***************************************************************************)
(* Proofs about CombineSqw for every image, buffer size and number of      *)
(* spurious wake-ups, with and without CTRL-C.                             *)
(***************************************************************************)
EXTENDS CombineSqw, TLAPS

(***************************************************************************)
(* The inductive invariant.                                                *)
(***************************************************************************)
\* Who holds which mutex follows from where the threads stand.
LockInv ==
  /\ owner["data_written_lock"] = "reader" <=>
       pc["reader"] \in {"send_test", "send_block", "send_own", "send_swap", "send_ready",
                         "send_allow", "send_unlock", "send_return"}
  /\ owner["data_written_lock"] = "writer" <=>
       pc["writer"] \in {"unlock_reset", "unlock_return"}
  /\ owner["data_ready_lock"] = "reader" <=>
       pc["reader"] \in {"send_allow", "send_unlock", "send_return"}
  /\ owner["data_ready_lock"] = "writer" <=>
       pc["writer"] \in {"wait_test", "wait_block", "wait_own", "wait_return"}
  /\ owner["write_lock"] = "reader" <=>
       pc["reader"] \in {"send_swap", "send_ready", "send_allow", "send_unlock",
                         "allow_set", "allow_return"}
  /\ owner["write_lock"] = "writer" <=>
       pc["writer"] \in {"wait_return", "write_get", "write_pixels", "write_log",
                         "unlock_lock", "unlock_reset", "unlock_return"}

\* The writer owns a chunk and has not yet given it up.
WriterBusy ==
  pc["writer"] \in {"wait_return", "write_get", "write_pixels", "write_log",
                    "unlock_lock", "unlock_reset"}

ReaderDone == pc["reader"] \in {"allow_return", "read_end"}

\* The two predicates hand one chunk at a time from thread to thread.
HandInv ==
  /\ writer_ready => n_read_pixels = 0
  /\ writer_ready /\ ~ReaderDone => ~WriterBusy
  /\ (writer_ready \/ WriterBusy) /\ ~ReaderDone => ~write_allowed
  /\ pc["writer"] = "wait_own" => write_allowed
  /\ pc["reader"] \in {"send_own", "send_swap", "send_ready", "send_allow"} =>
       ~writer_ready /\ ~write_allowed /\ ~WriterBusy
  /\ pc["reader"] \in {"send_own", "send_swap"} => n_read_pixels = 0

\* The first n elements of buf are the pixels that follow the first `before'.
HoldsPixels(buf, n, before) ==
  /\ n <= Len(buf)
  /\ \A i \in 1..n : buf[i] = before + i

Filling == pc["reader"] = "read_fill"
Sending ==
  pc["reader"] \in {"send_lock", "send_test", "send_block", "send_asleep", "send_own", "send_swap"}

\* Which pixels the reader has collected for the chunk it is to send.
ReaderInv ==
  /\ Filling =>
       /\ first_bin = n_bins_processed /\ first_bin < NumBins
       /\ first_bin <= n_bin
       /\ start_bin = IF n_bin = first_bin THEN n_bin ELSE n_bin - 1
       /\ n_buf_pixels = BinStart[n_bin] - BinStart[first_bin]
       /\ Len(read_buf) = buf_size
  /\ Sending =>
       /\ first_bin = n_bins_processed
       /\ first_bin <= start_bin /\ start_bin < NumBins
       /\ n_buf_pixels = BinStart[start_bin + 1] - BinStart[first_bin]
  /\ Filling \/ Sending => HoldsPixels(read_buf, n_buf_pixels, BinStart[first_bin])
  /\ ~Filling /\ ~Sending => start_bin = n_bins_processed
  /\ error_message # "too_small"

ChunkWritten == pc["writer"] \in {"write_log", "unlock_lock", "unlock_reset"}

\* Which pixels the writer has written and which wait in write_buf.
WriterInv ==
  /\ ChunkWritten => last_pix_written = BinStart[n_bins_processed]
  /\ ~ChunkWritten =>
       /\ last_pix_written + n_read_pixels = BinStart[n_bins_processed]
       /\ HoldsPixels(write_buf, n_read_pixels, last_pix_written)
  /\ WriterBusy /\ pc["writer"] \notin {"wait_return", "write_get"} => w_bins = n_bins_processed
  /\ pc["writer"] = "write_pixels" => n_pix_to_write = n_read_pixels
  /\ pc["writer"] # "write_pixels" => last_pix_written = BinStart[w_bins]
  /\ Len(file) = last_pix_written
  /\ \A i \in 1..Len(file) : file[i] = i

\* What the writer's end means, and that it precedes the end of the call.
EndInv ==
  /\ pc["writer"] \in {"write_done", "write_end"} => w_bins = NumBins \/ interrupted
  /\ pc["main"] \in {"join_reader", "main_end"} => pc["writer"] = "write_end"

IInv == TypeOK /\ LockInv /\ HandInv /\ ReaderInv /\ WriterInv /\ EndInv

(***************************************************************************)
(* Facts about the bins and the operators on pixel vectors.                *)
(***************************************************************************)
\* A bin's pixels: their number, and that they lie within the target.
LEMMA CellFacts ==
  ASSUME NEW b \in 0..NumBins, b < NumBins
  PROVE  /\ b + 1 \in 0..NumBins /\ BinStart[b] \in Nat /\ BinStart[b + 1] \in Nat
         /\ CellPix(b) \in Nat
         /\ BinStart[b] + CellPix(b) = BinStart[b + 1]
<1>1. b + 1 \in 0..NumBins
  BY BinsAssumption
<1>2. BinStart[b] \in Nat /\ BinStart[b + 1] \in Nat /\ BinStart[b] <= BinStart[b + 1]
  BY <1>1, BinsAssumption
<1> QED
  BY <1>1, <1>2 DEF CellPix

\* Two bins in order start in order.
LEMMA BinStartMonotone ==
  ASSUME NEW b \in 0..NumBins, NEW c \in 0..NumBins, b <= c
  PROVE  BinStart[b] \in Nat /\ BinStart[c] \in Nat /\ BinStart[b] <= BinStart[c]
BY BinsAssumption

\* vector::resize gives the new length.
LEMMA ResizeFacts ==
  ASSUME NEW buf \in Seq(Nat), NEW n \in Nat
  PROVE  Resize(buf, n) \in Seq(Nat) /\ Len(Resize(buf, n)) = n
<1>1. \A i \in 1..n : (IF i <= Len(buf) THEN buf[i] ELSE Blank) \in Nat
  BY DEF Blank
<1>2. Resize(buf, n) \in [1..n -> Nat]
  BY <1>1 DEF Resize
<1> QED
  BY <1>2

\* Placing a bin keeps the length and extends the pixels held by the bin's.
LEMMA PlaceBinFacts ==
  ASSUME NEW buf \in Seq(Nat), NEW n \in Nat,
         NEW b \in 0..NumBins, b < NumBins,
         NEW f \in 0..NumBins, BinStart[f] + n = BinStart[b],
         HoldsPixels(buf, n, BinStart[f]),
         n + CellPix(b) <= Len(buf)
  PROVE  /\ PlaceBin(buf, n, b) \in Seq(Nat)
         /\ Len(PlaceBin(buf, n, b)) = Len(buf)
         /\ HoldsPixels(PlaceBin(buf, n, b), n + CellPix(b), BinStart[f])
<1> DEFINE new(i) == IF n < i /\ i <= n + CellPix(b) THEN BinStart[b] + (i - n) ELSE buf[i]
<1>1. /\ BinStart[b] \in Nat /\ BinStart[f] \in Nat
      /\ CellPix(b) \in Nat
  BY CellFacts, BinsAssumption
<1>2. \A i \in 1..Len(buf) : new(i) \in Nat
  BY <1>1, SMTT(30)
<1>3. PlaceBin(buf, n, b) = [i \in 1..Len(buf) |-> new(i)]
  BY DEF PlaceBin
<1>4. PlaceBin(buf, n, b) \in Seq(Nat) /\ Len(PlaceBin(buf, n, b)) = Len(buf)
  BY <1>2, <1>3
<1>5. \A i \in 1..(n + CellPix(b)) : PlaceBin(buf, n, b)[i] = BinStart[f] + i
  <2> SUFFICES ASSUME NEW i \in 1..(n + CellPix(b))
               PROVE  PlaceBin(buf, n, b)[i] = BinStart[f] + i
    OBVIOUS
  <2>1. i \in 1..Len(buf) /\ PlaceBin(buf, n, b)[i] = new(i)
    BY <1>1, <1>3
  <2>2. CASE i <= n
    BY <2>1, <2>2, <1>1 DEF HoldsPixels
  <2>3. CASE n < i
    BY <2>1, <2>3, <1>1
  <2> QED
    BY <2>2, <2>3, <1>1
<1> QED
  BY <1>1, <1>4, <1>5 DEF HoldsPixels

\* Nothing is held of an empty buffer.
LEMMA HoldsNothing ==
  ASSUME NEW buf \in Seq(Nat), NEW k
  PROVE  HoldsPixels(buf, 0, k)
BY DEF HoldsPixels

\* Appending a chunk that continues the file continues the numbering.
LEMMA AppendFacts ==
  ASSUME NEW f \in Seq(Nat), NEW buf \in Seq(Nat), NEW n \in Nat,
         \A i \in 1..Len(f) : f[i] = i,
         HoldsPixels(buf, n, Len(f))
  PROVE  /\ f \o SubSeq(buf, 1, n) \in Seq(Nat)
         /\ Len(f \o SubSeq(buf, 1, n)) = Len(f) + n
         /\ \A i \in 1..(Len(f) + n) : (f \o SubSeq(buf, 1, n))[i] = i
<1> DEFINE s == SubSeq(buf, 1, n)
<1>1. n <= Len(buf) /\ \A i \in 1..n : buf[i] = Len(f) + i
  BY DEF HoldsPixels
<1>2. s \in Seq(Nat) /\ Len(s) = n /\ \A i \in 1..n : s[i] = buf[i]
  BY <1>1
<1>3. f \o s \in Seq(Nat) /\ Len(f \o s) = Len(f) + n
  BY <1>2
<1>4. \A i \in 1..(Len(f) + n) : (f \o s)[i] = IF i <= Len(f) THEN f[i] ELSE s[i - Len(f)]
  BY <1>2
<1>5. \A i \in 1..(Len(f) + n) : (f \o s)[i] = i
  BY <1>1, <1>2, <1>4
<1> QED
  BY <1>3, <1>5

LEMMA NumBinsType == NumBins \in Nat
BY BinsAssumption

\* A bin that fits extends the pixels collected for the chunk.
LEMMA AddBinFacts ==
  ASSUME IInv, AddBin
  PROVE  /\ read_buf' \in Seq(Nat) /\ Len(read_buf') = Len(read_buf)
         /\ n_buf_pixels' \in Nat
         /\ n_buf_pixels' = BinStart[n_bin + 1] - BinStart[first_bin]
         /\ HoldsPixels(read_buf', n_buf_pixels', BinStart[first_bin])
<1>1. /\ Filling /\ n_bin \in 0..NumBins /\ n_bin < NumBins /\ first_bin \in 0..NumBins
      /\ first_bin <= n_bin
      /\ read_buf \in Seq(Nat) /\ n_buf_pixels \in Nat /\ Len(read_buf) = buf_size
      /\ n_buf_pixels = BinStart[n_bin] - BinStart[first_bin]
      /\ HoldsPixels(read_buf, n_buf_pixels, BinStart[first_bin])
  BY DEF IInv, TypeOK, ReaderInv, AddBin, Filling
<1>2. /\ BinStart[first_bin] + n_buf_pixels = BinStart[n_bin]
      /\ CellPix(n_bin) \in Nat
      /\ BinStart[n_bin] + CellPix(n_bin) = BinStart[n_bin + 1]
      /\ BinStart[first_bin] \in Nat /\ BinStart[n_bin] \in Nat /\ BinStart[n_bin + 1] \in Nat
  BY <1>1, CellFacts, BinStartMonotone
<1>3. /\ n_buf_pixels + CellPix(n_bin) <= Len(read_buf)
      /\ read_buf' = PlaceBin(read_buf, n_buf_pixels, n_bin)
      /\ n_buf_pixels' = n_buf_pixels + CellPix(n_bin)
  BY <1>1, <1>2 DEF AddBin, Fits
<1>4. /\ read_buf' \in Seq(Nat) /\ Len(read_buf') = Len(read_buf)
      /\ HoldsPixels(read_buf', n_buf_pixels', BinStart[first_bin])
  BY <1>1, <1>2, <1>3, PlaceBinFacts
<1> QED
  BY <1>1, <1>2, <1>3, <1>4, SMTT(30)

\* The oversized bin finds the buffer empty, grows it and fills it.
LEMMA AddOversizedBinFacts ==
  ASSUME IInv, AddOversizedBin
  PROVE  /\ n_buf_pixels = 0 /\ buf_size' \in Nat
         /\ read_buf' \in Seq(Nat) /\ Len(read_buf') = buf_size'
         /\ n_buf_pixels' \in Nat
         /\ n_buf_pixels' = BinStart[n_bin + 1] - BinStart[first_bin]
         /\ HoldsPixels(read_buf', n_buf_pixels', BinStart[first_bin])
<1>1. /\ n_bin \in 0..NumBins /\ n_bin < NumBins /\ first_bin = n_bin
      /\ read_buf \in Seq(Nat) /\ n_buf_pixels = BinStart[n_bin] - BinStart[first_bin]
  BY DEF IInv, TypeOK, ReaderInv, AddOversizedBin, Filling
<1>2. /\ CellPix(n_bin) \in Nat /\ BinStart[n_bin] \in Nat /\ BinStart[n_bin + 1] \in Nat
      /\ BinStart[n_bin] + CellPix(n_bin) = BinStart[n_bin + 1]
      /\ n_buf_pixels = 0
  BY <1>1, CellFacts
<1>3. /\ buf_size' = CellPix(n_bin) /\ n_buf_pixels' = CellPix(n_bin)
      /\ read_buf' = PlaceBin(Resize(read_buf, CellPix(n_bin)), 0, n_bin)
  BY <1>2 DEF AddOversizedBin
<1>4. /\ Resize(read_buf, CellPix(n_bin)) \in Seq(Nat)
      /\ Len(Resize(read_buf, CellPix(n_bin))) = CellPix(n_bin)
  BY <1>1, <1>2, ResizeFacts
<1>5. HoldsPixels(Resize(read_buf, CellPix(n_bin)), 0, BinStart[first_bin])
  BY <1>4, HoldsNothing
<1>6. BinStart[first_bin] + 0 = BinStart[n_bin] /\ 0 + CellPix(n_bin) = CellPix(n_bin)
  BY <1>1, <1>2
<1>7. /\ read_buf' \in Seq(Nat) /\ Len(read_buf') = CellPix(n_bin)
      /\ HoldsPixels(read_buf', 0 + CellPix(n_bin), BinStart[first_bin])
  <2> DEFINE grown == Resize(read_buf, CellPix(n_bin))
  <2>1. /\ grown \in Seq(Nat) /\ Len(grown) = CellPix(n_bin)
        /\ HoldsPixels(grown, 0, BinStart[first_bin])
    BY <1>4, <1>5
  <2> HIDE DEF grown
  <2>2. /\ PlaceBin(grown, 0, n_bin) \in Seq(Nat)
        /\ Len(PlaceBin(grown, 0, n_bin)) = Len(grown)
        /\ HoldsPixels(PlaceBin(grown, 0, n_bin), 0 + CellPix(n_bin), BinStart[first_bin])
    BY <1>1, <1>2, <1>6, <2>1, PlaceBinFacts
  <2> QED
    BY <1>3, <2>1, <2>2 DEF grown
<1> QED
  BY <1>1, <1>2, <1>3, <1>6, <1>7

\* What the writer appends continues the file.
LEMMA WritePixelsFacts ==
  ASSUME IInv, WritePixels
  PROVE  /\ file' \in Seq(Nat) /\ Len(file') = last_pix_written'
         /\ last_pix_written' \in Nat
         /\ last_pix_written' = BinStart[n_bins_processed]
         /\ \A i \in 1..Len(file') : file'[i] = i
<1>1. /\ pc["writer"] = "write_pixels"
      /\ file' = file \o SubSeq(write_buf, 1, n_pix_to_write)
      /\ last_pix_written' = last_pix_written + n_pix_to_write
  BY DEF WritePixels, Goto
<1>2. /\ file \in Seq(Nat) /\ write_buf \in Seq(Nat)
      /\ n_pix_to_write \in Nat /\ n_read_pixels \in Nat /\ last_pix_written \in Nat
      /\ n_pix_to_write = n_read_pixels /\ Len(file) = last_pix_written
      /\ \A i \in 1..Len(file) : file[i] = i
      /\ HoldsPixels(write_buf, n_read_pixels, last_pix_written)
      /\ last_pix_written + n_read_pixels = BinStart[n_bins_processed]
  BY <1>1 DEF IInv, TypeOK, WriterInv, ChunkWritten
<1>3. /\ file' \in Seq(Nat) /\ Len(file') = Len(file) + n_pix_to_write
      /\ \A i \in 1..(Len(file) + n_pix_to_write) : file'[i] = i
  BY <1>1, <1>2, AppendFacts
<1> QED
  BY <1>1, <1>2, <1>3

\* Every step keeps the mutexes with the threads whose place says so.
LEMMA LockStep == IInv /\ [Next]_vars => LockInv'
<1> SUFFICES ASSUME IInv, [Next]_vars PROVE LockInv' OBVIOUS
<1> USE DEF IInv, TypeOK, LockInv, Threads, Mutexes, Nobody
<1>1. CASE StartChunk BY <1>1 DEF StartChunk, Goto
<1>2. CASE StopReading BY <1>2 DEF StopReading, Goto
<1>3. CASE SkipEmptyBin BY <1>3 DEF SkipEmptyBin, bufferVars
<1>4. CASE AddBin BY <1>4 DEF AddBin, Goto, Fits
<1>5. CASE AddOversizedBin BY <1>5 DEF AddOversizedBin, Goto, SetInterrupted, Fits
<1>6. CASE PostponeBin BY <1>6 DEF PostponeBin, Goto, Fits
<1>7. CASE AllBinsRead BY <1>7 DEF AllBinsRead, Goto
<1>8. CASE SendChunk BY <1>8 DEF SendChunk, Goto, SendSwap
<1>9. CASE SendLock /\ UNCHANGED clientVars BY <1>9 DEF SendLock, Goto, Lock
<1>10. CASE SendTest /\ UNCHANGED clientVars BY <1>10 DEF SendTest, Goto
<1>11. CASE SendBlock /\ UNCHANGED clientVars BY <1>11 DEF SendBlock, Goto, Unlock
<1>12. CASE SendOwn /\ UNCHANGED clientVars BY <1>12 DEF SendOwn, Goto, Lock
<1>13. CASE SendReady /\ UNCHANGED clientVars BY <1>13 DEF SendReady, Goto, Lock
<1>14. CASE SendAllow /\ UNCHANGED clientVars BY <1>14 DEF SendAllow, GotoAndNotify
<1>15. CASE SendUnlock /\ UNCHANGED clientVars BY <1>15 DEF SendUnlock, Goto, Unlock
<1>16. CASE SendReturn /\ UNCHANGED clientVars BY <1>16 DEF SendReturn, Goto, Unlock
<1>17. CASE AllowLock /\ UNCHANGED clientVars BY <1>17 DEF AllowLock, Goto, Lock
<1>18. CASE AllowSet /\ UNCHANGED clientVars BY <1>18 DEF AllowSet, GotoAndNotify
<1>19. CASE AllowReturn /\ UNCHANGED clientVars BY <1>19 DEF AllowReturn, Goto, Unlock
<1>20. CASE AwaitChunk BY <1>20 DEF AwaitChunk, Goto
<1>21. CASE StopWriting BY <1>21 DEF StopWriting, Goto
<1>22. CASE GetWriteBuffer BY <1>22 DEF GetWriteBuffer, Goto
<1>23. CASE WritePixels BY <1>23 DEF WritePixels, Goto
<1>24. CASE LogProgress BY <1>24 DEF LogProgress, Goto, CheckLogging
<1>25. CASE WaitLock /\ UNCHANGED clientVars BY <1>25 DEF WaitLock, Goto, Lock
<1>26. CASE WaitTest /\ UNCHANGED clientVars BY <1>26 DEF WaitTest, Goto
<1>27. CASE WaitBlock /\ UNCHANGED clientVars BY <1>27 DEF WaitBlock, Goto, Unlock
<1>28. CASE WaitOwn /\ UNCHANGED clientVars BY <1>28 DEF WaitOwn, Goto, Lock
<1>29. CASE WaitReturn /\ UNCHANGED clientVars BY <1>29 DEF WaitReturn, Goto, Unlock
<1>30. CASE UnlockLock /\ UNCHANGED clientVars BY <1>30 DEF UnlockLock, Goto, Lock
<1>31. CASE UnlockReset /\ UNCHANGED clientVars BY <1>31 DEF UnlockReset, GotoAndNotify
<1>32. CASE UnlockReturn /\ UNCHANGED clientVars BY <1>32 DEF UnlockReturn, Goto, Unlock
<1>33. CASE SetWriteJobCompleted /\ UNCHANGED clientVars BY <1>33 DEF SetWriteJobCompleted, Goto
<1>34. CASE LogLoop BY <1>34 DEF LogLoop, Goto
<1>35. CASE LogWait BY <1>35 DEF LogWait, Goto
<1>36. CASE PollNoInterrupt BY <1>36 DEF PollNoInterrupt, Goto
<1>37. CASE PollInterrupt BY <1>37 DEF PollInterrupt, Goto, SetInterrupted
<1>38. CASE JoinWriter BY <1>38 DEF JoinWriter, Goto
<1>39. CASE JoinReader BY <1>39 DEF JoinReader, Goto
<1>40. CASE SpuriousWake /\ UNCHANGED clientVars BY <1>40 DEF SpuriousWake, Goto
<1>41. CASE UNCHANGED vars BY <1>41 DEF vars, bufferVars
<1> QED
  BY <1>1, <1>2, <1>3, <1>4, <1>5, <1>6, <1>7, <1>8, <1>9, <1>10, <1>11, <1>12, <1>13, <1>14,
      <1>15, <1>16, <1>17, <1>18, <1>19, <1>20, <1>21, <1>22, <1>23, <1>24, <1>25, <1>26, <1>27,
      <1>28, <1>29, <1>30, <1>31, <1>32, <1>33, <1>34, <1>35, <1>36, <1>37, <1>38, <1>39, <1>40,
      <1>41
  DEF Next, Reader, Writer, Main, ReaderMethods, WriterMethods, Finished

\* Every step keeps the hand-over of one chunk at a time.
LEMMA HandStep == IInv /\ [Next]_vars => HandInv'
<1> SUFFICES ASSUME IInv, [Next]_vars PROVE HandInv' OBVIOUS
<1> USE DEF IInv, TypeOK, LockInv, HandInv, WriterBusy, ReaderDone, Threads, Mutexes, Nobody,
    dataVars, swapVars, handVars, flagVars
<1>1. CASE StartChunk BY <1>1 DEF StartChunk, Goto
<1>2. CASE StopReading BY <1>2 DEF StopReading, Goto
<1>3. CASE SkipEmptyBin BY <1>3 DEF SkipEmptyBin, bufferVars
<1>4. CASE AddBin BY <1>4 DEF AddBin, Goto, Fits
<1>5. CASE AddOversizedBin BY <1>5 DEF AddOversizedBin, Goto, SetInterrupted, Fits
<1>6. CASE PostponeBin BY <1>6 DEF PostponeBin, Goto, Fits
<1>7. CASE AllBinsRead BY <1>7 DEF AllBinsRead, Goto
<1>8. CASE SendChunk BY <1>8 DEF SendChunk, Goto, SendSwap
<1>9. CASE SendLock /\ UNCHANGED clientVars BY <1>9 DEF SendLock, Goto, Lock
<1>10. CASE SendTest /\ UNCHANGED clientVars BY <1>10 DEF SendTest, Goto
<1>11. CASE SendBlock /\ UNCHANGED clientVars BY <1>11 DEF SendBlock, Goto, Unlock
<1>12. CASE SendOwn /\ UNCHANGED clientVars BY <1>12 DEF SendOwn, Goto, Lock
<1>13. CASE SendReady /\ UNCHANGED clientVars BY <1>13 DEF SendReady, Goto, Lock
<1>14. CASE SendAllow /\ UNCHANGED clientVars BY <1>14 DEF SendAllow, GotoAndNotify
<1>15. CASE SendUnlock /\ UNCHANGED clientVars BY <1>15 DEF SendUnlock, Goto, Unlock
<1>16. CASE SendReturn /\ UNCHANGED clientVars BY <1>16 DEF SendReturn, Goto, Unlock
<1>17. CASE AllowLock /\ UNCHANGED clientVars BY <1>17 DEF AllowLock, Goto, Lock
<1>18. CASE AllowSet /\ UNCHANGED clientVars BY <1>18 DEF AllowSet, GotoAndNotify
<1>19. CASE AllowReturn /\ UNCHANGED clientVars BY <1>19 DEF AllowReturn, Goto, Unlock
<1>20. CASE AwaitChunk BY <1>20 DEF AwaitChunk, Goto
<1>21. CASE StopWriting BY <1>21 DEF StopWriting, Goto
<1>22. CASE GetWriteBuffer BY <1>22 DEF GetWriteBuffer, Goto
<1>23. CASE WritePixels BY <1>23 DEF WritePixels, Goto
<1>24. CASE LogProgress BY <1>24 DEF LogProgress, Goto, CheckLogging
<1>25. CASE WaitLock /\ UNCHANGED clientVars BY <1>25 DEF WaitLock, Goto, Lock
<1>26. CASE WaitTest /\ UNCHANGED clientVars BY <1>26 DEF WaitTest, Goto
<1>27. CASE WaitBlock /\ UNCHANGED clientVars BY <1>27 DEF WaitBlock, Goto, Unlock
<1>28. CASE WaitOwn /\ UNCHANGED clientVars BY <1>28 DEF WaitOwn, Goto, Lock
<1>29. CASE WaitReturn /\ UNCHANGED clientVars BY <1>29 DEF WaitReturn, Goto, Unlock
<1>30. CASE UnlockLock /\ UNCHANGED clientVars BY <1>30 DEF UnlockLock, Goto, Lock
<1>31. CASE UnlockReset /\ UNCHANGED clientVars BY <1>31 DEF UnlockReset, GotoAndNotify
<1>32. CASE UnlockReturn /\ UNCHANGED clientVars BY <1>32 DEF UnlockReturn, Goto, Unlock
<1>33. CASE SetWriteJobCompleted /\ UNCHANGED clientVars BY <1>33 DEF SetWriteJobCompleted, Goto
<1>34. CASE LogLoop BY <1>34 DEF LogLoop, Goto
<1>35. CASE LogWait BY <1>35 DEF LogWait, Goto
<1>36. CASE PollNoInterrupt BY <1>36 DEF PollNoInterrupt, Goto
<1>37. CASE PollInterrupt BY <1>37 DEF PollInterrupt, Goto, SetInterrupted
<1>38. CASE JoinWriter BY <1>38 DEF JoinWriter, Goto
<1>39. CASE JoinReader BY <1>39 DEF JoinReader, Goto
<1>40. CASE SpuriousWake /\ UNCHANGED clientVars BY <1>40 DEF SpuriousWake, Goto
<1>41. CASE UNCHANGED vars BY <1>41 DEF vars, bufferVars
<1> QED
  BY <1>1, <1>2, <1>3, <1>4, <1>5, <1>6, <1>7, <1>8, <1>9, <1>10, <1>11, <1>12, <1>13, <1>14,
      <1>15, <1>16, <1>17, <1>18, <1>19, <1>20, <1>21, <1>22, <1>23, <1>24, <1>25, <1>26, <1>27,
      <1>28, <1>29, <1>30, <1>31, <1>32, <1>33, <1>34, <1>35, <1>36, <1>37, <1>38, <1>39, <1>40,
      <1>41
  DEF Next, Reader, Writer, Main, ReaderMethods, WriterMethods, Finished

\* Every step keeps the types.
LEMMA TypeStep == IInv /\ [Next]_vars => TypeOK'
<1> SUFFICES ASSUME IInv, [Next]_vars PROVE TypeOK' OBVIOUS
<1> USE DEF IInv, TypeOK, ReaderInv, WriterInv, Filling, Sending, Threads, Mutexes, Nobody,
    Labels, Messages, dataVars, swapVars, readVars, handVars, flagVars, readerVars, writerVars,
    clientVars
<1>1. CASE StartChunk
  BY <1>1, ResizeFacts DEF StartChunk, Goto
<1>2. CASE StopReading BY <1>2 DEF StopReading, Goto
<1>3. CASE SkipEmptyBin
  BY <1>3, NumBinsType DEF SkipEmptyBin, bufferVars
<1>4. CASE AddBin
  BY <1>4, AddBinFacts, NumBinsType DEF AddBin
<1>5. CASE AddOversizedBin
  BY <1>5, AddOversizedBinFacts, NumBinsType DEF AddOversizedBin
<1>6. CASE PostponeBin BY <1>6 DEF PostponeBin, Goto, Fits
<1>7. CASE AllBinsRead BY <1>7 DEF AllBinsRead, Goto
<1>8. CASE SendChunk
  BY <1>8, NumBinsType DEF SendChunk, SendSwap, Goto
<1>9. CASE SendLock /\ UNCHANGED clientVars BY <1>9 DEF SendLock, Goto, Lock
<1>10. CASE SendTest /\ UNCHANGED clientVars BY <1>10 DEF SendTest, Goto
<1>11. CASE SendBlock /\ UNCHANGED clientVars BY <1>11 DEF SendBlock, Goto, Unlock
<1>12. CASE SendOwn /\ UNCHANGED clientVars BY <1>12 DEF SendOwn, Goto, Lock
<1>13. CASE SendReady /\ UNCHANGED clientVars BY <1>13 DEF SendReady, Goto, Lock
<1>14. CASE SendAllow /\ UNCHANGED clientVars BY <1>14 DEF SendAllow, GotoAndNotify
<1>15. CASE SendUnlock /\ UNCHANGED clientVars BY <1>15 DEF SendUnlock, Goto, Unlock
<1>16. CASE SendReturn /\ UNCHANGED clientVars BY <1>16 DEF SendReturn, Goto, Unlock
<1>17. CASE AllowLock /\ UNCHANGED clientVars BY <1>17 DEF AllowLock, Goto, Lock
<1>18. CASE AllowSet /\ UNCHANGED clientVars BY <1>18 DEF AllowSet, GotoAndNotify
<1>19. CASE AllowReturn /\ UNCHANGED clientVars BY <1>19 DEF AllowReturn, Goto, Unlock
<1>20. CASE AwaitChunk BY <1>20 DEF AwaitChunk, Goto
<1>21. CASE StopWriting BY <1>21 DEF StopWriting, Goto
<1>22. CASE GetWriteBuffer BY <1>22 DEF GetWriteBuffer, Goto
<1>23. CASE WritePixels
  BY <1>23, WritePixelsFacts DEF WritePixels, Goto
<1>24. CASE LogProgress BY <1>24 DEF LogProgress, Goto, CheckLogging
<1>25. CASE WaitLock /\ UNCHANGED clientVars BY <1>25 DEF WaitLock, Goto, Lock
<1>26. CASE WaitTest /\ UNCHANGED clientVars BY <1>26 DEF WaitTest, Goto
<1>27. CASE WaitBlock /\ UNCHANGED clientVars BY <1>27 DEF WaitBlock, Goto, Unlock
<1>28. CASE WaitOwn /\ UNCHANGED clientVars BY <1>28 DEF WaitOwn, Goto, Lock
<1>29. CASE WaitReturn /\ UNCHANGED clientVars BY <1>29 DEF WaitReturn, Goto, Unlock
<1>30. CASE UnlockLock /\ UNCHANGED clientVars BY <1>30 DEF UnlockLock, Goto, Lock
<1>31. CASE UnlockReset /\ UNCHANGED clientVars
  BY <1>31, HoldsNothing DEF UnlockReset, GotoAndNotify
<1>32. CASE UnlockReturn /\ UNCHANGED clientVars BY <1>32 DEF UnlockReturn, Goto, Unlock
<1>33. CASE SetWriteJobCompleted /\ UNCHANGED clientVars BY <1>33 DEF SetWriteJobCompleted, Goto
<1>34. CASE LogLoop BY <1>34 DEF LogLoop, Goto
<1>35. CASE LogWait BY <1>35 DEF LogWait, Goto
<1>36. CASE PollNoInterrupt BY <1>36 DEF PollNoInterrupt, Goto
<1>37. CASE PollInterrupt BY <1>37 DEF PollInterrupt, Goto, SetInterrupted
<1>38. CASE JoinWriter BY <1>38 DEF JoinWriter, Goto
<1>39. CASE JoinReader BY <1>39 DEF JoinReader, Goto
<1>40. CASE SpuriousWake /\ UNCHANGED clientVars
  BY <1>40, SpuriousAssumption DEF SpuriousWake, Goto
<1>41. CASE UNCHANGED vars BY <1>41 DEF vars, bufferVars
<1> QED
  BY <1>1, <1>2, <1>3, <1>4, <1>5, <1>6, <1>7, <1>8, <1>9, <1>10, <1>11, <1>12, <1>13, <1>14,
      <1>15, <1>16, <1>17, <1>18, <1>19, <1>20, <1>21, <1>22, <1>23, <1>24, <1>25, <1>26, <1>27,
      <1>28, <1>29, <1>30, <1>31, <1>32, <1>33, <1>34, <1>35, <1>36, <1>37, <1>38, <1>39, <1>40,
      <1>41
  DEF Next, Reader, Writer, Main, ReaderMethods, WriterMethods, Finished

\* Every step keeps what the reader has collected.
LEMMA ReaderStep == IInv /\ [Next]_vars => ReaderInv'
<1> SUFFICES ASSUME IInv, [Next]_vars PROVE ReaderInv' OBVIOUS
<1> USE DEF IInv, TypeOK, LockInv, HandInv, ReaderInv, ReaderDone, WriterBusy, Filling, Sending,
    Threads, dataVars, swapVars, readVars, handVars, flagVars, readerVars, writerVars,
    clientVars
<1>1. CASE StartChunk
  <2>1. /\ Len(read_buf') = buf_size' /\ HoldsPixels(read_buf', 0, BinStart[start_bin])
    BY <1>1, ResizeFacts, HoldsNothing DEF StartChunk, Goto
  <2>2. BinStart[start_bin] \in Nat
    BY BinStartMonotone
  <2> QED
    BY <1>1, <2>1, <2>2 DEF StartChunk, Goto
<1>2. CASE StopReading BY <1>2 DEF StopReading, Goto
<1>3. CASE SkipEmptyBin
  <2>1. BinStart[n_bin + 1] = BinStart[n_bin]
    BY <1>3, CellFacts DEF SkipEmptyBin
  <2> QED
    BY <1>3, <2>1 DEF SkipEmptyBin, bufferVars
<1>4. CASE AddBin
  BY <1>4, AddBinFacts DEF AddBin
<1>5. CASE AddOversizedBin
  <2>1. /\ n_buf_pixels = 0 /\ n_bin = first_bin /\ n_bin < NumBins
        /\ pc["reader"] = "read_fill" /\ n_bin \in Nat
        /\ start_bin' = n_bin /\ n_bin' = n_bin + 1
        /\ UNCHANGED <<pc, first_bin, n_bins_processed, error_message>>
    BY <1>5, AddOversizedBinFacts, NumBinsType DEF AddOversizedBin
  <2> QED
    BY <1>5, <2>1, AddOversizedBinFacts
<1>6. CASE PostponeBin
  <2>1. /\ Filling /\ n_bin > first_bin /\ start_bin' = n_bin - 1
        /\ n_bin \in Nat /\ first_bin \in Nat /\ n_bin < NumBins
        /\ pc' = [pc EXCEPT !["reader"] = "send_lock"]
    BY <1>6, NumBinsType DEF PostponeBin, Goto
  <2>2. start_bin' + 1 = n_bin /\ first_bin <= start_bin' /\ start_bin' < NumBins
    BY <2>1, NumBinsType
  <2>3. UNCHANGED <<dataVars, first_bin, n_bin, n_buf_pixels>>
    BY <1>6 DEF PostponeBin
  <2> QED
    BY <2>1, <2>2, <2>3
<1>7. CASE AllBinsRead BY <1>7 DEF AllBinsRead, Goto
<1>8. CASE SendChunk BY <1>8 DEF SendChunk, Goto, SendSwap
<1>9. CASE SendLock /\ UNCHANGED clientVars BY <1>9 DEF SendLock, Goto, Lock
<1>10. CASE SendTest /\ UNCHANGED clientVars BY <1>10 DEF SendTest, Goto
<1>11. CASE SendBlock /\ UNCHANGED clientVars BY <1>11 DEF SendBlock, Goto, Unlock
<1>12. CASE SendOwn /\ UNCHANGED clientVars BY <1>12 DEF SendOwn, Goto, Lock
<1>13. CASE SendReady /\ UNCHANGED clientVars BY <1>13 DEF SendReady, Goto, Lock
<1>14. CASE SendAllow /\ UNCHANGED clientVars BY <1>14 DEF SendAllow, GotoAndNotify
<1>15. CASE SendUnlock /\ UNCHANGED clientVars BY <1>15 DEF SendUnlock, Goto, Unlock
<1>16. CASE SendReturn /\ UNCHANGED clientVars BY <1>16 DEF SendReturn, Goto, Unlock
<1>17. CASE AllowLock /\ UNCHANGED clientVars BY <1>17 DEF AllowLock, Goto, Lock
<1>18. CASE AllowSet /\ UNCHANGED clientVars BY <1>18 DEF AllowSet, GotoAndNotify
<1>19. CASE AllowReturn /\ UNCHANGED clientVars BY <1>19 DEF AllowReturn, Goto, Unlock
<1>20. CASE AwaitChunk BY <1>20 DEF AwaitChunk, Goto
<1>21. CASE StopWriting BY <1>21 DEF StopWriting, Goto
<1>22. CASE GetWriteBuffer BY <1>22 DEF GetWriteBuffer, Goto
<1>23. CASE WritePixels BY <1>23 DEF WritePixels, Goto
<1>24. CASE LogProgress BY <1>24 DEF LogProgress, Goto, CheckLogging
<1>25. CASE WaitLock /\ UNCHANGED clientVars BY <1>25 DEF WaitLock, Goto, Lock
<1>26. CASE WaitTest /\ UNCHANGED clientVars BY <1>26 DEF WaitTest, Goto
<1>27. CASE WaitBlock /\ UNCHANGED clientVars BY <1>27 DEF WaitBlock, Goto, Unlock
<1>28. CASE WaitOwn /\ UNCHANGED clientVars BY <1>28 DEF WaitOwn, Goto, Lock
<1>29. CASE WaitReturn /\ UNCHANGED clientVars BY <1>29 DEF WaitReturn, Goto, Unlock
<1>30. CASE UnlockLock /\ UNCHANGED clientVars BY <1>30 DEF UnlockLock, Goto, Lock
<1>31. CASE UnlockReset /\ UNCHANGED clientVars BY <1>31 DEF UnlockReset, GotoAndNotify
<1>32. CASE UnlockReturn /\ UNCHANGED clientVars BY <1>32 DEF UnlockReturn, Goto, Unlock
<1>33. CASE SetWriteJobCompleted /\ UNCHANGED clientVars BY <1>33 DEF SetWriteJobCompleted, Goto
<1>34. CASE LogLoop BY <1>34 DEF LogLoop, Goto
<1>35. CASE LogWait BY <1>35 DEF LogWait, Goto
<1>36. CASE PollNoInterrupt BY <1>36 DEF PollNoInterrupt, Goto
<1>37. CASE PollInterrupt BY <1>37 DEF PollInterrupt, Goto, SetInterrupted
<1>38. CASE JoinWriter BY <1>38 DEF JoinWriter, Goto
<1>39. CASE JoinReader BY <1>39 DEF JoinReader, Goto
<1>40. CASE SpuriousWake /\ UNCHANGED clientVars BY <1>40 DEF SpuriousWake, Goto
<1>41. CASE UNCHANGED vars BY <1>41 DEF vars, bufferVars
<1> QED
  BY <1>1, <1>2, <1>3, <1>4, <1>5, <1>6, <1>7, <1>8, <1>9, <1>10, <1>11, <1>12, <1>13, <1>14,
      <1>15, <1>16, <1>17, <1>18, <1>19, <1>20, <1>21, <1>22, <1>23, <1>24, <1>25, <1>26, <1>27,
      <1>28, <1>29, <1>30, <1>31, <1>32, <1>33, <1>34, <1>35, <1>36, <1>37, <1>38, <1>39, <1>40,
      <1>41
  DEF Next, Reader, Writer, Main, ReaderMethods, WriterMethods, Finished

\* Every step keeps what has been written and what waits to be written.
LEMMA WriterStep == IInv /\ [Next]_vars => WriterInv'
<1> SUFFICES ASSUME IInv, [Next]_vars PROVE WriterInv' OBVIOUS
<1> USE DEF IInv, TypeOK, LockInv, HandInv, ReaderInv, WriterInv, ChunkWritten, ReaderDone,
    WriterBusy, Sending, Threads, dataVars, swapVars, readVars, handVars, flagVars, readerVars,
    writerVars, clientVars
<1>1. CASE StartChunk BY <1>1 DEF StartChunk, Goto
<1>2. CASE StopReading BY <1>2 DEF StopReading, Goto
<1>3. CASE SkipEmptyBin BY <1>3 DEF SkipEmptyBin, bufferVars
<1>4. CASE AddBin BY <1>4 DEF AddBin, Goto, Fits
<1>5. CASE AddOversizedBin BY <1>5 DEF AddOversizedBin, Goto, SetInterrupted, Fits
<1>6. CASE PostponeBin BY <1>6 DEF PostponeBin, Goto, Fits
<1>7. CASE AllBinsRead BY <1>7 DEF AllBinsRead, Goto
<1>8. CASE SendChunk
  <2>1. /\ pc["reader"] = "send_swap" /\ ~WriterBusy /\ n_read_pixels = 0
        /\ write_buf' = read_buf /\ n_read_pixels' = n_buf_pixels
        /\ n_bins_processed' = start_bin + 1
        /\ pc' = [pc EXCEPT !["reader"] = "send_ready"]
        /\ UNCHANGED writerVars
    BY <1>8 DEF SendChunk, SendSwap, Goto
  <2>2. BinStart[start_bin + 1] \in Nat /\ BinStart[first_bin] \in Nat
    BY <2>1, CellFacts, BinStartMonotone
  <2>3. last_pix_written = BinStart[first_bin]
    BY <2>1
  <2>4. last_pix_written + n_buf_pixels = BinStart[start_bin + 1]
    BY <2>1, <2>2, <2>3
  <2>5. HoldsPixels(read_buf, n_buf_pixels, last_pix_written)
    BY <2>1, <2>3
  <2> QED
    BY <2>1, <2>4, <2>5
<1>9. CASE SendLock /\ UNCHANGED clientVars BY <1>9 DEF SendLock, Goto, Lock
<1>10. CASE SendTest /\ UNCHANGED clientVars BY <1>10 DEF SendTest, Goto
<1>11. CASE SendBlock /\ UNCHANGED clientVars BY <1>11 DEF SendBlock, Goto, Unlock
<1>12. CASE SendOwn /\ UNCHANGED clientVars BY <1>12 DEF SendOwn, Goto, Lock
<1>13. CASE SendReady /\ UNCHANGED clientVars BY <1>13 DEF SendReady, Goto, Lock
<1>14. CASE SendAllow /\ UNCHANGED clientVars BY <1>14 DEF SendAllow, GotoAndNotify
<1>15. CASE SendUnlock /\ UNCHANGED clientVars BY <1>15 DEF SendUnlock, Goto, Unlock
<1>16. CASE SendReturn /\ UNCHANGED clientVars BY <1>16 DEF SendReturn, Goto, Unlock
<1>17. CASE AllowLock /\ UNCHANGED clientVars BY <1>17 DEF AllowLock, Goto, Lock
<1>18. CASE AllowSet /\ UNCHANGED clientVars BY <1>18 DEF AllowSet, GotoAndNotify
<1>19. CASE AllowReturn /\ UNCHANGED clientVars BY <1>19 DEF AllowReturn, Goto, Unlock
<1>20. CASE AwaitChunk BY <1>20 DEF AwaitChunk, Goto
<1>21. CASE StopWriting BY <1>21 DEF StopWriting, Goto
<1>22. CASE GetWriteBuffer BY <1>22 DEF GetWriteBuffer, Goto
<1>23. CASE WritePixels
  BY <1>23, WritePixelsFacts DEF WritePixels, Goto
<1>24. CASE LogProgress BY <1>24 DEF LogProgress, Goto, CheckLogging
<1>25. CASE WaitLock /\ UNCHANGED clientVars BY <1>25 DEF WaitLock, Goto, Lock
<1>26. CASE WaitTest /\ UNCHANGED clientVars BY <1>26 DEF WaitTest, Goto
<1>27. CASE WaitBlock /\ UNCHANGED clientVars BY <1>27 DEF WaitBlock, Goto, Unlock
<1>28. CASE WaitOwn /\ UNCHANGED clientVars BY <1>28 DEF WaitOwn, Goto, Lock
<1>29. CASE WaitReturn /\ UNCHANGED clientVars BY <1>29 DEF WaitReturn, Goto, Unlock
<1>30. CASE UnlockLock /\ UNCHANGED clientVars BY <1>30 DEF UnlockLock, Goto, Lock
<1>31. CASE UnlockReset /\ UNCHANGED clientVars
  BY <1>31, HoldsNothing DEF UnlockReset, GotoAndNotify
<1>32. CASE UnlockReturn /\ UNCHANGED clientVars BY <1>32 DEF UnlockReturn, Goto, Unlock
<1>33. CASE SetWriteJobCompleted /\ UNCHANGED clientVars BY <1>33 DEF SetWriteJobCompleted, Goto
<1>34. CASE LogLoop BY <1>34 DEF LogLoop, Goto
<1>35. CASE LogWait BY <1>35 DEF LogWait, Goto
<1>36. CASE PollNoInterrupt BY <1>36 DEF PollNoInterrupt, Goto
<1>37. CASE PollInterrupt BY <1>37 DEF PollInterrupt, Goto, SetInterrupted
<1>38. CASE JoinWriter BY <1>38 DEF JoinWriter, Goto
<1>39. CASE JoinReader BY <1>39 DEF JoinReader, Goto
<1>40. CASE SpuriousWake /\ UNCHANGED clientVars BY <1>40 DEF SpuriousWake, Goto
<1>41. CASE UNCHANGED vars BY <1>41 DEF vars, bufferVars
<1> QED
  BY <1>1, <1>2, <1>3, <1>4, <1>5, <1>6, <1>7, <1>8, <1>9, <1>10, <1>11, <1>12, <1>13, <1>14,
      <1>15, <1>16, <1>17, <1>18, <1>19, <1>20, <1>21, <1>22, <1>23, <1>24, <1>25, <1>26, <1>27,
      <1>28, <1>29, <1>30, <1>31, <1>32, <1>33, <1>34, <1>35, <1>36, <1>37, <1>38, <1>39, <1>40,
      <1>41
  DEF Next, Reader, Writer, Main, ReaderMethods, WriterMethods, Finished

\* Every step keeps what the end of the writer means.
LEMMA EndStep == IInv /\ [Next]_vars => EndInv'
<1> SUFFICES ASSUME IInv, [Next]_vars PROVE EndInv' OBVIOUS
<1> USE DEF IInv, TypeOK, EndInv, Threads, dataVars, swapVars, readVars, handVars, flagVars,
    readerVars, writerVars, clientVars
<1>1. CASE StartChunk BY <1>1 DEF StartChunk, Goto
<1>2. CASE StopReading BY <1>2 DEF StopReading, Goto
<1>3. CASE SkipEmptyBin BY <1>3 DEF SkipEmptyBin, bufferVars
<1>4. CASE AddBin BY <1>4 DEF AddBin, Goto, Fits
<1>5. CASE AddOversizedBin
  BY <1>5 DEF AddOversizedBin, SetInterrupted, Goto
<1>6. CASE PostponeBin BY <1>6 DEF PostponeBin, Goto, Fits
<1>7. CASE AllBinsRead BY <1>7 DEF AllBinsRead, Goto
<1>8. CASE SendChunk BY <1>8 DEF SendChunk, Goto, SendSwap
<1>9. CASE SendLock /\ UNCHANGED clientVars BY <1>9 DEF SendLock, Goto, Lock
<1>10. CASE SendTest /\ UNCHANGED clientVars BY <1>10 DEF SendTest, Goto
<1>11. CASE SendBlock /\ UNCHANGED clientVars BY <1>11 DEF SendBlock, Goto, Unlock
<1>12. CASE SendOwn /\ UNCHANGED clientVars BY <1>12 DEF SendOwn, Goto, Lock
<1>13. CASE SendReady /\ UNCHANGED clientVars BY <1>13 DEF SendReady, Goto, Lock
<1>14. CASE SendAllow /\ UNCHANGED clientVars BY <1>14 DEF SendAllow, GotoAndNotify
<1>15. CASE SendUnlock /\ UNCHANGED clientVars BY <1>15 DEF SendUnlock, Goto, Unlock
<1>16. CASE SendReturn /\ UNCHANGED clientVars BY <1>16 DEF SendReturn, Goto, Unlock
<1>17. CASE AllowLock /\ UNCHANGED clientVars BY <1>17 DEF AllowLock, Goto, Lock
<1>18. CASE AllowSet /\ UNCHANGED clientVars BY <1>18 DEF AllowSet, GotoAndNotify
<1>19. CASE AllowReturn /\ UNCHANGED clientVars BY <1>19 DEF AllowReturn, Goto, Unlock
<1>20. CASE AwaitChunk BY <1>20 DEF AwaitChunk, Goto
<1>21. CASE StopWriting
  BY <1>21, NumBinsType DEF StopWriting, Goto
<1>22. CASE GetWriteBuffer BY <1>22 DEF GetWriteBuffer, Goto
<1>23. CASE WritePixels BY <1>23 DEF WritePixels, Goto
<1>24. CASE LogProgress BY <1>24 DEF LogProgress, Goto, CheckLogging
<1>25. CASE WaitLock /\ UNCHANGED clientVars BY <1>25 DEF WaitLock, Goto, Lock
<1>26. CASE WaitTest /\ UNCHANGED clientVars BY <1>26 DEF WaitTest, Goto
<1>27. CASE WaitBlock /\ UNCHANGED clientVars BY <1>27 DEF WaitBlock, Goto, Unlock
<1>28. CASE WaitOwn /\ UNCHANGED clientVars BY <1>28 DEF WaitOwn, Goto, Lock
<1>29. CASE WaitReturn /\ UNCHANGED clientVars BY <1>29 DEF WaitReturn, Goto, Unlock
<1>30. CASE UnlockLock /\ UNCHANGED clientVars BY <1>30 DEF UnlockLock, Goto, Lock
<1>31. CASE UnlockReset /\ UNCHANGED clientVars BY <1>31 DEF UnlockReset, GotoAndNotify
<1>32. CASE UnlockReturn /\ UNCHANGED clientVars BY <1>32 DEF UnlockReturn, Goto, Unlock
<1>33. CASE SetWriteJobCompleted /\ UNCHANGED clientVars BY <1>33 DEF SetWriteJobCompleted, Goto
<1>34. CASE LogLoop BY <1>34 DEF LogLoop, Goto
<1>35. CASE LogWait BY <1>35 DEF LogWait, Goto
<1>36. CASE PollNoInterrupt BY <1>36 DEF PollNoInterrupt, Goto
<1>37. CASE PollInterrupt BY <1>37 DEF PollInterrupt, Goto, SetInterrupted
<1>38. CASE JoinWriter BY <1>38 DEF JoinWriter, Goto
<1>39. CASE JoinReader BY <1>39 DEF JoinReader, Goto
<1>40. CASE SpuriousWake /\ UNCHANGED clientVars BY <1>40 DEF SpuriousWake, Goto
<1>41. CASE UNCHANGED vars BY <1>41 DEF vars, bufferVars
<1> QED
  BY <1>1, <1>2, <1>3, <1>4, <1>5, <1>6, <1>7, <1>8, <1>9, <1>10, <1>11, <1>12, <1>13, <1>14,
      <1>15, <1>16, <1>17, <1>18, <1>19, <1>20, <1>21, <1>22, <1>23, <1>24, <1>25, <1>26, <1>27,
      <1>28, <1>29, <1>30, <1>31, <1>32, <1>33, <1>34, <1>35, <1>36, <1>37, <1>38, <1>39, <1>40,
      <1>41
  DEF Next, Reader, Writer, Main, ReaderMethods, WriterMethods, Finished


LEMMA InitEstablishes == Init => IInv
<1> SUFFICES ASSUME Init PROVE IInv OBVIOUS
<1> USE DEF Init, BufferInit
<1>1. TypeOK
  <2>1. pc \in [Threads -> Labels] /\ owner \in [Mutexes -> Threads \cup {Nobody}]
    BY DEF Threads, Mutexes, Labels
  <2>2. << >> \in Seq(Nat)
    OBVIOUS
  <2>3. 0 \in 0..MaxSpurious /\ 0 \in 0..NumBins
    BY NumBinsType, SpuriousAssumption
  <2> QED
    BY <2>1, <2>2, <2>3, SettingsAssumption DEF TypeOK, Messages
<1>2. LockInv /\ HandInv
  BY DEF LockInv, HandInv, WriterBusy, ReaderDone, Mutexes, Nobody
<1>3. ReaderInv /\ WriterInv /\ EndInv
  BY BinsAssumption DEF ReaderInv, WriterInv, EndInv, Filling, Sending, ChunkWritten, WriterBusy,
     HoldsPixels
<1> QED
  BY <1>1, <1>2, <1>3 DEF IInv

LEMMA StepPreserves == IInv /\ [Next]_vars => IInv'
BY TypeStep, LockStep, HandStep, ReaderStep, WriterStep, EndStep DEF IInv

(***************************************************************************)
(* The theorems.                                                           *)
(***************************************************************************)
\* The invariant holds in every reachable state.
THEOREM Invariance == Spec => []IInv
<1> QED
  BY InitEstablishes, StepPreserves, PTL DEF Spec

\* Every variable keeps its type.
THEOREM TypeCorrect == Spec => []TypeOK
<1>1. IInv => TypeOK
  BY DEF IInv
<1> QED
  BY <1>1, Invariance, PTL

\* Between two chunks the target holds exactly the processed bins' pixels, in
\* order and once, with any interleaving and any interrupt.
THEOREM FileCorrect == Spec => []FileHoldsProcessedBins
<1>1. IInv => FileHoldsProcessedBins
  BY DEF IInv, WriterInv, FileHoldsProcessedBins
<1> QED
  BY <1>1, Invariance, PTL

\* No chunk is overwritten before it has been written.
THEOREM ChunksSafe == Spec => []ChunkNotOverwritten
<1>1. IInv => ChunkNotOverwritten
  BY DEF IInv, HandInv, ChunkNotOverwritten
<1> QED
  BY <1>1, Invariance, PTL

\* The conflicting lock orders of send, wait and unlock never close a cycle.
THEOREM LocksSafe == Spec => []NoDeadlyEmbrace
<1>1. IInv => NoDeadlyEmbrace
  BY DEF IInv, LockInv, HandInv, WriterBusy, NoDeadlyEmbrace
<1> QED
  BY <1>1, Invariance, PTL

\* The pixels collected always fit the vector that holds them, and the branch
\* that refuses a bin as too large is never taken.
THEOREM BufferSufficient == Spec => []BufferSuffices
<1>1. IInv => ReadBufferLargeEnough
  BY DEF IInv, ReaderInv, HoldsPixels, Filling, Sending, ReadBufferLargeEnough
<1>2. IInv => NoBinRefused
  BY DEF IInv, ReaderInv, NoBinRefused
<1>3. IInv => BufferSuffices
  BY <1>1, <1>2 DEF BufferSuffices
<1> QED
  BY <1>3, Invariance, PTL

(***************************************************************************)
(* Refinement: the threads implement CombinedFile.                         *)
(***************************************************************************)
\* Writing a chunk is the abstract arrival of whole bins.
LEMMA WritePixelsRefines ==
  ASSUME IInv, WritePixels
  PROVE  Promise!WriteBins
<1>1. /\ pc["writer"] = "write_pixels" /\ pc' = [pc EXCEPT !["writer"] = "write_log"]
      /\ UNCHANGED interrupted
  BY DEF WritePixels, Goto, dataVars, flagVars
<1>2. Result = "running" /\ Result' = Result
  BY <1>1 DEF IInv, TypeOK, EndInv, Threads, Result
<1>3. /\ n_bins_processed \in 0..NumBins
      /\ file' \in Seq(Nat) /\ Len(file') = BinStart[n_bins_processed]
      /\ \A i \in 1..Len(file') : file'[i] = i
  BY WritePixelsFacts DEF IInv, TypeOK
<1>4. file' = Promise!PixelsBefore(n_bins_processed)
  BY <1>3 DEF Promise!PixelsBefore
<1>5. Len(file) <= BinStart[n_bins_processed]
  <2>1. /\ Len(file) = last_pix_written /\ last_pix_written \in Nat /\ n_read_pixels \in Nat
        /\ last_pix_written + n_read_pixels = BinStart[n_bins_processed]
    BY <1>1 DEF IInv, TypeOK, WriterInv, ChunkWritten
  <2> QED
    BY <2>1
<1> QED
  BY <1>2, <1>3, <1>4, <1>5 DEF Promise!WriteBins

\* The end of the call is the abstract completion or interruption.
LEMMA JoinReaderRefines ==
  ASSUME IInv, JoinReader
  PROVE  Promise!Complete \/ Promise!Interrupt
<1>1. /\ pc["main"] = "join_reader" /\ pc' = [pc EXCEPT !["main"] = "main_end"]
      /\ UNCHANGED <<file, interrupted>>
  BY DEF JoinReader, Goto, dataVars, flagVars, writerVars
<1>2. Result = "running" /\ Result' = IF interrupted THEN "interrupted" ELSE "completed"
  BY <1>1 DEF IInv, TypeOK, Threads, Result
<1>3. CASE interrupted
  BY <1>1, <1>2, <1>3 DEF Promise!Interrupt
<1>4. CASE ~interrupted
  <2>1. /\ file \in Seq(Nat) /\ Len(file) = BinStart[NumBins]
        /\ \A i \in 1..Len(file) : file[i] = i
    BY <1>1, <1>4 DEF IInv, TypeOK, EndInv, WriterInv
  <2>2. file = Promise!PixelsBefore(NumBins)
    BY <2>1 DEF Promise!PixelsBefore
  <2> QED
    BY <1>1, <1>2, <1>4, <2>2 DEF Promise!Complete
<1> QED
  BY <1>3, <1>4

\* Every other step leaves the target and the result alone.
LEMMA StepRefines == IInv /\ [Next]_vars => [Promise!Next]_(Promise!resultVars)
<1> SUFFICES ASSUME IInv, [Next]_vars PROVE [Promise!Next]_(Promise!resultVars) OBVIOUS
<1> USE DEF Promise!resultVars, Result, IInv, TypeOK, EndInv, Threads,
  dataVars, swapVars, readVars, handVars, flagVars, readerVars, writerVars, clientVars
<1>1. CASE StartChunk BY <1>1 DEF StartChunk, Goto
<1>2. CASE StopReading BY <1>2 DEF StopReading, Goto
<1>3. CASE SkipEmptyBin BY <1>3 DEF SkipEmptyBin, bufferVars
<1>4. CASE AddBin BY <1>4 DEF AddBin, Goto, Fits
<1>5. CASE AddOversizedBin
  BY <1>5, AddOversizedBinFacts DEF AddOversizedBin
<1>6. CASE PostponeBin BY <1>6 DEF PostponeBin, Goto, Fits
<1>7. CASE AllBinsRead BY <1>7 DEF AllBinsRead, Goto
<1>8. CASE SendChunk BY <1>8 DEF SendChunk, Goto, SendSwap
<1>9. CASE SendLock /\ UNCHANGED clientVars BY <1>9 DEF SendLock, Goto, Lock
<1>10. CASE SendTest /\ UNCHANGED clientVars BY <1>10 DEF SendTest, Goto
<1>11. CASE SendBlock /\ UNCHANGED clientVars BY <1>11 DEF SendBlock, Goto, Unlock
<1>12. CASE SendOwn /\ UNCHANGED clientVars BY <1>12 DEF SendOwn, Goto, Lock
<1>13. CASE SendReady /\ UNCHANGED clientVars BY <1>13 DEF SendReady, Goto, Lock
<1>14. CASE SendAllow /\ UNCHANGED clientVars BY <1>14 DEF SendAllow, GotoAndNotify
<1>15. CASE SendUnlock /\ UNCHANGED clientVars BY <1>15 DEF SendUnlock, Goto, Unlock
<1>16. CASE SendReturn /\ UNCHANGED clientVars BY <1>16 DEF SendReturn, Goto, Unlock
<1>17. CASE AllowLock /\ UNCHANGED clientVars BY <1>17 DEF AllowLock, Goto, Lock
<1>18. CASE AllowSet /\ UNCHANGED clientVars BY <1>18 DEF AllowSet, GotoAndNotify
<1>19. CASE AllowReturn /\ UNCHANGED clientVars BY <1>19 DEF AllowReturn, Goto, Unlock
<1>20. CASE AwaitChunk BY <1>20 DEF AwaitChunk, Goto
<1>21. CASE StopWriting BY <1>21 DEF StopWriting, Goto
<1>22. CASE GetWriteBuffer BY <1>22 DEF GetWriteBuffer, Goto
<1>23. CASE WritePixels BY <1>23, WritePixelsRefines DEF Promise!Next
<1>24. CASE LogProgress BY <1>24 DEF LogProgress, Goto, CheckLogging
<1>25. CASE WaitLock /\ UNCHANGED clientVars BY <1>25 DEF WaitLock, Goto, Lock
<1>26. CASE WaitTest /\ UNCHANGED clientVars BY <1>26 DEF WaitTest, Goto
<1>27. CASE WaitBlock /\ UNCHANGED clientVars BY <1>27 DEF WaitBlock, Goto, Unlock
<1>28. CASE WaitOwn /\ UNCHANGED clientVars BY <1>28 DEF WaitOwn, Goto, Lock
<1>29. CASE WaitReturn /\ UNCHANGED clientVars BY <1>29 DEF WaitReturn, Goto, Unlock
<1>30. CASE UnlockLock /\ UNCHANGED clientVars BY <1>30 DEF UnlockLock, Goto, Lock
<1>31. CASE UnlockReset /\ UNCHANGED clientVars BY <1>31 DEF UnlockReset, GotoAndNotify
<1>32. CASE UnlockReturn /\ UNCHANGED clientVars BY <1>32 DEF UnlockReturn, Goto, Unlock
<1>33. CASE SetWriteJobCompleted /\ UNCHANGED clientVars BY <1>33 DEF SetWriteJobCompleted, Goto
<1>34. CASE LogLoop BY <1>34 DEF LogLoop, Goto
<1>35. CASE LogWait BY <1>35 DEF LogWait, Goto
<1>36. CASE PollNoInterrupt BY <1>36 DEF PollNoInterrupt, Goto
<1>37. CASE PollInterrupt BY <1>37 DEF PollInterrupt, Goto, SetInterrupted
<1>38. CASE JoinWriter BY <1>38 DEF JoinWriter, Goto
<1>39. CASE JoinReader BY <1>39, JoinReaderRefines DEF Promise!Next
<1>40. CASE SpuriousWake /\ UNCHANGED clientVars BY <1>40 DEF SpuriousWake, Goto
<1>41. CASE UNCHANGED vars BY <1>41 DEF vars, bufferVars
<1> QED
  BY <1>1, <1>2, <1>3, <1>4, <1>5, <1>6, <1>7, <1>8, <1>9, <1>10, <1>11, <1>12, <1>13, <1>14,
    <1>15, <1>16, <1>17, <1>18, <1>19, <1>20, <1>21, <1>22, <1>23, <1>24, <1>25, <1>26, <1>27,
    <1>28, <1>29, <1>30, <1>31, <1>32, <1>33, <1>34, <1>35, <1>36, <1>37, <1>38, <1>39, <1>40,
    <1>41
  DEF Next, Reader, Writer, Main, ReaderMethods, WriterMethods, Finished

\* The detailed specification implements the abstract one.
THEOREM Implements == Spec => ImplementsCombinedFile
<1>1. Init => Promise!Init
  BY DEF Init, BufferInit, Promise!Init, Result
<1> QED
  BY <1>1, Invariance, StepRefines, PTL DEF Spec, ImplementsCombinedFile, Promise!Spec
=============================================================================
