------------------------------ MODULE CombineSqw ------------------------------
(***************************************************************************)
(* combine_sqw (_LowLevelCode/cpp/combine_sqw): a reader thread collects   *)
(* the pixels of all input files bin by bin, a writer thread appends them  *)
(* to the target file, and the MATLAB thread logs, polls CTRL-C and joins  *)
(* both.                                                                   *)
(*                                                                         *)
(* A pixel is its number, 1..NumPixels, in the order the target must hold  *)
(* them (by bin; within a bin by input file).  BinStart[b] is the number   *)
(* of pixels in all bins before b, so bin b holds the pixels               *)
(* BinStart[b]+1 .. BinStart[b+1].  How the input files' caches deliver    *)
(* the pixels of a bin is the subject of SqwReader and PixMemMap.          *)
(***************************************************************************)
EXTENDS ExchangeBuffer

CONSTANTS
  NumBins,        \* bins of the image (param.totNumBins)
  BinStart,       \* cumulative number of pixels, over all input files
  PixBufferSize   \* pixels the exchange buffers are meant to hold

ASSUME BinsAssumption ==
  /\ NumBins \in Nat
  /\ BinStart \in [0..NumBins -> Nat]
  /\ BinStart[0] = 0
  /\ \A b \in 0..NumBins : \A c \in 0..NumBins : b <= c => BinStart[b] <= BinStart[c]

ASSUME SettingsAssumption == PixBufferSize \in Nat

VARIABLES
  start_bin,         \* reader: next bin, and the last bin that fitted
  first_bin, n_bin,  \* reader: first and current bin of the chunk being read
  n_buf_pixels,      \* reader: pixels placed in read_buf
  w_bins,            \* writer: its copy of n_bins_processed
  n_pix_to_write,    \* writer: pixels of the chunk it has taken
  last_pix_written,  \* writer: pixels written so far
  file,              \* the pixel section of the target file
  ctrl_c             \* main: CTRL-C has been seen

readerVars == <<start_bin, first_bin, n_bin, n_buf_pixels>>
writerVars == <<w_bins, n_pix_to_write, last_pix_written, file>>
vars == <<bufferVars, readerVars, writerVars, ctrl_c>>

NumPixels  == BinStart[NumBins]
CellPix(b) == BinStart[b + 1] - BinStart[b]

(***************************************************************************)
(* Mutated steps: what a plausible slip in the code would make of a step   *)
(* below.  No definition uses them; they show that the properties notice.  *)
(***************************************************************************)
\* read_and_combine_pixBuf_from_files without n_bins_processed--
PostponeBinNotCounted ==
  /\ n_bin < NumBins /\ CellPix(n_bin) > 0 /\ CellPix(n_bin) + n_buf_pixels > buf_size
  /\ n_bin # first_bin
  /\ Goto("reader", "read_fill", "send_lock")
  /\ start_bin' = n_bin
  /\ UNCHANGED <<owner, spurious, dataVars, first_bin, n_bin, n_buf_pixels, writerVars, ctrl_c>>

\* get_read_buffer does not resize the vector the swap has left
StartChunkNotResized ==
  /\ start_bin < NumBins /\ ~interrupted
  /\ Goto("reader", "read_loop", "read_fill")
  /\ first_bin' = start_bin /\ n_bin' = start_bin /\ n_buf_pixels' = 0
  /\ UNCHANGED <<owner, spurious, dataVars, start_bin, writerVars, ctrl_c>>

\* the number of bins is taken from the loop variable
SendChunkLoopBin ==
  /\ SendSwap(n_buf_pixels, n_bin + 1)
  /\ start_bin' = start_bin + 1
  /\ UNCHANGED <<first_bin, n_bin, n_buf_pixels, writerVars, ctrl_c>>

Init ==
  /\ BufferInit(PixBufferSize)
  /\ pc = [reader |-> "read_loop", writer |-> "write_loop", main |-> "log_loop"]
  /\ start_bin = 0 /\ first_bin = 0 /\ n_bin = 0 /\ n_buf_pixels = 0
  /\ w_bins = 0 /\ n_pix_to_write = 0 /\ last_pix_written = 0
  /\ file = << >>
  /\ ctrl_c = FALSE

(***************************************************************************)
(* Reader thread: run_read_job and read_and_combine_pixBuf_from_files.     *)
(***************************************************************************)
StartChunk ==                   \* loop test, then get_read_buffer()
  /\ start_bin < NumBins /\ ~interrupted
  /\ Goto("reader", "read_loop", "read_fill")
  /\ first_bin' = start_bin /\ n_bin' = start_bin /\ n_buf_pixels' = 0
  /\ read_buf' = Resize(read_buf, buf_size)
  /\ UNCHANGED <<owner, spurious, buf_size, swapVars, handVars, flagVars,
                 start_bin, writerVars, ctrl_c>>

StopReading ==
  /\ ~(start_bin < NumBins /\ ~interrupted)
  /\ Goto("reader", "read_loop", "allow_lock")
  /\ UNCHANGED <<owner, spurious, dataVars, readerVars, writerVars, ctrl_c>>

\* get_pix_for_bin for every file: bin b's pixels follow the first n of buf
PlaceBin(buf, n, b) ==
  [i \in 1..Len(buf) |-> IF n < i /\ i <= n + CellPix(b) THEN BinStart[b] + (i - n) ELSE buf[i]]

SkipEmptyBin ==
  /\ pc["reader"] = "read_fill" /\ n_bin < NumBins /\ CellPix(n_bin) = 0
  /\ start_bin' = n_bin /\ n_bin' = n_bin + 1
  /\ UNCHANGED <<bufferVars, first_bin, n_buf_pixels, writerVars, ctrl_c>>

Fits == CellPix(n_bin) + n_buf_pixels <= buf_size

AddBin ==
  /\ pc["reader"] = "read_fill" /\ n_bin < NumBins /\ CellPix(n_bin) > 0 /\ Fits
  /\ start_bin' = n_bin /\ n_bin' = n_bin + 1
  /\ read_buf' = PlaceBin(read_buf, n_buf_pixels, n_bin)
  /\ n_buf_pixels' = n_buf_pixels + CellPix(n_bin)
  /\ UNCHANGED <<pc, owner, spurious, buf_size, swapVars, handVars, flagVars,
                 first_bin, writerVars, ctrl_c>>

\* The chunk's first bin is larger than the buffer: an empty buffer grows to
\* hold it; one that already has pixels is refused (set_interrupted).
AddOversizedBin ==
  /\ pc["reader"] = "read_fill" /\ n_bin < NumBins /\ CellPix(n_bin) > 0 /\ ~Fits
  /\ n_bin = first_bin
  /\ start_bin' = n_bin
  /\ IF n_buf_pixels = 0
       THEN /\ buf_size' = CellPix(n_bin)
            /\ read_buf' = PlaceBin(Resize(read_buf, CellPix(n_bin)), 0, n_bin)
            /\ n_buf_pixels' = CellPix(n_bin)
            /\ n_bin' = n_bin + 1
            /\ UNCHANGED <<pc, interrupted, error_message>>
       ELSE /\ SetInterrupted("too_small")
            /\ Goto("reader", "read_fill", "send_lock")
            /\ UNCHANGED <<readVars, n_buf_pixels, n_bin>>
  /\ UNCHANGED <<owner, spurious, swapVars, handVars, write_job_completed, do_logging,
                 first_bin, writerVars, ctrl_c>>

PostponeBin ==                  \* the bin opens the next chunk
  /\ n_bin < NumBins /\ CellPix(n_bin) > 0 /\ ~Fits
  /\ n_bin # first_bin
  /\ Goto("reader", "read_fill", "send_lock")
  /\ start_bin' = n_bin - 1
  /\ UNCHANGED <<owner, spurious, dataVars, first_bin, n_bin, n_buf_pixels, writerVars, ctrl_c>>

AllBinsRead ==
  /\ n_bin = NumBins
  /\ Goto("reader", "read_fill", "send_lock")
  /\ UNCHANGED <<owner, spurious, dataVars, readerVars, writerVars, ctrl_c>>

\* The swap of the send; run_read_job's start_bin++ follows the call and
\* touches the reader's own variable only.
SendChunk ==
  /\ SendSwap(n_buf_pixels, start_bin + 1)
  /\ start_bin' = start_bin + 1
  /\ UNCHANGED <<first_bin, n_bin, n_buf_pixels, writerVars, ctrl_c>>

(***************************************************************************)
(* Writer thread: run_write_pix_job.                                       *)
(***************************************************************************)
AwaitChunk ==
  /\ w_bins < NumBins /\ ~interrupted
  /\ Goto("writer", "write_loop", "wait_lock")
  /\ UNCHANGED <<owner, spurious, dataVars, readerVars, writerVars, ctrl_c>>

StopWriting ==
  /\ ~(w_bins < NumBins /\ ~interrupted)
  /\ Goto("writer", "write_loop", "write_done")
  /\ UNCHANGED <<owner, spurious, dataVars, readerVars, writerVars, ctrl_c>>

GetWriteBuffer ==
  /\ Goto("writer", "write_get", "write_pixels")
  /\ w_bins' = n_bins_processed /\ n_pix_to_write' = n_read_pixels
  /\ UNCHANGED <<owner, spurious, dataVars, readerVars, last_pix_written, file, ctrl_c>>

\* The stream is opened with ofstream::app, so a write goes to the end.
WritePixels ==
  /\ Goto("writer", "write_pixels", "write_log")
  /\ file' = file \o SubSeq(write_buf, 1, n_pix_to_write)
  /\ last_pix_written' = last_pix_written + n_pix_to_write
  /\ UNCHANGED <<owner, spurious, dataVars, readerVars, w_bins, n_pix_to_write, ctrl_c>>

LogProgress ==
  /\ Goto("writer", "write_log", "unlock_lock")
  /\ \E due \in BOOLEAN : CheckLogging(due)
  /\ UNCHANGED <<owner, spurious, swapVars, readVars, handVars,
                 interrupted, error_message, write_job_completed,
                 readerVars, writerVars, ctrl_c>>

(***************************************************************************)
(* MATLAB thread: combine_sqw's logging loop and its joins.                *)
(***************************************************************************)
LogLoop ==
  /\ Goto("main", "log_loop", IF write_job_completed THEN "join_writer" ELSE "log_wait")
  /\ UNCHANGED <<owner, spurious, dataVars, readerVars, writerVars, ctrl_c>>

LogWait ==                      \* wait_for ends with a message or by its timeout
  /\ Goto("main", "log_wait", "log_poll")
  /\ do_logging' = FALSE
  /\ UNCHANGED <<owner, spurious, swapVars, readVars, handVars,
                 interrupted, error_message, write_job_completed,
                 readerVars, writerVars, ctrl_c>>

PollNoInterrupt ==
  /\ Goto("main", "log_poll", "log_loop")
  /\ UNCHANGED <<owner, spurious, dataVars, readerVars, writerVars, ctrl_c>>

PollInterrupt ==
  /\ ~ctrl_c
  /\ Goto("main", "log_poll", "log_loop")
  /\ SetInterrupted("ctrl_c") /\ ctrl_c' = TRUE
  /\ UNCHANGED <<owner, spurious, swapVars, readVars, handVars,
                 write_job_completed, do_logging, readerVars, writerVars>>

JoinWriter ==
  /\ pc["writer"] = "write_end"
  /\ Goto("main", "join_writer", "join_reader")
  /\ UNCHANGED <<owner, spurious, dataVars, readerVars, writerVars, ctrl_c>>

JoinReader ==                   \* then finish_read_jobs and the final message or error
  /\ pc["reader"] = "read_end"
  /\ Goto("main", "join_reader", "main_end")
  /\ UNCHANGED <<owner, spurious, dataVars, readerVars, writerVars, ctrl_c>>

Finished == pc["main"] = "main_end" /\ UNCHANGED vars

clientVars == <<readerVars, writerVars, ctrl_c>>

Reader ==
  \/ StartChunk \/ StopReading
  \/ SkipEmptyBin \/ AddBin \/ AddOversizedBin \/ PostponeBin \/ AllBinsRead
  \/ SendChunk
  \/ ReaderMethods /\ UNCHANGED clientVars

Writer ==
  \/ AwaitChunk \/ StopWriting \/ GetWriteBuffer \/ WritePixels \/ LogProgress
  \/ WriterMethods /\ UNCHANGED clientVars

Main ==
  \/ LogLoop \/ LogWait \/ PollNoInterrupt \/ PollInterrupt \/ JoinWriter \/ JoinReader

Next == Reader \/ Writer \/ Main \/ (SpuriousWake /\ UNCHANGED clientVars) \/ Finished

Spec == Init /\ [][Next]_vars

\* The operating system schedules every thread that can run.
FairSpec == Spec /\ WF_vars(Reader) /\ WF_vars(Writer) /\ WF_vars(Main)

(***************************************************************************)
(* Properties.                                                             *)
(***************************************************************************)
Labels ==
  { "read_loop", "read_fill", "send_lock", "send_test", "send_block", "send_asleep",
    "send_own", "send_swap", "send_ready", "send_allow", "send_unlock", "send_return",
    "allow_lock", "allow_set", "allow_return", "read_end",
    "write_loop", "wait_lock", "wait_test", "wait_block", "wait_asleep", "wait_own",
    "wait_return", "write_get", "write_pixels", "write_log", "unlock_lock",
    "unlock_reset", "unlock_return", "write_done", "write_end",
    "log_loop", "log_wait", "log_poll", "join_writer", "join_reader", "main_end" }

\* The type of every variable of the exchange buffer and of the three threads.
TypeOK ==
  /\ pc \in [Threads -> Labels]
  /\ owner \in [Mutexes -> Threads \cup {Nobody}]
  /\ spurious \in 0..MaxSpurious
  /\ writer_ready \in BOOLEAN /\ write_allowed \in BOOLEAN
  /\ read_buf \in Seq(Nat) /\ write_buf \in Seq(Nat) /\ buf_size \in Nat
  /\ n_read_pixels \in Nat /\ n_bins_processed \in 0..NumBins
  /\ interrupted \in BOOLEAN /\ error_message \in Messages
  /\ write_job_completed \in BOOLEAN /\ do_logging \in BOOLEAN
  /\ start_bin \in 0..NumBins /\ first_bin \in 0..NumBins /\ n_bin \in 0..NumBins
  /\ n_buf_pixels \in Nat
  /\ w_bins \in 0..NumBins /\ n_pix_to_write \in Nat /\ last_pix_written \in Nat
  /\ file \in Seq(Nat)
  /\ ctrl_c \in BOOLEAN

\* Between two chunks the target holds exactly the pixels of the bins the
\* writer has counted as processed, each once and in order, however the
\* threads interleave and whenever CTRL-C arrives (run_write_pix_job).
FileHoldsProcessedBins ==
  pc["writer"] # "write_pixels" =>
    /\ Len(file) = BinStart[w_bins]
    /\ \A i \in 1..Len(file) : file[i] = i

\* The swap of send_read_buffer_to_writer never discards a chunk that has
\* been handed over and not been written.
ChunkNotOverwritten ==
  pc["reader"] = "send_swap" => n_read_pixels = 0 /\ ~write_allowed

\* send takes data_written_lock, write_lock, data_ready_lock; the writer takes
\* data_ready_lock, write_lock and then write_lock, data_written_lock.  The
\* orders conflict, yet the threads never hold each other's next mutex.
NoDeadlyEmbrace ==
  /\ ~ /\ pc["reader"] = "send_own"   /\ owner["write_lock"] = "writer"
       /\ pc["writer"] = "unlock_lock" /\ owner["data_written_lock"] = "reader"
  /\ ~ /\ pc["reader"] = "send_ready" /\ owner["data_ready_lock"] = "writer"
       /\ pc["writer"] = "wait_own"    /\ owner["write_lock"] = "reader"

\* The pixels being collected always fit the vector they are placed in, also
\* after a swap has exchanged it for one of another size (get_read_buffer).
ReadBufferLargeEnough ==
  pc["reader"] \in {"read_fill", "send_lock", "send_test", "send_own", "send_swap"} =>
    n_buf_pixels <= Len(read_buf)

\* A single bin is never refused as too large: whenever the bin that opens a
\* chunk does not fit, the buffer is still empty and can grow.
NoBinRefused == error_message # "too_small"

\* The growth of the buffer in get_read_buffer and the tests for room agree:
\* no pixel is placed beyond the end of the vector, and no bin is refused.
BufferSuffices == ReadBufferLargeEnough /\ NoBinRefused

Result ==
  IF pc["main"] # "main_end" THEN "running"
  ELSE IF interrupted THEN "interrupted" ELSE "completed"

Promise == INSTANCE CombinedFile WITH written <- file, result <- Result

\* The three threads together implement CombinedFile: the target grows by
\* whole bins in order, and success means that it is complete.
ImplementsCombinedFile == Promise!Spec

\* Unless CTRL-C is pressed the call returns: no thread waits for ever for
\* another one.
Returns == <>(pc["main"] = "main_end" \/ ctrl_c)

\* CTRL-C ends the call: both threads leave their jobs and the MATLAB thread,
\* which logs until the writer is done and then joins them, comes to its end.
InterruptEndsCall == ctrl_c ~> (pc["main"] = "main_end")
=============================================================================
