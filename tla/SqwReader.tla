------------------------------ MODULE SqwReader ------------------------------
(***************************************************************************)
(* The pixel reader of one input file: class sqw_reader of                 *)
(* _LowLevelCode/cpp/combine_sqw.  get_pix_for_bin copies the pixels of a  *)
(* bin to the caller, out of a buffer that is filled with the pixels of    *)
(* as many whole bins as fit (what the bin map of the file promises,       *)
(* module BinMap).  In threaded mode a second thread (read_pixels_job)     *)
(* reads the pixels that are expected next into a buffer of its own, and   *)
(* the two buffers are swapped.  With no buffer (PIX_BUF_SIZE 0) pixels    *)
(* are read straight into the caller's memory.                             *)
(*                                                                         *)
(* A pixel is its number in the file.  cpc says where the caller stands,   *)
(* tpc where the read thread does.  pix_exchange_lock is held by the read  *)
(* thread except while it sleeps; the caller waits on pix_ready with it,   *)
(* and only its owner sets pix_read, so "lock, wait, use, unlock" is one   *)
(* step that is possible when the mutex is free and pix_read holds.        *)
(***************************************************************************)
EXTENDS Integers, SequencesExt, BinMap

CONSTANT Modes                    \* how readers are used

\* A bin asked for again would be taken from a buffer that direct reading
\* does not have; the combination asks for every bin once.
ASSUME ReaderAssumption ==
  /\ Modes \subseteq [threads : BOOLEAN, buf : Nat, access : {"ascending", "random"}]
  /\ \A m \in Modes : m.buf = 0 => m.access = "ascending"

VARIABLES
  mode,                            \* the read thread is asked for; pix_buf_size, 0 to read
                                   \* directly to the target; each bin asked for at most
                                   \* once, as the combine job does, or in any order
  start,                           \* the file
  pix_buffer,
  npix_in_buf_start, buf_pix_end,  \* pixels of the file pix_buffer claims to hold
  cpc, call, out,                  \* the caller: place, bin asked for, its memory
  cur,                             \* the caller: first bin it may still ask for
  num_pix_to_read,                 \* local of _update_cash
  tpc, pix_read, pix_read_job_completed,
  n_first_threadbuf_pix, num_treadbuf_pix, thread_pix_buffer

bufVars    == <<pix_buffer, npix_in_buf_start, buf_pix_end>>
threadVars == <<pix_read, pix_read_job_completed, n_first_threadbuf_pix,
                num_treadbuf_pix, thread_pix_buffer>>
vars == <<mode, start, bufVars, cpc, cur, call, out, num_pix_to_read, tpc, threadVars>>

nPixInFile == start[NumBins]
NoPix == -1                                 \* memory no pixel was written to
Blank(n) == [i \in 1..n |-> NoPix]
Pixels(first, n) == [i \in 1..n |-> first + i - 1]
Direct == mode.buf = 0                      \* use_streambuf_direct
NoCall == [bin |-> 0, start |-> 0, num |-> 0]

\* A file without pixels starts no thread, nor does direct reading.
HasThread == mode.threads /\ ~Direct /\ nPixInFile > 0

Init ==
  /\ mode \in Modes /\ start \in Files
  /\ pix_buffer = Blank(mode.buf) /\ npix_in_buf_start = 0 /\ buf_pix_end = 0
  /\ cpc = "idle" /\ cur = 0 /\ call = NoCall /\ out = << >> /\ num_pix_to_read = 0
  /\ tpc = IF HasThread THEN "loop" ELSE "ended"
  /\ pix_read = FALSE /\ pix_read_job_completed = ~HasThread
  /\ n_first_threadbuf_pix = 0 /\ num_treadbuf_pix = 0
  /\ thread_pix_buffer = IF HasThread THEN Blank(mode.buf) ELSE << >>

Resize(buf, n) == [i \in 1..n |-> IF i <= Len(buf) THEN buf[i] ELSE NoPix]
Fewest(m, n) == IF m < n THEN m ELSE n
Grow(buf, n) == IF Len(buf) < n THEN Resize(buf, n) ELSE buf

\* _read_pix: no more than the file has, into the beginning of buf.
ReadPix(first, buf, n) ==
  LET got == Fewest(n, nPixInFile - first)
  IN  [i \in 1..Len(buf) |-> IF i <= got THEN first + i - 1 ELSE buf[i]]

(***************************************************************************)
(* get_pix_for_bin.                                                        *)
(***************************************************************************)
Call ==
  /\ cpc = "idle"
  /\ \E b \in {i \in Bins : i >= cur} :
       /\ cur' = IF mode.access = "random" THEN 0 ELSE b + 1
       /\ call' = [bin |-> b, start |-> start[b], num |-> NpixOf(start, b)]
       /\ out' = Blank(NpixOf(start, b))
  /\ cpc' = "lookup"
  /\ UNCHANGED <<mode, start, bufVars, num_pix_to_read, tpc, threadVars>>

InCache == call.start >= npix_in_buf_start /\ call.start + call.num <= buf_pix_end

Lookup ==
  /\ cpc = "lookup"
  /\ cpc' = IF call.num = 0 THEN "return" ELSE IF InCache THEN "copy" ELSE "update"
  /\ UNCHANGED <<mode, start, cur, bufVars, call, out, num_pix_to_read, tpc, threadVars>>

CopyFromStart ==                  \* mutant: copies from the beginning of the buffer
  /\ cpc = "copy"
  /\ out' = IF Direct THEN out ELSE [i \in 1..call.num |-> pix_buffer[i]]
  /\ cpc' = "return"
  /\ UNCHANGED <<mode, start, cur, bufVars, call, num_pix_to_read, tpc, threadVars>>

Copy ==                           \* nothing to copy when reading directly
  /\ cpc = "copy"
  /\ out' = IF Direct THEN out
            ELSE [i \in 1..call.num |-> pix_buffer[call.start - npix_in_buf_start + i]]
  /\ cpc' = "return"
  /\ UNCHANGED <<mode, start, cur, bufVars, call, num_pix_to_read, tpc, threadVars>>

Return ==
  /\ cpc = "return"
  /\ cpc' = "idle" /\ call' = NoCall /\ out' = << >> /\ num_pix_to_read' = 0
  /\ UNCHANGED <<mode, start, cur, bufVars, tpc, threadVars>>

(***************************************************************************)
(* _update_cash.                                                           *)
(***************************************************************************)
Claim(first, n) == npix_in_buf_start' = first /\ buf_pix_end' = first + n

FitBins ==                        \* how much to read: check_expand_pix_map
  /\ cpc = "update"
  /\ num_pix_to_read' = IF Direct THEN call.num
                        ELSE WholeBins(start, call.bin, Len(pix_buffer))
  /\ IF HasThread
       THEN /\ thread_pix_buffer' = Grow(thread_pix_buffer, num_pix_to_read')
            /\ cpc' = "query"
       ELSE cpc' = "read" /\ UNCHANGED thread_pix_buffer
  /\ UNCHANGED <<mode, start, cur, bufVars, call, out, tpc, pix_read, pix_read_job_completed,
                 n_first_threadbuf_pix, num_treadbuf_pix>>

ReadDirectly ==
  /\ cpc = "read" /\ Direct
  /\ out' = ReadPix(call.start, out, num_pix_to_read)
  /\ Claim(call.start, num_pix_to_read)
  /\ cpc' = "copy"
  /\ UNCHANGED <<mode, start, cur, pix_buffer, call, num_pix_to_read, tpc, threadVars>>

ReadBuffer ==
  /\ cpc = "read" /\ ~Direct
  /\ pix_buffer' = ReadPix(call.start, Grow(pix_buffer, num_pix_to_read), num_pix_to_read)
  /\ Claim(call.start, num_pix_to_read)
  /\ cpc' = "copy"
  /\ UNCHANGED <<mode, start, cur, call, out, num_pix_to_read, tpc, threadVars>>

ThreadHasData == tpc \in {"asleep", "relock"} /\ pix_read
Woken == IF tpc = "asleep" THEN "relock" ELSE tpc

ThreadHoldsBin ==
  /\ call.start >= n_first_threadbuf_pix
  /\ call.start + call.num < n_first_threadbuf_pix + num_treadbuf_pix

QueryThread ==                    \* _get_thread_pix_param
  /\ cpc = "query" /\ ThreadHasData
  /\ cpc' = IF ThreadHoldsBin THEN "take" ELSE "miss"
  /\ UNCHANGED <<mode, start, cur, bufVars, call, out, num_pix_to_read, tpc, threadVars>>

SwapSilent(pixbuf, next) ==       \* mutant: read_pix_needed is not notified
  /\ pix_buffer' = Resize(thread_pix_buffer, Len(pixbuf))
  /\ thread_pix_buffer' = pixbuf
  /\ n_first_threadbuf_pix' = next /\ pix_read' = FALSE
  /\ UNCHANGED <<tpc, pix_read_job_completed, num_treadbuf_pix>>

\* _get_thread_data: the vectors are swapped, then the reader's one gets the
\* size of the other; the thread is to read from `next` on.
Swap(pixbuf, next) ==
  /\ pix_buffer' = Resize(thread_pix_buffer, Len(pixbuf))
  /\ thread_pix_buffer' = pixbuf
  /\ n_first_threadbuf_pix' = next /\ pix_read' = FALSE /\ tpc' = Woken
  /\ UNCHANGED <<pix_read_job_completed, num_treadbuf_pix>>

TakeHitAtBin ==                   \* mutant: the buffer is taken to start at the bin
  /\ cpc = "take" /\ ThreadHasData
  /\ Swap(pix_buffer, call.start + num_pix_to_read)
  /\ Claim(call.start, num_pix_to_read)
  /\ cpc' = "copy"
  /\ UNCHANGED <<mode, start, cur, call, out, num_pix_to_read>>

\* The buffer starts where the thread's did, not at the bin: _get_thread_data
\* returns its first pixel in pix_start_num.
TakeHit ==
  /\ cpc = "take" /\ ThreadHasData
  /\ Swap(pix_buffer, call.start + num_pix_to_read)
  /\ Claim(n_first_threadbuf_pix, num_pix_to_read)
  /\ cpc' = "copy"
  /\ UNCHANGED <<mode, start, cur, call, out, num_pix_to_read>>

TakeMissSkips ==                  \* mutant: the next read starts one pixel late
  /\ cpc = "miss" /\ ThreadHasData
  /\ Swap(IF Len(pix_buffer) < call.num THEN Resize(pix_buffer, call.num + 1) ELSE pix_buffer,
          call.start + call.num + 1)
  /\ cpc' = "manual"
  /\ UNCHANGED <<mode, start, cur, npix_in_buf_start, buf_pix_end, call, out, num_pix_to_read>>

TakeMiss ==
  /\ cpc = "miss" /\ ThreadHasData
  /\ Swap(IF Len(pix_buffer) < call.num THEN Resize(pix_buffer, call.num + 1) ELSE pix_buffer,
          call.start + call.num)
  /\ cpc' = "manual"
  /\ UNCHANGED <<mode, start, cur, npix_in_buf_start, buf_pix_end, call, out, num_pix_to_read>>

ReadMissed ==                     \* while the thread reads on
  /\ cpc = "manual"
  /\ pix_buffer' = ReadPix(call.start, pix_buffer, call.num)
  /\ Claim(call.start, call.num)
  /\ cpc' = "copy"
  /\ UNCHANGED <<mode, start, cur, call, out, num_pix_to_read, tpc, threadVars>>

(***************************************************************************)
(* read_pixels_job.                                                        *)
(***************************************************************************)
callerVars == <<mode, start, bufVars, cpc, cur, call, out, num_pix_to_read>>

JobLoop ==                        \* pix_exchange_lock is taken or kept
  /\ tpc = "loop"
  /\ tpc' = IF pix_read_job_completed THEN "ended" ELSE "test"
  /\ UNCHANGED <<callerVars, threadVars>>

JobTest ==                        \* the predicate of read_pix_needed
  /\ tpc = "test"
  /\ tpc' = IF ~pix_read \/ pix_read_job_completed THEN "reading" ELSE "block"
  /\ UNCHANGED <<callerVars, threadVars>>

JobBlock ==
  /\ tpc = "block" /\ tpc' = "asleep"
  /\ UNCHANGED <<callerVars, threadVars>>

JobRelock ==
  /\ tpc = "relock" /\ tpc' = "test"
  /\ UNCHANGED <<callerVars, threadVars>>

JobSpurious ==                    \* a wake-up nobody asked for
  /\ tpc = "asleep" /\ tpc' = "relock"
  /\ UNCHANGED <<callerVars, threadVars>>

JobRead ==
  /\ tpc = "reading" /\ ~pix_read_job_completed
  /\ LET n == Fewest(Len(thread_pix_buffer), nPixInFile - n_first_threadbuf_pix)
     IN  /\ thread_pix_buffer' = ReadPix(n_first_threadbuf_pix, thread_pix_buffer, n)
         /\ num_treadbuf_pix' = n
  /\ pix_read' = TRUE /\ tpc' = "loop"
  /\ UNCHANGED <<callerVars, pix_read_job_completed, n_first_threadbuf_pix>>

JobEnd ==
  /\ tpc = "reading" /\ pix_read_job_completed
  /\ pix_read' = TRUE /\ tpc' = "ended"
  /\ UNCHANGED <<callerVars, pix_read_job_completed, n_first_threadbuf_pix,
                 num_treadbuf_pix, thread_pix_buffer>>

(***************************************************************************)
(* finish_read_job: the flags change under pix_read_lock only.             *)
(***************************************************************************)
FinishSet ==
  /\ cpc = "idle" /\ HasThread
  /\ pix_read_job_completed' = TRUE /\ pix_read' = FALSE
  /\ cpc' = "finish"
  /\ UNCHANGED <<mode, start, cur, bufVars, call, out, num_pix_to_read, tpc,
                 n_first_threadbuf_pix, num_treadbuf_pix, thread_pix_buffer>>

FinishNotify ==
  /\ cpc = "finish" /\ cpc' = "join" /\ tpc' = Woken
  /\ UNCHANGED <<mode, start, cur, bufVars, call, out, num_pix_to_read, threadVars>>

FinishJoin ==
  /\ cpc = "join" /\ tpc = "ended" /\ cpc' = "finished"
  /\ UNCHANGED <<mode, start, cur, bufVars, call, out, num_pix_to_read, tpc, threadVars>>

Finished == (cpc = "finished" \/ (cpc = "idle" /\ cur = NumBins)) /\ UNCHANGED vars

Methods ==
  \/ Lookup \/ Copy \/ Return \/ FitBins \/ ReadDirectly \/ ReadBuffer
  \/ QueryThread \/ TakeHit \/ TakeMiss \/ ReadMissed \/ FinishNotify \/ FinishJoin

Job == JobLoop \/ JobTest \/ JobBlock \/ JobRelock \/ JobRead \/ JobEnd

Next == Call \/ Methods \/ FinishSet \/ Job \/ JobSpurious \/ Finished

\* SF: the caller gets a mutex that is free again and again.
Spec == Init /\ [][Next]_vars /\ SF_vars(Methods) /\ WF_vars(Job)

(***************************************************************************)
(* Properties.                                                             *)
(***************************************************************************)
Memory == Seq(Nat \cup {NoPix})

\* Every variable keeps its type; the thread's buffer exists with the thread.
TypeOK ==
  /\ mode \in Modes /\ start \in Files
  /\ pix_buffer \in Memory /\ out \in Memory /\ thread_pix_buffer \in Memory
  /\ npix_in_buf_start \in Nat /\ buf_pix_end \in Nat /\ num_pix_to_read \in Nat
  /\ cpc \in {"idle", "lookup", "copy", "return", "update", "read", "query", "take",
              "miss", "manual", "finish", "join", "finished"}
  /\ cur \in 0..NumBins /\ call \in [bin : Bins, start : Nat, num : Nat]
  /\ tpc \in {"loop", "test", "block", "asleep", "relock", "reading", "ended"}
  /\ pix_read \in BOOLEAN /\ pix_read_job_completed \in BOOLEAN
  /\ n_first_threadbuf_pix \in Nat /\ num_treadbuf_pix \in Nat

\* "fills block ... containing pixel info for the pixels, belonging to the bin
\* requested" (sqw_reader.cpp:126): whatever was read before and wherever the
\* read thread stands, the caller gets the pixels of its bin.
BinPixelsReturned ==
  cpc = "return" => out = Pixels(start[call.bin], NpixOf(start, call.bin))

\* The pixels pix_buffer claims to hold are there: a later bin in that range is
\* copied without another look at the file.  (Bytes of a swapped-in buffer past
\* what its owner read must not be claimed.)
CacheHoldsFile ==
  ~Direct /\ cpc \in {"idle", "lookup", "copy", "return"} =>
    /\ buf_pix_end - npix_in_buf_start <= Len(pix_buffer)
    /\ \A p \in npix_in_buf_start..(buf_pix_end - 1) :
         pix_buffer[p - npix_in_buf_start + 1] = p

\* What the thread announces with pix_read is in its buffer, inside the file,
\* also when the caller resizes and swaps the buffers meanwhile.
ThreadDataRight ==
  HasThread /\ pix_read /\ ~pix_read_job_completed =>
    /\ n_first_threadbuf_pix + num_treadbuf_pix <= nPixInFile
    /\ SubSeq(thread_pix_buffer, 1, num_treadbuf_pix) =
         Pixels(n_first_threadbuf_pix, num_treadbuf_pix)

\* Between calls both buffers have one size: _get_thread_data then never cuts
\* off pixels when it gives the swapped-in vector the size of the other one.
BuffersSameSize ==
  HasThread /\ cpc = "idle" => Len(pix_buffer) = Len(thread_pix_buffer)

\* The caller's buffer and the thread's, which are swapped and resized under
\* each other, hold the pixels of the file they are said to hold.
BuffersHoldFile == CacheHoldsFile /\ ThreadDataRight /\ BuffersSameSize

\* Every call returns: the hand-over with the read thread never blocks it.
CallsReturn == (cpc = "lookup") ~> (cpc = "return")
=============================================================================
