------------------------------ MODULE PixMemMap ------------------------------
(***************************************************************************)
(* The bin map of one input file: class pix_mem_map of                     *)
(* _LowLevelCode/cpp/combine_sqw.  It tells where the pixels of a bin lie  *)
(* in the file and how many there are (get_npix_for_bin), and how many     *)
(* pixels of whole bins fit a buffer (check_expand_pix_map), while it      *)
(* keeps only a window of the file's npix array in memory.  In threaded    *)
(* mode a second thread (read_bins_job) reads the next window ahead.       *)
(*                                                                         *)
(* Both methods run in steps: cpc says where the caller's thread stands,   *)
(* tpc where the read thread does.  The caller waits on bins_ready with    *)
(* exchange_lock held and nobody sets nbins_read without that mutex, so    *)
(* "lock, wait, use, unlock" is one step that is possible when the mutex   *)
(* is free and nbins_read holds.  exchange_lock is held by the read thread *)
(* except while it sleeps; bin_read_lock only while it reads.              *)
(***************************************************************************)
EXTENDS Integers, SequencesExt, BinMap

CONSTANTS
  BufSize,      \* BIN_BUF_SIZE, also BUF_EXTENSION_STEP
  Fits,         \* buffer sizes check_expand_pix_map is asked about
  Modes         \* how maps are used: with threads or not, bins asked for in which order

ASSUME MapAssumption ==
  /\ BufSize \in Nat \ {0} /\ Fits \subseteq Nat \ {0}
  /\ Modes \subseteq [threads : BOOLEAN, access : {"sequential", "random"}]
  /\ \A m \in Modes : m.threads \/ m.access = "sequential"   \* see PixelsPassed

VARIABLES
  mode,                                   \* use_multithreading; "sequential" is what the
                                          \* combine job's order of calls amounts to
  start,                                  \* the file
  num_first_buf_bin, num_last_buf_bin,    \* window of bins in memory, last excluded
  buf_end,                                \* filled cells of nbin_buffer
  prebuf_pix_num,                         \* pixels before the window
  nbin_buffer,                            \* the window: number of pixels and position
  map_capacity_isknown, numPixInMap,
  cpc, call, cur,                         \* the caller: place, call, last bin asked for
  loc,                                    \* locals of _update_data_cash_
  holder, eop,                            \* locals of check_expand_pix_map
  ans,                                    \* what the call returns
  tpc, nbins_read, read_job_completed, thread_read_to_end,
  n_first_rbuf_bin, rbuf_nbin_end, rbuf_end, thread_nbin_buffer

windowVars == <<num_first_buf_bin, num_last_buf_bin, buf_end, prebuf_pix_num, nbin_buffer>>
capVars    == <<map_capacity_isknown, numPixInMap>>
callVars   == <<call, cur>>
threadVars == <<nbins_read, read_job_completed, thread_read_to_end,
                n_first_rbuf_bin, rbuf_nbin_end, rbuf_end, thread_nbin_buffer>>
vars == <<mode, start, windowVars, capVars, cpc, callVars, loc, holder, eop, ans, tpc, threadVars>>

Zeros(n) == [i \in 1..n |-> [num |-> 0, pos |-> 0]]
End(info) == info.pos + info.num
NoCall == [op |-> "none", bin |-> 0, fit |-> 0]
NoLoc  == [start |-> 0, end |-> 0, end_buf |-> 0, n_last |-> 0]
NoAns  == [num |-> 0, start |-> 0, eop |-> FALSE]
Unknown == -1                              \* numeric_limits<uint64_t>::max()

Init ==
  /\ mode \in Modes /\ start \in Files
  /\ num_first_buf_bin = 0 /\ num_last_buf_bin = 0 /\ buf_end = 0 /\ prebuf_pix_num = 0
  /\ nbin_buffer = Zeros(BufSize)
  /\ map_capacity_isknown = FALSE /\ numPixInMap = Unknown
  /\ cpc = "idle" /\ call = NoCall /\ cur = 0
  /\ loc = NoLoc /\ holder = << >> /\ eop = FALSE /\ ans = NoAns
  /\ tpc = IF mode.threads THEN "loop" ELSE "ended"
  /\ nbins_read = FALSE /\ read_job_completed = FALSE /\ thread_read_to_end = FALSE
  /\ n_first_rbuf_bin = 0 /\ rbuf_nbin_end = 0 /\ rbuf_end = 0
  /\ thread_nbin_buffer = Zeros(BufSize)

(***************************************************************************)
(* _read_bins: the bins from `from' on overwrite the beginning of buf; a   *)
(* position counts from the first of them.                                 *)
(***************************************************************************)
ReadCount(from, size) == IF from + size >= NumBins THEN NumBins - from ELSE size
ReadsToEnd(from, size) == from + size >= NumBins
ReadBins(from, buf) ==
  [i \in 1..Len(buf) |->
     IF i <= ReadCount(from, Len(buf))
     THEN [num |-> NpixOf(start, from + i - 1), pos |-> PixIn(start, from, from + i - 1)]
     ELSE buf[i]]

(***************************************************************************)
(* get_npix_for_bin and _update_data_cash_.                                *)
(***************************************************************************)
AskableBins == IF mode.access = "random" THEN Bins ELSE {cur, cur + 1} \cap Bins

Call ==
  /\ cpc = "idle"
  /\ \E b \in AskableBins :
       /\ cur' = b
       /\ \/ call' = [op |-> "npix", bin |-> b, fit |-> 0]
          \/ \E n \in Fits : call' = [op |-> "expand", bin |-> b, fit |-> n]
  /\ cpc' = "lookup"
  /\ UNCHANGED <<mode, start, windowVars, capVars, loc, holder, eop, ans, tpc, threadVars>>

InWindow(b, first, last) == b >= first /\ b < last

LookupHit ==
  /\ cpc = "lookup" /\ InWindow(call.bin, num_first_buf_bin, num_last_buf_bin)
  /\ IF call.op = "npix"
       THEN /\ cpc' = "return"
            /\ LET info == nbin_buffer[call.bin - num_first_buf_bin + 1]
               IN  ans' = [num |-> info.num, start |-> prebuf_pix_num + info.pos, eop |-> FALSE]
       ELSE cpc' = "expand" /\ UNCHANGED ans
  /\ UNCHANGED <<mode, start, windowVars, capVars, callVars, loc, holder, eop, tpc, threadVars>>

\* n_last is the last filled cell; 0 stands for "nothing stored yet" as well.
LastFilled == IF buf_end > 1 THEN buf_end - 1 ELSE Len(nbin_buffer) - 1

LookupAhead ==
  /\ cpc = "lookup" /\ call.bin >= num_last_buf_bin
  /\ loc' = [start |-> num_first_buf_bin, end |-> num_last_buf_bin,
             end_buf |-> IF buf_end > 0 THEN buf_end - 1 ELSE 0, n_last |-> LastFilled]
  /\ cpc' = "update"
  /\ UNCHANGED <<mode, start, windowVars, capVars, callVars, holder, eop, ans, tpc, threadVars>>

LookupBehind ==                   \* cache missed: start from the first bin again
  /\ cpc = "lookup" /\ call.bin < num_first_buf_bin
  /\ loc' = [start |-> 0, end |-> 0,
             end_buf |-> IF buf_end > 0 THEN buf_end - 1 ELSE 0, n_last |-> LastFilled]
  /\ num_first_buf_bin' = 0 /\ num_last_buf_bin' = 0 /\ prebuf_pix_num' = 0
  /\ nbin_buffer' = [nbin_buffer EXCEPT ![LastFilled + 1] = [num |-> 0, pos |-> 0]]
  /\ map_capacity_isknown' = FALSE
  /\ cpc' = "update"
  /\ UNCHANGED <<mode, start, buf_end, numPixInMap, callVars, holder, eop, ans, tpc, threadVars>>

Loaded == InWindow(call.bin, loc.start, loc.end)

UpdateDone ==
  /\ cpc = "update" /\ Loaded
  /\ num_first_buf_bin' = loc.start /\ num_last_buf_bin' = loc.end /\ buf_end' = loc.end_buf
  /\ cpc' = "lookup" /\ loc' = NoLoc
  /\ UNCHANGED <<mode, start, prebuf_pix_num, nbin_buffer, capVars, callVars, holder, eop, ans,
                 tpc, threadVars>>

\* Once the end of the map has been read, its number of pixels is known.
NoteCapacity(eof, before, buf, n) ==
  IF eof /\ ~map_capacity_isknown
  THEN map_capacity_isknown' = TRUE /\ numPixInMap' = before + End(buf[n])
  ELSE UNCHANGED capVars

PixelsPassed == prebuf_pix_num + End(nbin_buffer[loc.n_last + 1])

UpdateRead ==                     \* one turn of the loop without threads
  /\ cpc = "update" /\ ~Loaded /\ ~mode.threads
  /\ LET from == loc.end
         size == Len(nbin_buffer)
         count == ReadCount(from, size)
     IN  /\ prebuf_pix_num' = PixelsPassed
         /\ nbin_buffer' = ReadBins(from, nbin_buffer)
         /\ loc' = [start |-> from, end |-> from + count, end_buf |-> count,
                    n_last |-> loc.n_last]
         /\ NoteCapacity(ReadsToEnd(from, size), PixelsPassed, nbin_buffer', count)
  /\ UNCHANGED <<mode, start, num_first_buf_bin, num_last_buf_bin, buf_end, cpc, callVars,
                 holder, eop, ans, tpc, threadVars>>

(***************************************************************************)
(* The caller's side of the read thread.                                   *)
(***************************************************************************)
ThreadHasData == tpc \in {"asleep", "relock"} /\ nbins_read
Woken == IF tpc = "asleep" THEN "relock" ELSE tpc

QueryData ==                      \* _thread_query_data
  /\ cpc = "update" /\ ~Loaded /\ mode.threads /\ ThreadHasData
  /\ cpc' = IF call.bin < n_first_rbuf_bin THEN "request" ELSE "get"
  /\ UNCHANGED <<mode, start, windowVars, capVars, callVars, loc, holder, eop, ans, tpc, threadVars>>

RequestToRead ==                  \* _thread_request_to_read
  /\ cpc = "request" /\ ThreadHasData
  /\ n_first_rbuf_bin' = loc.start /\ nbins_read' = FALSE /\ tpc' = Woken
  /\ cpc' = "get"
  /\ UNCHANGED <<mode, start, windowVars, capVars, callVars, loc, holder, eop, ans,
                 read_job_completed, thread_read_to_end, rbuf_nbin_end, rbuf_end,
                 thread_nbin_buffer>>

TakeWithoutResize(inbuf) ==       \* mutant: inbuf is not resized before the swap
  /\ thread_nbin_buffer' = inbuf
  /\ n_first_rbuf_bin' = rbuf_nbin_end /\ nbins_read' = FALSE /\ tpc' = Woken
  /\ UNCHANGED <<read_job_completed, thread_read_to_end, rbuf_nbin_end, rbuf_end>>

TakeWithoutAdvance(inbuf) ==      \* mutant: the thread reads the same window again
  /\ thread_nbin_buffer' =
       [i \in 1..Len(thread_nbin_buffer) |->
          IF i <= Len(inbuf) THEN inbuf[i] ELSE [num |-> 0, pos |-> 0]]
  /\ nbins_read' = FALSE /\ tpc' = Woken
  /\ UNCHANGED <<read_job_completed, thread_read_to_end, n_first_rbuf_bin, rbuf_nbin_end, rbuf_end>>

TakeWithoutNotify(inbuf) ==       \* mutant: read_bins_needed is not notified
  /\ thread_nbin_buffer' =
       [i \in 1..Len(thread_nbin_buffer) |->
          IF i <= Len(inbuf) THEN inbuf[i] ELSE [num |-> 0, pos |-> 0]]
  /\ n_first_rbuf_bin' = rbuf_nbin_end /\ nbins_read' = FALSE
  /\ UNCHANGED <<tpc, read_job_completed, thread_read_to_end, rbuf_nbin_end, rbuf_end>>

\* _thread_get_data: inbuf takes the thread's window, the thread inbuf's cells.
TakeThreadData(inbuf) ==
  /\ thread_nbin_buffer' =
       [i \in 1..Len(thread_nbin_buffer) |->
          IF i <= Len(inbuf) THEN inbuf[i] ELSE [num |-> 0, pos |-> 0]]
  /\ n_first_rbuf_bin' = rbuf_nbin_end /\ nbins_read' = FALSE /\ tpc' = Woken
  /\ UNCHANGED <<read_job_completed, thread_read_to_end, rbuf_nbin_end, rbuf_end>>

UpdateGet ==
  /\ cpc = "get" /\ ThreadHasData
  /\ prebuf_pix_num' = PixelsPassed
  /\ nbin_buffer' = thread_nbin_buffer
  /\ TakeThreadData(nbin_buffer)
  /\ loc' = [start |-> n_first_rbuf_bin, end |-> rbuf_nbin_end, end_buf |-> rbuf_end,
             n_last |-> IF rbuf_end > 0 THEN rbuf_end - 1 ELSE loc.n_last]
  /\ NoteCapacity(thread_read_to_end, PixelsPassed, thread_nbin_buffer, rbuf_end)
  /\ cpc' = "update"
  /\ UNCHANGED <<mode, start, num_first_buf_bin, num_last_buf_bin, buf_end, callVars, holder, eop, ans>>

(***************************************************************************)
(* check_expand_pix_map, once the bin is in the window.                    *)
(***************************************************************************)
Loc(b) == b - num_first_buf_bin + 1
BinInfo == nbin_buffer[Loc(call.bin)]
Described ==                      \* num_pix_described
  End(nbin_buffer[num_last_buf_bin - num_first_buf_bin]) - BinInfo.pos

\* lower_bound over the window: first bin that does not fit whole.
FirstOut(n) ==
  Min({i \in Loc(call.bin)..(num_last_buf_bin - num_first_buf_bin) :
         End(nbin_buffer[i]) > n + BinInfo.pos})

ExpandReturn ==
  /\ cpc = "expand"
  /\ \/ /\ BinInfo.num >= call.fit
        /\ ans' = [num |-> BinInfo.num, start |-> 0, eop |-> FALSE]
     \/ /\ BinInfo.num < call.fit /\ Described = call.fit
        /\ ans' = [num |-> Described, start |-> 0, eop |-> FALSE]
     \/ /\ BinInfo.num < call.fit /\ Described > call.fit
        /\ ans' = [num |-> nbin_buffer[FirstOut(call.fit)].pos - BinInfo.pos,
                   start |-> 0, eop |-> FALSE]
     \/ /\ BinInfo.num < call.fit /\ Described < call.fit /\ map_capacity_isknown
        /\ ans' = [num |-> Described, start |-> 0, eop |-> TRUE]
  /\ cpc' = "return"
  /\ UNCHANGED <<mode, start, windowVars, capVars, callVars, loc, holder, eop, tpc, threadVars>>

\* The rest of the window from the bin on, followed by chunks, each shifted by
\* the pixels before it: what _flatten_memory_map makes of the list of chunks.
Kept == [i \in 1..(num_last_buf_bin - call.bin) |->
           LET info == nbin_buffer[Loc(call.bin) + i - 1]
           IN  [num |-> info.num, pos |-> info.pos - BinInfo.pos]]

AddChunk(chunk, map) ==
  map \o [i \in 1..Len(chunk) |->
            [num |-> chunk[i].num, pos |-> chunk[i].pos + End(map[Len(map)])]]

ExpandStart ==
  /\ cpc = "expand" /\ BinInfo.num < call.fit /\ Described < call.fit /\ ~map_capacity_isknown
  /\ holder' = Kept /\ eop' = FALSE
  /\ loc' = [NoLoc EXCEPT !.start = num_last_buf_bin, !.end = Described]
  /\ cpc' = "extend"
  /\ UNCHANGED <<mode, start, windowVars, capVars, callVars, ans, tpc, threadVars>>

\* The loop extends the list of chunks while the bins described hold too few
\* pixels (loc.end) and the file has more bins (loc.start is the next one).
NeedMore == loc.end < call.fit /\ ~eop

ExtendRead ==
  /\ cpc = "extend" /\ NeedMore /\ ~mode.threads
  /\ LET count == ReadCount(loc.start, BufSize)
         chunk == SubSeq(ReadBins(loc.start, Zeros(BufSize)), 1, count)
     IN  /\ holder' = AddChunk(chunk, holder) /\ buf_end' = count
         /\ eop' = ReadsToEnd(loc.start, BufSize)
         /\ loc' = [loc EXCEPT !.start = @ + count, !.end = @ + End(chunk[count])]
  /\ UNCHANGED <<mode, start, num_first_buf_bin, num_last_buf_bin, prebuf_pix_num, nbin_buffer,
                 capVars, cpc, callVars, ans, tpc, threadVars>>

ExtendGet ==
  /\ cpc = "extend" /\ NeedMore /\ mode.threads /\ ThreadHasData
  /\ LET chunk == SubSeq(thread_nbin_buffer, 1, rbuf_end)
     IN  /\ holder' = AddChunk(chunk, holder) /\ buf_end' = rbuf_end
         /\ eop' = thread_read_to_end
         /\ loc' = [loc EXCEPT !.start = rbuf_nbin_end, !.end = @ + End(chunk[rbuf_end])]
  /\ TakeThreadData(Zeros(BufSize))
  /\ UNCHANGED <<mode, start, num_first_buf_bin, num_last_buf_bin, prebuf_pix_num, nbin_buffer,
                 capVars, cpc, callVars, ans>>

FlattenNoPrebuf ==                \* mutant: prebuf_pix_num is not moved to the bin
  /\ cpc = "extend" /\ ~NeedMore
  /\ nbin_buffer' = holder \o SubSeq(nbin_buffer, Len(holder) + 1, Len(nbin_buffer))
  /\ num_first_buf_bin' = call.bin
  /\ num_last_buf_bin' = call.bin + Len(holder)
  /\ buf_end' = Len(holder)
  /\ IF eop /\ ~map_capacity_isknown
       THEN /\ map_capacity_isknown' = TRUE
            /\ numPixInMap' = prebuf_pix_num + End(holder[Len(holder)])
       ELSE UNCHANGED capVars
  /\ holder' = << >> /\ eop' = FALSE /\ loc' = NoLoc
  /\ cpc' = "lookup"
  /\ UNCHANGED <<mode, start, prebuf_pix_num, callVars, ans, tpc, threadVars>>

Flatten ==
  /\ cpc = "extend" /\ ~NeedMore
  /\ prebuf_pix_num' = prebuf_pix_num + BinInfo.pos
  /\ nbin_buffer' = holder \o SubSeq(nbin_buffer, Len(holder) + 1, Len(nbin_buffer))
  /\ num_first_buf_bin' = call.bin
  /\ num_last_buf_bin' = call.bin + Len(holder)
  /\ buf_end' = Len(holder)
  /\ IF eop /\ ~map_capacity_isknown
       THEN /\ map_capacity_isknown' = TRUE
            /\ numPixInMap' = prebuf_pix_num' + End(holder[Len(holder)])
       ELSE UNCHANGED capVars
  /\ holder' = << >> /\ eop' = FALSE /\ loc' = NoLoc
  /\ cpc' = "lookup"               \* check_expand_pix_map calls itself
  /\ UNCHANGED <<mode, start, callVars, ans, tpc, threadVars>>

Return ==
  /\ cpc = "return"
  /\ cpc' = "idle" /\ call' = NoCall /\ ans' = NoAns
  /\ UNCHANGED <<mode, start, windowVars, capVars, cur, loc, holder, eop, tpc, threadVars>>

(***************************************************************************)
(* read_bins_job.                                                          *)
(***************************************************************************)
callerVars == <<mode, start, windowVars, capVars, cpc, callVars, loc, holder, eop, ans>>

JobLoop ==                        \* exchange_lock is taken or kept
  /\ tpc = "loop"
  /\ tpc' = IF read_job_completed THEN "ended" ELSE "test"
  /\ UNCHANGED <<callerVars, threadVars>>

JobTest ==                        \* the predicate of read_bins_needed
  /\ tpc = "test"
  /\ tpc' = IF ~nbins_read \/ read_job_completed THEN "reading" ELSE "block"
  /\ UNCHANGED <<callerVars, threadVars>>

JobBlock ==
  /\ tpc = "block" /\ tpc' = "asleep"
  /\ UNCHANGED <<callerVars, threadVars>>

JobRelock ==
  /\ tpc = "relock" /\ tpc' = "test"
  /\ UNCHANGED <<callerVars, threadVars>>

JobRead ==
  /\ tpc = "reading"
  /\ nbins_read' = TRUE
  /\ \/ /\ read_job_completed
        /\ tpc' = "ended"
        /\ UNCHANGED <<thread_read_to_end, rbuf_nbin_end, rbuf_end, thread_nbin_buffer>>
     \/ /\ ~read_job_completed /\ n_first_rbuf_bin < NumBins
        /\ LET size == Len(thread_nbin_buffer)
               count == ReadCount(n_first_rbuf_bin, size)
           IN  /\ thread_nbin_buffer' = ReadBins(n_first_rbuf_bin, thread_nbin_buffer)
               /\ rbuf_nbin_end' = n_first_rbuf_bin + count /\ rbuf_end' = count
               /\ thread_read_to_end' = ReadsToEnd(n_first_rbuf_bin, size)
        /\ tpc' = "loop"
     \/ /\ ~read_job_completed /\ n_first_rbuf_bin >= NumBins
        /\ rbuf_nbin_end' = NumBins /\ rbuf_end' = 0
        /\ thread_nbin_buffer' = [thread_nbin_buffer EXCEPT ![1] = [num |-> 0, pos |-> 0]]
        /\ tpc' = "loop"
        /\ UNCHANGED thread_read_to_end
  /\ UNCHANGED <<callerVars, read_job_completed, n_first_rbuf_bin>>

(***************************************************************************)
(* finish_read_bin_job: the flags change under bin_read_lock only.         *)
(***************************************************************************)
FinishSet ==
  /\ cpc = "idle" /\ mode.threads
  /\ read_job_completed' = TRUE /\ nbins_read' = FALSE
  /\ cpc' = "finish"
  /\ UNCHANGED <<mode, start, windowVars, capVars, callVars, loc, holder, eop, ans, tpc,
                 thread_read_to_end, n_first_rbuf_bin, rbuf_nbin_end, rbuf_end,
                 thread_nbin_buffer>>

FinishNotify ==
  /\ cpc = "finish" /\ cpc' = "join" /\ tpc' = Woken
  /\ UNCHANGED <<mode, start, windowVars, capVars, callVars, loc, holder, eop, ans, threadVars>>

FinishJoin ==
  /\ cpc = "join" /\ tpc = "ended" /\ cpc' = "finished"
  /\ UNCHANGED <<mode, start, windowVars, capVars, callVars, loc, holder, eop, ans, tpc, threadVars>>

Finished == cpc = "finished" /\ UNCHANGED vars

Methods ==
  \/ LookupHit \/ LookupAhead \/ LookupBehind \/ UpdateDone \/ UpdateRead
  \/ QueryData \/ RequestToRead \/ UpdateGet
  \/ ExpandReturn \/ ExpandStart \/ ExtendRead \/ ExtendGet \/ Flatten \/ Return
  \/ FinishNotify \/ FinishJoin

\* std::condition_variable::wait may wake up by itself; nothing can rely on it.
JobSpurious ==
  /\ tpc = "asleep" /\ tpc' = "relock"
  /\ UNCHANGED <<callerVars, threadVars>>

Job == JobLoop \/ JobTest \/ JobBlock \/ JobRelock \/ JobRead

Next == Call \/ Methods \/ FinishSet \/ Job \/ JobSpurious \/ Finished

\* The caller competes with the read thread for exchange_lock, hence SF: a
\* mutex that is free again and again is obtained at last.
Spec == Init /\ [][Next]_vars /\ SF_vars(Methods) /\ WF_vars(Job)

(***************************************************************************)
(* Properties.                                                             *)
(***************************************************************************)
CellType == [num : Nat, pos : Nat]

\* Every variable keeps its type.
TypeOK ==
  /\ mode \in Modes /\ start \in Files
  /\ num_first_buf_bin \in 0..NumBins /\ num_last_buf_bin \in 0..NumBins
  /\ buf_end \in 0..NumBins /\ prebuf_pix_num \in Nat /\ nbin_buffer \in Seq(CellType)
  /\ map_capacity_isknown \in BOOLEAN /\ numPixInMap \in Nat \cup {Unknown}
  /\ cpc \in {"idle", "lookup", "update", "request", "get", "expand", "extend", "return",
              "finish", "join", "finished"}
  /\ call \in [op : {"none", "npix", "expand"}, bin : Bins, fit : Nat] /\ cur \in Bins
  /\ loc \in [start : Nat, end : Nat, end_buf : Nat, n_last : Nat]
  /\ holder \in Seq(CellType) /\ eop \in BOOLEAN
  /\ ans \in [num : Nat, start : Nat, eop : BOOLEAN]
  /\ tpc \in {"loop", "test", "block", "asleep", "relock", "reading", "ended"}
  /\ nbins_read \in BOOLEAN /\ read_job_completed \in BOOLEAN
  /\ thread_read_to_end \in BOOLEAN
  /\ n_first_rbuf_bin \in 0..NumBins /\ rbuf_nbin_end \in 0..NumBins
  /\ rbuf_end \in 0..BufSize /\ Len(thread_nbin_buffer) = BufSize
  /\ thread_nbin_buffer \in Seq(CellType)

\* get_npix_for_bin returns the "position of the bin pixels in the pixels array,
\* number of pixels stored in this bin" (pix_mem_map.cpp:303) as the file has
\* them, whatever windows were loaded before.  check_expand_pix_map returns the
\* pixels of as many whole bins as fit, the bin's own pixels if already they do
\* not, and reports the end of the file exactly when all pixels left are fewer
\* than asked for.
AnswersRight ==
  /\ cpc = "return" /\ call.op = "npix" =>
       ans.num = NpixOf(start, call.bin) /\ ans.start = start[call.bin]
  /\ cpc = "return" /\ call.op = "expand" =>
       /\ ans.num = WholeBins(start, call.bin, call.fit)
       /\ ans.eop <=> PixIn(start, call.bin, NumBins) < call.fit

\* Between calls the window in memory is a piece of the file's map, at the
\* right place, and buf_end counts its cells: what later calls build upon.
WindowMatchesFile ==
  cpc \in {"idle", "return"} =>
    /\ buf_end = num_last_buf_bin - num_first_buf_bin
    /\ \A b \in num_first_buf_bin..(num_last_buf_bin - 1) :
         nbin_buffer[Loc(b)] =
           [num |-> NpixOf(start, b), pos |-> start[b] - prebuf_pix_num]

\* Read ahead never skips or repeats a bin: between calls the read thread's
\* window starts where the caller's ends, and what it offers is the file's.
ReadAheadContiguous ==
  mode.threads /\ cpc \in {"idle", "return"} =>
    /\ n_first_rbuf_bin = num_last_buf_bin
    /\ nbins_read =>
         /\ rbuf_nbin_end = n_first_rbuf_bin + rbuf_end
         /\ thread_read_to_end \/ rbuf_nbin_end < NumBins
         /\ \A i \in 1..rbuf_end :
              thread_nbin_buffer[i].num = NpixOf(start, n_first_rbuf_bin + i - 1)

\* What later calls build upon is the file's map: the window in memory, and
\* the one the read thread offers as its continuation.
WindowsMatchFile == WindowMatchesFile /\ ReadAheadContiguous

\* Every call on the map returns: neither the loops over windows nor the
\* exchange with the read thread go on for ever.
CallsReturn == (cpc = "lookup") ~> (cpc = "return")
=============================================================================
