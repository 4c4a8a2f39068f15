---------------------------- MODULE ExchangeBuffer ----------------------------
(***************************************************************************)
(* The double buffer through which combine_sqw's reader thread hands whole *)
(* bins of pixels to its writer thread: class exchange_buffer of           *)
(* _LowLevelCode/cpp/combine_sqw.  Two pixel vectors (read_buf, filled by  *)
(* the reader, and write_buf, emptied by the writer) are swapped under     *)
(* three mutexes and two condition variables.                              *)
(*                                                                         *)
(* Every step below is a stretch of code that takes at most one mutex, so  *)
(* that the steps of the two threads interleave wherever the code lets     *)
(* them.  The steps of a method are named after it; pc[t] says where       *)
(* thread t stands.  A thread that is blocked in condition_variable::wait  *)
(* stands at an "..._asleep" label.  The module has no Spec of its own:    *)
(* CombineSqw adds the three threads that call these methods.              *)
(***************************************************************************)
EXTENDS Integers, Sequences

CONSTANT MaxSpurious    \* bound: how many wake-ups nobody asked for may happen

ASSUME SpuriousAssumption == MaxSpurious \in Nat

VARIABLES
  pc,                   \* where each thread stands
  owner,                \* the thread that holds each mutex
  spurious,             \* spurious wake-ups so far
  writer_ready,         \* predicate of condition variable data_written
  write_allowed,        \* predicate of condition variable data_ready
  read_buf, write_buf,  \* the two vectors of pixels
  buf_size,             \* the size get_read_buffer gives read_buf, in pixels
  n_read_pixels,        \* pixels of write_buf still to be written
  n_bins_processed,     \* bins delivered to the writer, with the last chunk
  interrupted, error_message,
  write_job_completed,
  do_logging

swapVars == <<write_buf, n_read_pixels, n_bins_processed>>
readVars == <<read_buf, buf_size>>
handVars == <<writer_ready, write_allowed>>
flagVars == <<interrupted, error_message, write_job_completed, do_logging>>
dataVars == <<swapVars, readVars, handVars, flagVars>>
bufferVars == <<pc, owner, spurious, dataVars>>

Threads == {"reader", "writer", "main"}
Mutexes == {"data_written_lock", "data_ready_lock", "write_lock"}
Nobody  == "nobody"
Blank   == 0            \* what vector::resize fills new elements with
Messages == {"none", "ctrl_c", "too_small"}

(***************************************************************************)
(* Construction, and the helpers every step is written with.               *)
(***************************************************************************)
BufferInit(size) ==
  /\ owner = [m \in Mutexes |-> Nobody]
  /\ spurious = 0
  /\ writer_ready = TRUE /\ write_allowed = FALSE
  /\ read_buf = << >> /\ write_buf = << >> /\ buf_size = size
  /\ n_read_pixels = 0 /\ n_bins_processed = 0
  /\ interrupted = FALSE /\ error_message = "none"
  /\ write_job_completed = FALSE /\ do_logging = FALSE

Goto(t, from, to) == pc[t] = from /\ pc' = [pc EXCEPT ![t] = to]

\* The thread moves on and notify_one wakes u if u is blocked in its wait.
GotoAndNotify(t, from, to, u, asleep, awake) ==
  /\ pc[t] = from
  /\ pc' = [pc EXCEPT ![t] = to, ![u] = IF @ = asleep THEN awake ELSE @]

Lock(t, m)   == owner[m] = Nobody /\ owner' = [owner EXCEPT ![m] = t]
Unlock(ms)   == owner' = [m \in Mutexes |-> IF m \in ms THEN Nobody ELSE owner[m]]

Resize(buf, n) == [i \in 1..n |-> IF i <= Len(buf) THEN buf[i] ELSE Blank]

(***************************************************************************)
(* Mutated steps: what a plausible slip in the code would make of a step   *)
(* below.  No definition uses them; they show that the properties notice.  *)
(***************************************************************************)
\* send does not claim the writer (writer_ready = false missing)
SendTestNotClaimed ==
  /\ Goto("reader", "send_test", IF writer_ready THEN "send_own" ELSE "send_block")
  /\ UNCHANGED <<owner, spurious, dataVars>>

\* unlock_write_buffer without data_written.notify_one()
UnlockResetSilent ==
  /\ Goto("writer", "unlock_reset", "unlock_return")
  /\ n_read_pixels' = 0 /\ writer_ready' = TRUE
  /\ UNCHANGED <<owner, spurious, write_buf, n_bins_processed, readVars, write_allowed, flagVars>>

(***************************************************************************)
(* send_read_buffer_to_writer: the reader waits for writer_ready, swaps    *)
(* the buffers under write_lock and tells the writer.                      *)
(***************************************************************************)
SendLock ==
  /\ Goto("reader", "send_lock", "send_test") /\ Lock("reader", "data_written_lock")
  /\ UNCHANGED <<spurious, dataVars>>

SendTest ==                       \* the wait's predicate, under data_written_lock
  /\ Goto("reader", "send_test", IF writer_ready THEN "send_own" ELSE "send_block")
  /\ writer_ready' = FALSE
  /\ UNCHANGED <<owner, spurious, swapVars, readVars, write_allowed, flagVars>>

SendBlock ==                      \* wait releases the mutex and blocks at once
  /\ Goto("reader", "send_block", "send_asleep") /\ Unlock({"data_written_lock"})
  /\ UNCHANGED <<spurious, dataVars>>

SendOwn ==
  /\ Goto("reader", "send_own", "send_swap") /\ Lock("reader", "write_lock")
  /\ UNCHANGED <<spurious, dataVars>>

SendSwap(nPixels, nBinsProcessed) ==
  /\ Goto("reader", "send_swap", "send_ready")
  /\ write_buf' = read_buf /\ read_buf' = write_buf
  /\ n_read_pixels' = nPixels /\ n_bins_processed' = nBinsProcessed
  /\ UNCHANGED <<owner, spurious, buf_size, handVars, flagVars>>

SendReady ==
  /\ Goto("reader", "send_ready", "send_allow") /\ Lock("reader", "data_ready_lock")
  /\ UNCHANGED <<spurious, dataVars>>

SendAllow ==
  /\ GotoAndNotify("reader", "send_allow", "send_unlock", "writer", "wait_asleep", "wait_lock")
  /\ write_allowed' = TRUE
  /\ UNCHANGED <<owner, spurious, swapVars, readVars, writer_ready, flagVars>>

SendUnlock ==
  /\ Goto("reader", "send_unlock", "send_return") /\ Unlock({"write_lock"})
  /\ UNCHANGED <<spurious, dataVars>>

SendReturn ==                     \* both unique_locks end with the method
  /\ Goto("reader", "send_return", "read_loop")
  /\ Unlock({"data_ready_lock", "data_written_lock"})
  /\ UNCHANGED <<spurious, dataVars>>

(***************************************************************************)
(* wait_for_reader_data: the writer waits for write_allowed and leaves     *)
(* with write_lock held.                                                   *)
(***************************************************************************)
WaitLock ==
  /\ Goto("writer", "wait_lock", "wait_test") /\ Lock("writer", "data_ready_lock")
  /\ UNCHANGED <<spurious, dataVars>>

WaitTest ==                       \* reads write_allowed; set_write_allowed may set it next
  /\ Goto("writer", "wait_test", IF write_allowed THEN "wait_own" ELSE "wait_block")
  /\ UNCHANGED <<owner, spurious, dataVars>>

WaitBlock ==
  /\ Goto("writer", "wait_block", "wait_asleep") /\ Unlock({"data_ready_lock"})
  /\ UNCHANGED <<spurious, dataVars>>

WaitOwn ==
  /\ Goto("writer", "wait_own", "wait_return") /\ Lock("writer", "write_lock")
  /\ write_allowed' = FALSE
  /\ UNCHANGED <<spurious, swapVars, readVars, writer_ready, flagVars>>

WaitReturn ==
  /\ Goto("writer", "wait_return", "write_get") /\ Unlock({"data_ready_lock"})
  /\ UNCHANGED <<spurious, dataVars>>

(***************************************************************************)
(* unlock_write_buffer: the writer gives the chunk up.                     *)
(***************************************************************************)
UnlockLock ==
  /\ Goto("writer", "unlock_lock", "unlock_reset") /\ Lock("writer", "data_written_lock")
  /\ UNCHANGED <<spurious, dataVars>>

UnlockReset ==
  /\ GotoAndNotify("writer", "unlock_reset", "unlock_return", "reader", "send_asleep", "send_lock")
  /\ n_read_pixels' = 0 /\ writer_ready' = TRUE
  /\ UNCHANGED <<owner, spurious, write_buf, n_bins_processed, readVars, write_allowed, flagVars>>

UnlockReturn ==                   \* write_lock.unlock(), then the unique_lock ends
  /\ Goto("writer", "unlock_return", "write_loop")
  /\ Unlock({"write_lock", "data_written_lock"})
  /\ UNCHANGED <<spurious, dataVars>>

(***************************************************************************)
(* set_write_allowed: the reader's last call.  It sets the predicate of    *)
(* data_ready under write_lock, not under data_ready_lock.                 *)
(***************************************************************************)
AllowLock ==
  /\ Goto("reader", "allow_lock", "allow_set") /\ Lock("reader", "write_lock")
  /\ UNCHANGED <<spurious, dataVars>>

AllowSet ==
  /\ GotoAndNotify("reader", "allow_set", "allow_return", "writer", "wait_asleep", "wait_lock")
  /\ write_allowed' = TRUE
  /\ UNCHANGED <<owner, spurious, swapVars, readVars, writer_ready, flagVars>>

AllowReturn ==
  /\ Goto("reader", "allow_return", "read_end") /\ Unlock({"write_lock"})
  /\ UNCHANGED <<spurious, dataVars>>

(***************************************************************************)
(* The flags.  check_logging compares the bins with a break point that     *)
(* depends on the clock: it may or may not ask for a message.              *)
(***************************************************************************)
CheckLogging(due) == do_logging' = (do_logging \/ due)

SetInterrupted(message) == interrupted' = TRUE /\ error_message' = message

SetWriteJobCompleted ==
  /\ Goto("writer", "write_done", "write_end")
  /\ write_job_completed' = TRUE /\ do_logging' = TRUE
  /\ UNCHANGED <<owner, spurious, swapVars, readVars, handVars, interrupted, error_message>>

\* condition_variable::wait may return without a notification.
SpuriousWake ==
  /\ spurious < MaxSpurious /\ spurious' = spurious + 1
  /\ \/ Goto("reader", "send_asleep", "send_lock")
     \/ Goto("writer", "wait_asleep", "wait_lock")
  /\ UNCHANGED <<owner, dataVars>>

WriterMethods ==
  \/ WaitLock \/ WaitTest \/ WaitBlock \/ WaitOwn \/ WaitReturn
  \/ UnlockLock \/ UnlockReset \/ UnlockReturn \/ SetWriteJobCompleted

ReaderMethods ==
  \/ SendLock \/ SendTest \/ SendBlock \/ SendOwn \/ SendReady \/ SendAllow
  \/ SendUnlock \/ SendReturn \/ AllowLock \/ AllowSet \/ AllowReturn
=============================================================================
