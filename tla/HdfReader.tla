------------------------------ MODULE HdfReader ------------------------------
(***************************************************************************)
(* Pixels read from an nxsqw file in portions: read_pixels of              *)
(* hdf_pix_group, which hands blocks of pixels to hdf_mex_reader or reads  *)
(* them itself.  A read that a buffer cuts short is continued by the next: *)
(* the mex file keeps the block and the place in it behind a handle,       *)
(* Matlab keeps what is left of the blocks.                                *)
(*                                                                         *)
(* A pixel is its position on the file, a block its first position and     *)
(* size.  Portions are for one thread: init_access sets n_threads to 1.    *)
(***************************************************************************)
EXTENDS DataBlocks, FiniteSets

CONSTANTS
  Handles,      \* hdf_pix_group objects
  MexHandles,   \* those with use_mex_to_read
  Requests,     \* sequences of [pos, size], none of size 0
  Bufs,         \* sizes of buffers
  MaxOpen,      \* bound: objects open at a time
  MaxPix        \* max_num_pixels_ of the file

ASSUME HdfAssumption ==
  /\ MexHandles \subseteq Handles /\ Bufs \subseteq Nat /\ MaxPix \in Nat /\ MaxOpen \in Nat
  /\ \A r \in Requests : r \in Seq(Block) /\ r # << >>

VARIABLES
  open,                     \* objects initialized
  req, want, got,           \* object: blocks asked for; ghosts: their pixels, those delivered
  read_op_completed_,
  at,                       \* mex: <<n_first_block, pos_in_first_block>>, blocks from 1
  matlab_read_info_cache_,  \* Matlab: blocks left
  num_locks, locks,         \* locks of the handle; of the mex file
  failed                    \* ghost: throw_error was called

vars == <<open, req, want, got, read_op_completed_, at, matlab_read_info_cache_, num_locks,
          locks, failed>>

NoRequest == << >>
Fewest(a, b) == IF a < b THEN a ELSE b

Init ==
  /\ open = {} /\ locks = 0 /\ failed = FALSE
  /\ req = [h \in Handles |-> NoRequest]
  /\ want = [h \in Handles |-> << >>] /\ got = [h \in Handles |-> << >>]
  /\ read_op_completed_ = [h \in Handles |-> TRUE]
  /\ at = [h \in Handles |-> <<1, 0>>]
  /\ matlab_read_info_cache_ = [h \in Handles |-> << >>]
  /\ num_locks = [h \in Handles |-> 0]

(***************************************************************************)
(* The portion of mode 'read': as many pixels as fit the buffer, from      *)
(* place p of block first on.                                              *)
(***************************************************************************)
NpixToReadUnlimited(bs, first, p, buf) ==   \* mutant: all that is left
  SizeOf(bs) - UpTo(bs, first - 1) - p
\* parse_inputs.  The buffer never grows: a portion that is larger is also
\* larger than the buffer when it is taken 1.1 times.
NpixToRead(bs, first, p, buf) == Fewest(buf, SizeOf(bs) - UpTo(bs, first - 1) - p)

Selected(bs, first, p, k) == UpTo(bs, k) - UpTo(bs, first - 1) - p
LastOf(bs, first, p, n) == Min({k \in first..Len(bs) : Selected(bs, first, p, k) >= n})

\* split_pix_block: where the block with the last pixel is cut, and where
\* the next portion begins.
CutPos(bs, first, p, n) ==
  LET last == LastOf(bs, first, p, n)
  IN  bs[last].size - (Selected(bs, first, p, last) - n)
NextAtKeepsBlock(bs, first, p, n) ==        \* mutant: a block read to its end is not left
  <<LastOf(bs, first, p, n), CutPos(bs, first, p, n)>>
NextAt(bs, first, p, n) ==
  LET last == LastOf(bs, first, p, n)
  IN  IF Selected(bs, first, p, last) = n THEN <<last + 1, 0>>
      ELSE <<last, CutPos(bs, first, p, n)>>

\* block_pos and block_size of pix_block_processor.
PortionFromStart(bs, first, p, n) ==        \* mutant: block_pos forgets the place
  LET last == LastOf(bs, first, p, n)
      cut(k) == IF k = last THEN CutPos(bs, first, p, n) ELSE bs[k].size
      skip(k) == IF k = first THEN p ELSE 0
  IN  [i \in 1..(last - first + 1) |->
         LET k == first + i - 1 IN [pos |-> bs[k].pos, size |-> cut(k) - skip(k)]]
Portion(bs, first, p, n) ==
  LET last == LastOf(bs, first, p, n)
      cut(k) == IF k = last THEN CutPos(bs, first, p, n) ELSE bs[k].size
      skip(k) == IF k = first THEN p ELSE 0
  IN  [i \in 1..(last - first + 1) |->
         LET k == first + i - 1 IN [pos |-> bs[k].pos + skip(k), size |-> cut(k) - skip(k)]]

(***************************************************************************)
(* split_npix_pos for one part: blocks that fit; the first one that does   *)
(* not goes with them when a tenth more takes it, or is cut.               *)
(***************************************************************************)
Fits(bs, buf) == Max({k \in 0..Len(bs) : UpTo(bs, k) <= buf})
From(bs, k) == SubSeq(bs, k, Len(bs))
CutBlock(bs, k, n) == <<[bs[k] EXCEPT !.pos = @ + n, !.size = @ - n]>> \o From(bs, k + 1)

SplitNpix(bs, buf) ==                       \* <<blocks to read, blocks left>>
  LET k == Fits(bs, buf)
      n == buf - UpTo(bs, k)                \* what block k + 1 gives when it is cut
  IN  IF k = Len(bs) THEN <<bs, << >>>>
      ELSE IF k < 2 /\ 10 * UpTo(bs, k + 1) <= 11 * buf
      THEN <<SubSeq(bs, 1, k + 1), From(bs, k + 2)>>
      ELSE IF k >= 2 THEN <<SubSeq(bs, 1, k), From(bs, k + 1)>>
      ELSE <<Append(SubSeq(bs, 1, k), [bs[k + 1] EXCEPT !.size = n]), CutBlock(bs, k + 1, n)>>

(***************************************************************************)
(* Operations.  A read continues the last one (the caller passes its       *)
(* blocks again) or starts with new blocks; after an error it starts.      *)
(***************************************************************************)
OpenHandle(h) ==
  /\ h \notin open /\ Cardinality(open) < MaxOpen /\ open' = open \cup {h}
  /\ IF h \in MexHandles
     THEN num_locks' = [num_locks EXCEPT ![h] = 1] /\ locks' = locks + 1
     ELSE UNCHANGED <<num_locks, locks>>
  /\ UNCHANGED <<req, want, got, read_op_completed_, at, matlab_read_info_cache_, failed>>

Unlocked(n) == IF locks > n THEN locks - n ELSE 0

OpenFails(h) ==                             \* throw_error, from accessor's init
  /\ h \notin open /\ h \in MexHandles
  /\ locks' = Unlocked(1) /\ failed' = TRUE
  /\ UNCHANGED <<open, req, want, got, read_op_completed_, at, matlab_read_info_cache_,
                 num_locks>>

\* What is remembered of the object goes with it; a new one starts afresh.
Forget(h) ==
  /\ req' = [req EXCEPT ![h] = NoRequest]
  /\ want' = [want EXCEPT ![h] = << >>] /\ got' = [got EXCEPT ![h] = << >>]
  /\ read_op_completed_' = [read_op_completed_ EXCEPT ![h] = TRUE]
  /\ at' = [at EXCEPT ![h] = <<1, 0>>]
  /\ matlab_read_info_cache_' = [matlab_read_info_cache_ EXCEPT ![h] = << >>]

CloseLeavesLock(h) ==                       \* mutant: the lock stays
  /\ h \in open /\ open' = open \ {h} /\ Forget(h)
  /\ num_locks' = [num_locks EXCEPT ![h] = 0]
  /\ UNCHANGED <<locks, failed>>
Close(h) ==
  /\ h \in open /\ open' = open \ {h} /\ Forget(h)
  /\ num_locks' = [num_locks EXCEPT ![h] = 0] /\ locks' = Unlocked(num_locks[h])
  /\ UNCHANGED failed

\* op: the flag read_op_completed; the blocks asked for, and the ghosts.
Asks(h, op, bs) ==
  /\ h \in open
  /\ IF op THEN bs \in Requests ELSE bs = req[h] /\ bs # NoRequest
  /\ want' = [want EXCEPT ![h] = PixelsOf(bs)]
Had(h, op) == IF op THEN << >> ELSE got[h]
Delivers(h, op, bs, pixels) ==
  req' = [req EXCEPT ![h] = bs] /\ got' = [got EXCEPT ![h] = Had(h, op) \o PixelsOf(pixels)]
Refuses(h, op) == req' = [req EXCEPT ![h] = NoRequest] /\ got' = [got EXCEPT ![h] = Had(h, op)]
InFile(bs) == \A k \in DOMAIN bs : bs[k].pos + bs[k].size - 1 <= MaxPix
Completed(h, b) == read_op_completed_' = [read_op_completed_ EXCEPT ![h] = b]
Place(h, op) == IF op THEN <<1, 0>> ELSE at[h]

\* Nothing to read: no buffer, or no block left.
ReadIdle(h, op, bs, buf) ==
  LET p == Place(h, op)
  IN  /\ h \in MexHandles /\ Asks(h, op, bs) /\ (buf = 0 \/ p[1] > Len(bs))
      /\ at' = [at EXCEPT ![h] = p] /\ Completed(h, p[1] > Len(bs) /\ p[2] = 0)
      /\ Delivers(h, op, bs, << >>)
      /\ UNCHANGED <<open, matlab_read_info_cache_, num_locks, locks, failed>>

ReadMex(h, op, bs, buf) ==
  LET p == Place(h, op)
      n == NpixToRead(bs, p[1], p[2], buf)
      next == NextAt(bs, p[1], p[2], n)
      blocks == Portion(bs, p[1], p[2], n)
  IN  /\ h \in MexHandles /\ Asks(h, op, bs) /\ buf > 0 /\ p[1] <= Len(bs)
      /\ IF InFile(blocks)
         THEN /\ at' = [at EXCEPT ![h] = next]
              /\ Completed(h, next[1] > Len(bs) /\ next[2] = 0)
              /\ Delivers(h, op, bs, blocks)
              /\ UNCHANGED <<locks, failed>>
         ELSE /\ at' = [at EXCEPT ![h] = p] /\ Completed(h, op) /\ Refuses(h, op)
              /\ locks' = Unlocked(1) /\ failed' = TRUE
      /\ UNCHANGED <<open, matlab_read_info_cache_, num_locks>>

ReadMatlab(h, op, bs, buf) ==
  LET split == SplitNpix(IF op THEN bs ELSE matlab_read_info_cache_[h], buf)
  IN  /\ h \notin MexHandles /\ Asks(h, op, bs)
      /\ op \/ matlab_read_info_cache_[h] # << >>
      /\ IF InFile(split[1])
         THEN /\ matlab_read_info_cache_' = [matlab_read_info_cache_ EXCEPT ![h] = split[2]]
              /\ Completed(h, split[2] = << >>)
              /\ Delivers(h, op, bs, split[1])
         ELSE Completed(h, op) /\ Refuses(h, op) /\ UNCHANGED matlab_read_info_cache_
      /\ UNCHANGED <<open, at, num_locks, locks, failed>>

Read(h, op, bs, buf) ==
  ReadIdle(h, op, bs, buf) \/ ReadMex(h, op, bs, buf) \/ ReadMatlab(h, op, bs, buf)

Next ==
  \E h \in Handles :
    \/ OpenHandle(h) \/ OpenFails(h) \/ Close(h)
    \/ \E op \in BOOLEAN, bs \in Requests, buf \in Bufs : Read(h, op, bs, buf)

Spec == Init /\ [][Next]_vars

(***************************************************************************)
(* Properties.                                                             *)
(***************************************************************************)
\* Every variable keeps its type; a place kept is inside its block.
TypeOK ==
  /\ open \subseteq Handles /\ req \in [Handles -> Requests \cup {NoRequest}]
  /\ \A h \in Handles : want[h] \in Seq(Nat) /\ got[h] \in Seq(Nat)
  /\ read_op_completed_ \in [Handles -> BOOLEAN] /\ at \in [Handles -> Nat \X Nat]
  /\ \A h \in Handles : req[h] # NoRequest /\ at[h][1] <= Len(req[h]) =>
       at[h][2] < req[h][at[h][1]].size
  /\ \A h \in Handles : matlab_read_info_cache_[h] \in Seq([pos : Nat, size : Nat])
  /\ num_locks \in [Handles -> {0, 1}] /\ locks \in Nat /\ failed \in BOOLEAN

\* Portions put together are the pixels of the blocks, in their order; the
\* flag says completed when they are all there and not before.
StreamInOrder ==
  \A h \in open : req[h] # NoRequest =>
    /\ IsPrefix(got[h], want[h])
    /\ read_op_completed_[h] <=> got[h] = want[h]

\* As long as no call failed the mex file holds one lock for every reader
\* that is open: it cannot be cleared from under one.
LocksMatchHandles == ~failed => locks = Cardinality(open \cap MexHandles)

\* A read with room in its buffer that is not refused gets on, and returns
\* no more than the buffer holds (a tenth more from Matlab).
ReadDelivers ==
  [][\A h \in open, op \in BOOLEAN, buf \in Bufs :
       req'[h] # NoRequest /\ Read(h, op, req'[h], buf) =>
         LET n == Len(got'[h]) - Len(Had(h, op))
         IN  /\ 10 * n <= (IF h \in MexHandles THEN 10 ELSE 11) * buf
             /\ buf > 0 /\ Len(Had(h, op)) < Len(want'[h]) => n > 0]_vars
=============================================================================
