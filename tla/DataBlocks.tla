------------------------------ MODULE DataBlocks ------------------------------
(***************************************************************************)
(* split_data_blocks: ranges of pixels on a file dealt out to chunks of    *)
(* about the size of a buffer.  A block is its first position and size.    *)
(* split_npix_pos and the mex reader of HDF files add up sizes alike.      *)
(***************************************************************************)
EXTENDS SequencesExt, Sums

Block == [pos : Nat \ {0}, size : Nat \ {0}]

UpTo(bs, k) == SumTo([j \in DOMAIN bs |-> bs[j].size], k)
SizeOf(bs) == UpTo(bs, Len(bs))

Span(b) == b.pos..(b.pos + b.size - 1)
Positions(bs) == UNION {Span(bs[k]) : k \in DOMAIN bs}
Ascending(bs) == \A k \in 1..(Len(bs) - 1) : bs[k].pos + bs[k].size <= bs[k + 1].pos

\* The positions of the pixels of blocks, in the order they are read.
BlockAt(bs, j) == CHOOSE k \in DOMAIN bs : UpTo(bs, k - 1) < j /\ j <= UpTo(bs, k)
PixelsOf(bs) ==
  [j \in 1..SizeOf(bs) |->
     LET k == BlockAt(bs, j) IN bs[k].pos + j - 1 - UpTo(bs, k - 1)]

\* Blocks that touch become one.
Touch(a, b) == a.pos + a.size = b.pos
Glue(bs) ==
  LET glued[k \in 0..Len(bs)] ==
        IF k = 0 THEN << >>
        ELSE LET g == glued[k - 1]
             IN  IF g # << >> /\ Touch(g[Len(g)], bs[k])
                 THEN [g EXCEPT ![Len(g)].size = @ + bs[k].size]
                 ELSE Append(g, bs[k])
  IN  glued[Len(bs)]

\* Blocks of two buffers and more are cut; the last part takes the rest.
SplitRangeEqual(b, buf) ==                  \* mutant: the rest is left out
  IF b.size < 2 * buf THEN <<b>>
  ELSE [k \in 1..(b.size \div buf) |-> [pos |-> b.pos + (k - 1) * buf, size |-> buf]]
SplitRangeLong(b, buf) ==                   \* mutant: the last part takes too much
  IF b.size < 2 * buf THEN <<b>>
  ELSE LET n == b.size \div buf
       IN  [k \in 1..n |-> [pos |-> b.pos + (k - 1) * buf,
                            size |-> IF k < n THEN buf ELSE b.size - (n - 2) * buf]]
SplitRange(b, buf) ==
  IF b.size < 2 * buf THEN <<b>>
  ELSE LET n == b.size \div buf
       IN  [k \in 1..n |-> [pos |-> b.pos + (k - 1) * buf,
                            size |-> IF k < n THEN buf ELSE b.size - (n - 1) * buf]]
SplitBig(blocks, buf) ==
  LET split[k \in 0..Len(blocks)] ==
        IF k = 0 THEN << >> ELSE split[k - 1] \o SplitRange(blocks[k], buf)
  IN  IF \A k \in DOMAIN blocks : blocks[k].size <= 2 * buf THEN blocks
      ELSE split[Len(blocks)]

\* No more chunks than buffers the pixels would fill.
MaxChunks(blocks, buf) == (SizeOf(blocks) + buf - 1) \div buf

\* The block a chunk that begins with block first ends with: the one that
\* fills the buffer (none may be left that does), or the one before it when
\* those before fill nine tenths already and it is more than a tenth.
LastBlock(blocks, buf, first) ==
  LET size(k) == UpTo(blocks, k) - UpTo(blocks, first - 1)
      enough  == {k \in first..Len(blocks) : size(k) >= buf}
  IN  IF enough = {} THEN Len(blocks)
      ELSE LET last_ind == Min(enough)
           IN  IF 10 * size(last_ind - 1) >= 9 * buf /\ 10 * blocks[last_ind].size > buf
               THEN last_ind - 1 ELSE last_ind
=============================================================================
