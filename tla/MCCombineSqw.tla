----------------------------- MODULE MCCombineSqw -----------------------------
(***************************************************************************)
(* Small images for CombineSqw.  With a buffer of two pixels, cells hold   *)
(* 1, 0, 1, 3, 0, 1 pixels: an empty bin inside a chunk, a chunk that      *)
(* fills the buffer exactly, a bin larger than the buffer (which grows it  *)
(* while the other vector keeps its size) and empty and non-empty bins     *)
(* after it.                                                               *)
(***************************************************************************)
EXTENDS CombineSqw

MCNumBins  == 6
MCBinStart == [b \in 0..6 |-> <<0, 1, 1, 2, 5, 5, 6>>[b + 1]]

\* Three single-pixel bins through a one-pixel buffer: three chunks.
SmallNumBins  == 3
SmallBinStart == [b \in 0..3 |-> b]
=============================================================================
