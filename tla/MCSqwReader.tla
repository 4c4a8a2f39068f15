----------------------------- MODULE MCSqwReader -----------------------------
(***************************************************************************)
(* Small files for SqwReader: with a buffer of two pixels, bins of one     *)
(* pixel share it and a bin of three does not fit.                         *)
(***************************************************************************)
EXTENDS SqwReader

Mode(threads, buf, access) == [threads |-> threads, buf |-> buf, access |-> access]

\* Every file whose bins have so many pixels.
MCNpix == {0, 1, 3}
MCFiles == {[b \in 0..NumBins |-> FoldFunctionOnSet(+, 0, npix, 0..(b - 1))] :
              npix \in [Bins -> MCNpix]}

\* The read thread, a buffer and no thread, no buffer.
MCModes ==
  { Mode(TRUE, 2, "ascending"), Mode(TRUE, 2, "random"), Mode(FALSE, 2, "random"),
    Mode(FALSE, 0, "ascending") }
=============================================================================
