---------------------------- MODULE MCPixMemMap ----------------------------
(***************************************************************************)
(* Small files for PixMemMap: bins without pixels and bins of two, so that *)
(* each of Fits is met by a bin that alone fills it, by a run of bins that *)
(* fits exactly or with a rest, and by a file that ends before.            *)
(***************************************************************************)
EXTENDS PixMemMap

\* Every file whose bins have so many pixels.
MCNpix == {0, 2}
MCFiles == {[b \in 0..NumBins |-> FoldFunctionOnSet(+, 0, npix, 0..(b - 1))] :
              npix \in [Bins -> MCNpix]}

MCFits == {1, 3, 4}

Sequential == [threads |-> FALSE, access |-> "sequential"]
Threaded   == [threads |-> TRUE, access |-> "random"]

MCModes == {Sequential, Threaded}
=============================================================================
