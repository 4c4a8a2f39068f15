----------------------------- MODULE MCBinPixels -----------------------------
(***************************************************************************)
(* Grids for the runs, and pixels inside, on the limits and outside.       *)
(***************************************************************************)
EXTENDS BinPixels

XAxis == [lo |-> -2, w |-> 2, n |-> 2]      \* from -2 to 2
EAxis == [lo |-> 0, w |-> 1, n |-> 2]       \* from 0 to 2
GridCoords == {<<-2, 0>>, <<2, 0>>, <<2, 2>>, <<-1, 1>>, <<3, 0>>}

\* A pixel in the first cells of X, on the upper limit of E.
EdgeCoords == {<<-1, 2>>}
=============================================================================
