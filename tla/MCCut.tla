-------------------------------- MODULE MCCut --------------------------------
(***************************************************************************)
(* Ranges and coordinates for the runs.                                    *)
(***************************************************************************)
EXTENDS Cut

R(pos, size) == [pos |-> pos, size |-> size]

\* No range; one chunk; ranges that touch; a range of more than two buffers;
\* chunks that end between and inside ranges.
SomeRanges == {<< >>, <<R(2, 2)>>, <<R(1, 1), R(2, 1), R(4, 2)>>, <<R(1, 5)>>,
               <<R(1, 1), R(3, 3)>>}
LineCoords == {-1, 0, 1}
LineCell == (-1 :> 2) @@ (0 :> 0) @@ (1 :> 1)
KeepAll == {<<TRUE, FALSE>>, <<TRUE, TRUE>>, <<FALSE, FALSE>>}

\* Ten ranges of nine tenths of a buffer.
NineTenths == {[k \in 1..10 |-> R(20 * k, 9)]}
OneCoord == {1}
AllIn == 1 :> 1
KeepNone == {<<FALSE, FALSE>>}
=============================================================================
