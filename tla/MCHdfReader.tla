---------------------------- MODULE MCHdfReader ----------------------------
(***************************************************************************)
(* Blocks for the runs, on a file of 24 pixels.                            *)
(***************************************************************************)
EXTENDS HdfReader

B(pos, size) == [pos |-> pos, size |-> size]

\* Blocks smaller than a buffer, as large, several times as large, one
\* that a tenth more takes, and one that ends behind the file.
SomeBlocks == {<<B(1, 2), B(5, 3), B(9, 1), B(12, 6)>>, <<B(3, 10), B(14, 1)>>,
               <<B(20, 3), B(24, 2)>>}
=============================================================================
