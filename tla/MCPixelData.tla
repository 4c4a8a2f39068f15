----------------------------- MODULE MCPixelData -----------------------------
(***************************************************************************)
(* How PixelData objects are used in the runs: which methods one after     *)
(* another, in any order, besides the getters.                             *)
(***************************************************************************)
EXTENDS PixelData

\* Edits that are all kept, on objects that grow, or that are copied; edits
\* that are kept or discarded.
SomeSessions == {{"edit", "append", "unary"}, {"edit", "copy"}, {"edit", "nosave", "unary"}}
=============================================================================
