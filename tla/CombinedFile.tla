----------------------------- MODULE CombinedFile -----------------------------
(***************************************************************************)
(* What combining promises the caller of combine_sqw.  Pixels reach the    *)
(* target's pixel section in order and by whole bins, none lost and none   *)
(* twice; the call succeeds only with all of them in place, and otherwise  *)
(* it reports that it was interrupted.                                     *)
(***************************************************************************)
EXTENDS Integers, Sequences

CONSTANTS NumBins, BinStart

VARIABLES
  written,     \* the pixel section of the target file
  result       \* "running", "completed" or "interrupted"

resultVars == <<written, result>>

\* The pixels of the first b bins, in order.
PixelsBefore(b) == [i \in 1..BinStart[b] |-> i]

Init == written = << >> /\ result = "running"

\* One or more further bins arrive, whole.
WriteBins ==
  /\ result = "running"
  /\ \E b \in 0..NumBins :
       Len(written) <= BinStart[b] /\ written' = PixelsBefore(b)
  /\ UNCHANGED result

Complete ==
  /\ result = "running" /\ written = PixelsBefore(NumBins)
  /\ result' = "completed" /\ UNCHANGED written

Interrupt ==
  /\ result = "running"
  /\ result' = "interrupted" /\ UNCHANGED written

Next == WriteBins \/ Complete \/ Interrupt

Spec == Init /\ [][Next]_resultVars
=============================================================================
