---------------------------- MODULE MCCombineJob ----------------------------
(***************************************************************************)
(* Jobs for the runs.                                                      *)
(***************************************************************************)
EXTENDS CombineJob

Bins(counts) == [1..NumBins -> counts]
Of(n, counts) == [1..n -> Bins(counts)]
Jobs(serial, buf, npixes) ==
  {[serial |-> serial, buf |-> buf, npix |-> npix] : npix \in npixes}

\* Bins that fit a buffer, that take up to two and that take more; sections of
\* all, of some and of one bin; empty bins and sections.
SomeJobs ==
  Jobs(TRUE, 3, [1..1 -> Of(1, {0, 1, 4, 7})]) \cup
  Jobs(TRUE, 4, [1..1 -> Of(2, {0, 1, 5})]) \cup
  Jobs(TRUE, 3, [1..1 -> Of(3, {0, 2})]) \cup
  Jobs(FALSE, 2, [1..2 -> Of(1, {0, 1, 2})]) \cup
  Jobs(FALSE, 2, [1..2 -> Of(1, {1, 5})]) \cup
  Jobs(FALSE, 1, [1..2 -> Of(1, {0, 1})]) \cup Jobs(FALSE, 1, [1..2 -> Of(1, {1, 3})]) \cup
  Jobs(FALSE, 2, {<<a, b>> : a \in Of(2, {0, 1}), b \in Of(1, {0, 1})})

ParallelJobs == Jobs(FALSE, 2, [1..2 -> Of(1, {0, 1})])
=============================================================================
