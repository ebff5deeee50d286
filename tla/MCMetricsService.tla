--------------------------- MODULE MCMetricsService ---------------------------
(***************************************************************************)
(* Instances of modules MetricsService and CheckHistory for TLC.           *)
(***************************************************************************)
EXTENDS MetricsService, TLC

CONSTANTS r1, r2

TwoReaders == {r1, r2}
ReaderSymmetry == Permutations(TwoReaders)
=============================================================================
