----------------------------- MODULE MCIncidents -----------------------------
(***************************************************************************)
(* Instances of module Incidents for TLC.  Handlers are interchangeable in *)
(* every property of the two-handler run.                                  *)
(***************************************************************************)
EXTENDS Incidents

CONSTANTS h1, h2

OneHandler == {h1}
TwoHandlers == {h1, h2}
HandlerSymmetry == Permutations(TwoHandlers)

\* The faults of each run.
AllOfThem == AllFaults
TwoHandlerFaults == {"smtp", "abort"}
LogFault == {"log"}
AbortFault == {"abort"}
=============================================================================
