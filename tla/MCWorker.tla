------------------------------- MODULE MCWorker -------------------------------
(***************************************************************************)
(* Instances of Worker for TLC.                                            *)
(***************************************************************************)
EXTENDS Worker

CONSTANTS w1, w2, c1

TwoWorkers == {w1, w2}
OneClient == {c1}
=============================================================================
