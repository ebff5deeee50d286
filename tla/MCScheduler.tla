---------------------------- MODULE MCScheduler ----------------------------
(***************************************************************************)
(* Instances of Scheduler for TLC.  Workers are 1..N, so that the choice   *)
(* of an unused identity is always the same one; N is the number alive or  *)
(* referenced at a time, plus one.                                         *)
(***************************************************************************)
EXTENDS Scheduler, TLC

CONSTANTS s1, s2

OneService  == {s1}
TwoServices == {s1, s2}

ThreeWorkers == 1..3
FiveWorkers  == 1..5
SixWorkers   == 1..6

\* Everything that may go wrong, and the shutdown.
AnyFault == {"listen", "notify", "read", "crash", "stop", "seed"}
\* What loses notifications or fails reads, and the shutdown.
LossyShutdown == {"listen", "notify", "read", "stop"}
Shutdown == {"stop"}
NoFault == {}
=============================================================================
