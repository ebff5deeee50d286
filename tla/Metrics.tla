------------------------------- MODULE Metrics -------------------------------
(***************************************************************************)
(* The two pure functions of services/metrics.py.  A check is a record     *)
(* [at, up]; "at" counts ticks of 1/Unit second, because int() throws the  *)
(* fraction of a second of every difference away.  A ratio is the record   *)
(* [num, den] of its numerator and denominator, so that nothing is lost to *)
(* division.                                                               *)
(***************************************************************************)
EXTENDS Integers, Sequences, SequencesExt, FiniteSetsExt

CONSTANT Unit          \* ticks in a second

ASSUME UnitAssumption == Unit \in Nat \ {0}

\* int((later - earlier).total_seconds()) of a difference of d >= 0 ticks.
SecondsUp(d) == (d + Unit - 1) \div Unit
Seconds(d) == d \div Unit

-----------------------------------------------------------------------------
\* compute_current_uptime: one turn of the loop.
UptimeStepNoReset(acc, check) ==
  [ uptime |-> IF acc.up /\ check.up THEN acc.uptime + Seconds(check.at - acc.at)
               ELSE acc.uptime,
    up |-> check.up, at |-> check.at ]

UptimeStep(acc, check) ==
  [ uptime |-> IF ~check.up THEN 0
               ELSE IF acc.up THEN acc.uptime + Seconds(check.at - acc.at)
               ELSE acc.uptime,
    up |-> check.up, at |-> check.at ]

CurrentUptime(checks) ==
  FoldLeft(UptimeStep, [uptime |-> 0, up |-> FALSE, at |-> 0], checks).uptime

-----------------------------------------------------------------------------
AllUp(checks) == \A i \in DOMAIN checks : checks[i].up

\* The positions whose check and the one before it are both up.
UpGapsOfCheck(checks) == {i \in 2..Len(checks) : checks[i].up}
UpGaps(checks) == {i \in 2..Len(checks) : checks[i - 1].up /\ checks[i].up}

TotalUptime(checks) ==
  MapThenSumSet(LAMBDA i : Seconds(checks[i].at - checks[i - 1].at), UpGaps(checks))

MonitoringTime(checks) == Seconds(Last(checks).at - Head(checks).at)

\* compute_sla.  One check, or checks within one second, count as all or nothing.
Sla(checks) ==
  IF checks = <<>> THEN [num |-> 0, den |-> 1]
  ELSE IF Len(checks) = 1 \/ MonitoringTime(checks) = 0
       THEN [num |-> IF AllUp(checks) THEN 1 ELSE 0, den |-> 1]
       ELSE [num |-> TotalUptime(checks), den |-> MonitoringTime(checks)]
=============================================================================
