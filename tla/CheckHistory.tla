---------------------------- MODULE CheckHistory ----------------------------
(***************************************************************************)
(* What the metrics say of a history of checks as a worker writes it: one  *)
(* service, one check at a time, each at least an interval after the last  *)
(* (worker.py sleeps before every request).                                *)
(***************************************************************************)
EXTENDS Metrics, FiniteSets

CONSTANTS MinGap,      \* the service's interval, in ticks
          MaxGap,      \* bound: the longest time between two checks
          MaxChecks    \* bound: the checks of a history

\* interval_ms >= 1000 (models/services.py): no two checks in one second.
ASSUME GapAssumption ==
  MinGap \in Nat /\ MaxGap \in Nat /\ MaxChecks \in Nat /\ MinGap >= Unit

VARIABLE checks        \* the rows of check_results, by checked_at

\* The history is in the order its readers ask for (ORDER BY checked_at ASC).
TypeOK ==
  /\ checks \in Seq([at : Nat, up : BOOLEAN])
  /\ \A i, j \in DOMAIN checks : i < j => checks[i].at < checks[j].at

Init == checks = <<>>

\* save_check_result of a worker's next check.
SaveCheckNewestFirst(gap, up) ==
  /\ Len(checks) < MaxChecks
  /\ checks' = <<[at |-> IF checks = <<>> THEN 0 ELSE Head(checks).at + gap, up |-> up]>> \o checks

SaveCheck(gap, up) ==
  /\ Len(checks) < MaxChecks
  /\ checks' = Append(checks, [at |-> IF checks = <<>> THEN 0 ELSE Last(checks).at + gap,
                               up |-> up])

Next == \E gap \in MinGap..MaxGap, up \in BOOLEAN : SaveCheck(gap, up)

Spec == Init /\ [][Next]_checks

-----------------------------------------------------------------------------
(* Reference definitions: time counted tick by tick.                       *)

\* The ticks between two consecutive successful checks.
UpTicks ==
  {t \in 0..(MaxGap * MaxChecks) :
     \E i \in 2..Len(checks) : /\ checks[i - 1].up /\ checks[i].up
                               /\ checks[i - 1].at <= t /\ t < checks[i].at}

LastFail == CHOOSE i \in 0..Len(checks) :
  /\ i > 0 => ~checks[i].up
  /\ \A j \in (i + 1)..Len(checks) : checks[j].up

\* The ticks of UpTicks after the last failure, and the gaps they lie in.
StreakTicks == {t \in UpTicks : LastFail > 0 => t > checks[LastFail].at}
StreakGaps == {i \in UpGaps(checks) : i > LastFail}

\* A truncated sum of gaps is at most the true time, and short of it by less
\* than a second for each gap.
Truncates(seconds, ticks, gaps) ==
  /\ Unit * seconds <= ticks
  /\ ticks - Unit * seconds <= gaps * (Unit - 1)

-----------------------------------------------------------------------------
(* Properties.                                                             *)

\* An SLA of 100% is never reported for a history that holds a failed check:
\* the gaps next to a failure weigh more than what truncation takes from the
\* total (compute_sla divides a sum of truncated gaps by one truncated total).
FullSlaMeansNoFailure ==
  checks # <<>> /\ Sla(checks).num >= Sla(checks).den => AllUp(checks)

\* The uptime compute_sla counts is the time between consecutive successes, at
\* most a second per gap too low and never too high.
SlaCountsUptime == Truncates(TotalUptime(checks), Cardinality(UpTicks), Cardinality(UpGaps(checks)))

\* The time from the last failure to the last check, and of it the gap after the
\* failure.
SinceLastFail == Last(checks).at - checks[LastFail].at
GapAfterFail == checks[LastFail + 1].at - checks[LastFail].at

\* compute_current_uptime counts the time between the successes after the last
\* failure and nothing before it, with the same error.  So it is never the time
\* "от последнего фейла до последней проверки" of its docstring (metrics.py:5): the
\* gap after the failure is missing, at least an interval, as test_metrics.py:33
\* wants it.
CurrentUptimeIsStreak ==
  /\ Truncates(CurrentUptime(checks), Cardinality(StreakTicks), Cardinality(StreakGaps))
  /\ LastFail \in 1..(Len(checks) - 1) =>
       /\ GapAfterFail >= MinGap
       /\ Unit * CurrentUptime(checks) <= SinceLastFail - GapAfterFail
=============================================================================
