# A TLA+ model of rest_assured

rest_assured monitors REST services: a scheduler inside a FastAPI process sends each
service a request at its interval, stores the result, opens and closes incidents, mails
the owners, and serves uptime and SLA.  This directory models the parts of it where
order, concurrency and failure matter, checks them with TLC on small instances, and
proves with TLAPS, for every value of the constants, what TLC has found to hold.

Paths below are relative to `src/rest_assured/src/`, README lines to the repository's
`README.md`.

## 1. The system

Everything the server does runs in **one asyncio loop**: code between two awaits is
atomic, and at an await any other task may run.  State that outlives an await is
PostgreSQL's (each repository function commits its own transaction), a field of the
`SchedulerRunner` or the `ServiceChangeListener`, or the module-level metrics cache.
The seed script and the migrations are processes of their own on the same database.

| Component | State | Operations |
|---|---|---|
| Runner, `services/scheduler/runner.py` | `_tasks` (service id to worker task), `_callbacks`, HTTP client, counters | `start`, `ensure_running`, `stop_service`, `refresh_service`, `fire_callbacks`, `stop` |
| Listener, `services/scheduler/listener.py` | `_running`, the poll task, the LISTEN connection | `start`, the NOTIFY callback, `_poll_loop`/`_poll_once`, `stop` |
| Catalog, `services/catalog.py`, `repositories/services.py` | table `services` | create, update, delete; NOTIFY after update and delete |
| Lifespan, `main.py` | the two objects above | starts and stops them, registers the callback |
| Worker loop, `services/scheduler/worker.py` | its `Service` snapshot; counters and callbacks of the runner | sleep, request, evaluate, count, save, fire callbacks, pause |
| Sessions, `repositories/database_session.py` | the connections of the engine's pool | `session_scope`, `get_session_dependency` |
| Incidents, `services/incidents.py` and repositories | tables `incidents`, `notification_log`, `check_results` | `handle_check_result`, `_handle_sla_breach` |
| Notifications, `services/notifications/email.py` | none | `send`, which never raises |
| Metrics, `services/metrics.py` | none | `compute_current_uptime`, `compute_sla` |
| Metrics service, `services/metrics_service.py` | `_cache` | `get_metrics`, `get_summary`, `get_timeseries` |
| Accounts, `services/auth`, `repositories/users.py` | table `users`; tokens live with the clients | login, refresh, register, me |
| Seed, `scripts/seed.py`, `cli.py` | none of its own | superuser, then each missing demo service |
| Migrations, `alembic/` | the schema, `alembic_version` | upgrade and downgrade of nine revisions, in one transaction per command |

**Interactions.**  A catalog write commits, then emits NOTIFY in a second transaction;
the listener's callback runs `refresh_service` in a task nobody keeps; the poll compares
ids in the table with ids in `_tasks` and calls the same runner.  A worker saves its
check and awaits the callback of `main.py`, which reads the service, the history and the
open incident in separate transactions, writes, mails, and writes the log.  The API
reads check histories through the cache.

**What is hard, and what must be right.**

* Scheduler: refreshes, poll, start and stop interleave at every await, and each uses
  rows or id sets read before the await.  No worker may escape the registry (it could
  not be stopped), no entry may be dead (the service would not be monitored), the set
  of workers must converge to the active rows whatever notifications are lost, and a
  shutdown must end.
* Incidents: each decision is several transactions, and a cancellation (any refresh or
  shutdown) or an exception may end the handler at any await.  One open incident of a
  kind, incidents that are disjoint, mails that are true and in order, an open incident
  exactly while the checks call for one.
* Workers: counting, saving and telling are separate steps, the handler needs a connection
  of its own, and a cancellation may come at each await.  No connection may be left behind,
  nobody may wait for ever, the counters must cover the history, and a verdict that could
  not be saved must not be lost for the incidents as well.
* Metrics: differences are truncated to seconds in several places; 100% must mean no
  failure.  Concurrent requests share a cache without a lock; what it serves must be
  bounded in age.
* Accounts: checks and insertions are separate transactions; tokens cannot be revoked.
  One account per address, one winner of a race, no renewal for a deactivated account.
  The seed script may die anywhere and must be repeatable (README.md:283).
* Migrations: every container runs them at its start, revisions branch and merge, some
  are refused by existing rows.  Commands lock only the tables and the rows of
  `alembic_version` they have used, so they run side by side and find out late what has
  changed.  The schema must be what `alembic_version` says, an administrator must survive
  the way up and down, and an upgrade may be refused for known reasons only.

## 2. Modules

| Module | Models | Extends |
|---|---|---|
| `Scheduler` | runner, listener, catalog with NOTIFY, lifespan, seed insertions, crash and restart | |
| `Fleet` | what the scheduler promises: each service is monitored by nobody or with one committed version | |
| `Worker` | the worker loops of a process with its counters, callbacks and connection pool, and API requests that compete for it | |
| `Metrics` | the two pure functions, as folds and sets over a sequence of checks | |
| `CheckHistory` | a history as one worker writes it; reference definitions that count time tick by tick | `Metrics` |
| `MetricsService` | the cache under concurrent requests while the history grows or the service is deleted | `CheckHistory` |
| `Outage` | what the incidents of a service promise: outages that begin and end by a verdict, and what the owners are told of each | |
| `Incidents` | a worker's check from evaluation to the log row, with the tables it touches | instance of `Metrics` |
| `Accounts` | login, refresh, registration, tokens and their expiry, the seed script | |
| `Migrations` | the revisions up and down, commands that run them side by side with their locks, the application that fills the tables | |
| `SchedulerProofs`, `WorkerProofs`, `IncidentsProofs`, `AccountsProofs`, `MigrationsProofs` | theorems; `IncidentsProofs` also that `Incidents` implements `Outage` | the module named |
| `FleetProofs` | `Scheduler` implements `Fleet` | `SchedulerProofs` |
| `MetricsProofs` | what the two functions compute, for histories of any length | `CheckHistory` |
| `MetricsServiceProofs` | theorems on the cache and on what it serves | `MetricsService`, `MetricsProofs` |
| `MCScheduler`, `MCWorker`, `MCIncidents`, `MCMetricsService`, `MCAccounts`, `MCMigrations` | instances for TLC: sets of model values, sets of faults, symmetry | the module named |

**How the modules fit together.**  `Scheduler` is shown to implement `Fleet`, with the
version a registered, running worker was given as the version that monitors its service.
`Incidents` with one worker is shown to implement
`Outage`, with the incidents and the kinds of mail delivered about each as the outages.
`Incidents` uses the SLA of `Metrics`, so that a breach is decided by the code's own
arithmetic.  `MetricsService` builds on `CheckHistory`, so that what the cache holds is
computed from a real history.  The three modules about workers divide the questions:
`Scheduler` says which workers exist, `Worker` what a worker does at each await and what
workers share, `Incidents` what the callback writes.  `Incidents` speaks of the workers of
one service; that a process has one of them is `NoOrphan` of `Scheduler` (proved), and the
exception, a worker a shutdown forgets, is the finding `graceful`, which together with a
second process during a deployment is why one run has two handlers.

**Correspondence.**  An action is the stretch of a coroutine from one await to the next,
and is named after the function; where a function has several stretches the names say
which (`RefreshStart`, `RefreshResume`, `RefreshRead`, `RefreshEnsure`).

* `Scheduler`: `row` is the table (a status, and a version for all configurable fields);
  `tasks` is `_tasks`; `worker` the asyncio tasks with the snapshot each was given;
  `req` one record per write, first the API request that has yet to notify, then the
  refresh the notification causes, with the row it has read; `channel` the callbacks
  asyncpg has yet to start; `poll` and `fetched` the poll task and its local list;
  `gather` what `stop` awaits; `phase` how far `lifespan` is.
* `Fleet`: `rows` is the table; `fleet` the version each service is monitored with;
  `serving` whether the scheduler is up.  `Monitored` in `Scheduler` is the mapping.
* `Worker`: `pc` is the await a worker is at, from the sleep to the log row of the handler;
  `conn` the connections in use, each with its user and its session; `total` and `failed`
  the counters of the runner, `rows` and `downs` the history.  A session takes a
  connection for its first statement, returns it at a commit and takes one again for the
  refresh after it, so a place before a statement is a wait (`Grant`).
* `Incidents`: `pc` is the await the handler is at; `check`, `breach`, `bad`, `found`,
  `since`, `note` are its locals (the result, the branch on `sla_target_pct`, whether
  the check or the SLA calls for an incident, the row found and its `opened_at` as read,
  the kind of mail); `checks`, `incidents`, `log` are tables; `mails` is what was
  delivered.  A tick is no longer than the interval; a handler may take any number.
* `Outage`: `verdict` is what the latest check calls for, `outages` the records with what
  the owners were told of each, `gone` the deletion.  Mails about a service that is gone
  are of no outage recorded, so `Outage` says nothing about them.  `Outages` and `Verdict`
  in `Incidents` are the mapping.
* `MetricsService`: `cache` is the entry of the one service; a reader has `got` rows the
  database answered at `asked` and stores them later.
* `Accounts`: `users` and `urls` are tables; `granted` the logins and refreshes that were
  shown an active account but have not signed the tokens; `pc` and `form` the
  registrations; `seed` and `todo` the script.  `off` is a ghost: when an account was
  switched off.
* `Migrations`: `db` is the tables as committed (of the schema what revisions change or fail
  on, of the rows what they look at), `rows` is `alembic_version`; `cmd` the commands, each
  with the rows it has read, what it has made of them (`heads`, Alembic's `HeadMaintainer`),
  the revisions it has left, the tables it has locked and their contents as its
  transaction sees them.  `Execute` is the statements of one revision, `Record` the change
  of `alembic_version` after it, `Commit` and `Fail` the two ends of the transaction.

A definition that ends a name with its change (`RefreshStartNoCancel`, `Up008NoCopy`)
is a mutant: the action with a plausible bug, kept beside the original to show that the
property it belongs to can fail.  No specification uses it.

## 3. What is checked

Passing runs:

| Run | Shows |
|---|---|
| `overlap` | one service, three overlapping writes, every failure including a crash: `NoOrphan`, `RegisteredIsRunning`, `StopOwnership` (a stopped worker has one awaiter), `RefreshReadsNotified` (a refresh never reads a row older than its notification), and the inductive `FleetInv` |
| `live` | two services, fair: `ImplementsFleet`, `Converges`, `ShutdownTerminates`, `NeverOverwritten` |
| `workers` | two workers and a request, two connections, fair: `ConnectionsReturned`, `CountersCoverHistory`, `VerdictToldOrStored` (a verdict that could not be saved is told, one that is lost is in the history), `KeepsChecking` (every check that has begun ends) |
| `incidents_one` | one worker, every failure: `ImplementsOutage`, `OutageTracked`, `IncidentsDisjoint`, `MailsInOrder`, `LoggedRemindersSpaced` |
| `incidents_two` | two workers of one service: `OneOpen`, `AnnouncedOnce`, `MailsAreCommitted` and the inductive `IncidentsInv` |
| `metrics` | two requests, one cache, a growing history: `ServedFresh`; on every history so reached `FullSlaMeansNoFailure`, `SlaCountsUptime`, `CurrentUptimeIsStreak`, which also shows a disagreement with a docstring (below) |
| `accounts` | two registrations, logins and refreshes, one seed script: `OneAccount`, `OneWinner`, `NoRenewal`, `SeedIdempotent` and the inductive `AccountsInv` |
| `migrations` | two commands side by side on a database of any release: `SchemaFollowsRevisions` (but for one way to lose the record), `AdminsKept`, `UpgradeRefused` (three known reasons only) |

`ImplementsFleet` says what the invariants about one service do not: no failed, late or
overlapping refresh and no poll touches the monitoring of a service nobody wrote, and a
worker never changes its version in place.

`ImplementsOutage` says the same for the records and the mails of one service.  It is an
action property at heart: the invariants say what the tables look like, not that a later
handler leaves the closing time and the verdict of a past incident alone, or that an
incident ends only by a check that was good and is later than all that is recorded.

Runs in which the code does not do what a document, comment or test says (TLC prints the
behaviour):

| Run | The code against the document |
|---|---|
| `stale_config` | README.md:111, changes reach the workers almost at once and the poll guarantees convergence.  A poll (or another refresh) that read the row before the write may start the worker after the write's own refresh stopped the old one; `ensure_running` then finds the id and does nothing, and no poll repairs it, since polls compare ids only.  No failure is needed |
| `graceful` | runner.py:141 "Graceful shutdown"; a refresh in flight during `stop` starts a worker that `_tasks.clear()` forgets |
| `reminder_spam` | README.md:32, protection from spam by a cooldown; when the log row is refused, each failing check mails a reminder |
| `lost_opening` | README.md:15, owners are told at once; when the handler ends between commit and mail, nobody is told until the cooldown, and never of a breach |

One passing run shows another disagreement.  The docstring of `compute_current_uptime`
(`services/metrics.py:5`) says "от последнего фейла до последней проверки", from the last
failure to the last check.  The code counts a gap only between two successes: a failure at
40 seconds and successes at 50 and 60 give 10, as `test_metrics.py:33` expects, not 20.
`CurrentUptimeIsStreak` says so of every history: the result is less than the time of the
docstring by at least the gap after the failure, which is an interval or more.

`SchemaFollowsRevisions` allows one state in which `alembic_version` is wrong, and TLC
reaches it: with both heads 005 and 006 there, one command takes back 005 and another 006.
They lock different tables and delete different rows, so both commit, no row is left on the
schema of 7e8a, and from then on every `pa-server migrate` is refused by 0001.

**Bounds, and why they are enough.**

* `MaxVersion` (writes per service) is 3 in `overlap`: two refreshes in flight and a
  third write that starts, stops or deletes under them.  All awaits of a refresh concern
  one service, so one service suffices there; two services in `live` make one poll stop
  several workers, the only place where services meet.  `Workers` is the number of tasks
  alive or referenced at a time plus one; identities are reused, so it bounds no
  behaviour, and a run that ran out of them would deadlock, which TLC reports.
* `workers`: a worker and its handler never need more than one connection each, so two
  workers, a request and two connections give every way of waiting; three checks let one
  worker begin anew while the other is in its handler.  If
  the handler ran inside the worker's session (the mutant of `KeepsChecking`), each would
  hold one of the two and wait for the other, which TLC finds.
* `MaxTime` 4 in `incidents_one` is two cooldowns, or an outage, a recovery and a second
  outage; `Window` 2 lets a check leave the window.  `SlaTarget` 75 lies between the
  SLAs such a history can have.  `MaxTime` 2 in `incidents_two` lets both handlers run
  twice; the races it is about need one incident, opened and closed.
* `metrics` has gaps of 1 and 1.5 seconds and up to 4 checks: every pattern of failures
  next to truncated and exact gaps.  `Slow` bounds the time of a query and from a
  check to its commit; with no such bound nothing served could be called fresh.
* `accounts`: the lifetimes are 1 and 2 ticks, a signature may come `Slow` = 1 tick after
  the lookup, and `MaxTime` 2 is the least at which a refresh of a refreshed token
  outlives the bound of `NoRenewal`.  `MaxGranted` bounds the logins in progress; two
  addresses, two registrations and the script meet in every order.

* `migrations` starts from every set of revisions that a release may have left.  One user
  and one service give every row a revision can fail on or lose: both kinds of incidents,
  an SLA target or none, each flag.  Two commands meet in every way two can: at a table, at
  a row of `alembic_version`, in a deadlock, and one committed while the other works.

Deadlock is checked for `Scheduler`, `Accounts` and `Migrations`, which never stop.  A
process of `Worker` that was shut down stops; the runs of the other modules stop at the
last tick or the last check of the bound, and only there.

**Fairness** is assumed in the two specifications called `FairSpec`.

* `Scheduler`: weak fairness of a step after an await: asyncio resumes a coroutine whose
  await is over, a cancelled worker unwinds (`worker_loop` re-raises `CancelledError`),
  PostgreSQL answers, the poll wakes up.  Strong fairness of `PollApply`: a poll may fail
  any number of times, not for ever, because a database that is always down cannot be
  followed.  `Converges` speaks of a process that stays up.
* `Worker`: weak fairness of a worker's step (a request, a mail and a statement end or
  time out) and of the end of a request's statement; strong fairness of `Connect`: the
  pool's queue serves who waits when connections come free again and again.  Nothing is
  assumed of the clients' arrival, so `KeepsChecking` holds under any load they make.

Nothing is assumed of users, failures, cancellations, the shutdown or the crash.

## 4. What is proved

For all sets of services, workers, handlers, readers, addresses, requests, commands and
seed processes, all bounds and pool sizes, all sets of faults, any target, cooldown,
window, gap and lifetime:

| Module | Theorems (each is `Spec => []P` for the property `P` of the same name, or says what follows) |
|---|---|
| `SchedulerProofs` | `TypeCorrect`, `RegistryConsistent` (`RegistryInv`), `NoOrphanHolds`, `RegisteredIsRunningHolds`, `StopOwnershipHolds`, `NeverOverwrittenHolds` |
| `FleetProofs` | `FleetConsistent` (`FleetInv`), `RefreshReadsNotifiedHolds`, `ImplementsFleetHolds`: the refinement, `Spec => F!Spec` |
| `WorkerProofs` | `TypeCorrect`, `ConnectionsReturnedHolds`, `CountersCoverHistoryHolds`, `VerdictToldOrStoredHolds` |
| `IncidentsProofs` | `TypeCorrect`, `IncidentsConsistent` (`IncidentsInv`), `OneOpenHolds`, `AnnouncedOnceHolds`, `MailsAreCommittedHolds`; with one worker: `OneWorkerConsistent` (`OneWorkerInv`), `OutageTrackedHolds`, `IncidentsDisjointHolds`, `MailsInOrderHolds`, `LoggedRemindersSpacedHolds`, the refinement `ImplementsOutageHolds`, `Spec => O!Spec`, and what the findings need: `OwnersToldWhenHandlersFinish`, `ReminderSpacingWhenLogIsKept` |
| `MetricsProofs` | `HistoryConsistent` (`History`): what the two loops compute of a history of any length |
| `MetricsServiceProofs` | `FreshConsistent` (`FreshInv`), `ServedFreshHolds`, `ServiceTypeCorrect`, `FullSlaHolds`, `SlaCountsHolds`, `CurrentUptimeHolds` |
| `AccountsProofs` | `TypeCorrect`, `AccountsConsistent` (`AccountsInv`), `OneAccountHolds`, `OneWinnerHolds`, `NoRenewalHolds`, and `SeedIdempotentHolds` with one seed process at a time (`OneSeed`) |
| `MigrationsProofs` | `TypeCorrect`, `AdminsKeptHolds`; with no downgrade beside another command (`DowngradesAlone`): `SchemaFollowsRevisionsAlone`, `UpgradeRefusedAlone`, both with `alembic_version` never lost |

Assumptions on constants are the `ASSUME`s of the modules: `None` is no service, worker,
version or number; bounds and lifetimes are natural numbers; a gap between checks is at
least a second; the pool has a connection, workers are finitely many and no clients; the
administrator has an address.  `OneWorker`, `OneSeed` and `DowngradesAlone` are hypotheses of the theorems
that need them, `HandlersFinish` and `LogIsKept` of the two about findings; `NoOrphanHolds`
is why the first is right for a process.

**The arguments.**

* `NoOrphan` alone is not inductive: a worker could be registered under two services, or
  run for none, or be awaited while it runs.  `RegistryInv` adds `RegisteredOnce`,
  `RunHasService`, `GatheredIsStopped` and the ownership of a stopped worker by its
  one awaiter, which is why popping the key **before** the await is essential.  The lemma on
  `Spawn` says new workers come from unused identities and touch nobody else's.
* `ImplementsFleet` needs to know that whatever a coroutine keeps over an await is about
  rows that were committed: snapshots of workers and rows read by refreshes and polls are
  versions that exist (`SnapshotsCommitted`), a request in progress is of a service that
  was written (`RequestsWritten`), and a poll is about to stop only such services
  (`StopsOnlyWritten`, which the poll's failed read must not break).  `FleetInv` joins
  them with `RegistryInv`.  The steps are then grouped by what they do to the monitored
  services (start some, stop some, stop all, nothing), with one lemma for each group.
* `ConnectionsReturned` and `CountersCoverHistory` are inductive with `TypeOK`; the second
  counts the workers between counting and commit, so its lemmas say how the size of
  such a set changes when one worker enters or leaves it.
* `OneOpen` rests on the unique index (`Create` is refused); `AnnouncedOnce` needs that
  whoever is about to announce is alone and first (`AnnouncerIsFirst`), `MailsAreCommitted`
  that a handler past find or create works on an existing row (`WorksOnIncident`); both
  only while the service exists, since a deletion takes the rows away under the handlers.
* The four properties of one worker are proved together, in `OneWorkerInv`: what the
  handler decided is still so when it acts (`Decided`), its times lie after those of all
  incidents (`InTime`), its next mail has no later kind before it (`MailFits`), its next
  log row is a cooldown after the last (`LogFits`).  With two handlers one may act on what
  the other has changed since, so the hypothesis is needed.
* Two theorems say that the findings `lost_opening` and `reminder_spam` have no other cause
  than the one named.  If no handler is cut off and no log row refused (`HandlersFinish`),
  `OwnersTold` holds with one worker: an open incident is announced or its announcement is
  on its way to the log (`Telling`).  If besides the service is not deleted (`LogIsKept`),
  `ReminderSpacing` holds: every reminder mailed is in the log or on its way there
  (`Remembered`).  The second needs the log, hence the deletion: it takes the log along,
  and a handler that then reads the last reminder finds none and measures from the opening.
* `ImplementsOutage` needs one part more, `WorkFits`: the incident a handler works on is
  open and of the verdict's kind until the handler closes it, and the mail it is about to
  send tells of the incident as it is.  Then the steps are grouped by what they do to the
  records: `Check`, `Load` and `History` judge; `Create`, `Close` and `Mail` begin, end and
  tell, each where it succeeds; the others change nothing of it.  That a verdict is news
  is `InTime`, that a begin finds no lasting outage is `Decided`.
* The loops of `services/metrics.py` are folds, whose definition in the library chooses a
  recursive function.  `FoldExists` shows that there is one: the union of the functions
  on smaller sets, by induction on the size.  Induction is `SetInduction`, about the set of
  the numbers for which the claim holds, because the library's theorems take an operator.
  `SumAnyOrder` shows that the order in which `compute_sla` adds does not matter.  Then each
  loop is known by what one more check adds (`UptimeOfAppend`, `TotalOfAppend`), and the
  tick-by-tick counts grow alike (`TicksOfAppend`, `StreakOfAppend`).
* `History` is the invariant of a growing history.  `FullSlaMeansNoFailure` is not
  inductive: it must be known how much a failure costs.  `SpanOK` says the truncated sum is
  at most the time from the first check to the last, and a second less once a check has
  failed; here the interval of at least a second (`GapAssumption`) is used.
* `FreshInv` says what each copy of the metrics misses: rows on their way only checks
  committed after their query, made at most `Slow` before it (`SaveAppends`); a cache
  entry `Slow` more; an answer a lifetime more.  Nothing is needed about which of two
  requests stores last, so the cache needs no lock for this.
* `KeepsInv` is the invariant of all commands together: a table is locked by one command,
  and what a command has made of a table carries the rows and the administrators that are
  committed (`Carries`).  It composes: `UpgradeKeeps` and `DowngradeKeeps`, one case per
  revision, say it of one revision, `CarriesComposes` of two in a row, and `OthersCarry` that
  a commit does not touch what others have locked.  That 008 copies the flag in both
  directions is what `AdminsKept` rests on.  The lemmas need that one column at a time says
  who is an administrator (`OneFlag`), which an upgrade from a lost record may break
  between 006 and 008, only to be refused there.
* `SchemaFollowsRevisions` and `UpgradeRefused` do not follow from an invariant of this
  kind: after the lost record `alembic_version` says nothing of the schema, and what two
  commands may then do depends on each statement.  So they are proved for what an operator
  can see to, that no downgrade runs beside another command; any number of upgrades may
  race.  `RecordInv` says that a command either works on the rows it has read, and then
  the schema it sees is that of the revisions it has applied (`UpgradeFollows`,
  `DowngradeFollows`), or is late: another upgrade was committed, and this one will not be,
  since the row it has to delete is gone (or, on a new database, the table is there).  That
  rows stand for closed sets of revisions, one revision more or less at each step, is
  `UpRecord` and `DownRecord`.
* `NoRenewal` needs two more facts: no token is from the future (`TokensIssued`), and a
  login in progress was begun before its account was switched off, at most `Slow` ago
  (`GrantsHeld`).  `SeedIdempotent` needs `SeedInv`: the list of services to create is
  exactly what is missing, at each step of the script.

**Only model-checked:** liveness (`Converges`, `ShutdownTerminates`, `KeepsChecking`), which
needs fairness and ENABLED, out of the provers' reach; and `SchemaFollowsRevisions` and
`UpgradeRefused` when downgrades run beside other commands, for two commands.

## 5. What is not modelled, and why

* Evaluation of a response is an arbitrary verdict, `send` is delivered or not; status
  codes, texts, templates, SMTP and TLS are data no property tells apart.
* `last_loop_at` and the HTTP counters of the Prometheus middleware: written in one place,
  read in one, no property relates them to anything.
* The last check in a summary item, and the timeseries, an aggregation in SQL.
* That a connection waits at most 30 seconds for its turn: the time-out is a fault of
  `Worker` that may come at any time, so how long a wait is does not matter.
* Passwords, signatures, malformed tokens: libraries, and branches that change nothing.
* Wall-clock jumps: `datetime.now` is taken to be monotonic.  A clock set back would
  break every property about times, and the code does not defend against it.
* Deletion of a demo service while the script runs; two seed scripts at the same time
  (they do duplicate demo services, since `services.url` is not unique).
* Two server processes with two schedulers, except as two handlers of one service.
* In `Migrations`: what no revision changes or fails on; the creation of `alembic_version`
  itself; a second program that edits it.  The tables of a revision are locked together
  when all are free, not statement by statement; the order of parallel revisions is
  arbitrary; a row that a command deletes and inserts again counts as unchanged.  A
  transaction of the application is one step, and waits for a table a command has locked.
  `is_admin` and `is_active` are set by hand, since no code sets them.
* `SchemaFollowsRevisions` leaves one flag out: 7e8a creates `sla_target_pct` nullable, 005
  makes it nullable again, and the downgrade of 005 makes it NOT NULL, so a database that
  came down differs from one that went up.  The model keeps the flag (`sla_required`),
  and what it refuses; the next upgrade removes it.
* Configuration, logging, the other routers, OpenAPI export, the script that writes new
  migrations: no state of the system, or state read once at the start.

## 6. Plan

Done, in this order: `Scheduler`; `Metrics` and `CheckHistory`; `Incidents`;
`MetricsService`; `Accounts`; `Worker`; `Migrations`; `Fleet` and `Outage` with the
refinements; each with its proofs.

Left:

1. One service's worker composed with `Scheduler`'s refresh and stop: `Worker` cancels a
   worker at any await and starts it again, which is more than `Scheduler` does, so a
   composition would add the snapshot's version to each check.
2. The summary of `MetricsService`: the last check of an item beside its cached metrics,
   which may contradict each other for a cache lifetime.
3. Two server processes on one database, with two schedulers and two handlers.
