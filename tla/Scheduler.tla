------------------------------ MODULE Scheduler ------------------------------
(***************************************************************************)
(* The scheduler of rest_assured: the SchedulerRunner and its dictionary   *)
(* `_tasks` of worker tasks, the ServiceChangeListener with its LISTEN     *)
(* callback and its fallback poll, the catalog writes that emit NOTIFY,    *)
(* and the lifespan that starts and stops the two.                         *)
(*                                                                         *)
(* Everything runs in one asyncio loop, so code between two awaits is one  *)
(* atomic step: an action is the stretch of a coroutine from one await to  *)
(* the next.  A row of the table `services` is a status and a version; the *)
(* version stands for the configuration (url, interval, method), and grows *)
(* by one with each write of the catalog API.                              *)
(***************************************************************************)
EXTENDS Integers, Sequences, Functions

CONSTANTS
    Services,    \* the service ids that may exist
    Workers,     \* identities of worker tasks, reused when nothing refers to them
    MaxVersion,  \* bound: writes of the catalog API per service
    Faults,      \* which failures and external events a run admits
    None         \* Python's None

ASSUME NoneAssumption == None \notin Services \cup Workers
ASSUME NoneIsNoVersion == None \notin Nat
ASSUME MaxVersionAssumption == MaxVersion \in Nat
ASSUME FaultsAssumption == Faults \subseteq {"listen", "notify", "read", "crash", "stop", "seed"}

VARIABLES
    row,      \* table `services`, the committed rows
    req,      \* per catalog write: the API request, then the refresh it causes
    channel,  \* notifications delivered by LISTEN, callbacks not yet begun
    tasks,    \* SchedulerRunner._tasks
    worker,   \* the asyncio tasks running worker_loop, each with its Service snapshot
    gather,   \* the tasks SchedulerRunner.stop awaits
    poll,     \* the task of _poll_loop, and whether its cancellation is pending
    fetched,  \* the local `services` of start() and of _poll_once()
    phase,    \* where lifespan is
    running,  \* ServiceChangeListener._running
    listen,   \* the LISTEN connection is alive
    attempt   \* failed attempts of start() to read the database

memory   == <<tasks, worker, gather, fetched>>
control  == <<phase, running, attempt>>
vars == <<row, req, channel, tasks, worker, gather, poll, fetched, phase, running, listen, attempt>>

Versions == 1..MaxVersion
Requests == Services \X Versions
Row      == [st : {"absent", "active", "inactive", "deleted"}, ver : 0..MaxVersion]
Absent   == [st |-> "absent", ver |-> 0]
Idle     == [pc |-> "idle", task |-> None, snap |-> Absent]
Finished == [pc |-> "done", sid |-> None, ver |-> 0]
PollOff  == [pc |-> "off", toStop |-> {}, task |-> None, cancel |-> FALSE]
NoRows   == [s \in Services |-> Absent]

(***************************************************************************)
(* What fetch_active_services returns: the active rows.                    *)
(***************************************************************************)
ActiveRows == [s \in Services |-> IF row[s].st = "active" THEN row[s] ELSE Absent]

(***************************************************************************)
(* _spawn for every active row of `rows` whose id is not in _tasks.  A new *)
(* task takes an identity that nothing refers to: `Workers` bounds how     *)
(* many are alive or referenced at a time.                                 *)
(***************************************************************************)
Unused == {w \in Workers :
    /\ worker[w].pc = "done"
    /\ w \notin gather
    /\ w # poll.task
    /\ \A s \in Services : tasks[s] # w
    /\ \A r \in Requests : req[r].task # w}

\* Mutant: _spawn and ensure_running without `service.id in self._tasks`.
MissingNoCheck(rows) == {s \in Services : rows[s].st = "active"}

Missing(rows) == {s \in Services : rows[s].st = "active" /\ tasks[s] = None}

NewTasks(rows) == CHOOSE t \in Injection(Missing(rows), Unused) : TRUE

CanSpawn(rows) == Injection(Missing(rows), Unused) # {}

TasksWith(rows) == LET t == NewTasks(rows) IN
    [s \in Services |-> IF s \in Missing(rows) THEN t[s] ELSE tasks[s]]

WorkersWith(rows) == LET t == NewTasks(rows) IN
    [w \in Workers |->
        IF \E s \in Missing(rows) : t[s] = w
        THEN LET s == CHOOSE x \in Missing(rows) : t[x] = w
             IN  [pc |-> "run", sid |-> s, ver |-> rows[s].ver]
        ELSE worker[w]]

Spawn(rows) == /\ CanSpawn(rows)
               /\ tasks'  = TasksWith(rows)
               /\ worker' = WorkersWith(rows)

(***************************************************************************)
(* task.cancel() on a set of tasks: they stop at their next await and      *)
(* still have to unwind (WorkerFinish).                                    *)
(***************************************************************************)
Cancelled(W, wk) ==
    [w \in Workers |-> IF w \in W /\ wk[w].pc = "run"
                       THEN [wk[w] EXCEPT !.pc = "cancelled"] ELSE wk[w]]

-----------------------------------------------------------------------------
(* The catalog: POST, PATCH and DELETE of /api/services *)

(***************************************************************************)
(* POST inserts and commits; it emits no NOTIFY.                           *)
(***************************************************************************)
Insert(s, st) ==
    /\ row[s].st = "absent"
    /\ row' = [row EXCEPT ![s].st = st]
    /\ UNCHANGED <<req, channel, poll, listen, memory, control>>

Create(s) == phase = "up" /\ \E st \in {"active", "inactive"} : Insert(s, st)

(***************************************************************************)
(* The seed script is a process of its own and inserts at any time.        *)
(***************************************************************************)
Seed(s) == "seed" \in Faults /\ Insert(s, "active")

(***************************************************************************)
(* PATCH and DELETE commit the row; the NOTIFY is a transaction of its own *)
(* that follows, so the request stays "unsent" in between.                 *)
(***************************************************************************)
\* Mutant: the update is flushed but never committed.
WriteUncommitted(s, st) ==
    /\ phase = "up"
    /\ row[s].st \in {"active", "inactive"}
    /\ row[s].ver < MaxVersion
    /\ req' = [req EXCEPT ![<<s, row[s].ver + 1>>].pc = "unsent"]
    /\ UNCHANGED <<row, channel, poll, listen, memory, control>>

Write(s, st) ==
    /\ phase = "up"
    /\ row[s].st \in {"active", "inactive"}
    /\ row[s].ver < MaxVersion
    /\ row' = [row EXCEPT ![s] = [st |-> st, ver |-> row[s].ver + 1]]
    /\ req' = [req EXCEPT ![<<s, row[s].ver + 1>>].pc = "unsent"]
    /\ UNCHANGED <<channel, poll, listen, memory, control>>

Update(s) == \E st \in {"active", "inactive"} : Write(s, st)
Delete(s) == Write(s, "deleted")

NotifySent(r) ==
    /\ req[r].pc = "unsent"
    /\ req' = [req EXCEPT ![r] = Idle]
    /\ channel' = IF listen THEN Append(channel, r) ELSE channel
    /\ UNCHANGED <<row, poll, listen, memory, control>>

(***************************************************************************)
(* The connection is lost between the two transactions: the change is      *)
(* committed, the client gets an error, nobody is notified.                *)
(***************************************************************************)
NotifyFails(r) ==
    /\ "notify" \in Faults
    /\ req[r].pc = "unsent"
    /\ req' = [req EXCEPT ![r] = Idle]
    /\ UNCHANGED <<row, channel, poll, listen, memory, control>>

(***************************************************************************)
(* The LISTEN connection dies; nothing reconnects it.  What it had not     *)
(* delivered is lost.                                                      *)
(***************************************************************************)
ListenDrops ==
    /\ "listen" \in Faults
    /\ listen
    /\ listen' = FALSE
    /\ channel' = <<>>
    /\ UNCHANGED <<row, req, poll, memory, control>>

-----------------------------------------------------------------------------
(* Startup: SchedulerRunner.start, then ServiceChangeListener.start *)

Boot ==
    /\ phase = "off"
    /\ phase' = "starting"
    /\ UNCHANGED <<row, req, channel, poll, running, listen, attempt, memory>>

StartRead ==
    /\ phase = "starting"
    /\ fetched' = ActiveRows
    /\ phase' = "spawning"
    /\ attempt' = 0
    /\ UNCHANGED <<row, req, channel, tasks, worker, gather, poll, running, listen>>

(***************************************************************************)
(* Three attempts; after the third the process starts without workers.     *)
(***************************************************************************)
\* Mutant: one attempt too many.
StartReadFailsTwice ==
    /\ "read" \in Faults
    /\ phase = "starting"
    /\ \/ attempt < 3 /\ attempt' = attempt + 1 /\ phase' = phase
       \/ attempt = 3 /\ attempt' = 0 /\ phase' = "spawning"
    /\ UNCHANGED <<row, req, channel, poll, running, listen, memory>>

StartReadFails ==
    /\ "read" \in Faults
    /\ phase = "starting"
    /\ \/ attempt < 2 /\ attempt' = attempt + 1 /\ phase' = phase
       \/ attempt = 2 /\ attempt' = 0 /\ phase' = "spawning"
    /\ UNCHANGED <<row, req, channel, poll, running, listen, memory>>

StartSpawn ==
    /\ phase = "spawning"
    /\ Spawn(fetched)
    /\ fetched' = NoRows
    /\ phase' = "listening"
    /\ UNCHANGED <<row, req, channel, gather, poll, running, listen, attempt>>

(***************************************************************************)
(* LISTEN, or poll-only mode when it cannot be established; the poll task  *)
(* starts in both cases, and its loop begins with a sleep.                 *)
(***************************************************************************)
ListenerStart ==
    /\ phase = "listening"
    /\ \/ listen' = TRUE
       \/ "listen" \in Faults /\ listen' = FALSE
    /\ running' = TRUE
    /\ poll' = [PollOff EXCEPT !.pc = "sleep"]
    /\ phase' = "up"
    /\ UNCHANGED <<row, req, channel, attempt, memory>>

-----------------------------------------------------------------------------
(* on_service_changed -> SchedulerRunner.refresh_service *)

(***************************************************************************)
(* stop_service up to its await: the key is removed from _tasks at once,   *)
(* the task is cancelled; without a task there is nothing to await.        *)
(***************************************************************************)
\* Mutant: the key is removed, the task is not cancelled.
RefreshStartNoCancel ==
    /\ channel # <<>>
    /\ LET r == Head(channel) IN
        /\ req' = [req EXCEPT ![r] = [Idle EXCEPT !.pc = "reading"]]
        /\ tasks' = [tasks EXCEPT ![r[1]] = None]
    /\ channel' = Tail(channel)
    /\ UNCHANGED <<row, worker, gather, poll, fetched, listen, control>>

\* Mutant: the order of the docstring, cancel, await and only then remove the key.
RefreshStartKeepsKey ==
    /\ channel # <<>>
    /\ LET r == Head(channel)
           w == tasks[r[1]] IN
        /\ req' = [req EXCEPT ![r] = [pc   |-> IF w = None THEN "reading" ELSE "stopping",
                                      task |-> w,
                                      snap |-> Absent]]
        /\ worker' = Cancelled({w}, worker)
    /\ channel' = Tail(channel)
    /\ UNCHANGED <<row, tasks, gather, poll, fetched, listen, control>>

RefreshStart ==
    /\ channel # <<>>
    /\ LET r == Head(channel)
           s == r[1]
           w == tasks[s] IN
        /\ req' = [req EXCEPT ![r] = [pc   |-> IF w = None THEN "reading" ELSE "stopping",
                                      task |-> w,
                                      snap |-> Absent]]
        /\ tasks' = [tasks EXCEPT ![s] = None]
        /\ worker' = Cancelled({w}, worker)
    /\ channel' = Tail(channel)
    /\ UNCHANGED <<row, gather, poll, fetched, listen, control>>

RefreshResume(r) ==
    /\ req[r].pc = "stopping"
    /\ worker[req[r].task].pc = "done"
    /\ req' = [req EXCEPT ![r] = [Idle EXCEPT !.pc = "reading"]]
    /\ UNCHANGED <<row, channel, poll, listen, memory, control>>

(***************************************************************************)
(* fetch_service reads the row; closing the session is one more await      *)
(* before the row read is used.                                            *)
(***************************************************************************)
RefreshRead(r) ==
    /\ req[r].pc = "reading"
    /\ req' = [req EXCEPT ![r].pc = "read", ![r].snap = row[r[1]]]
    /\ UNCHANGED <<row, channel, poll, listen, memory, control>>

(***************************************************************************)
(* fetch_service raises: the callback's task ends, and the worker it       *)
(* stopped is not restarted.                                               *)
(***************************************************************************)
RefreshFails(r) ==
    /\ "read" \in Faults
    /\ req[r].pc = "reading"
    /\ req' = [req EXCEPT ![r] = Idle]
    /\ UNCHANGED <<row, channel, poll, listen, memory, control>>

(***************************************************************************)
(* ensure_running with the row read before the await.                      *)
(***************************************************************************)
RefreshEnsure(r) ==
    /\ req[r].pc = "read"
    /\ Spawn([NoRows EXCEPT ![r[1]] = req[r].snap])
    /\ req' = [req EXCEPT ![r] = Idle]
    /\ UNCHANGED <<row, channel, gather, poll, fetched, listen, control>>

-----------------------------------------------------------------------------
(* _poll_loop -> _poll_once *)

PollRead ==
    /\ poll.pc = "sleep"
    /\ running /\ ~poll.cancel
    /\ fetched' = ActiveRows
    /\ poll' = [poll EXCEPT !.pc = "read"]
    /\ UNCHANGED <<row, req, channel, tasks, worker, gather, listen, control>>

(***************************************************************************)
(* The iteration raises; _poll_loop logs it and sleeps again.              *)
(***************************************************************************)
\* Mutant: a failed read counts as an empty table.
PollFailsEmpty ==
    /\ "read" \in Faults
    /\ poll.pc = "read" /\ ~poll.cancel
    /\ fetched' = NoRows
    /\ UNCHANGED <<row, req, channel, tasks, worker, gather, poll, listen, control>>

PollFails ==
    /\ "read" \in Faults
    /\ poll.pc = "read" /\ ~poll.cancel
    /\ fetched' = NoRows
    /\ poll' = [poll EXCEPT !.pc = "sleep"]
    /\ UNCHANGED <<row, req, channel, tasks, worker, gather, listen, control>>

(***************************************************************************)
(* The rest of _poll_once up to its first await, in one step: both id sets *)
(* are taken, every id without a worker gets one, and the first of the ids *)
(* to stop (a set, in any order) is popped and cancelled.                  *)
(***************************************************************************)
\* Mutant: the poll starts workers and stops none.
ObsoleteNone(rows) == {}

Obsolete(rows) == {s \in Services : tasks[s] # None /\ rows[s].st # "active"}

PollApply ==
    /\ poll.pc = "read" /\ ~poll.cancel
    /\ CanSpawn(fetched)
    /\ \/ /\ Obsolete(fetched) = {}
          /\ tasks' = TasksWith(fetched)
          /\ worker' = WorkersWith(fetched)
          /\ poll' = [poll EXCEPT !.pc = "sleep"]
       \/ \E s \in Obsolete(fetched) :
          /\ tasks' = [TasksWith(fetched) EXCEPT ![s] = None]
          /\ worker' = Cancelled({tasks[s]}, WorkersWith(fetched))
          /\ poll' = [poll EXCEPT !.pc = "stopping", !.task = tasks[s],
                                  !.toStop = Obsolete(fetched) \ {s}]
    /\ fetched' = NoRows
    /\ UNCHANGED <<row, req, channel, gather, listen, control>>

(***************************************************************************)
(* stop_service swallows whatever its await raises, the CancelledError of  *)
(* the poll task itself included.  The loop goes on with the ids computed  *)
(* before the await, skipping those that have no task by now; when none is *)
(* left, the poll task sleeps or, if _running is false, ends.              *)
(***************************************************************************)
PollContinue ==
    /\ poll.pc = "stopping"
    /\ worker[poll.task].pc = "done"
    /\ \/ /\ \A s \in poll.toStop : tasks[s] = None
          /\ poll' = [PollOff EXCEPT !.pc = IF running THEN "sleep" ELSE "off"]
          /\ UNCHANGED <<tasks, worker>>
       \/ \E s \in {x \in poll.toStop : tasks[x] # None},
             skipped \in SUBSET {x \in poll.toStop : tasks[x] = None} :
          /\ tasks' = [tasks EXCEPT ![s] = None]
          /\ worker' = Cancelled({tasks[s]}, worker)
          /\ poll' = [PollOff EXCEPT !.pc = "stopping", !.task = tasks[s],
                                     !.toStop = poll.toStop \ ({s} \cup skipped)]
    /\ UNCHANGED <<row, req, channel, gather, fetched, listen, control>>

(***************************************************************************)
(* The cancellation reaches the poll task in its sleep or its database     *)
(* read, where nothing swallows it.                                        *)
(***************************************************************************)
PollCancelled ==
    /\ poll.cancel
    /\ poll.pc \in {"sleep", "read"}
    /\ poll' = PollOff
    /\ fetched' = NoRows
    /\ UNCHANGED <<row, req, channel, tasks, worker, gather, listen, control>>

-----------------------------------------------------------------------------
(* Shutdown: ServiceChangeListener.stop, then SchedulerRunner.stop *)

(***************************************************************************)
(* The server has answered every request before the lifespan's shutdown.   *)
(***************************************************************************)
\* Mutant: the poll task is cancelled, `_running` stays true.
StopBeginOnlyCancels ==
    /\ "stop" \in Faults
    /\ phase = "up"
    /\ \A r \in Requests : req[r].pc # "unsent"
    /\ phase' = "unlisten"
    /\ poll' = [poll EXCEPT !.cancel = TRUE]
    /\ UNCHANGED <<row, req, channel, running, listen, attempt, memory>>

StopBegin ==
    /\ "stop" \in Faults
    /\ phase = "up"
    /\ \A r \in Requests : req[r].pc # "unsent"
    /\ phase' = "unlisten"
    /\ running' = FALSE
    /\ poll' = [poll EXCEPT !.cancel = TRUE]
    /\ UNCHANGED <<row, req, channel, listen, attempt, memory>>

(***************************************************************************)
(* The poll task has ended: the LISTEN connection is closed and the runner *)
(* cancels every registered worker.  Callbacks in progress are nobody's.   *)
(***************************************************************************)
ListenerStopped ==
    /\ phase = "unlisten"
    /\ poll.pc = "off"
    /\ listen' = FALSE
    /\ channel' = <<>>
    /\ worker' = Cancelled(Range(tasks), worker)
    /\ gather' = Range(tasks) \ {None}
    /\ phase' = "stopping"
    /\ UNCHANGED <<row, req, tasks, poll, fetched, running, attempt>>

\* Mutant: without `_tasks.clear()`.
RunnerGatheredNoClear ==
    /\ phase = "stopping"
    /\ \A w \in gather : worker[w].pc = "done"
    /\ gather' = {}
    /\ phase' = "closing"
    /\ UNCHANGED <<row, req, channel, tasks, worker, poll, fetched, running, listen, attempt>>

RunnerGathered ==
    /\ phase = "stopping"
    /\ \A w \in gather : worker[w].pc = "done"
    /\ gather' = {}
    /\ tasks' = [s \in Services |-> None]
    /\ phase' = "closing"
    /\ UNCHANGED <<row, req, channel, worker, poll, fetched, running, listen, attempt>>

ClientClosed ==
    /\ phase = "closing"
    /\ phase' = "down"
    /\ UNCHANGED <<row, req, channel, poll, running, listen, attempt, memory>>

(***************************************************************************)
(* The process ends after its shutdown, or is killed at any point: only    *)
(* the table survives.                                                     *)
(***************************************************************************)
ProcessExit ==
    /\ phase = "down" \/ ("crash" \in Faults /\ phase # "off")
    /\ req' = [r \in Requests |-> Idle]
    /\ channel' = <<>>
    /\ tasks' = [s \in Services |-> None]
    /\ worker' = [w \in Workers |-> Finished]
    /\ gather' = {}
    /\ poll' = PollOff
    /\ fetched' = NoRows
    /\ phase' = "off"
    /\ running' = FALSE
    /\ listen' = FALSE
    /\ attempt' = 0
    /\ UNCHANGED row

(***************************************************************************)
(* A worker ends only by cancellation: worker_loop catches everything else.*)
(***************************************************************************)
WorkerFinish(w) ==
    /\ worker[w].pc = "cancelled"
    /\ worker' = [worker EXCEPT ![w] = Finished]
    /\ UNCHANGED <<row, req, channel, tasks, gather, poll, fetched, listen, control>>

-----------------------------------------------------------------------------
Init ==
    /\ row \in [Services -> {Absent, [st |-> "active", ver |-> 0], [st |-> "inactive", ver |-> 0]}]
    /\ req = [r \in Requests |-> Idle]
    /\ channel = <<>>
    /\ tasks = [s \in Services |-> None]
    /\ worker = [w \in Workers |-> Finished]
    /\ gather = {}
    /\ poll = PollOff
    /\ fetched = NoRows
    /\ phase = "off"
    /\ running = FALSE
    /\ listen = FALSE
    /\ attempt = 0

Catalog == \E s \in Services : Create(s) \/ Seed(s) \/ Update(s) \/ Delete(s)

Handlers ==
    \/ \E r \in Requests : NotifySent(r) \/ RefreshResume(r) \/ RefreshRead(r) \/ RefreshEnsure(r)
    \/ RefreshStart

Polling == PollRead \/ PollApply \/ PollContinue \/ PollCancelled

Lifespan == Boot \/ StartRead \/ StartSpawn \/ ListenerStart
            \/ ListenerStopped \/ RunnerGathered \/ ClientClosed

Failures ==
    \/ \E r \in Requests : NotifyFails(r) \/ RefreshFails(r)
    \/ ListenDrops \/ StartReadFails \/ PollFails

Next ==
    \/ Catalog \/ Handlers \/ Polling \/ Lifespan \/ Failures
    \/ StopBegin \/ ProcessExit
    \/ \E w \in Workers : WorkerFinish(w)

Spec == Init /\ [][Next]_vars

(***************************************************************************)
(* asyncio resumes a coroutine whose await is over; a cancelled worker     *)
(* unwinds; PostgreSQL answers.  A poll that keeps failing would prevent   *)
(* convergence, so PollApply is strongly fair: the database is not down    *)
(* for ever.  Nothing is assumed of the users, the failures, the stop.     *)
(***************************************************************************)
Fairness ==
    /\ \A r \in Requests : /\ WF_vars(NotifySent(r))
                           /\ WF_vars(RefreshResume(r))
                           /\ WF_vars(RefreshRead(r))
                           /\ WF_vars(RefreshEnsure(r))
    /\ WF_vars(RefreshStart)
    /\ WF_vars(PollRead) /\ SF_vars(PollApply)
    /\ WF_vars(PollContinue) /\ WF_vars(PollCancelled)
    /\ WF_vars(Lifespan)
    /\ \A w \in Workers : WF_vars(WorkerFinish(w))

FairSpec == Spec /\ Fairness

-----------------------------------------------------------------------------
(***************************************************************************)
(* The variables keep to the values the code can give them.                *)
(***************************************************************************)
RequestType == [pc   : {"idle", "unsent", "stopping", "reading", "read"},
                task : Workers \cup {None},
                snap : Row]

WorkerType == [pc  : {"done", "run", "cancelled"},
               sid : Services \cup {None},
               ver : 0..MaxVersion]

PollType == [pc     : {"off", "sleep", "read", "stopping"},
             toStop : SUBSET Services,
             task   : Workers \cup {None},
             cancel : BOOLEAN]

Phases == {"off", "starting", "spawning", "listening", "up",
           "unlisten", "stopping", "closing", "down"}

TypeOK ==
    /\ row \in [Services -> Row]
    /\ req \in [Requests -> RequestType]
    /\ channel \in Seq(Requests)
    /\ tasks \in [Services -> Workers \cup {None}]
    /\ worker \in [Workers -> WorkerType]
    /\ gather \in SUBSET Workers
    /\ poll \in PollType
    /\ fetched \in [Services -> Row]
    /\ phase \in Phases
    /\ running \in BOOLEAN
    /\ listen \in BOOLEAN
    /\ attempt \in 0..2

(***************************************************************************)
(* Until the runner has forgotten its tasks, every worker that runs is the *)
(* one _tasks holds for its service.  So a service has at most one worker  *)
(* that runs, and none that refresh, poll and shutdown cannot reach        *)
(* (runner.py: _spawn, stop_service, stop).                                *)
(***************************************************************************)
NoOrphan ==
    phase \notin {"closing", "down"} =>
        \A w \in Workers : worker[w].pc = "run" => tasks[worker[w].sid] = w

(***************************************************************************)
(* What _tasks holds for a service is a worker of that service that runs:  *)
(* no dead entry keeps ensure_running from starting a worker.  During the  *)
(* shutdown it may be one that is being awaited (runner.py:103-118).       *)
(***************************************************************************)
RegisteredIsRunning ==
    \A s \in Services : tasks[s] # None =>
        \/ worker[tasks[s]].pc = "run" /\ worker[tasks[s]].sid = s
        \/ phase = "stopping" /\ tasks[s] \in gather

(***************************************************************************)
(* A worker that stop_service awaits has one awaiter, a refresh or the     *)
(* poll, is no longer registered and no longer runs, however refreshes,    *)
(* polls and the shutdown interleave (runner.py:109-118: pop, cancel,      *)
(* await).                                                                 *)
(***************************************************************************)
Relinquished(w) == worker[w].pc # "run" /\ \A s \in Services : tasks[s] # w

StopOwnership ==
    /\ \A r \in Requests : req[r].task # None =>
          /\ Relinquished(req[r].task)
          /\ req[r].task # poll.task
          /\ \A q \in Requests \ {r} : req[q].task # req[r].task
    /\ poll.task # None => Relinquished(poll.task)

(***************************************************************************)
(* No step overwrites an entry of _tasks: a second worker for a service is *)
(* started only after the first was popped (runner.py:93-107).             *)
(***************************************************************************)
NeverOverwritten ==
    [][\A s \in Services : tasks[s] # None /\ tasks'[s] # None => tasks'[s] = tasks[s]]_vars

(***************************************************************************)
(* A refresh uses a row at least as new as the write that notified it: the *)
(* NOTIFY follows the commit (catalog.py:30-37, repositories/services.py). *)
(***************************************************************************)
RefreshReadsNotified ==
    \A r \in Requests : req[r].pc = "read" => req[r].snap.ver >= r[2]

(***************************************************************************)
(* The inductive invariant behind the four above: in addition, no worker   *)
(* is registered twice, one that runs has a service, and one awaited by    *)
(* stop() does not run.                                                    *)
(***************************************************************************)
RegisteredOnce ==
    \A s, t \in Services : tasks[s] = tasks[t] /\ tasks[s] # None => s = t

RunHasService ==
    \A w \in Workers : worker[w].pc = "run" => worker[w].sid \in Services

GatheredIsStopped == \A w \in gather : worker[w].pc # "run"

RegistryInv ==
    /\ TypeOK
    /\ NoOrphan
    /\ RunHasService
    /\ RegisteredIsRunning
    /\ StopOwnership
    /\ RegisteredOnce
    /\ GatheredIsStopped

(***************************************************************************)
(* The scheduler implements module Fleet: what monitors a service is the   *)
(* worker _tasks holds for it, until runner.stop cancels them all.  So a   *)
(* worker of a service that was never changed runs through all refreshes   *)
(* and polls, failed and overlapping ones too, and no worker starts with a *)
(* configuration that was not committed.                                   *)
(***************************************************************************)
Monitored == [s \in Services |-> IF tasks[s] # None /\ worker[tasks[s]].pc = "run"
                                 THEN worker[tasks[s]].ver ELSE None]

F == INSTANCE Fleet WITH rows <- row, fleet <- Monitored,
                         serving <- phase \notin {"stopping", "closing", "down", "off"}

(***************************************************************************)
(* Every step of the scheduler is one of module Fleet, or changes nothing  *)
(* it speaks of.                                                           *)
(***************************************************************************)
ImplementsFleet == F!Spec

(***************************************************************************)
(* The invariant behind it: rows read before an await are versions that    *)
(* were committed, a request that is notified or handled has been written, *)
(* and the poll is about to stop only services that were.                  *)
(***************************************************************************)
WasCommitted(s, snap) ==
    snap.st = "active" =>
        /\ row[s].st # "absent"
        /\ snap.ver <= row[s].ver
        /\ snap.ver = row[s].ver => row[s].st = "active"

Written(r) == row[r[1]].ver >= r[2]

SnapshotsCommitted ==
    /\ \A s \in Services : WasCommitted(s, fetched[s])
    /\ \A r \in Requests : req[r].pc = "read" => WasCommitted(r[1], req[r].snap)

RequestsWritten ==
    /\ \A r \in Requests : req[r].pc # "idle" => Written(r)
    /\ \A k \in DOMAIN channel : Written(channel[k])

PollPhase ==
    /\ running => phase = "up"
    /\ phase \notin {"up", "unlisten"} => poll.pc = "off"

StopsOnlyWritten ==
    /\ \A s \in Services : Monitored[s] # None /\ row[s].ver = 0 =>
          /\ row[s].st = "active"
          /\ poll.pc = "read" => fetched[s].st = "active"
    /\ poll.pc = "stopping" => \A s \in poll.toStop : row[s].ver > 0

FleetInv ==
    /\ RegistryInv
    /\ SnapshotsCommitted
    /\ RequestsWritten
    /\ PollPhase
    /\ StopsOnlyWritten
    /\ RefreshReadsNotified

(***************************************************************************)
(* If the process stays up, the services with a worker become and remain   *)
(* the active rows, whatever was lost on the way (README.md:109-111, the   *)
(* poll is the mechanism of guaranteed convergence).                       *)
(***************************************************************************)
Converges ==
    <>[](phase = "up") => <>[](\A s \in Services : (tasks[s] # None) <=> (row[s].st = "active"))

(***************************************************************************)
(* A shutdown that begins ends, although stop_service swallows the         *)
(* cancellation of the poll task (listener.py:71-83, runner.py:115-118).   *)
(***************************************************************************)
ShutdownTerminates == phase = "unlisten" ~> phase \in {"down", "off"}

(***************************************************************************)
(* README.md:109-111 promises that catalog changes reach the workers almost*)
(* at once and that the poll guarantees convergence: every worker ends up  *)
(* with the current row.                                                   *)
(***************************************************************************)
ConfigConverges ==
    <>[](phase = "up") =>
        <>[](\A s \in Services : tasks[s] # None => worker[tasks[s]].ver = row[s].ver)

(***************************************************************************)
(* README.md:60, runner.py:141: the lifespan puts out the background tasks,*)
(* so none is left when it is done.                                        *)
(***************************************************************************)
GracefulStop == phase = "down" => \A w \in Workers : worker[w].pc = "done"
=============================================================================
