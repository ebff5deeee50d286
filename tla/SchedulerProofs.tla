--------------------------- MODULE SchedulerProofs ---------------------------
(***************************************************************************)
(* The registry of workers, for every set of services, any number of       *)
(* writes and every combination of failures: types, and the inductive      *)
(* invariant RegistryInv with the properties it implies.                   *)
(***************************************************************************)
EXTENDS Scheduler, TLAPS

(***************************************************************************)
(* What _spawn does to the registry (runner.py:93-101): each missing       *)
(* service gets a task of its own that nothing referred to, and everything *)
(* else stays.                                                             *)
(***************************************************************************)
LEMMA NewTasksInject ==
    ASSUME NEW rows, CanSpawn(rows)
    PROVE  /\ NewTasks(rows) \in [Missing(rows) -> Unused]
           /\ \A s, x \in Missing(rows) : NewTasks(rows)[s] = NewTasks(rows)[x] => s = x
<1>1. NewTasks(rows) \in Injection(Missing(rows), Unused)
  BY DEF CanSpawn, NewTasks
<1> QED
  BY <1>1 DEF Injection, IsInjective

LEMMA SpawnFacts ==
    ASSUME TypeOK, NEW rows \in [Services -> Row], CanSpawn(rows)
    PROVE  /\ TasksWith(rows) \in [Services -> Workers \cup {None}]
           /\ WorkersWith(rows) \in [Workers -> WorkerType]
           /\ \A s \in Missing(rows) :
                /\ TasksWith(rows)[s] \in Unused
                /\ WorkersWith(rows)[TasksWith(rows)[s]]
                     = [pc |-> "run", sid |-> s, ver |-> rows[s].ver]
           /\ \A s \in Services \ Missing(rows) : TasksWith(rows)[s] = tasks[s]
           /\ \A w \in Workers : \/ WorkersWith(rows)[w] = worker[w]
                                 \/ \E s \in Missing(rows) : TasksWith(rows)[s] = w
           /\ \A s, x \in Missing(rows) : TasksWith(rows)[s] = TasksWith(rows)[x] => s = x
<1> DEFINE t == NewTasks(rows)
           M == Missing(rows)
<1>1. /\ t \in [M -> Unused]
      /\ \A s, x \in M : t[s] = t[x] => s = x
  BY NewTasksInject
<1> HIDE DEF t
<1>2. M \subseteq Services /\ Unused \subseteq Workers
  BY DEF Missing, Unused
<1>3. TasksWith(rows) = [s \in Services |-> IF s \in M THEN t[s] ELSE tasks[s]]
  BY DEF TasksWith, t
<1> DEFINE owner(w) == CHOOSE x \in M : t[x] = w
<1>4. WorkersWith(rows) = [w \in Workers |->
         IF \E s \in M : t[s] = w
         THEN [pc |-> "run", sid |-> owner(w), ver |-> rows[owner(w)].ver]
         ELSE worker[w]]
  BY DEF WorkersWith, t
<1>5. \A s \in M : owner(t[s]) = s
  BY <1>1
<1> HIDE DEF owner
<1>6. \A s \in M : WorkersWith(rows)[t[s]] = [pc |-> "run", sid |-> s, ver |-> rows[s].ver]
  <2> TAKE s \in M
  <2>1. t[s] \in Workers
    BY <1>1, <1>2
  <2>2. WorkersWith(rows)[t[s]]
          = [pc |-> "run", sid |-> owner(t[s]), ver |-> rows[owner(t[s])].ver]
    BY <1>4, <2>1
  <2> QED
    BY <1>5, <2>2
<1>7. \A w \in Workers : (\A s \in M : t[s] # w) => WorkersWith(rows)[w] = worker[w]
  BY <1>4
<1>8. TasksWith(rows) \in [Services -> Workers \cup {None}]
  BY <1>1, <1>2, <1>3 DEF TypeOK
<1>9. WorkersWith(rows) \in [Workers -> WorkerType]
  <2>1. ASSUME NEW w \in Workers
        PROVE  WorkersWith(rows)[w] \in WorkerType
    <3>1. CASE \A s \in M : t[s] # w
      BY <3>1, <1>7 DEF TypeOK
    <3>2. CASE \E s \in M : t[s] = w
      <4>1. PICK s \in M : t[s] = w
        BY <3>2
      <4>2. s \in Services /\ rows[s].ver \in 0..MaxVersion
        BY <1>2 DEF Row
      <4>3. WorkersWith(rows)[w] = [pc |-> "run", sid |-> s, ver |-> rows[s].ver]
        BY <4>1, <1>6
      <4> QED
        BY <4>2, <4>3 DEF WorkerType
    <3> QED
      BY <3>1, <3>2
  <2> QED
    BY <2>1, <1>4
<1>10. \A s \in M : TasksWith(rows)[s] = t[s]
  BY <1>2, <1>3
<1> QED
  BY <1>1, <1>2, <1>3, <1>6, <1>7, <1>8, <1>9, <1>10

LEMMA CancelledFacts ==
    ASSUME NEW W, NEW wk \in [Workers -> WorkerType]
    PROVE  /\ Cancelled(W, wk) \in [Workers -> WorkerType]
           /\ \A w \in Workers :
                /\ w \notin W => Cancelled(W, wk)[w] = wk[w]
                /\ w \in W => Cancelled(W, wk)[w].pc # "run"
                /\ Cancelled(W, wk)[w].pc = "run" => Cancelled(W, wk)[w] = wk[w]
                /\ wk[w].pc # "run" => Cancelled(W, wk)[w] = wk[w]
  BY DEF Cancelled, WorkerType

-----------------------------------------------------------------------------
LEMMA EmptyChannel == <<>> \in Seq(Requests)
<1> DEFINE R == Requests
<1> HIDE DEF R
<1>1. <<>> \in Seq(R)
  OBVIOUS
<1> QED
  BY <1>1 DEF R

LEMMA InitTypeOK == Init => TypeOK
<1> SUFFICES ASSUME Init PROVE TypeOK
  OBVIOUS
<1> USE MaxVersionAssumption
<1>1. 0 \in 0..MaxVersion /\ Absent \in Row /\ Idle \in RequestType /\ Finished \in WorkerType
  BY DEF Absent, Idle, Finished, Row, RequestType, WorkerType
<1>2. PollOff \in PollType
  BY DEF PollOff, PollType
<1>3. row \in [Services -> Row]
  BY <1>1 DEF Init, Row
<1>4. /\ req \in [Requests -> RequestType] /\ fetched \in [Services -> Row]
      /\ worker \in [Workers -> WorkerType]
  BY <1>1 DEF Init, NoRows
<1>5. tasks \in [Services -> Workers \cup {None}] /\ gather \in SUBSET Workers
  BY DEF Init
<1>6. phase \in Phases /\ attempt \in 0..2
  BY DEF Init, Phases
<1>7. running \in BOOLEAN /\ listen \in BOOLEAN
  BY Zenon DEF Init
<1>8. channel = <<>> /\ poll \in PollType
  BY <1>2 DEF Init
<1>9. channel \in Seq(Requests)
  BY <1>8, EmptyChannel, Zenon
<1> QED
  BY <1>3, <1>4, <1>5, <1>6, <1>8, <1>9, <1>7 DEF TypeOK

(***************************************************************************)
(* The catalog writes and their NOTIFY keep the types.                     *)
(***************************************************************************)
LEMMA CatalogTypeOK == TypeOK /\ Catalog => TypeOK'
<1> SUFFICES ASSUME TypeOK, NEW s \in Services,
                    Create(s) \/ Seed(s) \/ Update(s) \/ Delete(s)
             PROVE  TypeOK'
  BY DEF Catalog
<1> USE MaxVersionAssumption
<1>1. ASSUME NEW st \in {"active", "inactive"}, Insert(s, st)
      PROVE  TypeOK'
  <2>1. row' \in [Services -> Row]
    BY <1>1 DEF Insert, TypeOK, Row
  <2> QED
    BY <1>1, <2>1 DEF Insert, TypeOK, memory, control
<1>2. ASSUME NEW st \in {"active", "inactive", "deleted"}, Write(s, st)
      PROVE  TypeOK'
  <2> DEFINE v == row[s].ver + 1
  <2>1. row[s].ver \in 0..MaxVersion
    BY DEF TypeOK, Row
  <2>2. v \in 0..MaxVersion /\ <<s, v>> \in Requests
    BY <1>2, <2>1 DEF Write, Requests, Versions
  <2>3. row' \in [Services -> Row]
    BY <1>2, <2>2 DEF Write, TypeOK, Row
  <2>4. req' = [req EXCEPT ![<<s, v>>].pc = "unsent"]
    BY <1>2 DEF Write
  <2>5. [req[<<s, v>>] EXCEPT !.pc = "unsent"] \in RequestType
    BY <2>2 DEF TypeOK, RequestType
  <2>6. req' \in [Requests -> RequestType]
    BY <2>2, <2>4, <2>5 DEF TypeOK
  <2> QED
    BY <1>2, <2>3, <2>6 DEF Write, TypeOK, memory, control
<1> QED
  BY <1>1, <1>2 DEF Create, Seed, Update, Delete

(***************************************************************************)
(* The listener's callback keeps the types.                                *)
(***************************************************************************)
LEMMA HandlersTypeOK == TypeOK /\ Handlers => TypeOK'
<1> SUFFICES ASSUME TypeOK, Handlers PROVE TypeOK'
  OBVIOUS
<1>1. Absent \in Row /\ Idle \in RequestType
  BY MaxVersionAssumption DEF Absent, Idle, Row, RequestType
<1>2. ASSUME NEW r \in Requests, NotifySent(r)
      PROVE  TypeOK'
  <2>1. req' \in [Requests -> RequestType]
    BY <1>1, <1>2 DEF NotifySent, TypeOK
  <2>2. channel' \in Seq(Requests)
    BY <1>2 DEF NotifySent, TypeOK
  <2> QED
    BY <1>2, <2>1, <2>2 DEF NotifySent, TypeOK, memory, control
<1>3. ASSUME NEW r \in Requests, RefreshResume(r)
      PROVE  TypeOK'
  <2>1. [Idle EXCEPT !.pc = "reading"] \in RequestType
    BY <1>1 DEF RequestType
  <2>2. req' \in [Requests -> RequestType]
    BY <1>3, <2>1 DEF RefreshResume, TypeOK
  <2> QED
    BY <1>3, <2>2 DEF RefreshResume, TypeOK, memory, control
<1>4. ASSUME NEW r \in Requests, RefreshRead(r)
      PROVE  TypeOK'
  <2>1. row[r[1]] \in Row
    BY DEF Requests, TypeOK
  <2>2. [req[r] EXCEPT !.pc = "read", !.snap = row[r[1]]] \in RequestType
    BY <2>1 DEF TypeOK, RequestType
  <2>3. req' \in [Requests -> RequestType]
    BY <1>4, <2>2 DEF RefreshRead, TypeOK
  <2> QED
    BY <1>4, <2>3 DEF RefreshRead, TypeOK, memory, control
<1>5. ASSUME NEW r \in Requests, RefreshEnsure(r)
      PROVE  TypeOK'
  <2> DEFINE rows == [NoRows EXCEPT ![r[1]] = req[r].snap]
  <2>1. rows \in [Services -> Row]
    BY <1>1 DEF NoRows, TypeOK, RequestType
  <2>2. CanSpawn(rows) /\ tasks' = TasksWith(rows) /\ worker' = WorkersWith(rows)
    BY <1>5 DEF RefreshEnsure, Spawn
  <2>3. tasks' \in [Services -> Workers \cup {None}] /\ worker' \in [Workers -> WorkerType]
    BY <2>1, <2>2, SpawnFacts
  <2>4. req' \in [Requests -> RequestType]
    BY <1>1, <1>5 DEF RefreshEnsure, TypeOK
  <2> QED
    BY <1>5, <2>3, <2>4 DEF RefreshEnsure, TypeOK, control
<1>6. CASE RefreshStart
  <2> DEFINE r == Head(channel)
             w == tasks[r[1]]
  <2>1. r \in Requests /\ Tail(channel) \in Seq(Requests)
    BY <1>6 DEF RefreshStart, TypeOK
  <2>2. r[1] \in Services
    BY <2>1 DEF Requests
  <2>3. w \in Workers \cup {None}
    BY <2>2 DEF TypeOK
  <2> HIDE DEF r
  <2>4. /\ req' = [req EXCEPT ![r] = [pc   |-> IF w = None THEN "reading" ELSE "stopping",
                                      task |-> w,
                                      snap |-> Absent]]
        /\ tasks' = [tasks EXCEPT ![r[1]] = None]
        /\ worker' = Cancelled({w}, worker)
    BY <1>6 DEF RefreshStart, r
  <2>5. req' \in [Requests -> RequestType]
    BY <1>1, <2>3, <2>4 DEF TypeOK, RequestType
  <2>6. tasks' \in [Services -> Workers \cup {None}]
    BY <2>4 DEF TypeOK
  <2>7. worker' \in [Workers -> WorkerType]
    BY <2>4, CancelledFacts DEF TypeOK
  <2> QED
    BY <1>6, <2>1, <2>5, <2>6, <2>7 DEF RefreshStart, TypeOK, control, r
<1> QED
  BY <1>2, <1>3, <1>4, <1>5, <1>6 DEF Handlers

(***************************************************************************)
(* The poll loop keeps the types.                                          *)
(***************************************************************************)
LEMMA ActiveRowsType == TypeOK => ActiveRows \in [Services -> Row] /\ NoRows \in [Services -> Row]
  BY MaxVersionAssumption DEF TypeOK, ActiveRows, NoRows, Absent, Row

LEMMA PollingTypeOK == TypeOK /\ Polling => TypeOK'
<1> SUFFICES ASSUME TypeOK, Polling PROVE TypeOK'
  OBVIOUS
<1>1. PollOff \in PollType /\ NoRows \in [Services -> Row]
  BY ActiveRowsType DEF PollOff, PollType
<1>2. CASE PollRead
  <2>1. fetched' \in [Services -> Row] /\ poll' \in PollType
    BY <1>2, ActiveRowsType DEF PollRead, TypeOK, PollType
  <2> QED
    BY <1>2, <2>1 DEF PollRead, TypeOK, control
<1>3. CASE PollApply
  <2>1. /\ TasksWith(fetched) \in [Services -> Workers \cup {None}]
        /\ WorkersWith(fetched) \in [Workers -> WorkerType]
    BY <1>3, SpawnFacts DEF PollApply, TypeOK
  <2>2. /\ tasks' \in [Services -> Workers \cup {None}]
        /\ worker' \in [Workers -> WorkerType]
        /\ poll' \in PollType
    <3>1. CASE /\ tasks' = TasksWith(fetched)
               /\ worker' = WorkersWith(fetched)
               /\ poll' = [poll EXCEPT !.pc = "sleep"]
      BY <2>1, <3>1 DEF TypeOK, PollType
    <3>2. ASSUME NEW s \in Obsolete(fetched),
                 tasks' = [TasksWith(fetched) EXCEPT ![s] = None],
                 worker' = Cancelled({tasks[s]}, WorkersWith(fetched)),
                 poll' = [poll EXCEPT !.pc = "stopping", !.task = tasks[s],
                                      !.toStop = Obsolete(fetched) \ {s}]
          PROVE  /\ tasks' \in [Services -> Workers \cup {None}]
                 /\ worker' \in [Workers -> WorkerType]
                 /\ poll' \in PollType
      <4>1. Obsolete(fetched) \subseteq Services
        BY DEF Obsolete
      <4>2. tasks[s] \in Workers \cup {None}
        BY <4>1 DEF TypeOK
      <4>3. tasks' \in [Services -> Workers \cup {None}]
        BY <2>1, <3>2
      <4>4. worker' \in [Workers -> WorkerType]
        BY <2>1, <3>2, CancelledFacts
      <4>5. poll' \in PollType
        BY <3>2, <4>1, <4>2 DEF TypeOK, PollType
      <4> QED
        BY <4>3, <4>4, <4>5
    <3> QED
      BY <1>3, <3>1, <3>2 DEF PollApply
  <2> QED
    BY <1>1, <1>3, <2>2 DEF PollApply, TypeOK, control
<1>4. CASE PollContinue
  <2>1. /\ tasks' \in [Services -> Workers \cup {None}]
        /\ worker' \in [Workers -> WorkerType]
        /\ poll' \in PollType
    <3>1. CASE /\ poll' = [PollOff EXCEPT !.pc = IF running THEN "sleep" ELSE "off"]
               /\ UNCHANGED <<tasks, worker>>
      BY <1>1, <3>1 DEF TypeOK, PollType
    <3>2. ASSUME NEW s \in poll.toStop, NEW skipped \in SUBSET poll.toStop,
                 tasks' = [tasks EXCEPT ![s] = None],
                 worker' = Cancelled({tasks[s]}, worker),
                 poll' = [PollOff EXCEPT !.pc = "stopping", !.task = tasks[s],
                                         !.toStop = poll.toStop \ ({s} \cup skipped)]
          PROVE  /\ tasks' \in [Services -> Workers \cup {None}]
                 /\ worker' \in [Workers -> WorkerType]
                 /\ poll' \in PollType
      <4>1. poll.toStop \subseteq Services
        BY DEF TypeOK, PollType
      <4>2. tasks[s] \in Workers \cup {None}
        BY <4>1 DEF TypeOK
      <4>3. tasks' \in [Services -> Workers \cup {None}]
        BY <3>2 DEF TypeOK
      <4>4. worker' \in [Workers -> WorkerType]
        BY <3>2, CancelledFacts DEF TypeOK
      <4>5. poll' \in PollType
        BY <1>1, <3>2, <4>1, <4>2 DEF PollType
      <4> QED
        BY <4>3, <4>4, <4>5
    <3> QED
      BY <1>4, <3>1, <3>2 DEF PollContinue
  <2> QED
    BY <1>4, <2>1 DEF PollContinue, TypeOK, control
<1>5. CASE PollCancelled
  BY <1>1, <1>5 DEF PollCancelled, TypeOK, control
<1> QED
  BY <1>2, <1>3, <1>4, <1>5 DEF Polling

(***************************************************************************)
(* Startup and shutdown keep the types.                                    *)
(***************************************************************************)
LEMMA LifespanTypeOK == TypeOK /\ (Lifespan \/ StopBegin \/ ProcessExit) => TypeOK'
<1> SUFFICES ASSUME TypeOK, Lifespan \/ StopBegin \/ ProcessExit PROVE TypeOK'
  OBVIOUS
<1>1. /\ PollOff \in PollType /\ Finished \in WorkerType /\ Idle \in RequestType
      /\ NoRows \in [Services -> Row]
  BY ActiveRowsType, MaxVersionAssumption
     DEF PollOff, PollType, Finished, WorkerType, Idle, RequestType, Absent, Row
<1>2. CASE Boot
  BY <1>2 DEF Boot, TypeOK, memory, Phases
<1>3. CASE StartRead
  BY <1>3, ActiveRowsType DEF StartRead, TypeOK, Phases
<1>4. CASE StartSpawn
  <2>1. tasks' \in [Services -> Workers \cup {None}] /\ worker' \in [Workers -> WorkerType]
    BY <1>4, SpawnFacts DEF StartSpawn, Spawn, TypeOK
  <2> QED
    BY <1>1, <1>4, <2>1 DEF StartSpawn, TypeOK, Phases
<1>5. CASE ListenerStart
  <2>1. poll' \in PollType
    BY <1>1, <1>5 DEF ListenerStart, PollType
  <2> QED
    BY <1>5, <2>1 DEF ListenerStart, TypeOK, memory, Phases
<1>6. CASE ListenerStopped
  <2>1. worker' \in [Workers -> WorkerType]
    BY <1>6, CancelledFacts DEF ListenerStopped, TypeOK
  <2>2. gather' \in SUBSET Workers
    BY <1>6 DEF ListenerStopped, TypeOK, Range
  <2> QED
    BY <1>6, <2>1, <2>2, EmptyChannel DEF ListenerStopped, TypeOK, Phases
<1>7. CASE RunnerGathered
  BY <1>7 DEF RunnerGathered, TypeOK, Phases
<1>8. CASE ClientClosed
  BY <1>8 DEF ClientClosed, TypeOK, memory, Phases
<1>9. CASE StopBegin
  <2>1. poll' \in PollType
    BY <1>9 DEF StopBegin, TypeOK, PollType
  <2> QED
    BY <1>9, <2>1 DEF StopBegin, TypeOK, memory, Phases
<1>10. CASE ProcessExit
  <2>1. /\ req' \in [Requests -> RequestType] /\ worker' \in [Workers -> WorkerType]
        /\ fetched' \in [Services -> Row] /\ poll' \in PollType /\ row' \in [Services -> Row]
    BY <1>1, <1>10 DEF ProcessExit, TypeOK
  <2>2. /\ tasks' \in [Services -> Workers \cup {None}] /\ gather' \in SUBSET Workers
        /\ phase' \in Phases /\ attempt' \in 0..2
    BY <1>10 DEF ProcessExit, Phases
  <2>3. channel' = <<>>
    BY <1>10 DEF ProcessExit
  <2>4. channel' \in Seq(Requests)
    BY <2>3, EmptyChannel, Zenon
  <2>5. running' \in BOOLEAN /\ listen' \in BOOLEAN
    BY <1>10, Zenon DEF ProcessExit
  <2> QED
    BY <2>1, <2>2, <2>4, <2>5 DEF TypeOK
<1> QED
  BY <1>2, <1>3, <1>4, <1>5, <1>6, <1>7, <1>8, <1>9, <1>10 DEF Lifespan

(***************************************************************************)
(* Failures and the end of a worker keep the types.                        *)
(***************************************************************************)
LEMMA FailuresTypeOK ==
    TypeOK /\ (Failures \/ \E w \in Workers : WorkerFinish(w)) => TypeOK'
<1> SUFFICES ASSUME TypeOK, Failures \/ \E w \in Workers : WorkerFinish(w) PROVE TypeOK'
  OBVIOUS
<1>1. /\ Finished \in WorkerType /\ Idle \in RequestType /\ NoRows \in [Services -> Row]
  BY ActiveRowsType, MaxVersionAssumption DEF Finished, WorkerType, Idle, RequestType, Absent, Row
<1>2. ASSUME NEW r \in Requests, NotifyFails(r)
      PROVE  TypeOK'
  BY <1>1, <1>2 DEF NotifyFails, TypeOK, memory, control
<1>3. ASSUME NEW r \in Requests, RefreshFails(r)
      PROVE  TypeOK'
  BY <1>1, <1>3 DEF RefreshFails, TypeOK, memory, control
<1>4. CASE ListenDrops
  BY <1>4, EmptyChannel DEF ListenDrops, TypeOK, memory, control
<1>5. CASE StartReadFails
  BY <1>5 DEF StartReadFails, TypeOK, memory, Phases
<1>6. CASE PollFails
  <2>1. poll' \in PollType
    BY <1>6 DEF PollFails, TypeOK, PollType
  <2> QED
    BY <1>1, <1>6, <2>1 DEF PollFails, TypeOK, control
<1>7. ASSUME NEW w \in Workers, WorkerFinish(w)
      PROVE  TypeOK'
  BY <1>1, <1>7 DEF WorkerFinish, TypeOK, control
<1> QED
  BY <1>2, <1>3, <1>4, <1>5, <1>6, <1>7 DEF Failures

LEMMA StutterTypeOK == TypeOK /\ UNCHANGED vars => TypeOK'
  BY DEF TypeOK, vars

(***************************************************************************)
(* Every reachable state of the scheduler has the types TypeOK states.     *)
(***************************************************************************)
THEOREM TypeCorrect == Spec => []TypeOK
<1>1. TypeOK /\ [Next]_vars => TypeOK'
  BY CatalogTypeOK, HandlersTypeOK, PollingTypeOK, LifespanTypeOK, FailuresTypeOK, StutterTypeOK
     DEF Next
<1> QED
  BY InitTypeOK, <1>1, PTL DEF Spec

-----------------------------------------------------------------------------
(***************************************************************************)
(* The shape of every step that neither gathers nor forgets the registry:  *)
(* the services in N get unused tasks that run, those in P lose theirs,    *)
(* which stop running, and no other entry and no other running task        *)
(* changes.  Such a step keeps the registry consistent.                    *)
(***************************************************************************)
RegistryStep(N, P) ==
    /\ N \subseteq Services /\ P \subseteq Services
    /\ \A x \in N : /\ tasks[x] = None
                    /\ tasks'[x] \in Unused
                    /\ worker'[tasks'[x]].pc = "run"
                    /\ worker'[tasks'[x]].sid = x
    /\ \A x \in P : /\ tasks'[x] = None
                    /\ tasks[x] # None => worker'[tasks[x]].pc # "run"
    /\ \A x \in Services \ (N \cup P) : tasks'[x] = tasks[x]
    /\ \A w \in Workers :
          \/ \E x \in N : w = tasks'[x]
          \/ \E x \in P : w = tasks[x]
          \/ worker'[w] = worker[w]
          \/ worker[w].pc # "run" /\ worker'[w].pc # "run"
    /\ gather' = gather
    /\ phase = "stopping" => phase' = "stopping"
    /\ phase \in {"closing", "down"} => phase' \in {"closing", "down"}

Registry ==
    NoOrphan /\ RunHasService /\ RegisteredIsRunning /\ RegisteredOnce /\ GatheredIsStopped

LEMMA RegistryStepKeeps ==
    ASSUME RegistryInv, TypeOK', NEW N, NEW P, RegistryStep(N, P)
    PROVE  Registry'
<1> USE NoneAssumption
<1>1. /\ \A x \in Services : tasks[x] \in Workers \cup {None}
      /\ \A x \in Services : tasks'[x] \in Workers \cup {None}
      /\ \A w \in Workers : worker'[w].sid \in Services \cup {None}
      /\ gather \subseteq Workers
  BY DEF RegistryInv, TypeOK, WorkerType
<1>2. \A x \in N : /\ \A s \in Services : tasks[s] # tasks'[x]
                  /\ tasks'[x] \in Workers
                  /\ tasks'[x] \notin gather
                  /\ worker[tasks'[x]].pc = "done"
  BY DEF RegistryStep, Unused
<1>3. \A x \in N, y \in N : tasks'[x] = tasks'[y] => x = y
  BY DEF RegistryStep
<1>4. RegisteredOnce'
  <2> SUFFICES ASSUME NEW s \in Services, NEW x \in Services,
                      tasks'[s] = tasks'[x], tasks'[s] # None
               PROVE  s = x
    BY DEF RegisteredOnce
  <2>1. s \notin P /\ x \notin P
    BY DEF RegistryStep
  <2>2. s \in N \/ tasks'[s] = tasks[s]
    BY <2>1 DEF RegistryStep
  <2>3. x \in N \/ tasks'[x] = tasks[x]
    BY <2>1 DEF RegistryStep
  <2> QED
    BY <2>2, <2>3, <1>2, <1>3 DEF RegistryInv, RegisteredOnce
<1>5. GatheredIsStopped'
  <2> SUFFICES ASSUME NEW w \in gather
               PROVE  worker'[w].pc # "run"
    BY DEF GatheredIsStopped, RegistryStep
  <2>1. w \in Workers /\ worker[w].pc # "run"
    BY <1>1 DEF RegistryInv, GatheredIsStopped
  <2>2. ~ \E x \in N : w = tasks'[x]
    BY <1>2, <1>1
  <2> QED
    BY <2>1, <2>2 DEF RegistryStep
<1>6. RegisteredIsRunning'
  <2> SUFFICES ASSUME NEW s \in Services, tasks'[s] # None
               PROVE  \/ worker'[tasks'[s]].pc = "run" /\ worker'[tasks'[s]].sid = s
                      \/ phase' = "stopping" /\ tasks'[s] \in gather'
    BY DEF RegisteredIsRunning
  <2>1. CASE s \in N
    BY <2>1 DEF RegistryStep
  <2>2. CASE s \notin N
    <3>1. s \notin P /\ tasks'[s] = tasks[s] /\ tasks[s] \in Workers
      BY <2>2, <1>1 DEF RegistryStep
    <3>2. CASE phase = "stopping" /\ tasks[s] \in gather
      BY <3>1, <3>2 DEF RegistryStep
    <3>3. CASE worker[tasks[s]].pc = "run" /\ worker[tasks[s]].sid = s
      <4>1. ~ \E x \in N : tasks[s] = tasks'[x]
        BY <1>2
      <4>2. ~ \E x \in P : tasks[s] = tasks[x]
        BY <3>1 DEF RegistryInv, RegisteredOnce, RegistryStep
      <4>3. worker'[tasks[s]] = worker[tasks[s]]
        BY <3>1, <3>3, <4>1, <4>2 DEF RegistryStep
      <4> QED
        BY <3>1, <3>3, <4>3
    <3> QED
      BY <3>1, <3>2, <3>3 DEF RegistryInv, RegisteredIsRunning
  <2> QED
    BY <2>1, <2>2
<1>7. RunHasService'
  <2> SUFFICES ASSUME NEW w \in Workers, worker'[w].pc = "run"
               PROVE  worker'[w].sid \in Services
    BY DEF RunHasService
  <2>1. CASE \E x \in N : w = tasks'[x]
    BY <2>1 DEF RegistryStep
  <2>2. CASE \E x \in P : w = tasks[x]
    BY <2>2, NoneAssumption DEF RegistryStep
  <2>3. CASE worker'[w] = worker[w]
    BY <2>3 DEF RegistryInv, RunHasService
  <2> QED
    BY <2>1, <2>2, <2>3 DEF RegistryStep
<1>8. NoOrphan'
  <2> SUFFICES ASSUME phase' \notin {"closing", "down"},
                      NEW w \in Workers, worker'[w].pc = "run"
               PROVE  tasks'[worker'[w].sid] = w
    BY DEF NoOrphan
  <2>1. phase \notin {"closing", "down"}
    BY DEF RegistryStep
  <2>2. CASE \E x \in N : w = tasks'[x]
    BY <2>2 DEF RegistryStep
  <2>3. ~ \E x \in P : w = tasks[x]
    BY DEF RegistryStep
  <2>4. CASE worker'[w] = worker[w] /\ ~ \E x \in N : w = tasks'[x]
    <3> DEFINE s == worker[w].sid
    <3>1. worker[w].pc = "run" /\ tasks[s] = w
      BY <2>1, <2>4 DEF RegistryInv, NoOrphan
    <3>2. s \in Services
      <4>1. worker[w].pc = "run" /\ w \in Workers
        BY <3>1
      <4> QED
        BY <2>1, <4>1 DEF RegistryInv, RunHasService
    <3>3. s \notin N
      BY <3>1, <3>2 DEF RegistryStep
    <3>4. s \notin P
      BY <2>3, <3>1
    <3> QED
      BY <2>4, <3>1, <3>2, <3>3, <3>4 DEF RegistryStep
  <2> QED
    BY <2>2, <2>3, <2>4 DEF RegistryStep
<1> QED
  BY <1>4, <1>5, <1>6, <1>7, <1>8 DEF Registry

(***************************************************************************)
(* A task that is awaited stays relinquished, and one that is popped       *)
(* becomes so and was awaited by nobody.                                   *)
(***************************************************************************)
LEMMA AwaitedStays ==
    ASSUME RegistryInv, NEW N, NEW P, RegistryStep(N, P), NEW w \in Workers,
           w = poll.task \/ \E r \in Requests : w = req[r].task
    PROVE  Relinquished(w)'
<1>1. Relinquished(w)
  BY NoneAssumption DEF RegistryInv, StopOwnership
<1>2. w \notin Unused
  BY DEF Unused
<1>3. worker'[w].pc # "run"
  <2>1. ~ (\E x \in N : w = tasks'[x]) /\ ~ (\E x \in P : w = tasks[x])
    BY <1>1, <1>2 DEF RegistryStep, Relinquished
  <2> QED
    BY <1>1, <2>1 DEF RegistryStep, Relinquished
<1>4. \A s \in Services : tasks'[s] # w
  <2> TAKE s \in Services
  <2>1. CASE s \in N
    BY <1>2, <2>1 DEF RegistryStep
  <2>2. CASE s \in P
    BY <2>2, NoneAssumption DEF RegistryStep
  <2>3. CASE s \notin N \cup P
    BY <1>1, <2>3 DEF RegistryStep, Relinquished
  <2> QED
    BY <2>1, <2>2, <2>3
<1> QED
  BY <1>3, <1>4 DEF Relinquished

LEMMA PoppedIsRelinquished ==
    ASSUME RegistryInv, NEW N, NEW P, RegistryStep(N, P), NEW s \in P,
           NEW w \in Workers, w = tasks[s]
    PROVE  /\ Relinquished(w)'
           /\ poll.task # w
           /\ \A r \in Requests : req[r].task # w
<1>1. s \in Services /\ w # None
  BY NoneAssumption DEF RegistryStep
<1>2. worker'[w].pc # "run"
  BY <1>1 DEF RegistryStep
<1>3. \A x \in Services : tasks'[x] # w
  <2> TAKE x \in Services
  <2>1. CASE x \in N
    BY <1>1, <2>1 DEF RegistryStep, Unused
  <2>2. CASE x \in P
    BY <1>1, <2>2 DEF RegistryStep
  <2>3. CASE x \notin N \cup P
    BY <1>1, <2>3 DEF RegistryStep, RegistryInv, RegisteredOnce
  <2> QED
    BY <2>1, <2>2, <2>3
<1>4. poll.task # w /\ \A r \in Requests : req[r].task # w
  BY <1>1 DEF RegistryInv, StopOwnership, Relinquished
<1> QED
  BY <1>2, <1>3, <1>4 DEF Relinquished

(***************************************************************************)
(* StopOwnership is kept when nobody starts to await, when one refresh     *)
(* awaits the task it popped, and when the poll does.                      *)
(***************************************************************************)
LEMMA OwnershipKept ==
    ASSUME RegistryInv, TypeOK, TypeOK', NEW N, NEW P, RegistryStep(N, P),
           \A r \in Requests : req'[r].task \in {None, req[r].task},
           poll'.task \in {None, poll.task}
    PROVE  StopOwnership'
<1>1. /\ \A r \in Requests : req'[r].task \in Workers \cup {None}
      /\ poll'.task \in Workers \cup {None}
  BY DEF TypeOK, RequestType, PollType
<1>2. ASSUME NEW r \in Requests, req'[r].task # None
      PROVE  /\ Relinquished(req[r].task)'
             /\ req'[r].task # poll'.task
             /\ \A q \in Requests \ {r} : req'[q].task # req'[r].task
  <2>1. req'[r].task = req[r].task /\ req[r].task \in Workers
    BY <1>1, <1>2
  <2>2. PICK w \in Workers : w = req[r].task
    BY <2>1
  <2>3. Relinquished(w)'
    BY <2>2, AwaitedStays
  <2>4. /\ w # poll.task
        /\ \A q \in Requests \ {r} : req[q].task # w
    BY <2>2, <1>2, <2>1 DEF RegistryInv, StopOwnership
  <2>5. /\ w # poll'.task
        /\ \A q \in Requests \ {r} : req'[q].task # w
    BY <2>4, NoneAssumption
  <2> QED
    BY <2>1, <2>2, <2>3, <2>5 DEF Relinquished
<1>3. ASSUME poll'.task # None
      PROVE  Relinquished(poll.task)'
  <2>1. PICK w \in Workers : w = poll.task /\ w = poll'.task
    BY <1>1, <1>3
  <2>2. Relinquished(w)'
    BY <2>1, AwaitedStays
  <2> QED
    BY <2>1, <2>2 DEF Relinquished
<1> QED
  BY <1>2, <1>3 DEF StopOwnership

LEMMA OwnershipRefresh ==
    ASSUME RegistryInv, TypeOK, TypeOK', NEW N, NEW P, RegistryStep(N, P),
           NEW r0 \in Requests, NEW s \in P,
           req'[r0].task = tasks[s],
           \A r \in Requests \ {r0} : req'[r].task = req[r].task,
           poll'.task = poll.task
    PROVE  StopOwnership'
<1>1. /\ \A r \in Requests : req'[r].task \in Workers \cup {None}
      /\ poll'.task \in Workers \cup {None}
  BY DEF TypeOK, RequestType, PollType
<1>2. \A w \in Workers : w = tasks[s] =>
         Relinquished(w)' /\ poll.task # w /\ \A q \in Requests : req[q].task # w
  BY PoppedIsRelinquished
<1>3. \A w \in Workers :
         (w = poll.task \/ \E r \in Requests : w = req[r].task) => Relinquished(w)'
  BY AwaitedStays
<1>4. ASSUME NEW r \in Requests, req'[r].task # None
      PROVE  /\ Relinquished(req[r].task)'
             /\ req'[r].task # poll'.task
             /\ \A q \in Requests \ {r} : req'[q].task # req'[r].task
  <2>1. PICK w \in Workers : w = req'[r].task
    BY <1>1, <1>4
  <2>2. CASE r = r0
    <3>1. Relinquished(w)' /\ poll.task # w /\ \A q \in Requests : req[q].task # w
      BY <1>2, <2>1, <2>2
    <3> QED
      BY <2>1, <2>2, <3>1 DEF Relinquished
  <2>3. CASE r # r0
    <3>1. w = req[r].task
      BY <2>1, <2>3
    <3>2. Relinquished(w)'
      BY <1>3, <3>1
    <3>3. w # poll.task /\ \A q \in Requests \ {r} : req[q].task # w
      BY <3>1, <1>4, <2>1 DEF RegistryInv, StopOwnership
    <3>4. req'[r0].task # w
      BY <1>2, <3>1
    <3>5. \A q \in Requests \ {r} : req'[q].task # w
      BY <3>3, <3>4
    <3> QED
      BY <2>1, <3>2, <3>3, <3>5 DEF Relinquished
  <2> QED
    BY <2>2, <2>3
<1>5. ASSUME poll'.task # None
      PROVE  Relinquished(poll.task)'
  <2>1. PICK w \in Workers : w = poll.task /\ w = poll'.task
    BY <1>1, <1>5
  <2>2. Relinquished(w)'
    BY <1>3, <2>1
  <2> QED
    BY <2>1, <2>2 DEF Relinquished
<1> QED
  BY <1>4, <1>5 DEF StopOwnership

LEMMA OwnershipPoll ==
    ASSUME RegistryInv, TypeOK, TypeOK', NEW N, NEW P, RegistryStep(N, P),
           NEW s \in P,
           poll'.task = tasks[s],
           \A r \in Requests : req'[r].task = req[r].task
    PROVE  StopOwnership'
<1>1. /\ \A r \in Requests : req'[r].task \in Workers \cup {None}
      /\ poll'.task \in Workers \cup {None}
  BY DEF TypeOK, RequestType, PollType
<1>2. \A w \in Workers : w = tasks[s] =>
         Relinquished(w)' /\ \A q \in Requests : req[q].task # w
  BY PoppedIsRelinquished
<1>3. ASSUME NEW r \in Requests, req'[r].task # None
      PROVE  /\ Relinquished(req[r].task)'
             /\ req'[r].task # poll'.task
             /\ \A q \in Requests \ {r} : req'[q].task # req'[r].task
  <2>1. PICK w \in Workers : w = req'[r].task /\ w = req[r].task
    BY <1>1, <1>3
  <2>2. Relinquished(w)'
    BY <2>1, AwaitedStays
  <2>3. w # poll'.task
    BY <1>2, <2>1
  <2>4. \A q \in Requests \ {r} : req'[q].task # w
    BY <1>3, <2>1 DEF RegistryInv, StopOwnership
  <2> QED
    BY <2>1, <2>2, <2>3, <2>4 DEF Relinquished
<1>4. ASSUME poll'.task # None
      PROVE  Relinquished(poll.task)'
  <2>1. PICK w \in Workers : w = poll'.task
    BY <1>1, <1>4
  <2>2. Relinquished(w)'
    BY <1>2, <2>1
  <2> QED
    BY <2>1, <2>2 DEF Relinquished
<1> QED
  BY <1>3, <1>4 DEF StopOwnership

-----------------------------------------------------------------------------
(***************************************************************************)
(* Each step that touches the registry has the shape of RegistryStep.      *)
(***************************************************************************)
LEMMA SpawnIsStep ==
    ASSUME TypeOK, NEW rows \in [Services -> Row], Spawn(rows), gather' = gather,
           phase = "stopping" => phase' = "stopping",
           phase \in {"closing", "down"} => phase' \in {"closing", "down"}
    PROVE  RegistryStep(Missing(rows), {})
<1>1. /\ CanSpawn(rows) /\ tasks' = TasksWith(rows) /\ worker' = WorkersWith(rows)
  BY DEF Spawn
<1>2. Missing(rows) \subseteq Services /\ \A s \in Missing(rows) : tasks[s] = None
  BY DEF Missing
<1>3. /\ \A s \in Missing(rows) :
            /\ TasksWith(rows)[s] \in Unused
            /\ WorkersWith(rows)[TasksWith(rows)[s]]
                 = [pc |-> "run", sid |-> s, ver |-> rows[s].ver]
      /\ \A s \in Services \ Missing(rows) : TasksWith(rows)[s] = tasks[s]
      /\ \A w \in Workers : \/ WorkersWith(rows)[w] = worker[w]
                            \/ \E s \in Missing(rows) : TasksWith(rows)[s] = w
  BY <1>1, SpawnFacts
<1>4. \A s \in Missing(rows) : /\ tasks[s] = None
                              /\ tasks'[s] \in Unused
                              /\ worker'[tasks'[s]].pc = "run"
                              /\ worker'[tasks'[s]].sid = s
  <2> TAKE s \in Missing(rows)
  <2>1. tasks[s] = None /\ tasks'[s] \in Unused
    BY <1>1, <1>2, <1>3
  <2>2. worker'[tasks'[s]] = [pc |-> "run", sid |-> s, ver |-> rows[s].ver]
    BY <1>1, <1>3
  <2> QED
    BY <2>1, <2>2
<1>5. \A s \in Services \ (Missing(rows) \cup {}) : tasks'[s] = tasks[s]
  BY <1>1, <1>3
<1>6. \A w \in Workers : \/ \E s \in Missing(rows) : w = tasks'[s]
                        \/ worker'[w] = worker[w]
  BY <1>1, <1>3
<1> QED
  BY <1>2, <1>4, <1>5, <1>6 DEF RegistryStep

LEMMA PopIsStep ==
    ASSUME TypeOK, NEW s \in Services,
           tasks' = [tasks EXCEPT ![s] = None],
           worker' = Cancelled({tasks[s]}, worker),
           gather' = gather, phase' = phase
    PROVE  RegistryStep({}, {s})
<1>1. \A w \in Workers :
        /\ w # tasks[s] => worker'[w] = worker[w]
        /\ w = tasks[s] => worker'[w].pc # "run"
  BY CancelledFacts DEF TypeOK
<1>2. tasks[s] # None => tasks[s] \in Workers
  BY DEF TypeOK
<1>3. tasks'[s] = None /\ \A x \in Services \ {s} : tasks'[x] = tasks[x]
  BY DEF TypeOK
<1> QED
  BY <1>1, <1>2, <1>3 DEF RegistryStep

LEMMA SameIsStep ==
    ASSUME UNCHANGED <<tasks, worker, gather>>,
           phase = "stopping" => phase' = "stopping",
           phase \in {"closing", "down"} => phase' \in {"closing", "down"}
    PROVE  RegistryStep({}, {})
  BY DEF RegistryStep

LEMMA SpawnAndPopIsStep ==
    ASSUME TypeOK, NEW rows \in [Services -> Row], CanSpawn(rows),
           NEW s \in Obsolete(rows),
           tasks' = [TasksWith(rows) EXCEPT ![s] = None],
           worker' = Cancelled({tasks[s]}, WorkersWith(rows)),
           gather' = gather, phase' = phase
    PROVE  RegistryStep(Missing(rows), {s})
<1> DEFINE M == Missing(rows)
<1>1. /\ TasksWith(rows) \in [Services -> Workers \cup {None}]
      /\ WorkersWith(rows) \in [Workers -> WorkerType]
      /\ \A x \in M : /\ TasksWith(rows)[x] \in Unused
                      /\ WorkersWith(rows)[TasksWith(rows)[x]]
                           = [pc |-> "run", sid |-> x, ver |-> rows[x].ver]
      /\ \A x \in Services \ M : TasksWith(rows)[x] = tasks[x]
      /\ \A w \in Workers : \/ WorkersWith(rows)[w] = worker[w]
                            \/ \E x \in M : TasksWith(rows)[x] = w
  BY SpawnFacts
<1>2. /\ s \in Services /\ s \notin M /\ M \subseteq Services
      /\ \A x \in M : tasks[x] = None
      /\ tasks[s] \in Workers
  BY DEF Obsolete, Missing, TypeOK
<1>3. Unused \subseteq Workers /\ tasks[s] \notin Unused
  BY <1>2 DEF Unused
<1>4. \A w \in Workers :
        /\ w # tasks[s] => worker'[w] = WorkersWith(rows)[w]
        /\ w = tasks[s] => worker'[w].pc # "run"
  BY <1>1, CancelledFacts
<1>5. /\ tasks'[s] = None
      /\ \A x \in Services \ {s} : tasks'[x] = TasksWith(rows)[x]
  BY <1>1, <1>2
<1>6. \A x \in M : /\ tasks[x] = None
                  /\ tasks'[x] \in Unused
                  /\ worker'[tasks'[x]].pc = "run"
                  /\ worker'[tasks'[x]].sid = x
  <2> TAKE x \in M
  <2>1. tasks'[x] = TasksWith(rows)[x] /\ tasks'[x] \in Unused /\ tasks'[x] # tasks[s]
    BY <1>1, <1>2, <1>3, <1>5
  <2>2. worker'[tasks'[x]] = [pc |-> "run", sid |-> x, ver |-> rows[x].ver]
    BY <1>1, <1>3, <1>4, <2>1
  <2> QED
    BY <1>2, <2>1, <2>2
<1>7. \A w \in Workers : \/ \E x \in M : w = tasks'[x]
                        \/ w = tasks[s]
                        \/ worker'[w] = worker[w]
  BY <1>1, <1>2, <1>4, <1>5
<1>8. \A x \in Services \ (M \cup {s}) : tasks'[x] = tasks[x]
  BY <1>1, <1>5
<1> QED
  BY <1>2, <1>4, <1>5, <1>6, <1>7, <1>8 DEF RegistryStep

-----------------------------------------------------------------------------
LEMMA InitRegistryInv == Init => RegistryInv
<1> SUFFICES ASSUME Init PROVE RegistryInv
  OBVIOUS
<1>1. TypeOK
  BY InitTypeOK
<1>2. \A w \in Workers : worker[w].pc = "done"
  BY DEF Init, Finished
<1>3. \A s \in Services : tasks[s] = None
  BY DEF Init
<1>4. /\ \A r \in Requests : req[r].task = None
      /\ poll.task = None
      /\ gather = {}
  BY DEF Init, Idle, PollOff
<1>5. NoOrphan /\ RunHasService /\ GatheredIsStopped
  BY <1>2, <1>4 DEF NoOrphan, RunHasService, GatheredIsStopped
<1>6. RegisteredIsRunning /\ RegisteredOnce
  BY <1>3 DEF RegisteredIsRunning, RegisteredOnce
<1>7. StopOwnership
  BY <1>4 DEF StopOwnership
<1> QED
  BY <1>1, <1>5, <1>6, <1>7 DEF RegistryInv

(***************************************************************************)
(* A step that leaves the registry alone, and the requests' and the poll's *)
(* tasks or drops them, keeps the invariant.                               *)
(***************************************************************************)
LEMMA SameKeeps ==
    ASSUME RegistryInv, TypeOK', UNCHANGED <<tasks, worker, gather>>,
           phase = "stopping" => phase' = "stopping",
           phase \in {"closing", "down"} => phase' \in {"closing", "down"},
           \A r \in Requests : req'[r].task \in {None, req[r].task},
           poll'.task \in {None, poll.task}
    PROVE  RegistryInv'
<1>1. RegistryStep({}, {})
  BY SameIsStep
<1>2. StopOwnership'
  BY <1>1, OwnershipKept DEF RegistryInv
<1> QED
  BY <1>1, <1>2, RegistryStepKeeps DEF RegistryInv, Registry

(***************************************************************************)
(* What the requests' records may become without awaiting a task.          *)
(***************************************************************************)
LEMMA RequestKeepsTask ==
    ASSUME TypeOK, NEW r \in Requests, NEW x,
           req' = [req EXCEPT ![r] = x], x.task \in {None, req[r].task}
    PROVE  \A q \in Requests : req'[q].task \in {None, req[q].task}
  BY DEF TypeOK

LEMMA CatalogKeepsRegistry == RegistryInv /\ Catalog => RegistryInv'
<1> SUFFICES ASSUME RegistryInv, Catalog PROVE RegistryInv'
  OBVIOUS
<1>1. TypeOK /\ TypeOK'
  BY CatalogTypeOK DEF RegistryInv
<1>2. ASSUME NEW s \in Services, NEW st, Insert(s, st)
      PROVE  RegistryInv'
  BY <1>1, <1>2, SameKeeps DEF Insert, memory, control
<1>3. ASSUME NEW s \in Services, NEW st, Write(s, st)
      PROVE  RegistryInv'
  <2>1. \A r \in Requests : req'[r].task = req[r].task
    BY <1>1, <1>3 DEF Write, TypeOK, RequestType
  <2> QED
    BY <1>1, <1>3, <2>1, SameKeeps DEF Write, memory, control
<1> QED
  BY <1>2, <1>3 DEF Catalog, Create, Seed, Update, Delete

LEMMA HandlersKeepRegistry == RegistryInv /\ Handlers => RegistryInv'
<1> SUFFICES ASSUME RegistryInv, Handlers PROVE RegistryInv'
  OBVIOUS
<1>1. TypeOK /\ TypeOK'
  BY HandlersTypeOK DEF RegistryInv
<1>2. Idle.task = None
  BY DEF Idle
<1>3. ASSUME NEW r \in Requests, NotifySent(r) \/ RefreshResume(r)
      PROVE  RegistryInv'
  <2>1. [Idle EXCEPT !.pc = "reading"].task = None
    BY DEF Idle
  <2>2. \A q \in Requests : req'[q].task \in {None, req[q].task}
    BY <1>1, <1>2, <1>3, <2>1, RequestKeepsTask DEF NotifySent, RefreshResume
  <2> QED
    BY <1>1, <1>3, <2>2, SameKeeps DEF NotifySent, RefreshResume, memory, control
<1>4. ASSUME NEW r \in Requests, RefreshRead(r)
      PROVE  RegistryInv'
  <2>1. \A q \in Requests : req'[q].task = req[q].task
    BY <1>1, <1>4 DEF RefreshRead, TypeOK, RequestType
  <2> QED
    BY <1>1, <1>4, <2>1, SameKeeps DEF RefreshRead, memory, control
<1>5. ASSUME NEW r \in Requests, RefreshEnsure(r)
      PROVE  RegistryInv'
  <2> DEFINE rows == [NoRows EXCEPT ![r[1]] = req[r].snap]
  <2>1. rows \in [Services -> Row]
    BY <1>1, ActiveRowsType DEF TypeOK, RequestType
  <2>2. Spawn(rows) /\ gather' = gather /\ phase' = phase /\ poll' = poll
    BY <1>5 DEF RefreshEnsure, control
  <2> HIDE DEF rows
  <2>3. RegistryStep(Missing(rows), {})
    BY <1>1, <2>1, <2>2, SpawnIsStep
  <2>4. \A q \in Requests : req'[q].task \in {None, req[q].task}
    BY <1>1, <1>2, <1>5, RequestKeepsTask DEF RefreshEnsure
  <2>5. StopOwnership'
    BY <1>1, <2>2, <2>3, <2>4, OwnershipKept
  <2> QED
    BY <1>1, <2>3, <2>5, RegistryStepKeeps DEF RegistryInv, Registry
<1>6. CASE RefreshStart
  <2> DEFINE r == Head(channel)
             s == r[1]
  <2>1. r \in Requests
    BY <1>1, <1>6 DEF RefreshStart, TypeOK
  <2>2. s \in Services
    BY <2>1 DEF Requests
  <2>3. /\ tasks' = [tasks EXCEPT ![s] = None]
        /\ worker' = Cancelled({tasks[s]}, worker)
        /\ gather' = gather /\ phase' = phase /\ poll' = poll
    BY <1>6 DEF RefreshStart, control
  <2>4. /\ req'[r].task = tasks[s]
        /\ \A q \in Requests \ {r} : req'[q].task = req[q].task
    BY <1>1, <1>6, <2>1 DEF RefreshStart, TypeOK
  <2> HIDE DEF r, s
  <2>5. RegistryStep({}, {s})
    BY <1>1, <2>2, <2>3, PopIsStep
  <2>6. StopOwnership'
    BY <1>1, <2>1, <2>3, <2>4, <2>5, OwnershipRefresh
  <2> QED
    BY <1>1, <2>5, <2>6, RegistryStepKeeps DEF RegistryInv, Registry
<1> QED
  BY <1>3, <1>4, <1>5, <1>6 DEF Handlers

LEMMA PollingKeepsRegistry == RegistryInv /\ Polling => RegistryInv'
<1> SUFFICES ASSUME RegistryInv, Polling PROVE RegistryInv'
  OBVIOUS
<1>1. TypeOK /\ TypeOK'
  BY PollingTypeOK DEF RegistryInv
<1>2. CASE PollRead \/ PollCancelled
  <2>1. poll'.task \in {None, poll.task}
    BY <1>1, <1>2 DEF PollRead, PollCancelled, PollOff, TypeOK, PollType
  <2> QED
    BY <1>1, <1>2, <2>1, SameKeeps DEF PollRead, PollCancelled, control
<1>3. CASE PollApply
  <2>1. /\ fetched \in [Services -> Row] /\ CanSpawn(fetched)
        /\ gather' = gather /\ phase' = phase /\ req' = req
    BY <1>1, <1>3 DEF PollApply, TypeOK, control
  <2>2. CASE /\ tasks' = TasksWith(fetched)
             /\ worker' = WorkersWith(fetched)
             /\ poll' = [poll EXCEPT !.pc = "sleep"]
    <3>1. RegistryStep(Missing(fetched), {})
      BY <1>1, <2>1, <2>2, SpawnIsStep DEF Spawn
    <3>2. poll'.task = poll.task
      BY <1>1, <2>2 DEF TypeOK, PollType
    <3>3. StopOwnership'
      BY <1>1, <2>1, <3>1, <3>2, OwnershipKept
    <3> QED
      BY <1>1, <3>1, <3>3, RegistryStepKeeps DEF RegistryInv, Registry
  <2>3. ASSUME NEW s \in Obsolete(fetched),
               tasks' = [TasksWith(fetched) EXCEPT ![s] = None],
               worker' = Cancelled({tasks[s]}, WorkersWith(fetched)),
               poll' = [poll EXCEPT !.pc = "stopping", !.task = tasks[s],
                                    !.toStop = Obsolete(fetched) \ {s}]
        PROVE  RegistryInv'
    <3>1. RegistryStep(Missing(fetched), {s})
      BY <1>1, <2>1, <2>3, SpawnAndPopIsStep
    <3>2. poll'.task = tasks[s]
      BY <1>1, <2>3 DEF TypeOK, PollType
    <3>3. StopOwnership'
      BY <1>1, <2>1, <3>1, <3>2, OwnershipPoll
    <3> QED
      BY <1>1, <3>1, <3>3, RegistryStepKeeps DEF RegistryInv, Registry
  <2> QED
    BY <1>3, <2>2, <2>3 DEF PollApply
<1>4. CASE PollContinue
  <2>1. gather' = gather /\ phase' = phase /\ req' = req
    BY <1>4 DEF PollContinue, control
  <2>2. CASE /\ poll' = [PollOff EXCEPT !.pc = IF running THEN "sleep" ELSE "off"]
             /\ UNCHANGED <<tasks, worker>>
    <3>1. poll'.task = None
      BY <2>2 DEF PollOff
    <3> QED
      BY <1>1, <2>1, <2>2, <3>1, SameKeeps
  <2>3. ASSUME NEW s \in poll.toStop, NEW skipped,
               tasks' = [tasks EXCEPT ![s] = None],
               worker' = Cancelled({tasks[s]}, worker),
               poll' = [PollOff EXCEPT !.pc = "stopping", !.task = tasks[s],
                                       !.toStop = poll.toStop \ ({s} \cup skipped)]
        PROVE  RegistryInv'
    <3>1. s \in Services
      BY <1>1 DEF TypeOK, PollType
    <3>2. RegistryStep({}, {s})
      BY <1>1, <2>1, <2>3, <3>1, PopIsStep
    <3>3. poll'.task = tasks[s]
      BY <2>3 DEF PollOff
    <3>4. StopOwnership'
      BY <1>1, <2>1, <3>2, <3>3, OwnershipPoll
    <3> QED
      BY <1>1, <3>2, <3>4, RegistryStepKeeps DEF RegistryInv, Registry
  <2> QED
    BY <1>4, <2>2, <2>3 DEF PollContinue
<1> QED
  BY <1>2, <1>3, <1>4 DEF Polling

(***************************************************************************)
(* runner.stop cancels every registered task and then awaits them.         *)
(***************************************************************************)
LEMMA ListenerStoppedKeepsRegistry == RegistryInv /\ ListenerStopped => RegistryInv'
<1> SUFFICES ASSUME RegistryInv, ListenerStopped PROVE RegistryInv'
  OBVIOUS
<1>1. TypeOK /\ TypeOK'
  BY LifespanTypeOK DEF RegistryInv, Lifespan
<1>2. /\ worker' = Cancelled(Range(tasks), worker)
      /\ gather' = Range(tasks) \ {None}
      /\ UNCHANGED <<tasks, req, poll>>
      /\ phase = "unlisten" /\ phase' = "stopping"
  BY DEF ListenerStopped
<1>3. \A w \in Workers : worker[w].pc # "run" => worker'[w] = worker[w]
  BY <1>1, <1>2, CancelledFacts DEF TypeOK
<1>4. \A w \in Workers : worker'[w].pc = "run" => worker'[w] = worker[w]
  BY <1>1, <1>2, CancelledFacts DEF TypeOK
<1>5. /\ \A s \in Services : tasks[s] # None => tasks[s] \in gather'
      /\ \A w \in gather' : w \in Workers /\ w \in Range(tasks)
  BY <1>1, <1>2 DEF Range, TypeOK
<1>6. \A w \in gather' : worker'[w].pc # "run"
  BY <1>1, <1>2, <1>5, CancelledFacts DEF TypeOK
<1>7. NoOrphan' /\ RunHasService'
  BY <1>2, <1>4 DEF RegistryInv, NoOrphan, RunHasService
<1>8. RegisteredIsRunning' /\ RegisteredOnce'
  BY <1>2, <1>5 DEF RegistryInv, RegisteredIsRunning, RegisteredOnce
<1>9. GatheredIsStopped'
  BY <1>6 DEF GatheredIsStopped
<1>10. StopOwnership'
  <2>1. \A w \in Workers : Relinquished(w) => Relinquished(w)'
    BY <1>2, <1>3 DEF Relinquished
  <2>2. poll.task \in Workers \cup {None} /\ \A r \in Requests : req[r].task \in Workers \cup {None}
    BY <1>1 DEF TypeOK, PollType, RequestType
  <2>3. ASSUME NEW r \in Requests, req[r].task # None
        PROVE  Relinquished(req[r].task)'
    <3>1. PICK w \in Workers : w = req[r].task
      BY <2>2, <2>3
    <3>2. Relinquished(w)'
      BY <2>1, <2>3, <3>1 DEF RegistryInv, StopOwnership
    <3> QED
      BY <1>2, <3>1, <3>2 DEF Relinquished
  <2>4. ASSUME poll.task # None
        PROVE  Relinquished(poll.task)'
    <3>1. PICK w \in Workers : w = poll.task
      BY <2>2, <2>4
    <3>2. Relinquished(w)'
      BY <2>1, <2>4, <3>1 DEF RegistryInv, StopOwnership
    <3> QED
      BY <1>2, <3>1, <3>2 DEF Relinquished
  <2> QED
    BY <1>2, <2>3, <2>4 DEF RegistryInv, StopOwnership
<1> QED
  BY <1>1, <1>8, <1>9, <1>10, <1>7 DEF RegistryInv

(***************************************************************************)
(* When the gathered tasks are done the dictionary is cleared; a worker    *)
(* started meanwhile is no longer registered from here on.                 *)
(***************************************************************************)
LEMMA RunnerGatheredKeepsRegistry == RegistryInv /\ RunnerGathered => RegistryInv'
<1> SUFFICES ASSUME RegistryInv, RunnerGathered PROVE RegistryInv'
  OBVIOUS
<1> USE NoneAssumption
<1>1. TypeOK /\ TypeOK'
  BY LifespanTypeOK DEF RegistryInv, Lifespan
<1>2. /\ UNCHANGED <<worker, req, poll>>
      /\ gather' = {} /\ phase' = "closing"
      /\ \A s \in Services : tasks'[s] = None
  BY DEF RunnerGathered
<1>3. NoOrphan' /\ RunHasService' /\ GatheredIsStopped'
  BY <1>2 DEF RegistryInv, NoOrphan, RunHasService, GatheredIsStopped
<1>4. RegisteredIsRunning' /\ RegisteredOnce'
  BY <1>2 DEF RegisteredIsRunning, RegisteredOnce
<1>5. StopOwnership'
  BY <1>2 DEF RegistryInv, StopOwnership, Relinquished
<1> QED
  BY <1>1, <1>3, <1>4, <1>5 DEF RegistryInv

LEMMA ProcessExitKeepsRegistry == RegistryInv /\ ProcessExit => RegistryInv'
<1> SUFFICES ASSUME RegistryInv, ProcessExit PROVE RegistryInv'
  OBVIOUS
<1>1. TypeOK'
  BY LifespanTypeOK DEF RegistryInv
<1>2. /\ \A w \in Workers : worker'[w].pc = "done"
      /\ \A s \in Services : tasks'[s] = None
      /\ \A r \in Requests : req'[r].task = None
      /\ poll'.task = None
      /\ gather' = {}
  BY DEF ProcessExit, Finished, Idle, PollOff
<1>3. NoOrphan' /\ RunHasService' /\ GatheredIsStopped'
  BY <1>2 DEF NoOrphan, RunHasService, GatheredIsStopped
<1>4. RegisteredIsRunning' /\ RegisteredOnce'
  BY <1>2 DEF RegisteredIsRunning, RegisteredOnce
<1>5. StopOwnership'
  BY <1>2 DEF StopOwnership
<1> QED
  BY <1>1, <1>3, <1>4, <1>5 DEF RegistryInv

LEMMA LifespanKeepsRegistry == RegistryInv /\ (Lifespan \/ StopBegin) => RegistryInv'
<1> SUFFICES ASSUME RegistryInv, Lifespan \/ StopBegin PROVE RegistryInv'
  OBVIOUS
<1>1. TypeOK /\ TypeOK'
  BY LifespanTypeOK DEF RegistryInv
<1>2. CASE Boot \/ StartRead \/ ClientClosed
  BY <1>1, <1>2, SameKeeps DEF Boot, StartRead, ClientClosed, memory
<1>3. CASE StartSpawn
  <2>1. /\ fetched \in [Services -> Row] /\ Spawn(fetched) /\ gather' = gather
        /\ phase = "spawning" /\ UNCHANGED <<req, poll>>
    BY <1>1, <1>3 DEF StartSpawn, TypeOK
  <2>2. RegistryStep(Missing(fetched), {})
    BY <1>1, <2>1, SpawnIsStep
  <2>3. StopOwnership'
    BY <1>1, <2>1, <2>2, OwnershipKept
  <2> QED
    BY <1>1, <2>2, <2>3, RegistryStepKeeps DEF RegistryInv, Registry
<1>4. CASE ListenerStart
  <2>1. poll'.task = None
    BY <1>4 DEF ListenerStart, PollOff
  <2> QED
    BY <1>1, <1>4, <2>1, SameKeeps DEF ListenerStart, memory
<1>5. CASE StopBegin
  <2>1. poll'.task = poll.task
    BY <1>1, <1>5 DEF StopBegin, TypeOK, PollType
  <2> QED
    BY <1>1, <1>5, <2>1, SameKeeps DEF StopBegin, memory
<1> QED
  BY <1>2, <1>3, <1>4, <1>5, ListenerStoppedKeepsRegistry, RunnerGatheredKeepsRegistry
     DEF Lifespan

LEMMA FailuresKeepRegistry ==
    RegistryInv /\ (Failures \/ \E w \in Workers : WorkerFinish(w)) => RegistryInv'
<1> SUFFICES ASSUME RegistryInv, Failures \/ \E w \in Workers : WorkerFinish(w)
             PROVE  RegistryInv'
  OBVIOUS
<1>1. TypeOK /\ TypeOK'
  BY FailuresTypeOK DEF RegistryInv
<1>2. ASSUME NEW r \in Requests, NotifyFails(r) \/ RefreshFails(r)
      PROVE  RegistryInv'
  <2>1. Idle.task = None
    BY DEF Idle
  <2>2. \A q \in Requests : req'[q].task \in {None, req[q].task}
    BY <1>1, <1>2, <2>1, RequestKeepsTask DEF NotifyFails, RefreshFails
  <2> QED
    BY <1>1, <1>2, <2>2, SameKeeps DEF NotifyFails, RefreshFails, memory, control
<1>3. CASE ListenDrops \/ StartReadFails
  BY <1>1, <1>3, SameKeeps DEF ListenDrops, StartReadFails, memory, control
<1>4. CASE PollFails
  <2>1. poll'.task = poll.task
    BY <1>1, <1>4 DEF PollFails, TypeOK, PollType
  <2> QED
    BY <1>1, <1>4, <2>1, SameKeeps DEF PollFails, control
<1>5. ASSUME NEW w \in Workers, WorkerFinish(w)
      PROVE  RegistryInv'
  <2>1. /\ UNCHANGED <<req, tasks, gather, poll, phase>>
        /\ \A x \in Workers : \/ worker'[x] = worker[x]
                              \/ worker[x].pc # "run" /\ worker'[x].pc # "run"
    BY <1>1, <1>5 DEF WorkerFinish, TypeOK, Finished, control
  <2>2. RegistryStep({}, {})
    BY <2>1 DEF RegistryStep
  <2>3. StopOwnership'
    BY <1>1, <2>1, <2>2, OwnershipKept
  <2> QED
    BY <1>1, <2>2, <2>3, RegistryStepKeeps DEF RegistryInv, Registry
<1> QED
  BY <1>2, <1>3, <1>4, <1>5 DEF Failures

LEMMA StutterKeepsRegistry == RegistryInv /\ UNCHANGED vars => RegistryInv'
<1> SUFFICES ASSUME RegistryInv, UNCHANGED vars PROVE RegistryInv'
  OBVIOUS
<1>1. TypeOK'
  BY StutterTypeOK DEF RegistryInv
<1> QED
  BY <1>1, SameKeeps DEF vars

(***************************************************************************)
(* The registry stays consistent through every interleaving of refreshes,  *)
(* polls, failures and the shutdown.                                       *)
(***************************************************************************)
THEOREM RegistryConsistent == Spec => []RegistryInv
<1>1. RegistryInv /\ [Next]_vars => RegistryInv'
  BY CatalogKeepsRegistry, HandlersKeepRegistry, PollingKeepsRegistry, LifespanKeepsRegistry,
     ProcessExitKeepsRegistry, FailuresKeepRegistry, StutterKeepsRegistry
     DEF Next
<1> QED
  BY InitRegistryInv, <1>1, PTL DEF Spec

(***************************************************************************)
(* No worker runs that _tasks does not hold, until the runner has cleared  *)
(* it at the end of its shutdown.                                          *)
(***************************************************************************)
THEOREM NoOrphanHolds == Spec => []NoOrphan
<1>1. RegistryInv => NoOrphan
  BY DEF RegistryInv
<1> QED
  BY RegistryConsistent, <1>1, PTL

(***************************************************************************)
(* _tasks holds no dead entry.                                             *)
(***************************************************************************)
THEOREM RegisteredIsRunningHolds == Spec => []RegisteredIsRunning
<1>1. RegistryInv => RegisteredIsRunning
  BY DEF RegistryInv
<1> QED
  BY RegistryConsistent, <1>1, PTL

(***************************************************************************)
(* A stopped worker is awaited by one refresh or poll only, and by it has  *)
(* left _tasks.                                                            *)
(***************************************************************************)
THEOREM StopOwnershipHolds == Spec => []StopOwnership
<1>1. RegistryInv => StopOwnership
  BY DEF RegistryInv
<1> QED
  BY RegistryConsistent, <1>1, PTL

-----------------------------------------------------------------------------
LEMMA SpawnKeepsEntries ==
    ASSUME NEW rows, NEW s \in Services, tasks[s] # None
    PROVE  TasksWith(rows)[s] = tasks[s]
  BY DEF TasksWith, Missing

(***************************************************************************)
(* An entry of _tasks is removed or kept, never replaced, whatever the     *)
(* refreshes, the poll and the shutdown do in which order.                 *)
(***************************************************************************)
THEOREM NeverOverwrittenHolds == Spec => NeverOverwritten
<1> DEFINE Kept(s) == tasks[s] # None /\ tasks'[s] # None => tasks'[s] = tasks[s]
<1>1. ASSUME TypeOK, [Next]_vars, NEW s \in Services
      PROVE  Kept(s)
  <2>1. CASE UNCHANGED vars
    BY <2>1 DEF vars
  <2>2. CASE Catalog
    BY <2>2 DEF Catalog, Create, Seed, Insert, Update, Delete, Write, memory
  <2>3. CASE Handlers
    <3>1. ASSUME NEW r \in Requests, NotifySent(r) \/ RefreshResume(r) \/ RefreshRead(r)
          PROVE  Kept(s)
      BY <3>1 DEF NotifySent, RefreshResume, RefreshRead, memory
    <3>2. ASSUME NEW r \in Requests, RefreshEnsure(r)
          PROVE  Kept(s)
      BY <3>2, SpawnKeepsEntries DEF RefreshEnsure, Spawn
    <3>3. CASE RefreshStart
      BY <1>1, <3>3 DEF RefreshStart, TypeOK
    <3> QED
      BY <2>3, <3>1, <3>2, <3>3 DEF Handlers
  <2>4. CASE Polling
    <3>1. CASE PollRead \/ PollCancelled
      BY <3>1 DEF PollRead, PollCancelled
    <3>2. CASE PollApply
      <4>1. CASE tasks' = TasksWith(fetched)
        BY <4>1, SpawnKeepsEntries
      <4>2. ASSUME NEW x, tasks' = [TasksWith(fetched) EXCEPT ![x] = None]
            PROVE  Kept(s)
        <5>1. TasksWith(fetched)[s] = tasks[s] \/ tasks[s] = None
          BY SpawnKeepsEntries
        <5>2. s \in DOMAIN TasksWith(fetched)
          BY DEF TasksWith
        <5> QED
          BY <4>2, <5>1, <5>2
      <4> QED
        BY <3>2, <4>1, <4>2 DEF PollApply
    <3>3. CASE PollContinue
      BY <1>1, <3>3 DEF PollContinue, TypeOK
    <3> QED
      BY <2>4, <3>1, <3>2, <3>3 DEF Polling
  <2>5. CASE Lifespan
    <3>1. CASE StartSpawn
      BY <3>1, SpawnKeepsEntries DEF StartSpawn, Spawn
    <3>2. CASE RunnerGathered
      BY <3>2 DEF RunnerGathered
    <3> QED
      BY <2>5, <3>1, <3>2
         DEF Lifespan, Boot, StartRead, ListenerStart, ListenerStopped, ClientClosed, memory
  <2>6. CASE Failures \/ StopBegin
    BY <2>6 DEF Failures, NotifyFails, RefreshFails, ListenDrops, StartReadFails, PollFails,
                StopBegin, memory
  <2>7. CASE ProcessExit
    BY <2>7 DEF ProcessExit
  <2>8. ASSUME NEW w \in Workers, WorkerFinish(w)
        PROVE  Kept(s)
    BY <2>8 DEF WorkerFinish
  <2> QED
    BY <1>1, <2>1, <2>2, <2>3, <2>4, <2>5, <2>6, <2>7, <2>8 DEF Next
<1>2. TypeOK /\ [Next]_vars => [\A s \in Services : Kept(s)]_vars
  BY <1>1
<1> QED
  BY <1>2, TypeCorrect, PTL DEF Spec, NeverOverwritten
=============================================================================
