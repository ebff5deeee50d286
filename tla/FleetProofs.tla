----------------------------- MODULE FleetProofs -----------------------------
(***************************************************************************)
(* The scheduler implements module Fleet, for every set of services, any   *)
(* number of writes and every combination of failures.                     *)
(***************************************************************************)
EXTENDS SchedulerProofs

(***************************************************************************)
(* What a step of the registry does to the monitoring.                     *)
(***************************************************************************)

\* A worker monitors the service.
Runs(s) == tasks[s] # None /\ worker[tasks[s]].pc = "run"

\* A spawn leaves the workers there are alone.
LEMMA SpawnKeepsWorkers ==
    ASSUME TypeOK, NEW rows \in [Services -> Row], CanSpawn(rows), NEW x \in Services, tasks[x] # None
    PROVE  TasksWith(rows)[x] = tasks[x] /\ WorkersWith(rows)[tasks[x]] = worker[tasks[x]]
<1>1. tasks[x] \in Workers /\ tasks[x] \notin Unused
  BY DEF TypeOK, Unused
<1>2. \A s \in Missing(rows) : TasksWith(rows)[s] # tasks[x]
  BY <1>1, SpawnFacts
<1>3. x \notin Missing(rows)
  BY DEF Missing
<1>4. TasksWith(rows)[x] = tasks[x]
  BY <1>3, SpawnFacts
<1> QED
  BY <1>1, <1>2, <1>4, SpawnFacts

LEMMA SpawnMonitors ==
    ASSUME RegistryInv, NEW rows \in [Services -> Row], Spawn(rows)
    PROVE  \A s \in Services :
             /\ s \in Missing(rows) => Runs(s)' /\ Monitored'[s] = rows[s].ver /\ ~Runs(s)
             /\ s \notin Missing(rows) => (Runs(s)' <=> Runs(s)) /\ Monitored'[s] = Monitored[s]
<1> USE NoneAssumption
<1>1. /\ TypeOK /\ CanSpawn(rows) /\ tasks' = TasksWith(rows) /\ worker' = WorkersWith(rows)
  BY DEF RegistryInv, Spawn
<1>2. ASSUME NEW s \in Missing(rows)
      PROVE  s \in Services => Runs(s)' /\ Monitored'[s] = rows[s].ver /\ ~Runs(s)
  <2>1. tasks'[s] \in Unused /\ worker'[tasks'[s]] = [pc |-> "run", sid |-> s, ver |-> rows[s].ver]
    BY <1>1, SpawnFacts
  <2>2. tasks'[s] # None /\ tasks[s] = None
    BY <2>1 DEF Unused, Missing
  <2> QED
    BY <2>1, <2>2 DEF Monitored, Runs
<1>3. ASSUME NEW s \in Services \ Missing(rows)
      PROVE  (Runs(s)' <=> Runs(s)) /\ Monitored'[s] = Monitored[s]
  <2>1. tasks'[s] = tasks[s]
    BY <1>1, SpawnFacts
  <2>2. CASE tasks[s] # None
    <3>1. worker'[tasks[s]] = worker[tasks[s]]
      BY <1>1, <2>2, SpawnKeepsWorkers
    <3> QED
      BY <2>1, <3>1 DEF Monitored, Runs
  <2>3. CASE tasks[s] = None
    BY <2>1, <2>3 DEF Monitored, Runs
  <2> QED
    BY <2>2, <2>3
<1> QED
  BY <1>2, <1>3

\* A cancelled worker no longer monitors its service, the others do as before.
LEMMA CancelMonitors ==
    ASSUME NEW t \in [Services -> Workers \cup {None}], NEW wk \in [Workers -> WorkerType],
           NEW s \in Services, NEW w,
           \A x \in Services \ {s} : t[x] # None => t[x] # w,
           tasks' = [t EXCEPT ![s] = None], worker' = Cancelled({w}, wk)
    PROVE  /\ ~Runs(s)' /\ Monitored'[s] = None
           /\ \A x \in Services \ {s} :
                /\ tasks'[x] = t[x]
                /\ t[x] # None => worker'[t[x]] = wk[t[x]]
<1> USE NoneAssumption
<1>1. tasks'[s] = None /\ \A x \in Services \ {s} : tasks'[x] = t[x]
  OBVIOUS
<1>2. \A x \in Services \ {s} : t[x] # None => t[x] \in Workers /\ t[x] \notin {w}
  OBVIOUS
<1>3. \A x \in Services \ {s} : t[x] # None => worker'[t[x]] = wk[t[x]]
  BY <1>2, CancelledFacts
<1> QED
  BY <1>1, <1>3 DEF Monitored, Runs

LEMMA PopMonitors ==
    ASSUME RegistryInv, NEW s \in Services,
           tasks' = [tasks EXCEPT ![s] = None], worker' = Cancelled({tasks[s]}, worker)
    PROVE  /\ ~Runs(s)' /\ Monitored'[s] = None
           /\ \A x \in Services \ {s} : (Runs(x)' <=> Runs(x)) /\ Monitored'[x] = Monitored[x]
<1>1. \A x \in Services \ {s} : tasks[x] # None => tasks[x] # tasks[s]
  BY DEF RegistryInv, RegisteredOnce
<1>2. tasks \in [Services -> Workers \cup {None}] /\ worker \in [Workers -> WorkerType]
  BY DEF RegistryInv, TypeOK
<1>3. /\ ~Runs(s)' /\ Monitored'[s] = None
      /\ \A x \in Services \ {s} : tasks'[x] = tasks[x] /\ (tasks[x] # None => worker'[tasks[x]] = worker[tasks[x]])
  BY <1>1, <1>2, CancelMonitors
<1> QED
  BY <1>3 DEF Runs, Monitored

LEMMA SpawnAndPopMonitors ==
    ASSUME RegistryInv, NEW rows \in [Services -> Row], CanSpawn(rows), NEW s \in Obsolete(rows),
           tasks' = [TasksWith(rows) EXCEPT ![s] = None],
           worker' = Cancelled({tasks[s]}, WorkersWith(rows))
    PROVE  /\ s \in Services /\ ~Runs(s)' /\ Monitored'[s] = None
           /\ \A x \in Services \ {s} :
                /\ x \in Missing(rows) => Runs(x)' /\ Monitored'[x] = rows[x].ver /\ ~Runs(x)
                /\ x \notin Missing(rows) => (Runs(x)' <=> Runs(x)) /\ Monitored'[x] = Monitored[x]
<1> USE NoneAssumption
<1> DEFINE t == TasksWith(rows)
           wk == WorkersWith(rows)
<1>1. /\ TypeOK /\ s \in Services /\ tasks[s] # None
      /\ t \in [Services -> Workers \cup {None}] /\ wk \in [Workers -> WorkerType]
  BY SpawnFacts DEF RegistryInv, Obsolete
<1>2. \A x \in Missing(rows) : t[x] \in Unused /\ wk[t[x]] = [pc |-> "run", sid |-> x, ver |-> rows[x].ver]
  BY <1>1, SpawnFacts
<1>3. \A x \in Services \ Missing(rows) : t[x] = tasks[x]
  BY <1>1, SpawnFacts
<1>4. \A x \in Services \ Missing(rows) : tasks[x] # None => wk[tasks[x]] = worker[tasks[x]]
  BY <1>1, SpawnKeepsWorkers
<1>5. \A x \in Services \ {s} : t[x] # None => t[x] # tasks[s]
  <2> TAKE x \in Services \ {s}
  <2>1. CASE x \in Missing(rows)
    BY <1>1, <1>2, <2>1 DEF Unused
  <2>2. CASE x \notin Missing(rows)
    BY <1>1, <1>3, <2>2 DEF RegistryInv, RegisteredOnce
  <2> QED
    BY <2>1, <2>2
<1> HIDE DEF t, wk
<1>6. tasks' = [t EXCEPT ![s] = None] /\ worker' = Cancelled({tasks[s]}, wk)
  BY DEF t, wk
<1>7. tasks'[s] = None /\ \A x \in Services \ {s} : tasks'[x] = t[x]
  BY <1>1, <1>6
<1>8. \A w \in Workers \ {tasks[s]} : worker'[w] = wk[w]
  BY <1>1, <1>6, CancelledFacts
<1>9. \A x \in Services \ {s} : t[x] # None => worker'[t[x]] = wk[t[x]]
  BY <1>1, <1>5, <1>8
<1>10. ASSUME NEW x \in Services \ {s}, x \in Missing(rows)
       PROVE  Runs(x)' /\ Monitored'[x] = rows[x].ver /\ ~Runs(x)
  <2>1. t[x] # None /\ tasks[x] = None /\ tasks'[x] = t[x]
    BY <1>2, <1>7, <1>10 DEF Unused, Missing
  <2>2. worker'[tasks'[x]] = [pc |-> "run", sid |-> x, ver |-> rows[x].ver]
    BY <1>2, <1>9, <1>10, <2>1
  <2> QED
    BY <2>1, <2>2 DEF Runs, Monitored
<1>11. ASSUME NEW x \in Services \ {s}, x \notin Missing(rows)
       PROVE  (Runs(x)' <=> Runs(x)) /\ Monitored'[x] = Monitored[x]
  <2>1. tasks'[x] = tasks[x]
    BY <1>3, <1>7, <1>11
  <2>2. tasks[x] # None => worker'[tasks[x]] = worker[tasks[x]]
    BY <1>3, <1>4, <1>9, <1>11
  <2> QED
    BY <2>1, <2>2 DEF Runs, Monitored
<1>12. ~Runs(s)' /\ Monitored'[s] = None
  BY <1>1, <1>7 DEF Runs, Monitored
<1> QED
  BY <1>1, <1>10, <1>11, <1>12

\* Nothing of the registry changes.
LEMMA SameMonitors ==
    ASSUME UNCHANGED <<tasks, worker>>
    PROVE  Monitored' = Monitored /\ \A s \in Services : Runs(s)' <=> Runs(s)
BY DEF Monitored, Runs

-----------------------------------------------------------------------------
(***************************************************************************)
(* What a step does to the rows and to the copies of them in memory: a row *)
(* that changes was absent or gets the next version; a copy is kept,       *)
(* dropped or taken from the table; a request is in progress because it    *)
(* was, was written by this step or was in the channel.                    *)
(***************************************************************************)
Serving == phase \notin {"stopping", "closing", "down", "off"}

Rising ==
    \A s \in Services :
        \/ row'[s] = row[s]
        \/ row[s].st = "absent" /\ row'[s].ver = row[s].ver
        \/ row'[s].st # "absent" /\ row'[s].ver = row[s].ver + 1

FetchedStep ==
    \A s \in Services : \/ fetched'[s] = fetched[s]
                        \/ fetched'[s] = Absent
                        \/ row' = row /\ fetched'[s] = ActiveRows[s]

RequestStep ==
    \A r \in Requests :
        /\ req'[r].pc = "read" =>
              \/ req[r].pc = "read" /\ req'[r].snap = req[r].snap
              \/ row' = row /\ req[r].pc = "reading" /\ req'[r].snap = row[r[1]]
        /\ req'[r].pc # "idle" =>
              \/ req[r].pc # "idle"
              \/ row'[r[1]].ver = r[2]
              \/ \E k \in DOMAIN channel : channel[k] = r

ChannelStep ==
    \A k \in DOMAIN channel' :
        \/ \E j \in DOMAIN channel : channel[j] = channel'[k]
        \/ req[channel'[k]].pc # "idle"

DataStep == Rising /\ FetchedStep /\ RequestStep /\ ChannelStep

LEMMA RequestFacts ==
    ASSUME NEW r \in Requests
    PROVE  /\ r[1] \in Services /\ r[2] \in Nat /\ r[2] >= 1 /\ r = <<r[1], r[2]>>
BY MaxVersionAssumption DEF Requests, Versions

LEMMA RowFacts ==
    ASSUME TypeOK, NEW s \in Services
    PROVE  row[s] \in Row /\ fetched[s] \in Row /\ row[s].ver \in Nat /\ fetched[s].ver \in Nat
BY MaxVersionAssumption DEF TypeOK, Row

LEMMA DataStepKeeps ==
    ASSUME FleetInv, TypeOK', DataStep
    PROVE  SnapshotsCommitted' /\ RequestsWritten' /\ RefreshReadsNotified'
<1> DEFINE Stays(s, snap) == snap.st = "active" =>
               /\ row'[s].st # "absent"
               /\ snap.ver <= row'[s].ver
               /\ snap.ver = row'[s].ver => row'[s].st = "active"
<1>0. TypeOK
  BY DEF FleetInv, RegistryInv
<1>1. \A s \in Services : /\ row[s] \in Row /\ row'[s] \in Row
                          /\ row[s].ver \in Nat /\ row'[s].ver \in Nat
                          /\ row'[s].ver >= row[s].ver
  <2>1. \A s \in Services : row[s] \in Row /\ row'[s] \in Row
    BY <1>0 DEF TypeOK
  <2>2. \A s \in Services : row[s].ver \in Nat /\ row'[s].ver \in Nat
    BY <2>1, MaxVersionAssumption DEF Row
  <2> QED
    BY <2>1, <2>2 DEF DataStep, Rising
<1>2. ASSUME NEW s \in Services, NEW snap \in Row, WasCommitted(s, snap)
      PROVE  Stays(s, snap)
  <2>1. snap.ver \in Nat
    BY MaxVersionAssumption DEF Row
  <2>2. CASE row'[s] = row[s]
    BY <1>2, <2>2 DEF WasCommitted
  <2>3. CASE row[s].st = "absent"
    BY <1>2, <2>3 DEF WasCommitted
  <2>4. CASE row'[s].st # "absent" /\ row'[s].ver = row[s].ver + 1
    BY <1>1, <1>2, <2>1, <2>4 DEF WasCommitted
  <2> QED
    BY <2>2, <2>3, <2>4 DEF DataStep, Rising
<1>3. ASSUME NEW s \in Services
      PROVE  Stays(s, fetched'[s])
  <2>1. CASE fetched'[s] = fetched[s]
    <3>1. fetched[s] \in Row /\ WasCommitted(s, fetched[s])
      BY <1>0 DEF TypeOK, FleetInv, SnapshotsCommitted
    <3>2. Stays(s, fetched[s])
      BY <3>1, <1>2
    <3> QED
      BY <2>1, <3>2
  <2>2. CASE fetched'[s] = Absent
    BY <2>2 DEF Absent
  <2>3. CASE row' = row /\ fetched'[s] = ActiveRows[s]
    BY <1>1, <2>3 DEF ActiveRows, Absent
  <2> QED
    BY <2>1, <2>2, <2>3 DEF DataStep, FetchedStep
<1>4. ASSUME NEW r \in Requests, req'[r].pc = "read"
      PROVE  Stays(r[1], req'[r].snap) /\ req'[r].snap.ver >= r[2]
  <2>1. r[1] \in Services /\ r[2] \in Nat
    BY RequestFacts
  <2>2. CASE req[r].pc = "read" /\ req'[r].snap = req[r].snap
    <3>1. WasCommitted(r[1], req[r].snap) /\ req[r].snap.ver >= r[2]
      BY <2>2 DEF FleetInv, SnapshotsCommitted, RefreshReadsNotified
    <3>2. req[r].snap \in Row
      BY <1>0 DEF TypeOK, RequestType
    <3>3. Stays(r[1], req[r].snap)
      BY <1>2, <2>1, <3>1, <3>2
    <3> QED
      BY <2>2, <3>1, <3>3
  <2>3. CASE row' = row /\ req[r].pc = "reading" /\ req'[r].snap = row[r[1]]
    <3>1. row[r[1]].ver >= r[2]
      BY <2>3 DEF FleetInv, RequestsWritten, Written
    <3>2. Stays(r[1], row[r[1]])
      <4>1. row' = row /\ row[r[1]].ver \in Nat
        BY <1>1, <2>1, <2>3
      <4>2. row[r[1]].st = "active" => row[r[1]].st # "absent"
        OBVIOUS
      <4> QED
        BY <4>1, <4>2
    <3> QED
      BY <2>3, <3>1, <3>2
  <2> QED
    BY <1>4, <2>2, <2>3 DEF DataStep, RequestStep
<1>5. SnapshotsCommitted' /\ RefreshReadsNotified'
  BY <1>3, <1>4 DEF SnapshotsCommitted, RefreshReadsNotified, WasCommitted
<1>6. ASSUME NEW r \in Requests, Written(r)
      PROVE  row'[r[1]].ver >= r[2]
  <2>1. r[1] \in Services /\ r[2] \in Nat
    BY RequestFacts
  <2> QED
    BY <1>1, <1>6, <2>1 DEF Written
<1>7. \A k \in DOMAIN channel : channel[k] \in Requests /\ Written(channel[k])
  <2>1. \A k \in DOMAIN channel : channel[k] \in Requests
    <3> DEFINE R == Requests
    <3>1. channel \in Seq(R)
      BY <1>0 DEF TypeOK
    <3> HIDE DEF R
    <3>2. \A k \in DOMAIN channel : channel[k] \in R
      BY <3>1
    <3> QED
      BY <3>2 DEF R
  <2> QED
    BY <2>1 DEF FleetInv, RequestsWritten
<1>8. \A r \in Requests : req[r].pc # "idle" => Written(r)
  BY DEF FleetInv, RequestsWritten
<1>9. ASSUME NEW r \in Requests, req'[r].pc # "idle"
      PROVE  row'[r[1]].ver >= r[2]
  <2>1. CASE req[r].pc # "idle" \/ \E k \in DOMAIN channel : channel[k] = r
    BY <2>1, <1>6, <1>7, <1>8
  <2>2. CASE row'[r[1]].ver = r[2]
    BY <2>2, RequestFacts
  <2> QED
    BY <1>9, <2>1, <2>2 DEF DataStep, RequestStep
<1>10. ASSUME NEW k \in DOMAIN channel'
       PROVE  row'[channel'[k][1]].ver >= channel'[k][2]
  <2>1. channel'[k] \in Requests
    <3> DEFINE R == Requests
    <3>1. channel' \in Seq(R)
      BY DEF TypeOK
    <3> HIDE DEF R
    <3>2. channel'[k] \in R
      BY <3>1
    <3> QED
      BY <3>2 DEF R
  <2>2. Written(channel'[k])
    BY <1>7, <1>8, <2>1 DEF DataStep, ChannelStep
  <2> QED
    BY <1>6, <2>1, <2>2
<1> QED
  BY <1>5, <1>9, <1>10 DEF RequestsWritten, Written

-----------------------------------------------------------------------------
(***************************************************************************)
(* Every step is a DataStep.                                               *)
(***************************************************************************)
LEMMA RequestsSameIsData ==
    ASSUME UNCHANGED <<row, req>> PROVE Rising /\ RequestStep
BY DEF Rising, RequestStep

LEMMA ChannelSameOrEmpty ==
    ASSUME UNCHANGED channel \/ channel' = <<>> PROVE ChannelStep
<1>1. CASE UNCHANGED channel
  BY <1>1 DEF ChannelStep
<1>2. CASE channel' = <<>>
  <2>1. DOMAIN channel' = {}
    BY <1>2
  <2> QED
    BY <2>1 DEF ChannelStep
<1> QED
  BY <1>1, <1>2

LEMMA NoRowsIsFetched == ASSUME fetched' = NoRows PROVE FetchedStep
BY DEF NoRows, FetchedStep

\* A request moves on to a state that holds no row.
LEMMA RequestMoves ==
    ASSUME TypeOK, NEW r \in Requests, row' = row, NEW v,
           req' = [req EXCEPT ![r] = v], v.pc # "read",
           \/ v.pc = "idle" \/ req[r].pc # "idle"
           \/ \E k \in DOMAIN channel : channel[k] = r
    PROVE  Rising /\ RequestStep
<1>1. req' = [x \in Requests |-> IF x = r THEN v ELSE req[x]]
  BY DEF TypeOK
<1>2. \A x \in Requests : req'[x] = IF x = r THEN v ELSE req[x]
  BY <1>1
<1> QED
  BY <1>2 DEF Rising, RequestStep

\* The callback or the API request is over.
LEMMA RequestEnds ==
    ASSUME TypeOK, NEW r \in Requests, row' = row, req' = [req EXCEPT ![r] = Idle]
    PROVE  Rising /\ RequestStep
<1>1. Idle.pc = "idle"
  BY DEF Idle
<1> QED
  BY <1>1, RequestMoves

LEMMA CatalogIsData == FleetInv /\ Catalog => DataStep
<1> SUFFICES ASSUME FleetInv, NEW s \in Services,
                    Create(s) \/ Seed(s) \/ Update(s) \/ Delete(s)
             PROVE  DataStep
  BY DEF Catalog
<1>0. TypeOK /\ row[s].ver \in Nat
  BY RowFacts DEF FleetInv, RegistryInv
<1>1. ASSUME NEW st, st \in {"active", "inactive"}, Insert(s, st)
      PROVE  DataStep
  <2>1. Rising
    BY <1>0, <1>1 DEF Insert, Rising, TypeOK, Row
  <2> QED
    BY <1>1, <2>1, ChannelSameOrEmpty
       DEF DataStep, Insert, memory, FetchedStep, RequestStep
<1>2. ASSUME NEW st, st \in {"active", "inactive", "deleted"}, Write(s, st)
      PROVE  DataStep
  <2> DEFINE r == <<s, row[s].ver + 1>>
  <2>1. row' = [x \in Services |-> IF x = s THEN [st |-> st, ver |-> row[s].ver + 1] ELSE row[x]]
    BY <1>0, <1>2 DEF Write, TypeOK
  <2>2. Rising
    BY <1>2, <2>1 DEF Rising
  <2>3. req' = [x \in Requests |-> IF x = r THEN [req[r] EXCEPT !.pc = "unsent"] ELSE req[x]]
    BY <1>0, <1>2 DEF Write, TypeOK
  <2>4. ASSUME NEW x \in Requests
        PROVE  /\ req'[x].pc = "read" => req[x].pc = "read" /\ req'[x].snap = req[x].snap
               /\ req'[x].pc # "idle" => req[x].pc # "idle" \/ row'[x[1]].ver = x[2]
    <3>1. CASE x = r
      <4>1. req'[x].pc = "unsent"
        BY <1>0, <2>3, <3>1 DEF TypeOK, RequestType
      <4>2. row'[x[1]].ver = x[2]
        BY <2>1, <3>1
      <4> QED
        BY <4>1, <4>2
    <3>2. CASE x # r
      BY <2>3, <3>2
    <3> QED
      BY <3>1, <3>2
  <2>5. RequestStep
    BY <2>4 DEF RequestStep
  <2> QED
    BY <1>2, <2>2, <2>5, ChannelSameOrEmpty DEF DataStep, Write, memory, FetchedStep
<1> QED
  BY <1>1, <1>2 DEF Create, Seed, Update, Delete

LEMMA HandlersAreData == FleetInv /\ Handlers => DataStep
<1> SUFFICES ASSUME FleetInv, Handlers
             PROVE  DataStep
  OBVIOUS
<1>0. TypeOK
  BY DEF FleetInv, RegistryInv
<1>1. ASSUME NEW r \in Requests, NotifySent(r)
      PROVE  DataStep
  <2>1. Rising /\ RequestStep
    BY <1>0, <1>1, RequestEnds DEF NotifySent
  <2>2. CASE channel' = channel
    BY <1>1, <2>1, <2>2, ChannelSameOrEmpty DEF DataStep, NotifySent, memory, FetchedStep
  <2>3. CASE channel' = Append(channel, r)
    <3> DEFINE R == Requests
    <3>1. channel \in Seq(R) /\ r \in R
      BY <1>0 DEF TypeOK
    <3> HIDE DEF R
    <3>2. \A k \in DOMAIN channel' : channel'[k] = r \/ \E j \in DOMAIN channel : channel[j] = channel'[k]
      BY <2>3, <3>1
    <3>3. ChannelStep
      BY <1>1, <3>2 DEF NotifySent, ChannelStep
    <3> QED
      BY <1>1, <2>1, <3>3 DEF DataStep, NotifySent, memory, FetchedStep
  <2> QED
    BY <1>1, <2>2, <2>3 DEF NotifySent
<1>2. ASSUME NEW r \in Requests, RefreshResume(r)
      PROVE  DataStep
  <2>1. Rising /\ RequestStep
    <3> DEFINE v == [Idle EXCEPT !.pc = "reading"]
    <3>1. v.pc = "reading" /\ req' = [req EXCEPT ![r] = v]
      BY <1>2 DEF RefreshResume, Idle
    <3>2. row' = row /\ req[r].pc # "idle"
      BY <1>2 DEF RefreshResume
    <3> HIDE DEF v
    <3> QED
      BY <1>0, <3>1, <3>2, RequestMoves
  <2> QED
    BY <1>2, <2>1, ChannelSameOrEmpty DEF DataStep, RefreshResume, memory, FetchedStep
<1>3. ASSUME NEW r \in Requests, RefreshRead(r)
      PROVE  DataStep
  <2>1. req' = [x \in Requests |-> IF x = r THEN [req[r] EXCEPT !.pc = "read", !.snap = row[r[1]]] ELSE req[x]]
    BY <1>0, <1>3 DEF RefreshRead, TypeOK
  <2>2. \A x \in Requests : x # r => req'[x] = req[x]
    BY <2>1
  <2>3. req'[r].snap = row[r[1]]
    BY <1>0, <2>1 DEF TypeOK, RequestType
  <2>4. Rising /\ RequestStep
    BY <1>3, <2>2, <2>3 DEF RefreshRead, Rising, RequestStep
  <2> QED
    BY <1>3, <2>4, ChannelSameOrEmpty DEF DataStep, RefreshRead, memory, FetchedStep
<1>4. ASSUME NEW r \in Requests, RefreshEnsure(r)
      PROVE  DataStep
  <2>1. Rising /\ RequestStep
    BY <1>0, <1>4, RequestEnds DEF RefreshEnsure
  <2> QED
    BY <1>4, <2>1, ChannelSameOrEmpty DEF DataStep, RefreshEnsure, FetchedStep
<1>5. ASSUME RefreshStart
      PROVE  DataStep
  <2> DEFINE r == Head(channel)
             v == [pc   |-> IF tasks[r[1]] = None THEN "reading" ELSE "stopping",
                   task |-> tasks[r[1]],
                   snap |-> Absent]
             R == Requests
  <2>1. channel \in Seq(R) /\ channel # <<>>
    BY <1>0, <1>5 DEF TypeOK, RefreshStart
  <2> HIDE DEF R
  <2>2. /\ r \in R /\ 1 \in DOMAIN channel /\ channel[1] = r
        /\ \A k \in DOMAIN Tail(channel) : k + 1 \in DOMAIN channel /\ Tail(channel)[k] = channel[k + 1]
    BY <2>1
  <2>3. r \in Requests
    BY <2>2 DEF R
  <2>4. req' = [req EXCEPT ![r] = v] /\ row' = row /\ fetched' = fetched /\ channel' = Tail(channel)
    BY <1>5 DEF RefreshStart
  <2>5. v.pc # "read"
    OBVIOUS
  <2>6. \E k \in DOMAIN channel : channel[k] = r
    BY <2>2
  <2> HIDE DEF v, r
  <2>7. Rising /\ RequestStep
    BY <1>0, <2>3, <2>4, <2>5, <2>6, RequestMoves
  <2>8. ChannelStep
    BY <2>2, <2>4 DEF ChannelStep
  <2> QED
    BY <2>4, <2>7, <2>8 DEF DataStep, FetchedStep
<1> QED
  BY <1>1, <1>2, <1>3, <1>4, <1>5 DEF Handlers

LEMMA PollingIsData == Polling => DataStep
<1>1. PollRead => DataStep
  BY RequestsSameIsData, ChannelSameOrEmpty DEF PollRead, DataStep, FetchedStep
<1>2. PollApply => DataStep
  BY RequestsSameIsData, ChannelSameOrEmpty, NoRowsIsFetched DEF PollApply, DataStep
<1>3. PollContinue => DataStep
  BY RequestsSameIsData, ChannelSameOrEmpty DEF PollContinue, DataStep, FetchedStep
<1>4. PollCancelled => DataStep
  BY RequestsSameIsData, ChannelSameOrEmpty, NoRowsIsFetched DEF PollCancelled, DataStep
<1> QED
  BY <1>1, <1>2, <1>3, <1>4 DEF Polling

LEMMA LifespanIsData == Lifespan \/ StopBegin \/ ProcessExit => DataStep
<1>1. Boot => DataStep
  BY RequestsSameIsData, ChannelSameOrEmpty DEF Boot, memory, DataStep, FetchedStep
<1>2. StartRead => DataStep
  BY RequestsSameIsData, ChannelSameOrEmpty DEF StartRead, DataStep, FetchedStep
<1>3. StartSpawn => DataStep
  BY RequestsSameIsData, ChannelSameOrEmpty, NoRowsIsFetched DEF StartSpawn, DataStep
<1>4. ListenerStart => DataStep
  BY RequestsSameIsData, ChannelSameOrEmpty DEF ListenerStart, memory, DataStep, FetchedStep
<1>5. ListenerStopped => DataStep
  BY RequestsSameIsData, ChannelSameOrEmpty DEF ListenerStopped, DataStep, FetchedStep
<1>6. RunnerGathered => DataStep
  BY RequestsSameIsData, ChannelSameOrEmpty DEF RunnerGathered, DataStep, FetchedStep
<1>7. ClientClosed => DataStep
  BY RequestsSameIsData, ChannelSameOrEmpty DEF ClientClosed, memory, DataStep, FetchedStep
<1>8. StopBegin => DataStep
  BY RequestsSameIsData, ChannelSameOrEmpty DEF StopBegin, memory, DataStep, FetchedStep
<1>9. ProcessExit => DataStep
  <2> SUFFICES ASSUME ProcessExit PROVE DataStep
    OBVIOUS
  <2>1. Rising /\ RequestStep
    BY DEF ProcessExit, Idle, Rising, RequestStep
  <2> QED
    BY <2>1, ChannelSameOrEmpty, NoRowsIsFetched DEF ProcessExit, DataStep
<1> QED
  BY <1>1, <1>2, <1>3, <1>4, <1>5, <1>6, <1>7, <1>8, <1>9 DEF Lifespan

LEMMA FailuresAreData ==
    FleetInv /\ (Failures \/ \E w \in Workers : WorkerFinish(w)) => DataStep
<1> SUFFICES ASSUME FleetInv, Failures \/ \E w \in Workers : WorkerFinish(w)
             PROVE  DataStep
  OBVIOUS
<1>0. TypeOK
  BY DEF FleetInv, RegistryInv
<1>1. ASSUME NEW r \in Requests, NotifyFails(r)
      PROVE  DataStep
  <2>1. Rising /\ RequestStep
    BY <1>0, <1>1, RequestEnds DEF NotifyFails
  <2> QED
    BY <1>1, <2>1, ChannelSameOrEmpty DEF DataStep, NotifyFails, memory, FetchedStep
<1>2. ASSUME NEW r \in Requests, RefreshFails(r)
      PROVE  DataStep
  <2>1. Rising /\ RequestStep
    BY <1>0, <1>2, RequestEnds DEF RefreshFails
  <2> QED
    BY <1>2, <2>1, ChannelSameOrEmpty DEF DataStep, RefreshFails, memory, FetchedStep
<1>3. ListenDrops => DataStep
  BY RequestsSameIsData, ChannelSameOrEmpty DEF ListenDrops, memory, DataStep, FetchedStep
<1>4. StartReadFails => DataStep
  BY RequestsSameIsData, ChannelSameOrEmpty DEF StartReadFails, memory, DataStep, FetchedStep
<1>5. PollFails => DataStep
  BY RequestsSameIsData, ChannelSameOrEmpty, NoRowsIsFetched DEF PollFails, DataStep
<1>6. ASSUME NEW w \in Workers, WorkerFinish(w)
      PROVE  DataStep
  BY <1>6, RequestsSameIsData, ChannelSameOrEmpty DEF WorkerFinish, DataStep, FetchedStep
<1> QED
  BY <1>1, <1>2, <1>3, <1>4, <1>5, <1>6 DEF Failures

LEMMA StutterIsData == UNCHANGED vars => DataStep
  BY RequestsSameIsData, ChannelSameOrEmpty DEF vars, DataStep, FetchedStep

LEMMA StepIsData == FleetInv /\ [Next]_vars => DataStep
BY CatalogIsData, HandlersAreData, PollingIsData, LifespanIsData, FailuresAreData, StutterIsData
   DEF Next

-----------------------------------------------------------------------------
(***************************************************************************)
(* The poll task lives only while the listener serves.                     *)
(***************************************************************************)
LEMMA PollPhaseKept == FleetInv /\ [Next]_vars => PollPhase'
<1> SUFFICES ASSUME FleetInv, [Next]_vars
             PROVE  PollPhase'
  OBVIOUS
<1>0. poll \in PollType /\ PollPhase
  BY DEF FleetInv, RegistryInv, TypeOK
<1> USE DEF PollPhase
<1>1. CASE UNCHANGED <<poll, control>>
  BY <1>0, <1>1 DEF control
<1>2. Catalog => UNCHANGED <<poll, control>>
  BY DEF Catalog, Create, Seed, Insert, Update, Delete, Write
<1>3. Handlers => UNCHANGED <<poll, control>>
  BY DEF Handlers, NotifySent, RefreshStart, RefreshResume, RefreshRead, RefreshEnsure
<1>4. CASE Polling
  <2>1. PollRead \/ PollApply \/ PollContinue => UNCHANGED control /\ poll.pc # "off"
    BY DEF PollRead, PollApply, PollContinue
  <2>2. PollCancelled => UNCHANGED control /\ poll'.pc = "off"
    BY DEF PollCancelled, PollOff
  <2> QED
    BY <1>0, <1>4, <2>1, <2>2 DEF Polling, control
<1>5. CASE Lifespan
  <2>1. Boot \/ StartRead \/ StartSpawn \/ RunnerGathered \/ ClientClosed => PollPhase'
    BY <1>0 DEF Boot, StartRead, StartSpawn, RunnerGathered, ClientClosed
  <2>2. ListenerStart => PollPhase'
    BY DEF ListenerStart
  <2>3. ListenerStopped => PollPhase'
    BY <1>0 DEF ListenerStopped
  <2> QED
    BY <1>5, <2>1, <2>2, <2>3 DEF Lifespan
<1>6. CASE StopBegin
  BY <1>0, <1>6 DEF StopBegin, PollType
<1>7. CASE ProcessExit
  BY <1>7 DEF ProcessExit, PollOff
<1>8. CASE Failures
  <2>1. ASSUME NEW r \in Requests, NotifyFails(r) \/ RefreshFails(r)
        PROVE  UNCHANGED <<poll, control>>
    BY <2>1 DEF NotifyFails, RefreshFails
  <2>2. ListenDrops => UNCHANGED <<poll, control>>
    BY DEF ListenDrops
  <2>3. StartReadFails => PollPhase'
    BY <1>0 DEF StartReadFails
  <2>4. PollFails => UNCHANGED control /\ poll.pc # "off"
    BY DEF PollFails
  <2> QED
    BY <1>0, <1>1, <1>8, <2>1, <2>2, <2>3, <2>4 DEF Failures, control
<1>9. ASSUME NEW w \in Workers, WorkerFinish(w)
      PROVE  UNCHANGED <<poll, control>>
  BY <1>9 DEF WorkerFinish
<1>10. CASE UNCHANGED vars
  BY <1>1, <1>10 DEF vars, control
<1> QED
  BY <1>1, <1>2, <1>3, <1>4, <1>5, <1>6, <1>7, <1>8, <1>9, <1>10 DEF Next

-----------------------------------------------------------------------------
(***************************************************************************)
(* What a step does to the monitoring, in the terms of module Fleet, and   *)
(* what it has to leave for the polls to come.                             *)
(***************************************************************************)
Adjusts ==
    \A s \in Services :
        \/ Monitored'[s] = Monitored[s]
        \/ Monitored[s] = None /\ Monitored'[s] \in F!Committed(s)
        \/ Monitored[s] # None /\ Monitored'[s] = None /\ row[s].ver > 0

StopsStep ==
    /\ \A s \in Services :
          \/ Monitored'[s] = Monitored[s]
          \/ Monitored'[s] = None
          \/ row'[s].ver > 0
          \/ row'[s].st = "active" /\ poll'.pc # "read"
    /\ poll'.pc = "read" => \/ poll.pc = "read" /\ fetched' = fetched
                            \/ row' = row /\ fetched' = ActiveRows
    /\ poll'.pc = "stopping" =>
          \A s \in poll'.toStop : row'[s].ver > 0 \/ (poll.pc = "stopping" /\ s \in poll.toStop)

\* A service is monitored when a worker runs for it.
LEMMA MonitoredFacts ==
    ASSUME TypeOK, NEW s \in Services
    PROVE  /\ Monitored[s] # None <=> Runs(s)
           /\ Runs(s) => Monitored[s] = worker[tasks[s]].ver
           /\ Monitored[s] \in Nat \cup {None}
<1>1. worker \in [Workers -> WorkerType] /\ tasks[s] \in Workers \cup {None}
  BY DEF TypeOK
<1>2. CASE Runs(s)
  <2>1. worker[tasks[s]].ver \in Nat
    BY <1>1, <1>2, MaxVersionAssumption DEF Runs, WorkerType
  <2> QED
    BY <1>2, <2>1, NoneIsNoVersion DEF Monitored, Runs
<1>3. CASE ~Runs(s)
  BY <1>3 DEF Monitored, Runs
<1> QED
  BY <1>2, <1>3

LEMMA MonitoredExtensional ==
    ASSUME \A s \in Services : Monitored'[s] = Monitored[s]
    PROVE  Monitored' = Monitored
<1>1. /\ Monitored = [s \in Services |-> Monitored[s]]
      /\ Monitored' = [s \in Services |-> Monitored'[s]]
  BY DEF Monitored
<1> QED
  BY <1>1

LEMMA StopsStepKeeps ==
    ASSUME FleetInv, TypeOK', Rising, StopsStep
    PROVE  StopsOnlyWritten'
<1>0. /\ \A s \in Services : row[s].ver \in Nat /\ row'[s].ver \in Nat
      /\ poll \in PollType /\ poll' \in PollType
  <2>1. TypeOK
    BY DEF FleetInv, RegistryInv
  <2> QED
    BY <2>1, MaxVersionAssumption DEF TypeOK, Row
<1>1. ASSUME NEW s \in Services, Monitored'[s] # None, row'[s].ver = 0
      PROVE  row'[s].st = "active" /\ (poll'.pc = "read" => fetched'[s].st = "active")
  <2>1. CASE Monitored'[s] = Monitored[s]
    <3>1. row[s].ver = 0
      BY <1>0, <1>1 DEF Rising
    <3>2. row[s].st = "active" /\ (poll.pc = "read" => fetched[s].st = "active")
      BY <1>1, <2>1, <3>1 DEF FleetInv, StopsOnlyWritten
    <3>3. row'[s] = row[s]
      BY <1>0, <1>1, <3>1, <3>2 DEF Rising
    <3>4. ActiveRows[s].st = "active"
      BY <3>2 DEF ActiveRows
    <3> QED
      BY <3>2, <3>3, <3>4 DEF StopsStep
  <2>2. CASE row'[s].st = "active" /\ poll'.pc # "read"
    BY <2>2
  <2> QED
    BY <1>0, <1>1, <2>1, <2>2 DEF StopsStep
<1>2. ASSUME poll'.pc = "stopping", NEW s \in poll'.toStop
      PROVE  row'[s].ver > 0
  <2>1. s \in Services
    BY <1>0 DEF PollType
  <2>2. CASE poll.pc = "stopping" /\ s \in poll.toStop
    <3>1. row[s].ver > 0
      BY <2>2 DEF FleetInv, StopsOnlyWritten
    <3> QED
      BY <1>0, <2>1, <3>1 DEF Rising
  <2> QED
    BY <1>2, <2>2 DEF StopsStep
<1> QED
  BY <1>1, <1>2 DEF StopsOnlyWritten

-----------------------------------------------------------------------------
(***************************************************************************)
(* The steps of module Fleet.                                              *)
(***************************************************************************)
LEMMA AdjustsIsAdjust ==
    ASSUME row' = row, Serving' = Serving, Adjusts
    PROVE  [F!Next]_(F!fleetVars)
<1>1. Monitored' = [s \in Services |-> Monitored'[s]]
  BY DEF Monitored
<1>2. F!Adjust
  BY <1>1 DEF F!Adjust, F!Hired, F!Dismissed, F!Kept, Adjusts, Serving
<1> QED
  BY <1>2 DEF F!Next

LEMMA NobodyIsHalt ==
    ASSUME row' = row, ~Serving', \A s \in Services : Monitored'[s] = None
    PROVE  [F!Next]_(F!fleetVars)
<1>1. Monitored' = [s \in Services |-> None]
  BY DEF Monitored
<1>2. F!Halt
  BY <1>1 DEF F!Halt, Serving
<1> QED
  BY <1>2 DEF F!Next

LEMMA SameIsStutter ==
    ASSUME row' = row, Serving' = Serving, UNCHANGED <<tasks, worker>>
    PROVE  [F!Next]_(F!fleetVars)
<1>1. Monitored' = Monitored
  BY SameMonitors
<1> QED
  BY <1>1 DEF F!fleetVars, Serving

-----------------------------------------------------------------------------
(***************************************************************************)
(* Each action is a step of module Fleet, and a StopsStep.                 *)
(***************************************************************************)
FleetStep == StopsStep /\ [F!Next]_(F!fleetVars)

\* Neither the registry nor the poll changes.
LEMMA QuietIsFleet ==
    ASSUME UNCHANGED <<row, tasks, worker, poll, fetched, phase>>
    PROVE  FleetStep
<1>1. Monitored' = Monitored /\ Serving' = Serving
  BY SameMonitors DEF Serving
<1>2. StopsStep
  BY <1>1 DEF StopsStep
<1> QED
  BY <1>1, <1>2, SameIsStutter DEF FleetStep

\* What an active snapshot says a worker may start with.
LEMMA CommittedVersion ==
    ASSUME TypeOK, NEW s \in Services, NEW snap \in Row, snap.st = "active", WasCommitted(s, snap)
    PROVE  snap.ver \in F!Committed(s) /\ (row[s].ver > 0 \/ row[s].st = "active")
<1>1. snap.ver \in Nat /\ row[s].ver \in Nat
  BY RowFacts, MaxVersionAssumption DEF Row
<1>2. row[s].st # "absent" /\ snap.ver <= row[s].ver /\ (snap.ver = row[s].ver => row[s].st = "active")
  BY DEF WasCommitted
<1>3. snap.ver \in 0..row[s].ver
  BY <1>1, <1>2
<1>4. snap.ver \in F!Committed(s)
  BY <1>2, <1>3 DEF F!Committed
<1> QED
  BY <1>1, <1>2, <1>4

LEMMA SpawnAdjusts ==
    ASSUME FleetInv, NEW rows \in [Services -> Row], Spawn(rows),
           \A s \in Missing(rows) : WasCommitted(s, rows[s])
    PROVE  /\ Adjusts
           /\ \A s \in Services : \/ Monitored'[s] = Monitored[s]
                                  \/ s \in Missing(rows) /\ (row[s].ver > 0 \/ row[s].st = "active")
<1>1. RegistryInv /\ TypeOK
  BY DEF FleetInv, RegistryInv
<1>2. ASSUME NEW s \in Missing(rows)
      PROVE  /\ Monitored[s] = None /\ Monitored'[s] \in F!Committed(s)
             /\ row[s].ver > 0 \/ row[s].st = "active"
  <2>1. s \in Services /\ rows[s].st = "active" /\ rows[s] \in Row
    BY DEF Missing
  <2>2. Monitored'[s] = rows[s].ver /\ Monitored[s] = None
    BY <1>1, <2>1, SpawnMonitors, MonitoredFacts
  <2>3. rows[s].ver \in F!Committed(s) /\ (row[s].ver > 0 \/ row[s].st = "active")
    BY <1>1, <2>1, CommittedVersion
  <2> QED
    BY <2>2, <2>3
<1>3. \A s \in Services \ Missing(rows) : Monitored'[s] = Monitored[s]
  BY <1>1, SpawnMonitors
<1> QED
  BY <1>2, <1>3 DEF Adjusts

LEMMA PopAdjusts ==
    ASSUME FleetInv, NEW s \in Services, row[s].ver > 0,
           tasks' = [tasks EXCEPT ![s] = None], worker' = Cancelled({tasks[s]}, worker)
    PROVE  /\ Adjusts
           /\ \A x \in Services : Monitored'[x] = Monitored[x] \/ Monitored'[x] = None
<1>1. RegistryInv
  BY DEF FleetInv
<1>2. Monitored'[s] = None /\ \A x \in Services \ {s} : Monitored'[x] = Monitored[x]
  BY <1>1, PopMonitors
<1> QED
  BY <1>2 DEF Adjusts

LEMMA CatalogIsFleet == FleetInv /\ Catalog => FleetStep
<1> SUFFICES ASSUME FleetInv, NEW s \in Services,
                    Create(s) \/ Seed(s) \/ Update(s) \/ Delete(s)
             PROVE  FleetStep
  BY DEF Catalog
<1>1. UNCHANGED <<tasks, worker, poll, fetched, phase>>
  BY DEF Create, Seed, Update, Delete, Insert, Write, memory, control
<1>2. Monitored' = Monitored /\ Serving' = Serving
  BY <1>1, SameMonitors DEF Serving
<1>3. F!Change(s)
  <2>1. ASSUME NEW st, st \in {"active", "inactive"}, Insert(s, st)
        PROVE  F!Change(s)
    BY <1>2, <2>1 DEF Insert, F!Change, F!Inserted, Serving
  <2>2. ASSUME NEW st, st \in {"active", "inactive", "deleted"}, Write(s, st)
        PROVE  F!Change(s)
    BY <1>2, <2>2 DEF Write, F!Change, F!Inserted, Serving
  <2> QED
    BY <2>1, <2>2 DEF Create, Seed, Update, Delete
<1>4. StopsStep
  BY <1>1, <1>2 DEF StopsStep
<1> QED
  BY <1>3, <1>4 DEF FleetStep, F!Next

LEMMA HandlersAreFleet == FleetInv /\ Handlers => FleetStep
<1> SUFFICES ASSUME FleetInv, Handlers
             PROVE  FleetStep
  OBVIOUS
<1>0. TypeOK
  BY DEF FleetInv, RegistryInv
<1>1. ASSUME NEW r \in Requests, NotifySent(r) \/ RefreshResume(r) \/ RefreshRead(r)
      PROVE  FleetStep
  BY <1>1, QuietIsFleet DEF NotifySent, RefreshResume, RefreshRead, memory, control
<1>2. ASSUME NEW r \in Requests, RefreshEnsure(r)
      PROVE  FleetStep
  <2> DEFINE s == r[1]
             rows == [NoRows EXCEPT ![s] = req[r].snap]
  <2>1. /\ s \in Services /\ r[2] \in Nat /\ r[2] >= 1 /\ req[r].snap \in Row
        /\ row[s].ver \in Nat
    BY <1>0, RequestFacts, RowFacts DEF TypeOK, RequestType
  <2>2. rows \in [Services -> Row]
    BY <1>0, <2>1, ActiveRowsType
  <2>3. Missing(rows) \subseteq {s} /\ rows[s] = req[r].snap
    BY <2>1 DEF Missing, NoRows, Absent
  <2>4. WasCommitted(s, rows[s]) /\ row[s].ver >= r[2]
    BY <1>2, <2>3 DEF RefreshEnsure, FleetInv, SnapshotsCommitted, RequestsWritten, Written
  <2>5. row[s].ver > 0
    BY <2>1, <2>4
  <2>6. Spawn(rows) /\ UNCHANGED <<row, poll, fetched, control>>
    BY <1>2 DEF RefreshEnsure
  <2> HIDE DEF rows, s
  <2>7. Adjusts /\ \A x \in Services : Monitored'[x] = Monitored[x] \/ row[x].ver > 0
    BY <2>2, <2>3, <2>4, <2>5, <2>6, SpawnAdjusts
  <2>8. StopsStep
    BY <2>6, <2>7 DEF StopsStep
  <2> QED
    BY <2>6, <2>7, <2>8, AdjustsIsAdjust DEF FleetStep, Serving, control
<1>3. ASSUME RefreshStart
      PROVE  FleetStep
  <2> DEFINE r == Head(channel)
             R == Requests
  <2>1. channel \in Seq(R) /\ channel # <<>>
    BY <1>0, <1>3 DEF TypeOK, RefreshStart
  <2> HIDE DEF R
  <2>2. r \in R /\ 1 \in DOMAIN channel /\ channel[1] = r
    BY <2>1
  <2>3. r[1] \in Services /\ r[2] \in Nat /\ r[2] >= 1
    BY <2>2, RequestFacts DEF R
  <2>4. row[r[1]].ver \in Nat /\ row[r[1]].ver >= r[2]
    BY <1>0, <2>2, <2>3, RowFacts DEF FleetInv, RequestsWritten, Written
  <2>5. row[r[1]].ver > 0
    BY <2>3, <2>4
  <2>6. /\ tasks' = [tasks EXCEPT ![r[1]] = None] /\ worker' = Cancelled({tasks[r[1]]}, worker)
        /\ UNCHANGED <<row, poll, fetched, control>>
    BY <1>3 DEF RefreshStart
  <2> HIDE DEF r
  <2>7. Adjusts /\ \A x \in Services : Monitored'[x] = Monitored[x] \/ Monitored'[x] = None
    BY <2>3, <2>5, <2>6, PopAdjusts
  <2>8. StopsStep
    BY <2>6, <2>7 DEF StopsStep
  <2> QED
    BY <2>6, <2>7, <2>8, AdjustsIsAdjust DEF FleetStep, Serving, control
<1> QED
  BY <1>1, <1>2, <1>3 DEF Handlers

LEMMA PollingIsFleet == FleetInv /\ Polling => FleetStep
<1> SUFFICES ASSUME FleetInv, Polling
             PROVE  FleetStep
  OBVIOUS
<1>0. TypeOK /\ RegistryInv /\ poll \in PollType /\ fetched \in [Services -> Row]
  BY DEF FleetInv, RegistryInv, TypeOK
<1>1. CASE PollRead
  <2>1. UNCHANGED <<row, tasks, worker, phase>>
    BY <1>1 DEF PollRead, control
  <2>2. Monitored' = Monitored
    BY <2>1, SameMonitors
  <2>3. poll'.pc = "read" /\ fetched' = ActiveRows
    BY <1>0, <1>1 DEF PollRead, PollType
  <2> QED
    BY <2>1, <2>2, <2>3, SameIsStutter DEF FleetStep, StopsStep, Serving
<1>2. CASE PollApply
  <2>1. /\ CanSpawn(fetched) /\ poll.pc = "read" /\ UNCHANGED <<row, control>>
        /\ \A s \in Services : WasCommitted(s, fetched[s])
    BY <1>2 DEF PollApply, FleetInv, SnapshotsCommitted
  <2>2. ASSUME NEW s \in Obsolete(fetched)
        PROVE  s \in Services /\ row[s].ver > 0
    <3>1. s \in Services /\ tasks[s] # None /\ fetched[s].st # "active"
      BY DEF Obsolete
    <3>2. phase \in {"up", "unlisten"}
      BY <2>1 DEF FleetInv, PollPhase
    <3>3. Runs(s)
      BY <1>0, <3>1, <3>2 DEF RegistryInv, RegisteredIsRunning, Runs
    <3>4. Monitored[s] # None
      BY <1>0, <3>1, <3>3, MonitoredFacts
    <3>5. row[s].ver # 0
      BY <2>1, <3>1, <3>4 DEF FleetInv, StopsOnlyWritten
    <3> QED
      BY <1>0, <3>1, <3>5, RowFacts
  <2>3. CASE /\ tasks' = TasksWith(fetched) /\ worker' = WorkersWith(fetched)
             /\ poll' = [poll EXCEPT !.pc = "sleep"]
    <3>1. Spawn(fetched)
      BY <2>1, <2>3 DEF Spawn
    <3>2. \A s \in Missing(fetched) : WasCommitted(s, fetched[s])
      BY <2>1 DEF Missing
    <3>3. /\ Adjusts
          /\ \A s \in Services : \/ Monitored'[s] = Monitored[s]
                                 \/ row[s].ver > 0 \/ row[s].st = "active"
      BY <1>0, <3>1, <3>2, SpawnAdjusts
    <3>4. poll'.pc = "sleep"
      BY <1>0, <2>3 DEF PollType
    <3>5. StopsStep
      BY <2>1, <3>3, <3>4 DEF StopsStep
    <3> QED
      BY <2>1, <3>3, <3>5, AdjustsIsAdjust DEF FleetStep, Serving, control
  <2>4. ASSUME NEW s \in Obsolete(fetched),
               tasks' = [TasksWith(fetched) EXCEPT ![s] = None],
               worker' = Cancelled({tasks[s]}, WorkersWith(fetched)),
               poll' = [poll EXCEPT !.pc = "stopping", !.task = tasks[s],
                                    !.toStop = Obsolete(fetched) \ {s}]
        PROVE  FleetStep
    <3>1. /\ s \in Services /\ Monitored'[s] = None
          /\ \A x \in Services \ {s} :
               /\ x \in Missing(fetched) => Monitored'[x] = fetched[x].ver /\ ~Runs(x)
               /\ x \notin Missing(fetched) => Monitored'[x] = Monitored[x]
      BY <1>0, <2>1, <2>4, SpawnAndPopMonitors
    <3>2. ASSUME NEW x \in Services \ {s}, x \in Missing(fetched)
          PROVE  /\ Monitored[x] = None /\ Monitored'[x] \in F!Committed(x)
                 /\ row[x].ver > 0 \/ row[x].st = "active"
      <4>1. Monitored[x] = None
        BY <1>0, <3>1, <3>2, MonitoredFacts
      <4>2. fetched[x] \in Row /\ fetched[x].st = "active" /\ WasCommitted(x, fetched[x])
        BY <1>0, <2>1, <3>2 DEF Missing
      <4>3. fetched[x].ver \in F!Committed(x) /\ (row[x].ver > 0 \/ row[x].st = "active")
        BY <1>0, <4>2, CommittedVersion
      <4> QED
        BY <3>1, <3>2, <4>1, <4>3
    <3>3. Adjusts
      BY <2>2, <3>1, <3>2 DEF Adjusts
    <3>4. poll'.pc = "stopping" /\ poll'.toStop \subseteq Obsolete(fetched)
      BY <1>0, <2>4 DEF PollType
    <3>5. StopsStep
      BY <2>1, <2>2, <3>1, <3>2, <3>4 DEF StopsStep
    <3> QED
      BY <2>1, <3>3, <3>5, AdjustsIsAdjust DEF FleetStep, Serving, control
  <2> QED
    BY <1>2, <2>3, <2>4 DEF PollApply
<1>3. CASE PollContinue
  <2>1. poll.pc = "stopping" /\ UNCHANGED <<row, fetched, control>>
    BY <1>3 DEF PollContinue
  <2>2. CASE poll' = [PollOff EXCEPT !.pc = IF running THEN "sleep" ELSE "off"] /\ UNCHANGED <<tasks, worker>>
    <3>1. poll'.pc \in {"sleep", "off"}
      BY <2>2 DEF PollOff
    <3>2. Monitored' = Monitored
      BY <2>2, SameMonitors
    <3> QED
      BY <2>1, <2>2, <3>1, <3>2, SameIsStutter DEF FleetStep, StopsStep, Serving, control
  <2>3. ASSUME NEW s \in poll.toStop, NEW skipped,
               tasks' = [tasks EXCEPT ![s] = None], worker' = Cancelled({tasks[s]}, worker),
               poll' = [PollOff EXCEPT !.pc = "stopping", !.task = tasks[s],
                                       !.toStop = poll.toStop \ ({s} \cup skipped)]
        PROVE  FleetStep
    <3>1. s \in Services /\ row[s].ver > 0
      BY <1>0, <2>1 DEF PollType, FleetInv, StopsOnlyWritten
    <3>2. Adjusts /\ \A x \in Services : Monitored'[x] = Monitored[x] \/ Monitored'[x] = None
      BY <2>3, <3>1, PopAdjusts
    <3>3. poll'.pc = "stopping" /\ poll'.toStop \subseteq poll.toStop
      BY <2>3 DEF PollOff
    <3>4. StopsStep
      BY <2>1, <3>2, <3>3 DEF StopsStep
    <3> QED
      BY <2>1, <3>2, <3>4, AdjustsIsAdjust DEF FleetStep, Serving, control
  <2> QED
    BY <1>3, <2>2, <2>3 DEF PollContinue
<1>4. CASE PollCancelled
  <2>1. UNCHANGED <<row, tasks, worker, phase>> /\ poll'.pc = "off"
    BY <1>4 DEF PollCancelled, PollOff, control
  <2>2. Monitored' = Monitored
    BY <2>1, SameMonitors
  <2> QED
    BY <2>1, <2>2, SameIsStutter DEF FleetStep, StopsStep, Serving
<1> QED
  BY <1>1, <1>2, <1>3, <1>4 DEF Polling

\* A step of the lifespan that leaves the workers and the poll alone.
LEMMA RestsIsFleet ==
    ASSUME FleetInv, UNCHANGED <<row, tasks, worker>>, Serving' = Serving, poll'.pc \notin {"read", "stopping"}
    PROVE  FleetStep
<1>1. Monitored' = Monitored
  BY SameMonitors
<1>2. StopsStep
  BY <1>1 DEF StopsStep
<1> QED
  BY <1>2, SameIsStutter DEF FleetStep

\* The monitoring stops.
LEMMA StopsIsFleet ==
    ASSUME row' = row, ~Serving', poll'.pc = "off",
           \A s \in Services : Monitored'[s] = None
    PROVE  FleetStep
<1>1. StopsStep
  BY DEF StopsStep
<1> QED
  BY <1>1, NobodyIsHalt DEF FleetStep

LEMMA LifespanIsFleet == FleetInv /\ (Lifespan \/ StopBegin \/ ProcessExit) => FleetStep
<1> SUFFICES ASSUME FleetInv, Lifespan \/ StopBegin \/ ProcessExit
             PROVE  FleetStep
  OBVIOUS
<1>0. TypeOK /\ RegistryInv /\ PollPhase /\ poll \in PollType /\ fetched \in [Services -> Row]
  BY DEF FleetInv, RegistryInv, TypeOK
<1>1. CASE Boot
  <2>1. UNCHANGED <<row, tasks, worker, poll>> /\ phase = "off" /\ phase' = "starting"
    BY <1>1 DEF Boot, memory
  <2>2. Monitored' = Monitored
    BY <2>1, SameMonitors
  <2>3. poll'.pc = "off"
    BY <1>0, <2>1 DEF PollPhase
  <2>4. StopsStep
    BY <2>2, <2>3 DEF StopsStep
  <2>5. F!Open
    BY <2>1, <2>2 DEF F!Open
  <2> QED
    BY <2>4, <2>5 DEF FleetStep, F!Next
<1>2. CASE StartRead \/ StartReadFails \/ ClientClosed
  <2>1. UNCHANGED <<row, tasks, worker, poll>> /\ Serving' = Serving /\ phase \notin {"up", "unlisten"}
    BY <1>2 DEF StartRead, StartReadFails, ClientClosed, memory, Serving
  <2>2. poll'.pc = "off"
    BY <1>0, <2>1 DEF PollPhase
  <2> QED
    BY <2>1, <2>2, RestsIsFleet
<1>3. CASE ListenerStart
  BY <1>3, RestsIsFleet DEF ListenerStart, PollOff, memory, Serving
<1>4. CASE StartSpawn
  <2>1. Spawn(fetched) /\ UNCHANGED <<row, poll>> /\ Serving' = Serving /\ phase \notin {"up", "unlisten"}
    BY <1>4 DEF StartSpawn, Serving
  <2>2. \A s \in Missing(fetched) : WasCommitted(s, fetched[s])
    BY DEF Missing, FleetInv, SnapshotsCommitted
  <2>3. poll'.pc = "off"
    BY <1>0, <2>1 DEF PollPhase
  <2>4. /\ Adjusts
        /\ \A s \in Services : Monitored'[s] = Monitored[s] \/ row[s].ver > 0 \/ row[s].st = "active"
    BY <1>0, <2>1, <2>2, SpawnAdjusts
  <2>5. StopsStep
    BY <2>1, <2>3, <2>4 DEF StopsStep
  <2> QED
    BY <2>1, <2>4, <2>5, AdjustsIsAdjust DEF FleetStep
<1>5. CASE StopBegin
  <2>1. UNCHANGED <<row, tasks, worker, fetched>> /\ Serving' = Serving
    BY <1>5 DEF StopBegin, memory, Serving
  <2>2. poll'.pc = poll.pc /\ poll'.toStop = poll.toStop
    BY <1>0, <1>5 DEF StopBegin, PollType
  <2>3. Monitored' = Monitored
    BY <2>1, SameMonitors
  <2>4. StopsStep
    BY <2>1, <2>2, <2>3 DEF StopsStep
  <2> QED
    BY <2>1, <2>4, SameIsStutter DEF FleetStep
<1>6. CASE ListenerStopped
  <2>1. /\ row' = row /\ tasks' = tasks /\ worker' = Cancelled(Range(tasks), worker)
        /\ ~Serving' /\ poll'.pc = "off"
    BY <1>6 DEF ListenerStopped, Serving
  <2>2. ASSUME NEW s \in Services, tasks[s] # None
        PROVE  worker'[tasks[s]].pc # "run"
    <3>1. tasks[s] \in Workers /\ tasks[s] \in Range(tasks)
      BY <1>0, <2>2 DEF TypeOK, Range
    <3> QED
      BY <1>0, <2>1, <3>1, CancelledFacts DEF TypeOK
  <2>3. \A s \in Services : Monitored'[s] = None
    BY <2>1, <2>2 DEF Monitored
  <2> QED
    BY <2>1, <2>3, StopsIsFleet
<1>7. CASE RunnerGathered \/ ProcessExit
  <2>1. row' = row /\ tasks' = [s \in Services |-> None] /\ ~Serving'
    BY <1>7 DEF RunnerGathered, ProcessExit, Serving
  <2>2. poll'.pc = "off"
    BY <1>0, <1>7 DEF RunnerGathered, ProcessExit, PollOff, PollPhase
  <2>3. \A s \in Services : Monitored'[s] = None
    BY <2>1 DEF Monitored
  <2> QED
    BY <2>1, <2>2, <2>3, StopsIsFleet
<1> QED
  BY <1>1, <1>2, <1>3, <1>4, <1>5, <1>6, <1>7 DEF Lifespan

LEMMA FailuresAreFleet ==
    FleetInv /\ (Failures \/ \E w \in Workers : WorkerFinish(w)) => FleetStep
<1> SUFFICES ASSUME FleetInv, Failures \/ \E w \in Workers : WorkerFinish(w)
             PROVE  FleetStep
  OBVIOUS
<1>0. TypeOK /\ RegistryInv /\ PollPhase /\ poll \in PollType
  BY DEF FleetInv, RegistryInv, TypeOK
<1>1. ASSUME NEW r \in Requests, NotifyFails(r) \/ RefreshFails(r)
      PROVE  FleetStep
  BY <1>1, QuietIsFleet DEF NotifyFails, RefreshFails, memory, control
<1>2. CASE ListenDrops
  BY <1>2, QuietIsFleet DEF ListenDrops, memory, control
<1>3. CASE StartReadFails
  <2>1. UNCHANGED <<row, tasks, worker, poll>> /\ Serving' = Serving /\ phase \notin {"up", "unlisten"}
    BY <1>3 DEF StartReadFails, memory, Serving
  <2>2. poll'.pc = "off"
    BY <1>0, <2>1 DEF PollPhase
  <2> QED
    BY <2>1, <2>2, RestsIsFleet
<1>4. CASE PollFails
  <2>1. UNCHANGED <<row, tasks, worker>> /\ Serving' = Serving
    BY <1>4 DEF PollFails, control, Serving
  <2>2. poll'.pc = "sleep"
    BY <1>0, <1>4 DEF PollFails, PollType
  <2> QED
    BY <2>1, <2>2, RestsIsFleet
<1>5. ASSUME NEW w \in Workers, WorkerFinish(w)
      PROVE  FleetStep
  <2>1. UNCHANGED <<row, tasks, poll, fetched>> /\ Serving' = Serving
    BY <1>5 DEF WorkerFinish, control, Serving
  <2>2. worker[w].pc = "cancelled" /\ worker' = [worker EXCEPT ![w] = Finished]
    BY <1>5 DEF WorkerFinish
  <2>3. worker'[w].pc = "done" /\ \A v \in Workers \ {w} : worker'[v] = worker[v]
    BY <1>0, <2>2 DEF TypeOK, Finished
  <2>4. ASSUME NEW s \in Services
        PROVE  Monitored'[s] = Monitored[s]
    <3>1. tasks[s] # None => tasks[s] \in Workers
      BY <1>0 DEF TypeOK
    <3>2. CASE tasks[s] = w
      BY <2>1, <2>2, <2>3, <3>2 DEF Monitored
    <3>3. CASE tasks[s] # w
      BY <2>1, <2>3, <3>1, <3>3 DEF Monitored
    <3> QED
      BY <3>2, <3>3
  <2>5. StopsStep
    BY <2>1, <2>4 DEF StopsStep
  <2>6. Monitored' = Monitored
    BY <2>4, MonitoredExtensional
  <2> QED
    BY <2>1, <2>5, <2>6 DEF FleetStep, F!fleetVars, Serving
<1> QED
  BY <1>1, <1>2, <1>3, <1>4, <1>5 DEF Failures

LEMMA StepIsFleet == FleetInv /\ [Next]_vars => FleetStep
<1>1. UNCHANGED vars => FleetStep
  BY QuietIsFleet DEF vars
<1> QED
  BY <1>1, CatalogIsFleet, HandlersAreFleet, PollingIsFleet, LifespanIsFleet, FailuresAreFleet
     DEF Next

-----------------------------------------------------------------------------
LEMMA InitFleetInv == Init => FleetInv
<1> SUFFICES ASSUME Init PROVE FleetInv
  OBVIOUS
<1>1. RegistryInv
  BY InitRegistryInv
<1>2. SnapshotsCommitted /\ RequestsWritten /\ RefreshReadsNotified
  <2>1. \A r \in Requests : req[r].pc = "idle"
    BY DEF Init, Idle
  <2>2. \A s \in Services : fetched[s].st # "active"
    BY DEF Init, NoRows, Absent
  <2>3. DOMAIN channel = {}
    BY DEF Init
  <2> QED
    BY <2>1, <2>2, <2>3
       DEF SnapshotsCommitted, RequestsWritten, RefreshReadsNotified, WasCommitted
<1>3. PollPhase
  BY DEF Init, PollPhase, PollOff
<1>4. \A s \in Services : Monitored[s] = None
  BY DEF Init, Monitored
<1>5. StopsOnlyWritten
  BY <1>4 DEF StopsOnlyWritten, Init, PollOff
<1> QED
  BY <1>1, <1>2, <1>3, <1>5 DEF FleetInv

LEMMA StepKeepsFleetInv == FleetInv /\ [Next]_vars => FleetInv'
<1> SUFFICES ASSUME FleetInv, [Next]_vars
             PROVE  FleetInv'
  OBVIOUS
<1>1. RegistryInv'
  BY CatalogKeepsRegistry, HandlersKeepRegistry, PollingKeepsRegistry, LifespanKeepsRegistry,
     ProcessExitKeepsRegistry, FailuresKeepRegistry, StutterKeepsRegistry DEF Next, FleetInv
<1>2. TypeOK'
  BY <1>1 DEF RegistryInv
<1>3. DataStep /\ FleetStep
  BY StepIsData, StepIsFleet
<1>4. SnapshotsCommitted' /\ RequestsWritten' /\ RefreshReadsNotified'
  BY <1>2, <1>3, DataStepKeeps
<1>5. StopsOnlyWritten'
  BY <1>2, <1>3, StopsStepKeeps DEF DataStep, FleetStep
<1>6. PollPhase'
  BY PollPhaseKept
<1> QED
  BY <1>1, <1>4, <1>5, <1>6 DEF FleetInv

(***************************************************************************)
(* Rows kept in memory over an await are versions that were committed, and *)
(* the poll stops only services that were written since they were created. *)
(***************************************************************************)
THEOREM FleetConsistent == Spec => []FleetInv
BY InitFleetInv, StepKeepsFleetInv, PTL DEF Spec

(***************************************************************************)
(* A refresh uses a row at least as new as the write that notified it.     *)
(***************************************************************************)
THEOREM RefreshReadsNotifiedHolds == Spec => []RefreshReadsNotified
<1>1. FleetInv => RefreshReadsNotified
  BY DEF FleetInv
<1> QED
  BY <1>1, FleetConsistent, PTL

(***************************************************************************)
(* The scheduler implements module Fleet: refreshes and polls, failed or   *)
(* overlapping, never touch the monitoring of a service that was not       *)
(* written, and what monitors a service is one configuration that was      *)
(* committed for it.                                                       *)
(***************************************************************************)
THEOREM ImplementsFleetHolds == Spec => ImplementsFleet
<1>1. Init => F!Init
  <2> SUFFICES ASSUME Init PROVE F!Init
    OBVIOUS
  <2>1. \A s \in Services : row[s].ver = 0
    BY DEF Init, Absent
  <2>2. Monitored = [s \in Services |-> None]
    BY DEF Init, Monitored
  <2> QED
    BY <2>1, <2>2 DEF Init, F!Init
<1>2. FleetInv /\ [Next]_vars => [F!Next]_(F!fleetVars)
  BY StepIsFleet DEF FleetStep
<1> QED
  BY <1>1, <1>2, FleetConsistent, PTL DEF Spec, ImplementsFleet, F!Spec
==============================================================================
