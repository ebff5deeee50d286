-------------------------------- MODULE Worker --------------------------------
(***************************************************************************)
(* The worker loops of a process (services/scheduler/worker.py) with what  *)
(* they share: the counters of the runner, its list of callbacks, and the  *)
(* connections of the engine's pool (repositories/database_session.py),    *)
(* for which requests of the API compete too.  One worker for each         *)
(* service; what the callback decides about incidents is module Incidents, *)
(* here it matters only when it holds a connection.                        *)
(*                                                                         *)
(* A session takes a connection for its first statement, returns it at     *)
(* commit, rollback and close, and takes one again for the next statement: *)
(* the refresh after a commit waits for a connection once more.            *)
(***************************************************************************)
EXTENDS Integers, FiniteSets

CONSTANTS Workers,     \* the services, each with its worker
          Clients,     \* requests of the API in progress at a time
          PoolSize,    \* connections of the pool, overflow included
          MaxChecks,   \* bound: the checks counted
          Faults       \* what may go wrong, a subset of AllFaults

AllFaults == {"raise",     \* a statement raises, or the wait for a connection times out
              "close",     \* closing a session raises
              "refresh",   \* refresh_service cancels a worker
              "stop"}      \* the lifespan ends

ASSUME WorkerAssumption ==
  /\ IsFiniteSet(Workers) /\ Workers \cap Clients = {}
  /\ PoolSize \in Nat \ {0} /\ MaxChecks \in Nat
  /\ Faults \subseteq AllFaults

VARIABLES phase,       \* of the lifespan
          pc, up,      \* of each worker: the await it is at, its verdict
          request,     \* of each request: the await it is at
          conn,        \* the connections in use: by whom, for which session
          total, failed,    \* runner.checks_total, runner.checks_failed
          rows, downs       \* rows of check_results, those not up among them

counters == <<total, failed, rows, downs>>
vars == <<phase, pc, up, request, conn, counters>>

\* Awaiting a connection, and what comes with it: the place and the session.
Grant == [saving     |-> [at |-> "insert",   session |-> "check"],
          refetching |-> [at |-> "refetch",  session |-> "check"],
          loading    |-> [at |-> "deciding", session |-> "handler"],
          reloading  |-> [at |-> "mail",     session |-> "handler"],
          relogging  |-> [at |-> "log",      session |-> "handler"]]

Waits == DOMAIN Grant
Sessions == {"check", "handler", "request"}
Storing == {"saving", "insert"}
Refetching == {"refetching", "refetch"}
Saving == Storing \cup Refetching
Handling == {"loading", "deciding", "reloading", "mail", "bareMail", "relogging", "log"}
Ending == {"cancelled", "ended"}
Places == {"asleep", "request", "pause"} \cup Saving \cup Handling \cup Ending

\* No handler runs before the callback is registered.
TypeOK ==
  /\ phase \in {"starting", "up", "stopping", "down"}
  /\ phase = "starting" => \A w \in Workers : pc[w] \notin Handling \cup Ending
  /\ pc \in [Workers -> Places]
  /\ up \in [Workers -> BOOLEAN]
  /\ request \in [Clients -> {"idle", "waits", "runs"}]
  /\ conn \subseteq (Workers \cup Clients) \X Sessions
  /\ \A n \in {total, failed, rows, downs} : n \in Nat

\* SchedulerRunner.start has spawned the workers; listener.start is awaited and
\* the callback not yet registered.
Init ==
  /\ phase = "starting"
  /\ pc = [w \in Workers |-> "asleep"]
  /\ up = [w \in Workers |-> TRUE]
  /\ request = [c \in Clients |-> "idle"]
  /\ conn = {}
  /\ total = 0 /\ failed = 0 /\ rows = 0 /\ downs = 0

Goto(w, place) == pc' = [pc EXCEPT ![w] = place]

\* A session of t gives its connection back.
Return(t) == conn' = {c \in conn : c[1] # t}

\* runner.fire_callbacks: nothing to await while no callback is registered.
\* Mutant: registered before the runner starts.
FireRegistered(w) == Goto(w, "loading")

Fire(w) == Goto(w, IF phase = "starting" THEN "asleep" ELSE "loading")

-----------------------------------------------------------------------------
(* worker_loop                                                             *)

\* asyncio.sleep of the interval, or of five seconds after an exception.
Wake(w) ==
  /\ pc[w] \in {"asleep", "pause"}
  /\ IF pc[w] = "pause" THEN Goto(w, "asleep") ELSE total < MaxChecks /\ Goto(w, "request")
  /\ UNCHANGED <<phase, up, request, conn, counters>>

\* The answer or its failure is evaluated and counted, before anything is saved.
\* Mutant: only the total is counted.
AnswerUncounted(w) ==
  /\ pc[w] = "request"
  /\ \E verdict \in BOOLEAN : up' = [up EXCEPT ![w] = verdict] /\ UNCHANGED failed
  /\ total' = total + 1
  /\ Goto(w, "saving")
  /\ UNCHANGED <<phase, request, conn, rows, downs>>

Answer(w) ==
  /\ pc[w] = "request"
  /\ \E verdict \in BOOLEAN :
       /\ up' = [up EXCEPT ![w] = verdict]
       /\ failed' = IF verdict THEN failed ELSE failed + 1
  /\ total' = total + 1
  /\ Goto(w, "saving")
  /\ UNCHANGED <<phase, request, conn, rows, downs>>

\* A statement that waited for a connection has one.
Connect(w) ==
  /\ pc[w] \in Waits
  /\ Cardinality(conn) < PoolSize
  /\ conn' = conn \cup {<<w, Grant[pc[w]].session>>}
  /\ Goto(w, Grant[pc[w]].at)
  /\ UNCHANGED <<phase, up, request, counters>>

Stored(w) ==
  /\ rows' = rows + 1
  /\ downs' = IF up[w] THEN downs ELSE downs + 1
  /\ UNCHANGED <<total, failed>>

\* save_check_result: the commit.
Commit(w) ==
  /\ pc[w] = "insert"
  /\ Stored(w)
  /\ Return(w)
  /\ Goto(w, "refetching")
  /\ UNCHANGED <<phase, up, request>>

\* The refresh is answered, session_scope closes, the callbacks are fired.
\* Mutant: the callbacks are fired inside the worker's session_scope.
RefetchedNested(w) ==
  /\ pc[w] = "refetch"
  /\ Fire(w)
  /\ UNCHANGED <<phase, up, request, conn, counters>>

Refetched(w) ==
  /\ pc[w] = "refetch"
  /\ Return(w)
  /\ Fire(w)
  /\ UNCHANGED <<phase, up, request, counters>>

\* The statement raises, or no connection came in time; save_check_result rolls
\* back.  Up to the commit the worker fires the callbacks all the same; a commit
\* may have been done although its answer was lost.  The refresh has expired the
\* check before, and the closing of the session detaches it: then the handler can
\* read nothing of it, and the worker, at its own next look at it, gives the
\* iteration up.  What is raised in the handler the handler swallows.
\* Mutant: an exception of save_check_result always ends the iteration.
RaisesUnfired(w) ==
  /\ "raise" \in Faults
  /\ Return(w)
  /\ \/ pc[w] \in Saving /\ Goto(w, "pause")
     \/ pc[w] \in Handling \ {"mail", "bareMail"} /\ Goto(w, "asleep")
  /\ \/ UNCHANGED counters
     \/ pc[w] = "insert" /\ Stored(w)
  /\ UNCHANGED <<phase, up, request>>

Raises(w) ==
  /\ "raise" \in Faults
  /\ Return(w)
  /\ \/ pc[w] \in Storing /\ Fire(w)
     \/ pc[w] \in Refetching /\ Goto(w, "pause")
     \/ pc[w] \in Handling \ {"mail", "bareMail"} /\ Goto(w, "asleep")
  /\ \/ UNCHANGED counters
     \/ pc[w] = "insert" /\ Stored(w)
  /\ UNCHANGED <<phase, up, request>>

\* Closing the session raises: the iteration is given up, callbacks included, and
\* the worker pauses.
CloseRaises(w) ==
  /\ "close" \in Faults
  /\ pc[w] = "refetch"
  /\ Return(w)
  /\ Goto(w, "pause")
  /\ UNCHANGED <<phase, up, request, counters>>

-----------------------------------------------------------------------------
(* The callback of main.py: handle_check_result in a session of its own.   *)

\* Nothing to do; an incident committed, its row to be fetched again; one
\* closed and its connection returned; a reminder due, with the connection of
\* the queries still in use.
Decide(w) ==
  /\ pc[w] = "deciding"
  /\ \/ Return(w) /\ \E place \in {"asleep", "reloading", "bareMail"} : Goto(w, place)
     \/ Goto(w, "mail") /\ UNCHANGED conn
  /\ UNCHANGED <<phase, up, request, counters>>

\* EmailSender.send has an answer, within its timeout.
Mailed(w) ==
  /\ pc[w] \in {"mail", "bareMail"}
  /\ Goto(w, IF pc[w] = "mail" THEN "log" ELSE "relogging")
  /\ UNCHANGED <<phase, up, request, conn, counters>>

\* create_notification_log commits, the session is closed.
Logged(w) ==
  /\ pc[w] = "log"
  /\ Return(w)
  /\ Goto(w, "asleep")
  /\ UNCHANGED <<phase, up, request, counters>>

-----------------------------------------------------------------------------
(* Requests of the API: one session each (get_session_dependency).         *)

Arrive(c) ==
  /\ request[c] = "idle"
  /\ phase = "up"
  /\ request' = [request EXCEPT ![c] = "waits"]
  /\ UNCHANGED <<phase, pc, up, conn, counters>>

Serve(c) ==
  /\ request[c] = "waits"
  /\ Cardinality(conn) < PoolSize
  /\ conn' = conn \cup {<<c, "request">>}
  /\ request' = [request EXCEPT ![c] = "runs"]
  /\ UNCHANGED <<phase, pc, up, counters>>

\* A commit and the statement after it: the connection may go to somebody else.
Continue(c) ==
  /\ request[c] = "runs"
  /\ Return(c)
  /\ request' = [request EXCEPT ![c] = "waits"]
  /\ UNCHANGED <<phase, pc, up, counters>>

\* Answered, or failed, or timed out in the wait.
Leave(c) ==
  /\ request[c] # "idle"
  /\ request[c] = "waits" => "raise" \in Faults
  /\ Return(c)
  /\ request' = [request EXCEPT ![c] = "idle"]
  /\ UNCHANGED <<phase, pc, up, counters>>

-----------------------------------------------------------------------------
(* The lifespan, and refresh_service.                                      *)

\* listener.start has returned, register_callback follows.
Register ==
  /\ phase = "starting"
  /\ phase' = "up"
  /\ UNCHANGED <<pc, up, request, conn, counters>>

\* task.cancel at any await.  A commit under way may have been done.
Interrupt(W) == pc' = [w \in Workers |-> IF w \in W /\ pc[w] # "ended" THEN "cancelled" ELSE pc[w]]

Refresh(w) ==
  /\ "refresh" \in Faults
  /\ phase = "up"
  /\ pc[w] \notin Ending
  /\ Interrupt({w})
  /\ \/ UNCHANGED counters
     \/ pc[w] = "insert" /\ Stored(w)
  /\ UNCHANGED <<phase, up, request, conn>>

\* The CancelledError passes session_scope, which closes the session: it came in
\* a statement, which invalidates the connection, so this closing cannot raise.
\* Mutant: a session_scope without its finally.
UnwindUnclosed(w) ==
  /\ pc[w] = "cancelled"
  /\ Goto(w, "ended")
  /\ UNCHANGED <<phase, up, request, conn, counters>>

Unwind(w) ==
  /\ pc[w] = "cancelled"
  /\ Return(w)
  /\ Goto(w, "ended")
  /\ UNCHANGED <<phase, up, request, counters>>

\* ensure_running
Respawn(w) ==
  /\ phase = "up"
  /\ pc[w] = "ended"
  /\ Goto(w, "asleep")
  /\ UNCHANGED <<phase, up, request, conn, counters>>

\* SchedulerRunner.stop cancels every worker and awaits them; uvicorn has ended
\* the requests before.  A commit under way may have been done.
Stop ==
  /\ "stop" \in Faults
  /\ phase = "up"
  /\ \A c \in Clients : request[c] = "idle"
  /\ phase' = "stopping"
  /\ Interrupt(Workers)
  /\ \E W \in SUBSET {w \in Workers : pc[w] = "insert"} :
       /\ rows' = rows + Cardinality(W)
       /\ downs' = downs + Cardinality({w \in W : ~up[w]})
  /\ UNCHANGED <<up, request, conn, total, failed>>

Stopped ==
  /\ phase = "stopping"
  /\ \A w \in Workers : pc[w] = "ended"
  /\ phase' = "down"
  /\ UNCHANGED <<pc, up, request, conn, counters>>

Step(w) ==
  \/ Wake(w) \/ Answer(w) \/ Connect(w) \/ Commit(w) \/ Refetched(w)
  \/ Decide(w) \/ Mailed(w) \/ Logged(w) \/ Unwind(w) \/ Respawn(w)

Next ==
  \/ \E w \in Workers : Step(w) \/ Raises(w) \/ CloseRaises(w) \/ Refresh(w)
  \/ \E c \in Clients : Arrive(c) \/ Serve(c) \/ Continue(c) \/ Leave(c)
  \/ Register \/ Stop \/ Stopped

Spec == Init /\ [][Next]_vars

(***************************************************************************)
(* The database, the checked service and the mail server answer or time    *)
(* out, and a request ends.  The pool hands a connection that is free      *)
(* again and again to each who waits, or the wait times out.  Nothing is   *)
(* assumed of failures, refreshes and the end of the lifespan.             *)
(***************************************************************************)
Fairness ==
  /\ \A w \in Workers : WF_vars(Step(w)) /\ SF_vars(Connect(w))
  /\ \A c \in Clients : WF_vars(request[c] = "runs" /\ (Continue(c) \/ Leave(c)))

FairSpec == Spec /\ Fairness

-----------------------------------------------------------------------------
(* Properties.                                                             *)

\* Every connection in use belongs to a statement its user is at: whatever
\* raises, and wherever a cancellation meets a worker, none stays behind with a
\* session that is over (database_session.py, session_scope), and nobody waits
\* for a second connection while it holds a first.
InUse(t, session) ==
  \/ t \in Clients /\ session = "request" /\ request[t] = "runs"
  \/ t \in Workers /\ session = "check"   /\ pc[t] \in {"insert", "refetch", "cancelled"}
  \/ t \in Workers /\ session = "handler" /\ pc[t] \in {"deciding", "mail", "log", "cancelled"}

ConnectionsReturned == \A c \in conn : InUse(c[1], c[2])

\* What /metrics and /api/health/scheduler report is never behind the history: the
\* rows of check_results and the checks still to be saved are all counted, the
\* failed ones and the others, whatever is lost between counting and commit
\* (worker.py:42-47, "counters before the commit").
Unsaved == {w \in Workers : pc[w] \in Storing}
UnsavedDowns == {w \in Unsaved : ~up[w]}
UnsavedUps == {w \in Unsaved : up[w]}

CountersCoverHistory ==
  /\ downs + Cardinality(UnsavedDowns) <= failed
  /\ (rows - downs) + Cardinality(UnsavedUps) <= total - failed

\* Once the callback is registered a verdict that could not be saved is told to the
\* incidents service all the same, and only a cancellation keeps it away: none is
\* neither in the history nor told.  One that was saved can be lost for the
\* incidents: its refresh fails, or its session cannot be closed (worker.py:49-60,
\* checks.py:14-18, main.py:46-54).
VerdictToldOrStored ==
  [][\A w \in Workers : pc[w] \in Saving /\ pc'[w] \notin Saving =>
       \/ pc'[w] \in {"loading", "cancelled"}
       \/ pc[w] \in Refetching /\ pc'[w] = "pause"
       \/ phase = "starting"]_vars

\* Every check that has begun ends, and the worker sleeps again: it is not stopped
\* by an exception, and workers, handlers and requests never wait for each other's
\* connections for ever, however small the pool (worker.py:49-70,
\* incidents.py:112-199).
KeepsChecking ==
  \A w \in Workers : pc[w] \notin {"asleep", "ended"} ~> pc[w] \in {"asleep", "cancelled"}
=============================================================================
