------------------------------ MODULE Incidents ------------------------------
(***************************************************************************)
(* The incidents of one service: what a worker does with a check once the  *)
(* request is answered (worker.py: evaluate, save, fire callbacks) and     *)
(* what the callback of main.py does then (services/incidents.py), one     *)
(* action for each await, because other tasks, the database and a          *)
(* cancellation come in between.                                           *)
(*                                                                         *)
(* A handler is a worker of the service.  A process has one (NoOrphan of   *)
(* module Scheduler), so most runs have one handler, which may be cut off  *)
(* at any await and started again; a second one stands for a second        *)
(* process during a deployment, or for the worker a shutdown forgets       *)
(* (GracefulStop of module Scheduler).                                     *)
(*                                                                         *)
(* Times are ticks no longer than the service's interval.                  *)
(***************************************************************************)
EXTENDS Integers, Sequences, FiniteSets, TLC

CONSTANTS Handlers,    \* workers of the service
          SlaTarget,   \* sla_target_pct, when it is set
          Cooldown,    \* reminder_cooldown_minutes, in ticks
          Window,      \* the 24 hours of _handle_sla_breach, in ticks
          MaxTime,     \* bound: the last tick
          Faults,      \* what may go wrong, a subset of AllFaults
          None

AllFaults == {"save",      \* save_check_result fails
              "smtp",      \* a mail is not delivered, or nobody is to get it
              "log",       \* the row of notification_log is refused
              "abort",     \* an await raises, or the worker is cancelled there
              "delete",    \* the service is deleted
              "retarget"}  \* sla_target_pct is set or cleared

ASSUME IncidentsAssumption ==
  /\ SlaTarget \in 0..100
  /\ Cooldown \in Nat /\ Window \in Nat /\ MaxTime \in Nat
  /\ Faults \subseteq AllFaults
  /\ None \notin Int

M == INSTANCE Metrics WITH Unit <- 1

VARIABLES now,
          alive,       \* the row of services exists
          target,      \* its sla_target_pct: SlaTarget or None
          checks,      \* the rows of check_results, in the order of their commits
          incidents,   \* the rows of incidents, in the order of their ids
          log,         \* the rows of notification_log
          mails,       \* the mails delivered, in order
          pc, check, breach, bad, found, since, note    \* of each handler

db == <<alive, target, checks, incidents, log>>
local == <<check, breach, bad, found, since, note>>
vars == <<now, db, mails, pc, local>>

Notes == {"incident_opened", "incident_reminder", "incident_closed", "sla_breach"}
Opening == {"incident_opened", "sla_breach"}

Waiting == {"asleep", "failed", "due"}
Awaits == {"save", "load", "history", "find", "create", "cooldown", "close", "mail", "log"}

Checks == [at : Nat, up : BOOLEAN]

\* Every row of notification_log is of an incident that exists (foreign key).
TypeOK ==
  /\ now \in 0..MaxTime
  /\ alive \in BOOLEAN
  /\ target \in {None, SlaTarget}
  /\ checks \in Seq(Checks)
  /\ incidents \in Seq([opened : Nat, closed : Nat \cup {None}, breach : BOOLEAN])
  /\ log \subseteq [incident : DOMAIN incidents, kind : Notes, at : Nat]
  /\ mails \in Seq([incident : Nat, kind : Notes, at : Nat])
  /\ pc \in [Handlers -> Waiting \cup Awaits]
  /\ check \in [Handlers -> Checks]
  /\ breach \in [Handlers -> BOOLEAN]
  /\ bad \in [Handlers -> BOOLEAN]
  /\ found \in [Handlers -> Nat]
  /\ since \in [Handlers -> Nat]
  /\ note \in [Handlers -> Notes]

\* A freshly started worker sleeps first.
Init ==
  /\ now = 0
  /\ alive = TRUE
  /\ target \in {None, SlaTarget}
  /\ checks = <<>> /\ incidents = <<>> /\ log = {} /\ mails = <<>>
  /\ pc = [h \in Handlers |-> "asleep"]
  /\ check = [h \in Handlers |-> [at |-> 0, up |-> TRUE]]
  /\ breach = [h \in Handlers |-> FALSE]
  /\ bad = [h \in Handlers |-> FALSE]
  /\ found = [h \in Handlers |-> 0]
  /\ since = [h \in Handlers |-> 0]
  /\ note = [h \in Handlers |-> "incident_opened"]

Goto(h, label) == pc' = [pc EXCEPT ![h] = label]

\* The handler ends, and its worker goes back to asyncio.sleep.
DoneAtOnce(h) == Goto(h, "due")
Done(h) == Goto(h, "asleep")

\* handle_check_result logs the exception and swallows it.
Fails(h) == Goto(h, "failed")

-----------------------------------------------------------------------------
(* The worker.                                                             *)

\* Time passes; a worker that slept through the tick is due.
Tick ==
  /\ now < MaxTime
  /\ now' = now + 1
  /\ pc' = [h \in Handlers |-> IF pc[h] \in {"asleep", "failed"} THEN "due" ELSE pc[h]]
  /\ UNCHANGED <<db, mails, local>>

\* The request is answered or fails, and evaluate_response stamps the result.
Check(h) ==
  /\ pc[h] = "due"
  /\ \E up \in BOOLEAN : check' = [check EXCEPT ![h] = [at |-> now, up |-> up]]
  /\ Goto(h, "save")
  /\ UNCHANGED <<now, db, mails, breach, bad, found, since, note>>

\* The row of a deleted service's check is refused (foreign key).
Save(h) ==
  /\ pc[h] = "save"
  /\ checks' = IF alive THEN Append(checks, check[h]) ELSE checks
  /\ Goto(h, "load")
  /\ UNCHANGED <<now, alive, target, incidents, log, mails, local>>

\* The worker logs the failure and fires the callbacks all the same.
SaveFails(h) ==
  /\ "save" \in Faults
  /\ pc[h] = "save"
  /\ Goto(h, "load")
  /\ UNCHANGED <<now, db, mails, local>>

-----------------------------------------------------------------------------
(* IncidentsService.handle_check_result, notifications enabled.            *)

\* fetch_service, and the branch on the target.
Load(h) ==
  /\ pc[h] = "load"
  /\ IF alive THEN Goto(h, IF target = None THEN "find" ELSE "history") ELSE Done(h)
  /\ breach' = [breach EXCEPT ![h] = target # None]
  /\ bad' = [bad EXCEPT ![h] = ~check[h].up]
  /\ UNCHANGED <<now, db, mails, check, found, since, note>>

Recent(h) ==
  SortSeq(SelectSeq(checks, LAMBDA c : c.at >= check[h].at - Window), LAMBDA c, d : c.at < d.at)

BelowTarget(history) ==
  history # <<>> /\ 100 * M!Sla(history).num < SlaTarget * M!Sla(history).den

\* fetch_checks_since and compute_sla.
History(h) ==
  /\ pc[h] = "history"
  /\ bad' = [bad EXCEPT ![h] = BelowTarget(Recent(h))]
  /\ Goto(h, "find")
  /\ UNCHANGED <<now, db, mails, check, breach, found, since, note>>

Open(b) == {i \in DOMAIN incidents : incidents[i].breach = b /\ incidents[i].closed = None}

\* What is to be done about an open incident, or about there being none.
Decide(h, open) ==
  IF open = 0 THEN IF bad[h] THEN "create" ELSE "asleep"
  ELSE IF ~bad[h] THEN "close"
  ELSE IF breach[h] THEN "asleep" ELSE "cooldown"

\* find_open_incident.  The handler keeps the row as it was read.
Take(h, i) ==
  /\ found' = [found EXCEPT ![h] = i]
  /\ since' = [since EXCEPT ![h] = IF i = 0 THEN 0 ELSE incidents[i].opened]
  /\ Goto(h, Decide(h, i))

FindAny(h) ==
  /\ pc[h] = "find"
  /\ \E i \in IF incidents = <<>> THEN {0} ELSE DOMAIN incidents : Take(h, i)
  /\ UNCHANGED <<now, db, mails, check, breach, bad, note>>

Find(h) ==
  /\ pc[h] = "find"
  /\ \E i \in IF Open(breach[h]) = {} THEN {0} ELSE Open(breach[h]) : Take(h, i)
  /\ UNCHANGED <<now, db, mails, check, breach, bad, note>>

Notify(h, kind) ==
  /\ note' = [note EXCEPT ![h] = kind]
  /\ Goto(h, "mail")

Insert(h) ==
  /\ incidents' = Append(incidents, [opened |-> check[h].at, closed |-> None, breach |-> breach[h]])
  /\ found' = [found EXCEPT ![h] = Len(incidents) + 1]

Announce(h) == Notify(h, IF breach[h] THEN "sla_breach" ELSE "incident_opened")

\* create_incident.  The foreign key refuses the incident of a deleted service,
\* the unique index of migration 004 a second open one of the same kind.
CreateNoIndex(h) ==
  /\ pc[h] = "create"
  /\ IF alive THEN Insert(h) /\ Announce(h)
     ELSE Fails(h) /\ UNCHANGED <<incidents, found, note>>
  /\ UNCHANGED <<now, alive, target, checks, log, mails, check, breach, bad, since>>

CreateOrReuse(h) ==
  /\ pc[h] = "create"
  /\ IF Open(breach[h]) = {} THEN Insert(h)
     ELSE \E i \in Open(breach[h]) : found' = [found EXCEPT ![h] = i] /\ UNCHANGED incidents
  /\ Announce(h)
  /\ UNCHANGED <<now, alive, target, checks, log, mails, check, breach, bad, since>>

Create(h) ==
  /\ pc[h] = "create"
  /\ IF alive /\ Open(breach[h]) = {} THEN Insert(h) /\ Announce(h)
     ELSE Fails(h) /\ UNCHANGED <<incidents, found, note>>
  /\ UNCHANGED <<now, alive, target, checks, log, mails, check, breach, bad, since>>

\* fetch_last_notification_at, or the opening when there was no reminder yet.
\* A reminder that was not delivered counts: it is logged too.
CooldownOverSinceOpening(h) == check[h].at - since[h] >= Cooldown

CooldownOver(h) ==
  LET reminders == {e \in log : e.incident = found[h] /\ e.kind = "incident_reminder"}
  IN IF reminders = {} THEN check[h].at - since[h] >= Cooldown
     ELSE \A e \in reminders : check[h].at - e.at >= Cooldown

\* The comparison with the cooldown.
Remind(h) ==
  /\ pc[h] = "cooldown"
  /\ IF CooldownOver(h) THEN Notify(h, "incident_reminder") ELSE Done(h) /\ UNCHANGED note
  /\ UNCHANGED <<now, db, mails, check, breach, bad, found, since>>

\* close_incident.  It writes closed_at of the incident found, whatever became
\* of it since; an UPDATE that finds no row raises.  A breach ends silently.
CloseUncommitted(h) ==
  /\ pc[h] = "close"
  /\ IF breach[h] THEN Done(h) /\ UNCHANGED note ELSE Notify(h, "incident_closed")
  /\ UNCHANGED <<now, db, mails, check, breach, bad, found, since>>

Close(h) ==
  /\ pc[h] = "close"
  /\ IF found[h] \in DOMAIN incidents
     THEN /\ incidents' = [incidents EXCEPT ![found[h]].closed = check[h].at]
          /\ IF breach[h] THEN Done(h) /\ UNCHANGED note ELSE Notify(h, "incident_closed")
     ELSE Fails(h) /\ UNCHANGED <<incidents, note>>
  /\ UNCHANGED <<now, alive, target, checks, log, mails, check, breach, bad, found, since>>

\* EmailSender.send never raises.  Its answer, success or not, changes only the
\* error column of the log; a mail may be delivered and reported as failed.
Mail(h) ==
  /\ pc[h] = "mail"
  /\ \/ mails' = Append(mails, [incident |-> found[h], kind |-> note[h], at |-> now])
     \/ "smtp" \in Faults /\ UNCHANGED mails
  /\ Goto(h, "log")
  /\ UNCHANGED <<now, db, local>>

\* create_notification_log, stamped with the time of the insertion.
LogNoKey(h) ==
  /\ pc[h] = "log"
  /\ log' = log \cup {[incident |-> found[h], kind |-> note[h], at |-> now]}
  /\ Done(h)
  /\ UNCHANGED <<now, alive, target, checks, incidents, mails, local>>

Log(h) ==
  /\ pc[h] = "log"
  /\ IF found[h] \in DOMAIN incidents
     THEN /\ log' = log \cup {[incident |-> found[h], kind |-> note[h], at |-> now]}
          /\ Done(h)
     ELSE Fails(h) /\ UNCHANGED log
  /\ UNCHANGED <<now, alive, target, checks, incidents, mails, local>>

\* recipients and error hold 500 characters: a longer list is refused.
LogFails(h) ==
  /\ "log" \in Faults
  /\ pc[h] = "log"
  /\ Fails(h)
  /\ UNCHANGED <<now, db, mails, local>>

-----------------------------------------------------------------------------
(* What happens around the handlers.                                       *)

\* An exception at an await is swallowed, a cancellation ends the worker, and
\* a new one starts asleep.  What was committed before the await stays.
Abort(h) ==
  /\ "abort" \in Faults
  /\ pc[h] \in Awaits
  /\ Fails(h)
  /\ UNCHANGED <<now, db, mails, local>>

\* DELETE of the service takes its rows along (migration 009).
Delete ==
  /\ "delete" \in Faults
  /\ alive
  /\ alive' = FALSE
  /\ checks' = <<>> /\ incidents' = <<>> /\ log' = {}
  /\ UNCHANGED <<now, target, mails, pc, local>>

\* No request of the API carries sla_target_pct: it is set in the database.
Retarget ==
  /\ "retarget" \in Faults
  /\ alive
  /\ target' = IF target = None THEN SlaTarget ELSE None
  /\ UNCHANGED <<now, alive, checks, incidents, log, mails, pc, local>>

Step(h) ==
  \/ Save(h) \/ SaveFails(h) \/ Load(h) \/ History(h) \/ Find(h) \/ Create(h)
  \/ Remind(h) \/ Close(h) \/ Mail(h) \/ Log(h) \/ LogFails(h)

Next == Tick \/ Delete \/ Retarget \/ \E h \in Handlers : Check(h) \/ Step(h) \/ Abort(h)

Spec == Init /\ [][Next]_vars

-----------------------------------------------------------------------------
(* Safety.                                                                 *)

\* At most one incident of a kind is open, however many handlers find none open
\* at the same time: find_open_incident and the insertion are not one step.
OneOpen == \A b \in BOOLEAN : \A i, j \in Open(b) : i = j

\* The mails about incident i, by their place.
About(i, kinds) == {k \in DOMAIN mails : mails[k].incident = i /\ mails[k].kind \in kinds}

\* An incident is announced once, by the handler that created it.
AnnouncedOnce == \A i \in DOMAIN incidents : \A k, l \in About(i, Opening) : k = l

\* A mail tells only what is committed: an incident that exists, a closing that
\* is in the database.
MailsAreCommitted ==
  alive => \A k \in DOMAIN mails :
    /\ mails[k].incident \in DOMAIN incidents
    /\ mails[k].kind = "incident_closed" => incidents[mails[k].incident].closed # None

\* The inductive invariant behind the three above.  In addition a deleted
\* service has no incidents; a handler past find_open_incident or
\* create_incident works on an incident that exists unless the service is gone;
\* who is about to announce an incident is the only one and the first; who is
\* about to mail a closing has committed it.
Announcing(h) == pc[h] = "mail" /\ note[h] \in Opening

AnnouncerIsFirst ==
  /\ \A h \in Handlers : Announcing(h) => About(found[h], Opening) = {}
  /\ \A g, h \in Handlers : Announcing(g) /\ Announcing(h) /\ found[g] = found[h] => g = h

WorksOnIncident ==
  \A h \in Handlers :
    /\ pc[h] \in {"cooldown", "close", "mail", "log"} => found[h] \in DOMAIN incidents
    /\ pc[h] = "mail" /\ note[h] = "incident_closed" => incidents[found[h]].closed # None

IncidentsInv ==
  /\ TypeOK
  /\ OneOpen
  /\ AnnouncedOnce
  /\ MailsAreCommitted
  /\ ~alive => incidents = <<>>
  /\ alive => AnnouncerIsFirst /\ WorksOnIncident

\* A check that was handled to its end leaves an open incident exactly if it
\* calls for one, whatever became of the handling of the checks before it.
OutageTracked ==
  alive => \A h \in Handlers :
    pc[h] = "asleep" => (Open(breach[h]) # {} <=> bad[h])

\* The incidents of a kind are disjoint intervals in the order of their ids.
IncidentsDisjoint ==
  \A i, j \in DOMAIN incidents :
    /\ incidents[i].closed # None => incidents[i].opened < incidents[i].closed
    /\ i < j /\ incidents[i].breach = incidents[j].breach =>
         incidents[i].closed # None /\ incidents[i].closed < incidents[j].opened

\* The owner reads the opening, then the reminders, then the closing, each
\* opening and closing at most once.
Place ==
  [kind \in Notes |-> IF kind \in Opening THEN 1 ELSE IF kind = "incident_reminder" THEN 2 ELSE 3]

MailsInOrder ==
  \A k, l \in DOMAIN mails :
    k < l /\ mails[k].incident = mails[l].incident =>
      \/ Place[mails[k].kind] < Place[mails[l].kind]
      \/ mails[k].kind = "incident_reminder" /\ mails[l].kind = "incident_reminder"

\* The log holds two reminders of an incident only a cooldown apart: each is
\* measured against the latest, or the opening, at the time of the check.
LoggedRemindersSpaced ==
  \A e, f \in log :
    e.incident = f.incident /\ e.kind = "incident_reminder" /\ f.kind = "incident_reminder"
    => e = f \/ e.at - f.at >= Cooldown \/ f.at - e.at >= Cooldown

\* The inductive invariant behind the four above when the service has one
\* worker.  What the handler decided still holds when it acts on it; an incident
\* it found was opened before its check, is of the verdict's kind and open until
\* the handler closes it; who is about to mail finds the mails and the log as the
\* order of mails and the cooldown ask.
Judging == {"save", "load", "history", "find", "create", "cooldown", "close"}

Decided(h) ==
  alive => /\ pc[h] = "create" => bad[h] /\ Open(breach[h]) = {}
           /\ pc[h] = "cooldown" => bad[h] /\ Open(breach[h]) # {}
           /\ pc[h] = "close" => ~bad[h] /\ found[h] \in Open(breach[h])
           /\ pc[h] \in {"mail", "log"} => (Open(breach[h]) # {} <=> bad[h])

InTime(h) ==
  /\ check[h].at <= now
  /\ pc[h] = "due" => check[h].at < now
  /\ \A i \in DOMAIN incidents : \A t \in {incidents[i].opened, incidents[i].closed} \ {None} :
       t <= check[h].at /\ (pc[h] \in Judging => t < check[h].at)

MailFits(h) ==
  /\ Announcing(h) => About(found[h], Notes) = {}
  /\ pc[h] \in {"cooldown", "close"} \/ (pc[h] = "mail" /\ note[h] \notin Opening) =>
       About(found[h], {"incident_closed"}) = {}

LogFits(h) ==
  pc[h] \in {"mail", "log"} /\ note[h] = "incident_reminder" =>
    \A e \in log : e.incident = found[h] /\ e.kind = "incident_reminder" =>
      check[h].at - e.at >= Cooldown

WorkFits(h) ==
  alive =>
    /\ pc[h] = "cooldown" => ~breach[h]
    /\ pc[h] \in {"cooldown", "close"} => found[h] \in Open(breach[h])
    /\ pc[h] = "mail" =>
         /\ found[h] \in DOMAIN incidents
         /\ incidents[found[h]].breach = breach[h]
         /\ note[h] = "sla_breach" <=> breach[h]
         /\ note[h] = "incident_closed" <=> incidents[found[h]].closed # None

OneWorkerInv ==
  /\ IncidentsInv
  /\ OutageTracked /\ IncidentsDisjoint /\ MailsInOrder /\ LoggedRemindersSpaced
  /\ \A h \in Handlers : Decided(h) /\ InTime(h) /\ WorkFits(h) /\ MailFits(h) /\ LogFits(h)

-----------------------------------------------------------------------------
(* What it implements, when the service has one worker.                    *)

TheWorker == CHOOSE h \in Handlers : TRUE

Verdict == [at |-> check[TheWorker].at, bad |-> bad[TheWorker], breach |-> breach[TheWorker]]

\* The incidents with the kinds of mails the owners have got about each.
Told(i) == {mails[k].kind : k \in About(i, Notes)}

Outages ==
  [i \in DOMAIN incidents |->
     [from |-> incidents[i].opened, to |-> incidents[i].closed, breach |-> incidents[i].breach,
      told |-> Told(i)]]

O == INSTANCE Outage WITH verdict <- Verdict, outages <- Outages, gone <- ~alive

\* The handler records and tells what module Outage promises: no failure, no
\* cancellation and no change of the target rewrites a record, begins or ends
\* one without a verdict that calls for it, or tells the owners out of turn.
ImplementsOutage == O!Spec

-----------------------------------------------------------------------------
\* README.md:32: mails come "with spam protection (cooldown)": two reminders of
\* an incident are at least the cooldown apart.
ReminderSpacing ==
  \A k, l \in DOMAIN mails :
    /\ k < l
    /\ mails[k].incident = mails[l].incident
    /\ mails[k].kind = "incident_reminder" /\ mails[l].kind = "incident_reminder"
    => mails[l].at - mails[k].at >= Cooldown

\* README.md:15: the owners are told of a failure at once.  Once a check was
\* handled to its end, every open incident has been announced: an attempt to
\* mail the announcement is logged.
Announced(i) == \E e \in log : e.incident = i /\ e.kind \in Opening

OwnersTold ==
  \A h \in Handlers, b \in BOOLEAN : pc[h] = "asleep" => \A i \in Open(b) : Announced(i)
=============================================================================
