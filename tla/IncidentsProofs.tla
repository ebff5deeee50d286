--------------------------- MODULE IncidentsProofs ---------------------------
(***************************************************************************)
(* Theorems about module Incidents, for any number of handlers, any bounds *)
(* and any failures; then what holds with one handler, and that it         *)
(* implements module Outage.                                               *)
(***************************************************************************)
EXTENDS Incidents, TLAPS, SequenceTheorems

Rows == [opened : Nat, closed : Nat \cup {None}, breach : BOOLEAN]
Sent == [incident : Nat, kind : Notes, at : Nat]

LEMMA BelowTargetBoolean ==
  ASSUME NEW history PROVE BelowTarget(history) \in BOOLEAN
  BY Zenon DEF BelowTarget

LEMMA IncidentRow ==
  ASSUME TypeOK, NEW i \in DOMAIN incidents
  PROVE i \in Nat /\ incidents[i] \in Rows /\ incidents[i].opened \in Nat
<1>1. incidents \in Seq(Rows)
  BY DEF TypeOK, Rows
<1>2. i \in 1..Len(incidents) /\ Len(incidents) \in Nat
  BY <1>1
<1>3. incidents[i] \in Rows
  BY <1>1, <1>2
<1> QED
  BY <1>2, <1>3 DEF Rows

\* The effect of close_incident on the rows.
CloseRow(i, t) == incidents' = [incidents EXCEPT ![i].closed = t]

LEMMA CloseRowType ==
  ASSUME incidents \in Seq(Rows), NEW i \in DOMAIN incidents, NEW t \in Nat, CloseRow(i, t)
  PROVE /\ incidents' \in Seq(Rows)
        /\ DOMAIN incidents' = DOMAIN incidents
        /\ incidents'[i].closed = t
        /\ incidents'[i].breach = incidents[i].breach
        /\ incidents'[i].opened = incidents[i].opened
        /\ \A j \in DOMAIN incidents \ {i} : incidents'[j] = incidents[j]
<1> DEFINE row == [incidents[i] EXCEPT !.closed = t]
<1>1. incidents[i] \in Rows
  OBVIOUS
<1>2. /\ row \in Rows /\ row.closed = t
      /\ row.breach = incidents[i].breach /\ row.opened = incidents[i].opened
  BY <1>1 DEF Rows
<1>3. incidents' = [incidents EXCEPT ![i] = row]
  BY Zenon DEF CloseRow
<1> HIDE DEF row
<1>4. i \in 1..Len(incidents)
  OBVIOUS
<1> QED
  BY <1>2, <1>3, <1>4, ExceptSeq

LEMMA TypeInit == Init => TypeOK
  BY IncidentsAssumption
  DEF Init, TypeOK, Checks, Waiting, Awaits, Notes

LEMMA TypeStep == TypeOK /\ [Next]_vars => TypeOK'
<1> SUFFICES ASSUME TypeOK, [Next]_vars PROVE TypeOK'
  OBVIOUS
<1> USE IncidentsAssumption
<1>1. CASE Tick
  BY <1>1 DEF Tick, TypeOK, db, local, Waiting, Awaits
<1>2. CASE Delete
  <2>1. incidents' \in Seq([opened : Nat, closed : Nat \cup {None}, breach : BOOLEAN])
    BY <1>2, EmptySeq, Zenon DEF Delete
  <2>2. checks' \in Seq(Checks)
    BY <1>2, EmptySeq, Zenon DEF Delete
  <2>3. log' \subseteq [incident : DOMAIN incidents', kind : Notes, at : Nat]
    BY <1>2 DEF Delete
  <2>4. alive' \in BOOLEAN
    BY <1>2 DEF Delete
  <2> QED
    BY <1>2, <2>1, <2>2, <2>3, <2>4 DEF Delete, TypeOK, local
<1>3. CASE Retarget
  BY <1>3 DEF Retarget, TypeOK, local
<1>4. ASSUME NEW h \in Handlers, Check(h) PROVE TypeOK'
  BY <1>4 DEF Check, TypeOK, Goto, db, Checks, Waiting, Awaits
<1>5. ASSUME NEW h \in Handlers, Step(h) PROVE TypeOK'
  <2>1. CASE Save(h)
    BY <2>1 DEF Save, TypeOK, Goto, local, Waiting, Awaits
  <2>2. CASE SaveFails(h)
    BY <2>2 DEF SaveFails, TypeOK, Goto, db, local, Waiting, Awaits
  <2>3. CASE Load(h)
    BY <2>3 DEF Load, TypeOK, Goto, Done, db, Waiting, Awaits
  <2>4. CASE History(h)
    BY <2>4, BelowTargetBoolean DEF History, TypeOK, Goto, db, Waiting, Awaits
  <2>5. CASE Find(h)
    <3>1. PICK i \in IF Open(breach[h]) = {} THEN {0} ELSE Open(breach[h]) : Take(h, i)
      BY <2>5 DEF Find
    <3>2. i = 0 \/ i \in DOMAIN incidents
      BY DEF Open
    <3>3. i \in Nat /\ (i # 0 => incidents[i].opened \in Nat)
      BY <3>2, IncidentRow
    <3>4. found' \in [Handlers -> Nat]
      BY <3>1, <3>3 DEF Take, TypeOK
    <3>5. since' \in [Handlers -> Nat]
      BY <3>1, <3>3 DEF Take, TypeOK
    <3>6. pc' \in [Handlers -> Waiting \cup Awaits]
      BY <3>1 DEF Take, Goto, Decide, TypeOK, Waiting, Awaits
    <3> QED
      BY <2>5, <3>4, <3>5, <3>6 DEF Find, TypeOK, db
  <2>6. CASE Create(h)
    <3>1. CASE alive /\ Open(breach[h]) = {}
      <4> DEFINE new == [opened |-> check[h].at, closed |-> None, breach |-> breach[h]]
      <4>1. incidents' = Append(incidents, new) /\ found' = [found EXCEPT ![h] = Len(incidents) + 1]
        BY <2>6, <3>1 DEF Create, Insert
      <4>2. new \in Rows
        BY DEF TypeOK, Checks, Rows
      <4>3. incidents \in Seq(Rows)
        BY DEF TypeOK, Rows
      <4>4. /\ incidents' \in Seq(Rows)
            /\ DOMAIN incidents \subseteq DOMAIN incidents'
        BY <4>1, <4>2, <4>3, AppendProperties
      <4>5. found' \in [Handlers -> Nat]
        BY <4>1, <4>3 DEF TypeOK
      <4>6. note' \in [Handlers -> Notes] /\ pc' \in [Handlers -> Waiting \cup Awaits]
        BY <2>6, <3>1 DEF Create, Announce, Notify, Goto, TypeOK, Waiting, Awaits, Notes
      <4>7. log' \subseteq [incident : DOMAIN incidents', kind : Notes, at : Nat]
        BY <2>6, <4>4 DEF Create, TypeOK
      <4> QED
        BY <2>6, <4>4, <4>5, <4>6, <4>7 DEF Create, TypeOK, Rows
    <3>2. CASE ~(alive /\ Open(breach[h]) = {})
      BY <2>6, <3>2 DEF Create, Fails, Goto, TypeOK, Waiting, Awaits
    <3> QED
      BY <3>1, <3>2
  <2>7. CASE Remind(h)
    BY <2>7 DEF Remind, Notify, Done, TypeOK, Goto, db, Waiting, Awaits, Notes
  <2>8. CASE Close(h)
    <3>1. note' \in [Handlers -> Notes] /\ pc' \in [Handlers -> Waiting \cup Awaits]
      BY <2>8 DEF Close, Notify, Done, Fails, Goto, TypeOK, Waiting, Awaits, Notes
    <3>2. CASE found[h] \in DOMAIN incidents
      <4>1. CloseRow(found[h], check[h].at)
        BY <2>8, <3>2 DEF Close, CloseRow
      <4>2. check[h].at \in Nat
        BY DEF TypeOK, Checks
      <4>3. incidents' \in Seq(Rows) /\ DOMAIN incidents' = DOMAIN incidents
        BY <3>2, <4>1, <4>2, CloseRowType DEF TypeOK, Rows
      <4> QED
        BY <2>8, <3>1, <4>3 DEF Close, TypeOK, Rows
    <3>3. CASE found[h] \notin DOMAIN incidents
      BY <2>8, <3>1, <3>3 DEF Close, TypeOK
    <3> QED
      BY <3>2, <3>3
  <2>9. CASE Mail(h)
    <3>1. pc' \in [Handlers -> Waiting \cup Awaits]
      BY <2>9 DEF Mail, Goto, TypeOK, Waiting, Awaits
    <3>2. [incident |-> found[h], kind |-> note[h], at |-> now] \in Sent
      BY DEF TypeOK, Sent
    <3>3. mails \in Seq(Sent)
      BY DEF TypeOK, Sent
    <3>4. mails' \in Seq(Sent)
      BY <2>9, <3>2, <3>3, AppendProperties DEF Mail
    <3> QED
      BY <2>9, <3>1, <3>4 DEF Mail, TypeOK, db, local, Sent
  <2>10. CASE Log(h)
    <3>1. pc' \in [Handlers -> Waiting \cup Awaits]
      BY <2>10 DEF Log, Done, Fails, Goto, TypeOK, Waiting, Awaits
    <3>2. log' \subseteq [incident : DOMAIN incidents, kind : Notes, at : Nat]
      <4>1. CASE found[h] \in DOMAIN incidents
        <5>1. [incident |-> found[h], kind |-> note[h], at |-> now]
                \in [incident : DOMAIN incidents, kind : Notes, at : Nat]
          BY <4>1 DEF TypeOK
        <5> QED
          BY <2>10, <4>1, <5>1 DEF Log, TypeOK
      <4>2. CASE found[h] \notin DOMAIN incidents
        BY <2>10, <4>2 DEF Log, TypeOK
      <4> QED
        BY <4>1, <4>2
    <3> QED
      BY <2>10, <3>1, <3>2 DEF Log, TypeOK, local
  <2>11. CASE LogFails(h)
    BY <2>11 DEF LogFails, Fails, TypeOK, Goto, db, local, Waiting, Awaits
  <2> QED
    BY <1>5, <2>1, <2>2, <2>3, <2>4, <2>5, <2>6, <2>7, <2>8, <2>9, <2>10, <2>11 DEF Step
<1>6. ASSUME NEW h \in Handlers, Abort(h) PROVE TypeOK'
  BY <1>6 DEF Abort, Fails, TypeOK, Goto, db, local, Waiting, Awaits
<1>7. CASE UNCHANGED vars
  BY <1>7 DEF vars, db, local, TypeOK
<1> QED
  BY <1>1, <1>2, <1>3, <1>4, <1>5, <1>6, <1>7 DEF Next

\* The variables keep their types, and the log refers to incidents that exist.
THEOREM TypeCorrect == Spec => []TypeOK
  BY TypeInit, TypeStep, PTL DEF Spec

-----------------------------------------------------------------------------
(* The invariant IncidentsInv.                                             *)

LEMMA InvInit == Init => IncidentsInv
<1> SUFFICES ASSUME Init PROVE IncidentsInv
  OBVIOUS
<1>1. TypeOK
  BY TypeInit
<1>2. DOMAIN incidents = {} /\ DOMAIN mails = {}
  BY DEF Init
<1>3. OneOpen /\ AnnouncedOnce /\ MailsAreCommitted
  BY <1>2 DEF OneOpen, Open, AnnouncedOnce, MailsAreCommitted
<1>4. AnnouncerIsFirst /\ WorksOnIncident
  BY DEF Init, AnnouncerIsFirst, WorksOnIncident, Announcing
<1> QED
  BY <1>1, <1>3, <1>4 DEF IncidentsInv, Init

\* Steps that change no incident, no mail and no row of services: it is enough
\* that a handler about to mail was so before, or mails a reminder, and that
\* whoever works on an incident has one.
LEMMA InvReading ==
  ASSUME IncidentsInv, TypeOK', UNCHANGED <<alive, incidents, mails>>,
         \A g \in Handlers :
           pc'[g] \in {"cooldown", "close", "mail", "log"} /\ alive => found'[g] \in DOMAIN incidents,
         \A g \in Handlers :
           pc'[g] = "mail" => \/ note'[g] = "incident_reminder"
                             \/ (pc[g] = "mail" /\ found'[g] = found[g] /\ note'[g] = note[g])
  PROVE IncidentsInv'
<1>1. OneOpen' /\ AnnouncedOnce' /\ MailsAreCommitted'
  BY DEF IncidentsInv, OneOpen, Open, AnnouncedOnce, About, MailsAreCommitted
<1>2. "incident_reminder" \notin Opening /\ "incident_reminder" # "incident_closed"
  BY DEF Opening
<1>3. ASSUME alive PROVE AnnouncerIsFirst'
  <2>1. \A g \in Handlers : Announcing(g)' => Announcing(g) /\ found'[g] = found[g]
    BY <1>2 DEF Announcing
  <2> QED
    BY <1>3, <2>1 DEF IncidentsInv, AnnouncerIsFirst, About
<1>4. ASSUME alive PROVE WorksOnIncident'
  BY <1>2, <1>4 DEF IncidentsInv, WorksOnIncident
<1> QED
  BY <1>1, <1>3, <1>4 DEF IncidentsInv

LEMMA InvCreate ==
  ASSUME IncidentsInv, TypeOK', NEW h \in Handlers, Create(h), alive, Open(breach[h]) = {}
  PROVE IncidentsInv'
<1> DEFINE n == Len(incidents) + 1
           new == [opened |-> check[h].at, closed |-> None, breach |-> breach[h]]
<1>1. /\ incidents' = Append(incidents, new)
      /\ found' = [found EXCEPT ![h] = n]
      /\ pc' = [pc EXCEPT ![h] = "mail"]
      /\ note' = [note EXCEPT ![h] = IF breach[h] THEN "sla_breach" ELSE "incident_opened"]
      /\ UNCHANGED <<alive, mails>>
  BY DEF Create, Insert, Announce, Notify, Goto
<1>2. TypeOK /\ incidents \in Seq(Rows) /\ Len(incidents) \in Nat
  BY DEF IncidentsInv, TypeOK, Rows
<1>3. new \in Rows /\ new.closed = None /\ new.breach = breach[h]
  BY <1>2 DEF TypeOK, Checks, Rows
<1> HIDE DEF new
<1>4. /\ DOMAIN incidents = 1..Len(incidents)
      /\ DOMAIN incidents' = 1..n
      /\ \A i \in 1..Len(incidents) : incidents'[i] = incidents[i]
      /\ incidents'[n] = new
  BY <1>1, <1>2, <1>3, AppendProperties
<1>5. /\ note'[h] \in Opening /\ pc'[h] = "mail" /\ found'[h] = n
      /\ \A g \in Handlers \ {h} : pc'[g] = pc[g] /\ found'[g] = found[g] /\ note'[g] = note[g]
  BY <1>1, <1>2 DEF TypeOK, Opening
<1>6. OneOpen'
  <2> SUFFICES ASSUME NEW b \in BOOLEAN, NEW i \in Open(b)', NEW j \in Open(b)' PROVE i = j
    BY DEF OneOpen
  <2>1. ASSUME NEW x \in Open(b)' PROVE x \in Open(b) \/ (x = n /\ b = breach[h])
    <3>1. x \in 1..n /\ incidents'[x].breach = b /\ incidents'[x].closed = None
      BY <1>4 DEF Open
    <3>2. CASE x = n
      <4>1. incidents'[n].breach = breach[h]
        BY <1>3, <1>4, Zenon
      <4> QED
        BY <3>1, <3>2, <4>1, Zenon
    <3>3. CASE x # n
      <4>1. x \in 1..Len(incidents)
        BY <1>2, <3>1, <3>3
      <4>2. incidents[x].breach = b /\ incidents[x].closed = None
        BY <1>4, <3>1, <4>1, Zenon
      <4> QED
        BY <1>4, <4>1, <4>2, Zenon DEF Open
    <3> QED
      BY <3>2, <3>3
  <2>2. (i \in Open(b) \/ (i = n /\ b = breach[h])) /\ (j \in Open(b) \/ (j = n /\ b = breach[h]))
    BY <2>1
  <2> QED
    BY <2>2 DEF IncidentsInv, OneOpen
<1>7. \A k \in DOMAIN mails : mails[k].incident \in 1..Len(incidents)
  BY <1>4 DEF IncidentsInv, MailsAreCommitted
<1>8. About(n, Opening) = {}
  BY <1>2, <1>7 DEF About
<1>9. AnnouncedOnce'
  <2> SUFFICES ASSUME NEW i \in 1..n, NEW k \in About(i, Opening), NEW l \in About(i, Opening)
               PROVE k = l
    BY <1>1, <1>4 DEF AnnouncedOnce, About
  <2>1. i \in DOMAIN incidents
    BY <1>2, <1>4, <1>8
  <2> QED
    BY <2>1 DEF IncidentsInv, AnnouncedOnce
<1>10. MailsAreCommitted'
  BY <1>1, <1>2, <1>4, <1>7 DEF IncidentsInv, MailsAreCommitted
<1>11. \A g \in Handlers \ {h} : Announcing(g)' => Announcing(g) /\ found[g] \in 1..Len(incidents)
  BY <1>4, <1>5 DEF Announcing, IncidentsInv, WorksOnIncident
<1>12. AnnouncerIsFirst'
  <2>1. \A g \in Handlers : Announcing(g)' => About(found'[g], Opening) = {}
    BY <1>5, <1>8, <1>11 DEF IncidentsInv, AnnouncerIsFirst
  <2>2. \A g, f \in Handlers : Announcing(g)' /\ Announcing(f)' /\ found'[g] = found'[f] => g = f
    BY <1>2, <1>5, <1>11 DEF IncidentsInv, AnnouncerIsFirst
  <2> QED
    BY <1>1, <2>1, <2>2 DEF AnnouncerIsFirst, About
<1>13. WorksOnIncident'
  <2> SUFFICES ASSUME NEW g \in Handlers
               PROVE /\ pc'[g] \in {"cooldown", "close", "mail", "log"} => found'[g] \in 1..n
                     /\ pc'[g] = "mail" /\ note'[g] = "incident_closed" => incidents'[found'[g]].closed # None
    BY <1>4 DEF WorksOnIncident
  <2>1. CASE g = h
    BY <1>2, <1>5, <2>1 DEF Opening
  <2>2. CASE g # h
    <3>1. pc[g] \in {"cooldown", "close", "mail", "log"} => found[g] \in 1..Len(incidents)
      BY <1>4 DEF IncidentsInv, WorksOnIncident
    <3>2. pc[g] = "mail" /\ note[g] = "incident_closed" => incidents[found[g]].closed # None
      BY DEF IncidentsInv, WorksOnIncident
    <3> QED
      BY <1>2, <1>4, <1>5, <2>2, <3>1, <3>2
  <2> QED
    BY <2>1, <2>2
<1> QED
  BY <1>1, <1>6, <1>9, <1>10, <1>12, <1>13 DEF IncidentsInv

LEMMA InvClose ==
  ASSUME IncidentsInv, TypeOK', NEW h \in Handlers, Close(h), found[h] \in DOMAIN incidents
  PROVE IncidentsInv'
<1> DEFINE i == found[h]
<1>1. CloseRow(i, check[h].at) /\ UNCHANGED <<alive, mails, found>>
  BY DEF Close, CloseRow
<1>2. TypeOK /\ incidents \in Seq(Rows) /\ check[h].at \in Nat
  BY DEF IncidentsInv, TypeOK, Rows, Checks
<1>3. /\ DOMAIN incidents' = DOMAIN incidents
      /\ incidents'[i].closed = check[h].at
      /\ incidents'[i].breach = incidents[i].breach
      /\ \A j \in DOMAIN incidents \ {i} : incidents'[j] = incidents[j]
  BY <1>1, <1>2, CloseRowType
<1>4. None # check[h].at
  BY <1>2, IncidentsAssumption
<1>5. /\ alive => pc'[h] \in {"asleep", "mail"} /\ (pc'[h] = "mail" => note'[h] = "incident_closed")
      /\ \A g \in Handlers \ {h} : pc'[g] = pc[g] /\ note'[g] = note[g]
  BY <1>2 DEF Close, Done, Fails, Notify, Goto, TypeOK
<1>6. \A j \in DOMAIN incidents : incidents[j].closed # None => incidents'[j].closed # None
  BY <1>3, <1>4
<1>7. OneOpen'
  <2>1. \A b \in BOOLEAN : Open(b)' \subseteq Open(b)
    BY <1>3, <1>4 DEF Open
  <2> QED
    BY <2>1 DEF IncidentsInv, OneOpen
<1>8. AnnouncedOnce'
  BY <1>1, <1>3 DEF IncidentsInv, AnnouncedOnce, About
<1>9. MailsAreCommitted'
  BY <1>1, <1>3, <1>6 DEF IncidentsInv, MailsAreCommitted
<1>10. ~alive' => incidents' = <<>>
  BY <1>1, <1>3 DEF IncidentsInv
<1>11. ASSUME alive PROVE AnnouncerIsFirst'
  <2>1. \A g \in Handlers : Announcing(g)' => Announcing(g)
    BY <1>5, <1>11 DEF Announcing, Opening
  <2> QED
    BY <1>1, <1>11, <2>1 DEF IncidentsInv, AnnouncerIsFirst, About
<1>12. ASSUME alive PROVE WorksOnIncident'
  <2> SUFFICES ASSUME NEW g \in Handlers
               PROVE /\ pc'[g] \in {"cooldown", "close", "mail", "log"} => found[g] \in DOMAIN incidents
                     /\ pc'[g] = "mail" /\ note'[g] = "incident_closed" => incidents'[found[g]].closed # None
    BY <1>1, <1>3 DEF WorksOnIncident
  <2>1. CASE g = h
    BY <1>3, <1>4, <2>1
  <2>2. CASE g # h
    <3>1. /\ pc[g] \in {"cooldown", "close", "mail", "log"} => found[g] \in DOMAIN incidents
          /\ pc[g] = "mail" /\ note[g] = "incident_closed" => incidents[found[g]].closed # None
      BY <1>12 DEF IncidentsInv, WorksOnIncident
    <3> QED
      BY <1>5, <1>6, <2>2, <3>1
  <2> QED
    BY <2>1, <2>2
<1> QED
  BY <1>1, <1>7, <1>8, <1>9, <1>10, <1>11, <1>12 DEF IncidentsInv

LEMMA InvMail ==
  ASSUME IncidentsInv, TypeOK', NEW h \in Handlers, Mail(h)
  PROVE IncidentsInv'
<1> DEFINE mail == [incident |-> found[h], kind |-> note[h], at |-> now]
           m == Len(mails) + 1
<1>1. /\ pc[h] = "mail"
      /\ (mails' = Append(mails, mail) \/ mails' = mails)
      /\ UNCHANGED <<alive, incidents, found, note>>
  BY DEF Mail, db, local
<1>2. TypeOK /\ mails \in Seq(Sent) /\ Len(mails) \in Nat
  BY DEF IncidentsInv, TypeOK, Sent
<1>3. mail \in Sent /\ mail.incident = found[h] /\ mail.kind = note[h]
  BY <1>2 DEF TypeOK, Sent
<1>4. pc'[h] = "log" /\ \A g \in Handlers \ {h} : pc'[g] = pc[g]
  BY <1>2 DEF Mail, Goto, TypeOK
<1> HIDE DEF mail
<1>5. /\ DOMAIN mails' \subseteq 1..m
      /\ DOMAIN mails = 1..Len(mails)
      /\ \A k \in DOMAIN mails : mails'[k] = mails[k]
      /\ m \in DOMAIN mails' => mails'[m].incident = found[h] /\ mails'[m].kind = note[h]
  <2>1. CASE mails' = mails
    BY <1>2, <2>1
  <2>2. CASE mails' = Append(mails, mail)
    BY <1>2, <1>3, <2>2, AppendProperties
  <2> QED
    BY <1>1, <2>1, <2>2
<1>6. \A k \in DOMAIN mails' : k \in DOMAIN mails \/ k = m
  BY <1>2, <1>5
<1>7. OneOpen'
  BY <1>1 DEF IncidentsInv, OneOpen, Open
<1>8. CASE ~alive
  BY <1>1, <1>7, <1>8 DEF IncidentsInv, AnnouncedOnce, MailsAreCommitted
<1>9. CASE alive
  <2>1. AnnouncedOnce'
    <3> SUFFICES ASSUME NEW i \in DOMAIN incidents,
                        NEW k \in About(i, Opening)', NEW l \in About(i, Opening)'
                 PROVE k = l
      BY <1>1 DEF AnnouncedOnce
    <3>1. \A j \in About(i, Opening)' :
            j \in About(i, Opening) \/ (j = m /\ i = found[h] /\ note[h] \in Opening)
      <4>1. ASSUME NEW j \in About(i, Opening)', j \notin About(i, Opening)
            PROVE j = m /\ i = found[h] /\ note[h] \in Opening
        <5>1. j \in DOMAIN mails' /\ mails'[j].incident = i /\ mails'[j].kind \in Opening
          BY DEF About
        <5>2. j \notin DOMAIN mails
          BY <1>5, <4>1, <5>1 DEF About
        <5>3. j = m
          BY <1>6, <5>1, <5>2
        <5> QED
          BY <1>5, <5>1, <5>3
      <4> QED
        BY <4>1
    <3>2. CASE i = found[h] /\ note[h] \in Opening
      <4>1. About(i, Opening) = {}
        BY <1>1, <1>9, <3>2 DEF IncidentsInv, AnnouncerIsFirst, Announcing
      <4> QED
        BY <3>1, <4>1
    <3>3. CASE ~(i = found[h] /\ note[h] \in Opening)
      BY <3>1, <3>3 DEF IncidentsInv, AnnouncedOnce
    <3> QED
      BY <3>2, <3>3
  <2>2. MailsAreCommitted'
    <3>1. /\ found[h] \in DOMAIN incidents
          /\ note[h] = "incident_closed" => incidents[found[h]].closed # None
      BY <1>1, <1>9 DEF IncidentsInv, WorksOnIncident
    <3>2. \A k \in DOMAIN mails :
            /\ mails[k].incident \in DOMAIN incidents
            /\ mails[k].kind = "incident_closed" => incidents[mails[k].incident].closed # None
      BY <1>9 DEF IncidentsInv, MailsAreCommitted
    <3> QED
      BY <1>1, <1>5, <1>6, <3>1, <3>2 DEF MailsAreCommitted
  <2>3. AnnouncerIsFirst'
    <3>1. \A g \in Handlers : Announcing(g)' => g # h /\ Announcing(g)
      BY <1>1, <1>4 DEF Announcing
    <3>2. ASSUME NEW g \in Handlers, Announcing(g)' PROVE About(found[g], Opening)' = {}
      <4>1. g # h /\ Announcing(g) /\ About(found[g], Opening) = {}
        BY <1>9, <3>1, <3>2 DEF IncidentsInv, AnnouncerIsFirst
      <4>2. ~(found[g] = found[h] /\ note[h] \in Opening)
        BY <1>1, <1>9, <4>1 DEF IncidentsInv, AnnouncerIsFirst, Announcing
      <4> QED
        BY <1>1, <1>5, <1>6, <4>1, <4>2 DEF About
    <3>3. \A f, g \in Handlers : Announcing(f)' /\ Announcing(g)' /\ found[f] = found[g] => f = g
      BY <1>9, <3>1 DEF IncidentsInv, AnnouncerIsFirst
    <3> QED
      BY <1>1, <3>2, <3>3 DEF AnnouncerIsFirst, About
  <2>4. WorksOnIncident'
    BY <1>1, <1>4, <1>9 DEF IncidentsInv, WorksOnIncident
  <2> QED
    BY <1>1, <1>7, <1>9, <2>1, <2>2, <2>3, <2>4 DEF IncidentsInv
<1> QED
  BY <1>8, <1>9

LEMMA InvStep == IncidentsInv /\ [Next]_vars => IncidentsInv'
<1> SUFFICES ASSUME IncidentsInv, [Next]_vars PROVE IncidentsInv'
  OBVIOUS
<1>0. TypeOK /\ TypeOK'
  BY TypeStep DEF IncidentsInv
<1>works. ASSUME NEW g \in Handlers, pc[g] \in {"cooldown", "close", "mail", "log"}, alive
          PROVE found[g] \in DOMAIN incidents
  BY <1>works DEF IncidentsInv, WorksOnIncident
\* A handler that moves to a label where nothing is claimed of it.
<1>quiet. ASSUME NEW h \in Handlers, NEW label, pc' = [pc EXCEPT ![h] = label],
                 label \notin {"cooldown", "close", "mail", "log"},
                 UNCHANGED <<alive, incidents, mails, found, note>>
          PROVE IncidentsInv'
  <2>1. \A g \in Handlers : pc'[g] \in {"cooldown", "close", "mail", "log"} => pc'[g] = pc[g]
    BY <1>0, <1>quiet DEF TypeOK
  <2> QED
    BY <1>0, <1>works, <1>quiet, <2>1, InvReading
<1>1. CASE Tick
  <2>1. \A g \in Handlers : pc'[g] \in {"cooldown", "close", "mail", "log"} => pc'[g] = pc[g]
    BY <1>1 DEF Tick
  <2>2. UNCHANGED <<alive, incidents, mails, found, note>>
    BY <1>1 DEF Tick, db, local
  <2> QED
    BY <1>0, <1>works, <2>1, <2>2, InvReading
<1>2. CASE Delete
  <2>1. ~alive' /\ incidents' = <<>> /\ DOMAIN incidents' = {}
    BY <1>2 DEF Delete
  <2> QED
    BY <1>0, <2>1 DEF IncidentsInv, OneOpen, Open, AnnouncedOnce, MailsAreCommitted
<1>3. CASE Retarget
  BY <1>0, <1>3, <1>works, InvReading DEF Retarget, local
<1>4. ASSUME NEW h \in Handlers, Check(h) PROVE IncidentsInv'
  BY <1>4, <1>quiet DEF Check, Goto, db
<1>5. ASSUME NEW h \in Handlers, Step(h) PROVE IncidentsInv'
  <2>1. CASE Save(h)
    BY <2>1, <1>quiet DEF Save, Goto, local
  <2>2. CASE SaveFails(h)
    BY <2>2, <1>quiet DEF SaveFails, Goto, db, local
  <2>3. CASE Load(h)
    <3>1. \E label \in {"find", "history", "asleep"} : pc' = [pc EXCEPT ![h] = label]
      BY <2>3 DEF Load, Goto, Done
    <3> QED
      BY <2>3, <3>1, <1>quiet DEF Load, db
  <2>4. CASE History(h)
    BY <2>4, <1>quiet DEF History, Goto, db
  <2>5. CASE Find(h)
    <3>1. PICK i \in IF Open(breach[h]) = {} THEN {0} ELSE Open(breach[h]) : Take(h, i)
      BY <2>5 DEF Find
    <3>2. /\ found' = [found EXCEPT ![h] = i] /\ pc' = [pc EXCEPT ![h] = Decide(h, i)]
          /\ UNCHANGED <<alive, incidents, mails, note>>
      BY <2>5, <3>1 DEF Find, Take, Goto, db
    <3>3. Decide(h, i) # "mail" /\ (Decide(h, i) \in {"cooldown", "close", "log"} => i \in DOMAIN incidents)
      BY <3>1 DEF Decide, Open
    <3>4. \A g \in Handlers :
            pc'[g] \in {"cooldown", "close", "mail", "log"} /\ alive => found'[g] \in DOMAIN incidents
      BY <1>0, <1>works, <3>2, <3>3 DEF TypeOK
    <3>5. \A g \in Handlers :
            pc'[g] = "mail" => pc[g] = "mail" /\ found'[g] = found[g] /\ note'[g] = note[g]
      BY <1>0, <3>2, <3>3 DEF TypeOK
    <3> QED
      BY <1>0, <3>2, <3>4, <3>5, InvReading
  <2>6. CASE Create(h)
    <3>1. CASE alive /\ Open(breach[h]) = {}
      BY <1>0, <2>6, <3>1, InvCreate
    <3>2. CASE ~(alive /\ Open(breach[h]) = {})
      BY <2>6, <3>2, <1>quiet DEF Create, Fails, Goto
    <3> QED
      BY <3>1, <3>2
  <2>7. CASE Remind(h)
    <3>1. pc[h] = "cooldown" /\ UNCHANGED <<alive, incidents, mails, found>>
      BY <2>7 DEF Remind, db
    <3>2. \A g \in Handlers \ {h} : pc'[g] = pc[g] /\ note'[g] = note[g]
      BY <1>0, <2>7 DEF Remind, Notify, Done, Goto, TypeOK
    <3>3. pc'[h] \in {"mail", "asleep"} /\ (pc'[h] = "mail" => note'[h] = "incident_reminder")
      BY <1>0, <2>7 DEF Remind, Notify, Done, Goto, TypeOK
    <3>4. \A g \in Handlers :
            pc'[g] \in {"cooldown", "close", "mail", "log"} /\ alive => found'[g] \in DOMAIN incidents
      BY <1>works, <3>1, <3>2
    <3>5. \A g \in Handlers :
            pc'[g] = "mail" => \/ note'[g] = "incident_reminder"
                              \/ (pc[g] = "mail" /\ found'[g] = found[g] /\ note'[g] = note[g])
      <4> TAKE g \in Handlers
      <4>1. CASE g = h
        BY <3>3, <4>1
      <4>2. CASE g # h
        BY <3>1, <3>2, <4>2
      <4> QED
        BY <4>1, <4>2
    <3>6. UNCHANGED <<alive, incidents, mails>>
      BY <3>1
    <3> QED
      BY <1>0, <3>4, <3>5, <3>6, InvReading
  <2>8. CASE Close(h)
    <3>1. CASE found[h] \in DOMAIN incidents
      BY <1>0, <2>8, <3>1, InvClose
    <3>2. CASE found[h] \notin DOMAIN incidents
      BY <2>8, <3>2, <1>quiet DEF Close, Fails, Goto
    <3> QED
      BY <3>1, <3>2
  <2>9. CASE Mail(h)
    BY <1>0, <2>9, InvMail
  <2>10. CASE Log(h)
    <3>1. \E label \in {"asleep", "failed"} : pc' = [pc EXCEPT ![h] = label]
      BY <2>10 DEF Log, Goto, Done, Fails
    <3> QED
      BY <2>10, <3>1, <1>quiet DEF Log, local
  <2>11. CASE LogFails(h)
    BY <2>11, <1>quiet DEF LogFails, Fails, Goto, db, local
  <2> QED
    BY <1>5, <2>1, <2>2, <2>3, <2>4, <2>5, <2>6, <2>7, <2>8, <2>9, <2>10, <2>11 DEF Step
<1>6. ASSUME NEW h \in Handlers, Abort(h) PROVE IncidentsInv'
  BY <1>6, <1>quiet DEF Abort, Fails, Goto, db, local
<1>7. CASE UNCHANGED vars
  BY <1>0, <1>7, <1>works, InvReading DEF vars, db, local
<1> QED
  BY <1>1, <1>2, <1>3, <1>4, <1>5, <1>6, <1>7 DEF Next

\* At every reachable state, for any number of workers of a service that
\* interleave at every await, whatever fails.
THEOREM IncidentsConsistent == Spec => []IncidentsInv
  BY InvInit, InvStep, PTL DEF Spec

\* The unique index keeps one incident of a kind open (create_incident).
THEOREM OneOpenHolds == Spec => []OneOpen
<1>1. IncidentsInv => OneOpen
  BY DEF IncidentsInv
<1> QED
  BY <1>1, IncidentsConsistent, PTL

\* An incident is announced by its creator alone (handle_check_result).
THEOREM AnnouncedOnceHolds == Spec => []AnnouncedOnce
<1>1. IncidentsInv => AnnouncedOnce
  BY DEF IncidentsInv
<1> QED
  BY <1>1, IncidentsConsistent, PTL

\* Mails follow commits: no mail tells of an incident or a closing that the
\* database does not hold.
THEOREM MailsAreCommittedHolds == Spec => []MailsAreCommitted
<1>1. IncidentsInv => MailsAreCommitted
  BY DEF IncidentsInv
<1> QED
  BY <1>1, IncidentsConsistent, PTL

-----------------------------------------------------------------------------
(***************************************************************************)
(* What holds of the incidents of a service with one worker, whatever      *)
(* fails and wherever it is cut off: module Scheduler shows that a process *)
(* has one (NoOrphan).                                                     *)
(***************************************************************************)
OneWorker == \E h : Handlers = {h}

-----------------------------------------------------------------------------
(***************************************************************************)
(* Init.                                                                   *)
(***************************************************************************)
LEMMA OneWorkerInit == Init => OneWorkerInv
<1> SUFFICES ASSUME Init PROVE OneWorkerInv
  OBVIOUS
<1>1. IncidentsInv
  BY InvInit
<1>2. DOMAIN incidents = {} /\ DOMAIN mails = {} /\ log = {} /\ now = 0
  BY DEF Init
<1>3. \A h \in Handlers : pc[h] = "asleep" /\ ~bad[h] /\ check[h].at = 0
  BY DEF Init
<1> QED
  BY <1>1, <1>2, <1>3 DEF OneWorkerInv, OutageTracked, IncidentsDisjoint, MailsInOrder,
     LoggedRemindersSpaced, Decided, InTime, WorkFits, MailFits, LogFits, Announcing, About, Open, Judging

-----------------------------------------------------------------------------
(***************************************************************************)
(* What a handler decided is still so when it acts: it alone opens and     *)
(* closes incidents.                                                       *)
(***************************************************************************)
Tracked(h) == /\ alive /\ pc[h] = "asleep" => (Open(breach[h]) # {} <=> bad[h])
              /\ Decided(h)

\* Another place to wait, the same decision.
LEMMA TrackedSame ==
    ASSUME NEW h \in Handlers, Tracked(h), UNCHANGED incidents, alive' => alive,
           breach'[h] = breach[h], bad'[h] = bad[h], found'[h] = found[h],
           \/ pc'[h] = pc[h]
           \/ pc'[h] \in {"failed", "due", "save", "load", "history", "find"}
           \/ pc[h] \in {"mail", "log"} /\ pc'[h] \in {"log", "asleep"}
           \/ pc[h] = "cooldown" /\ pc'[h] \in {"mail", "asleep"}
    PROVE  Tracked(h)'
<1>1. \A b : Open(b)' = Open(b)
  BY DEF Open
<1> QED
  BY <1>1 DEF Tracked, Decided

LEMMA TrackedStep ==
    ASSUME OneWorker, OneWorkerInv, TypeOK', [Next]_vars
    PROVE  \A h \in Handlers : Tracked(h)'
<1> SUFFICES ASSUME NEW h \in Handlers PROVE Tracked(h)'
  OBVIOUS
<1>0. TypeOK /\ OneOpen /\ Tracked(h) /\ \A g \in Handlers : g = h
  BY DEF OneWorkerInv, IncidentsInv, OutageTracked, Tracked, OneWorker
<1>pc. ASSUME NEW l, Goto(h, l) PROVE pc'[h] = l
  BY <1>0, <1>pc DEF Goto, TypeOK
<1>1. CASE Tick
  <2>1. pc'[h] = pc[h] \/ pc'[h] = "due"
    BY <1>1 DEF Tick
  <2> QED
    BY <1>0, <1>1, <2>1, TrackedSame DEF Tick, db, local
<1>2. CASE Delete
  BY <1>2 DEF Delete, Tracked, Decided
<1>3. CASE Retarget
  BY <1>0, <1>3, TrackedSame DEF Retarget, local
<1>4. CASE Check(h)
  <2>1. pc'[h] = "save"
    BY <1>4, <1>pc DEF Check
  <2> QED
    BY <1>0, <1>4, <2>1, TrackedSame DEF Check, db
<1>5. CASE Save(h) \/ SaveFails(h)
  <2>1. pc'[h] = "load"
    BY <1>5, <1>pc DEF Save, SaveFails
  <2> QED
    BY <1>0, <1>5, <2>1, TrackedSame DEF Save, SaveFails, db, local
<1>6. CASE Load(h)
  <2>1. pc'[h] \in {"find", "history"} \/ (~alive /\ pc'[h] = "asleep")
    BY <1>6, <1>pc DEF Load, Done
  <2> QED
    BY <1>6, <2>1 DEF Load, db, Tracked, Decided
<1>7. CASE History(h)
  <2>1. pc'[h] = "find"
    BY <1>7, <1>pc DEF History
  <2> QED
    BY <2>1 DEF Tracked, Decided
<1>8. CASE Find(h)
  <2>1. PICK i \in IF Open(breach[h]) = {} THEN {0} ELSE Open(breach[h]) : Take(h, i)
    BY <1>8 DEF Find
  <2>2. pc'[h] = Decide(h, i) /\ found'[h] = i
    BY <1>0, <1>pc, <2>1 DEF Take, TypeOK
  <2>3. breach' = breach /\ bad' = bad /\ \A b : Open(b)' = Open(b)
    BY <1>8 DEF Find, db, Open
  <2>4. i = 0 <=> Open(breach[h]) = {}
    BY <1>0, <2>1 DEF Open, TypeOK
  <2> QED
    BY <2>1, <2>2, <2>3, <2>4 DEF Decide, Tracked, Decided
<1>9. CASE Create(h)
  <2>1. pc[h] = "create" /\ breach' = breach /\ bad' = bad /\ alive' = alive
    BY <1>9 DEF Create
  <2>2. CASE alive /\ Open(breach[h]) = {}
    <3>1. pc'[h] = "mail"
      BY <1>9, <1>pc, <2>2 DEF Create, Announce, Notify
    <3>2. bad[h]
      BY <1>0, <2>1, <2>2 DEF Tracked, Decided
    <3>3. Len(incidents) + 1 \in Open(breach[h])'
      <4>1. incidents' = Append(incidents, [opened |-> check[h].at, closed |-> None, breach |-> breach[h]])
        BY <1>9, <2>2 DEF Create, Insert
      <4>2. /\ Len(incidents) + 1 \in DOMAIN incidents'
            /\ incidents'[Len(incidents) + 1] = [opened |-> check[h].at, closed |-> None, breach |-> breach[h]]
        BY <1>0, <4>1 DEF TypeOK
      <4> QED
        BY <2>1, <4>2 DEF Open
    <3> QED
      BY <2>1, <3>1, <3>2, <3>3 DEF Tracked, Decided
  <2>3. CASE ~(alive /\ Open(breach[h]) = {})
    <3>1. pc'[h] = "failed"
      BY <1>9, <1>pc, <2>3 DEF Create, Fails
    <3> QED
      BY <3>1 DEF Tracked, Decided
  <2> QED
    BY <2>2, <2>3
<1>10. CASE Remind(h)
  <2>1. pc[h] = "cooldown" /\ pc'[h] \in {"mail", "asleep"}
    BY <1>10, <1>pc DEF Remind, Notify, Done
  <2> QED
    BY <1>0, <1>10, <2>1, TrackedSame DEF Remind, db
<1>11. CASE Close(h)
  <2>1. pc[h] = "close" /\ breach' = breach /\ bad' = bad /\ alive' = alive
    BY <1>11 DEF Close
  <2>2. CASE found[h] \in DOMAIN incidents /\ alive
    <3>1. pc'[h] \in {"mail", "asleep"}
      BY <1>11, <1>pc, <2>2 DEF Close, Notify, Done
    <3>2. ~bad[h] /\ found[h] \in Open(breach[h])
      BY <1>0, <2>1, <2>2 DEF Tracked, Decided
    <3>3. Open(breach[h]) = {found[h]}
      BY <1>0, <3>2 DEF OneOpen, TypeOK
    <3>4. Open(breach[h])' = {}
      <4>1. /\ DOMAIN incidents' = DOMAIN incidents
            /\ incidents'[found[h]].closed = check[h].at
            /\ \A i \in DOMAIN incidents \ {found[h]} : incidents'[i] = incidents[i]
        <5>1. CloseRow(found[h], check[h].at)
          BY <1>11, <2>2 DEF Close, CloseRow
        <5>2. incidents \in Seq(Rows) /\ check[h].at \in Nat
          BY <1>0 DEF TypeOK, Rows, Checks
        <5> QED
          BY <2>2, <5>1, <5>2, CloseRowType
      <4>2. check[h].at # None
        BY <1>0, IncidentsAssumption DEF TypeOK, Checks
      <4> QED
        BY <2>1, <3>3, <4>1, <4>2 DEF Open
    <3> QED
      BY <2>1, <3>1, <3>2, <3>4 DEF Tracked, Decided
  <2>3. CASE found[h] \notin DOMAIN incidents
    <3>1. pc'[h] = "failed"
      BY <1>11, <1>pc, <2>3 DEF Close, Fails
    <3> QED
      BY <3>1 DEF Tracked, Decided
  <2>4. CASE ~alive
    BY <2>1, <2>4 DEF Tracked, Decided
  <2> QED
    BY <2>2, <2>3, <2>4
<1>12. CASE Mail(h)
  <2>1. pc[h] = "mail" /\ pc'[h] = "log"
    BY <1>12, <1>pc DEF Mail
  <2> QED
    BY <1>0, <1>12, <2>1, TrackedSame DEF Mail, db, local
<1>13. CASE Log(h) \/ LogFails(h)
  <2>1. pc[h] = "log" /\ pc'[h] \in {"asleep", "failed"}
    BY <1>13, <1>pc DEF Log, LogFails, Done, Fails
  <2> QED
    BY <1>0, <1>13, <2>1, TrackedSame DEF Log, LogFails, db, local
<1>14. CASE Abort(h)
  <2>1. pc'[h] = "failed"
    BY <1>14, <1>pc DEF Abort, Fails
  <2> QED
    BY <2>1 DEF Tracked, Decided
<1>15. CASE UNCHANGED vars
  BY <1>0, <1>15, TrackedSame DEF vars, db, local
<1> QED
  BY <1>0, <1>1, <1>2, <1>3, <1>4, <1>5, <1>6, <1>7, <1>8, <1>9, <1>10, <1>11, <1>12, <1>13,
     <1>14, <1>15 DEF Next, Step

-----------------------------------------------------------------------------
(***************************************************************************)
(* A check is younger than what the incidents tell, so that they follow    *)
(* one another.                                                            *)
(***************************************************************************)
Timely(h) == InTime(h) /\ IncidentsDisjoint

\* The times of an incident.
LEMMA TimeFacts ==
    ASSUME TypeOK, NEW i \in DOMAIN incidents
    PROVE  /\ incidents[i].opened \in Nat /\ incidents[i].closed \in Nat \cup {None}
           /\ incidents[i].opened # None
           /\ incidents[i].breach \in BOOLEAN /\ i \in Nat
BY IncidentRow, IncidentsAssumption DEF Rows

LEMMA TimelySame ==
    ASSUME NEW h \in Handlers, Timely(h), TypeOK, TypeOK', UNCHANGED incidents, check'[h] = check[h],
           \/ now' = now /\ (pc'[h] = "due" => pc[h] = "due")
           \/ now' = now + 1,
           pc'[h] \in Judging => pc[h] \in Judging
    PROVE  Timely(h)'
<1>1. check[h].at \in Nat /\ now \in Nat /\ now' \in Nat
  BY DEF TypeOK, Checks
<1>2. check'[h].at <= now' /\ (pc'[h] = "due" => check'[h].at < now')
  BY <1>1 DEF Timely, InTime
<1>3. IncidentsDisjoint'
  BY DEF Timely, IncidentsDisjoint
<1>4. ASSUME NEW i \in DOMAIN incidents', NEW t \in {incidents'[i].opened, incidents'[i].closed} \ {None}
      PROVE  t <= check'[h].at /\ (pc'[h] \in Judging => t < check'[h].at)
  BY <1>4 DEF Timely, InTime
<1> QED
  BY <1>2, <1>3, <1>4 DEF Timely, InTime

LEMMA TimelyStep ==
    ASSUME OneWorker, OneWorkerInv, TypeOK', [Next]_vars
    PROVE  \A h \in Handlers : Timely(h)'
<1> SUFFICES ASSUME NEW h \in Handlers PROVE Timely(h)'
  OBVIOUS
<1>0. TypeOK /\ OneOpen /\ Decided(h) /\ Timely(h) /\ \A g \in Handlers : g = h
  BY DEF OneWorkerInv, IncidentsInv, Timely, OneWorker
<1>at. check[h].at \in Nat /\ now \in Nat /\ check' \in [Handlers -> Checks]
  BY <1>0 DEF TypeOK, Checks
<1>pc. ASSUME NEW l, Goto(h, l) PROVE pc'[h] = l
  BY <1>0, <1>pc DEF Goto, TypeOK
<1>1. CASE Tick
  <2>1. pc'[h] = pc[h] \/ pc'[h] = "due"
    BY <1>1 DEF Tick
  <2> QED
    BY <1>0, <1>1, <2>1, TimelySame DEF Tick, db, local, Judging
<1>2. CASE Delete
  <2>1. DOMAIN incidents' = {} /\ UNCHANGED <<now, check, pc>>
    BY <1>2 DEF Delete, local
  <2> QED
    BY <1>0, <2>1 DEF Timely, InTime, IncidentsDisjoint
<1>3. CASE Retarget
  BY <1>0, <1>3, TimelySame DEF Retarget, local
<1>4. CASE Check(h)
  <2>1. pc[h] = "due" /\ pc'[h] = "save" /\ UNCHANGED <<now, incidents>>
    BY <1>4, <1>pc DEF Check, db
  <2>2. check'[h].at = now
    BY <1>0, <1>4 DEF Check, TypeOK
  <2>3. check[h].at < now
    BY <1>0, <2>1 DEF Timely, InTime
  <2>4. ASSUME NEW i \in DOMAIN incidents, NEW t \in {incidents[i].opened, incidents[i].closed} \ {None}
        PROVE  t < now
    <3>1. t \in Nat
      BY <1>0, TimeFacts
    <3>2. t <= check[h].at
      BY <1>0, <2>4 DEF Timely, InTime
    <3> QED
      BY <1>at, <2>3, <3>1, <3>2
  <2>5. \A i \in DOMAIN incidents : \A t \in {incidents[i].opened, incidents[i].closed} \ {None} :
          t <= now /\ t < now
    <3> TAKE i \in DOMAIN incidents
    <3> TAKE t \in {incidents[i].opened, incidents[i].closed} \ {None}
    <3>1. t \in Nat /\ t < now
      BY <1>0, <2>4, TimeFacts
    <3> QED
      BY <1>at, <3>1
  <2> QED
    BY <1>0, <1>at, <2>1, <2>2, <2>5 DEF Timely, InTime, IncidentsDisjoint
<1>5. CASE Save(h) \/ SaveFails(h)
  <2>1. pc[h] = "save" /\ pc'[h] = "load"
    BY <1>5, <1>pc DEF Save, SaveFails
  <2> QED
    BY <1>0, <1>5, <2>1, TimelySame DEF Save, SaveFails, db, local, Judging
<1>6. CASE Load(h)
  <2>1. pc[h] = "load" /\ pc'[h] \in {"find", "history", "asleep"}
    BY <1>6, <1>pc DEF Load, Done
  <2> QED
    BY <1>0, <1>6, <2>1, TimelySame DEF Load, db, Judging
<1>7. CASE History(h)
  <2>1. pc[h] = "history" /\ pc'[h] = "find"
    BY <1>7, <1>pc DEF History
  <2> QED
    BY <1>0, <1>7, <2>1, TimelySame DEF History, db, Judging
<1>8. CASE Find(h)
  <2>1. pc[h] = "find" /\ UNCHANGED <<now, incidents, check>>
    BY <1>8 DEF Find, db
  <2>2. pc'[h] # "due"
    BY <1>8, <1>pc DEF Find, Take, Decide
  <2> QED
    BY <1>0, <2>1, <2>2, TimelySame DEF Judging
<1>9. CASE Create(h)
  <2>1. pc[h] = "create" /\ UNCHANGED <<now, check, breach>>
    BY <1>9 DEF Create
  <2>2. CASE alive /\ Open(breach[h]) = {}
    <3> DEFINE n == Len(incidents) + 1
               new == [opened |-> check[h].at, closed |-> None, breach |-> breach[h]]
    <3>1. pc'[h] = "mail"
      BY <1>9, <1>pc, <2>2 DEF Create, Announce, Notify
    <3>2. incidents' = Append(incidents, new)
      BY <1>9, <2>2 DEF Create, Insert
    <3>3. /\ DOMAIN incidents' = DOMAIN incidents \cup {n} /\ n \notin DOMAIN incidents /\ n \in Nat
          /\ incidents'[n] = new /\ \A i \in DOMAIN incidents : incidents'[i] = incidents[i] /\ i < n
      BY <1>0, <3>2 DEF TypeOK
    <3> HIDE DEF n
    <3>4. ASSUME NEW i \in DOMAIN incidents, NEW t \in {incidents[i].opened, incidents[i].closed} \ {None}
          PROVE  t <= check[h].at /\ t < check[h].at
      <4>1. "create" \in Judging
        BY DEF Judging
      <4> QED
        BY <1>0, <2>1, <3>4, <4>1 DEF Timely, InTime
    <3>5. ASSUME NEW i \in DOMAIN incidents, incidents[i].breach = breach[h]
          PROVE  incidents[i].closed # None /\ incidents[i].closed < check[h].at
      <4>1. incidents[i].closed # None
        BY <2>2, <3>5 DEF Open
      <4> QED
        BY <3>4, <4>1
    <3>6. InTime(h)'
      <4>1. ASSUME NEW i \in DOMAIN incidents', NEW t \in {incidents'[i].opened, incidents'[i].closed} \ {None}
            PROVE  t <= check[h].at
        BY <1>at, <3>3, <3>4, <4>1
      <4>2. pc'[h] \notin Judging
        BY <3>1 DEF Judging
      <4> QED
        BY <1>0, <2>1, <3>1, <4>1, <4>2 DEF InTime, Timely
    <3>7. IncidentsDisjoint'
      <4> SUFFICES ASSUME NEW i \in DOMAIN incidents', NEW j \in DOMAIN incidents'
                   PROVE  /\ incidents'[i].closed # None => incidents'[i].opened < incidents'[i].closed
                          /\ i < j /\ incidents'[i].breach = incidents'[j].breach =>
                               incidents'[i].closed # None /\ incidents'[i].closed < incidents'[j].opened
        BY DEF IncidentsDisjoint
      <4>1. CASE i \in DOMAIN incidents /\ j \in DOMAIN incidents
        BY <1>0, <3>3, <4>1 DEF Timely, IncidentsDisjoint
      <4>2. CASE i \in DOMAIN incidents /\ j = n
        BY <1>0, <3>3, <3>5, <4>2 DEF Timely, IncidentsDisjoint
      <4>3. CASE i = n
        <5>1. ~(i < j)
          BY <1>0, <3>3, <4>3, TimeFacts
        <5> QED
          BY <3>3, <4>3, <5>1
      <4> QED
        BY <3>3, <4>1, <4>2, <4>3
    <3> QED
      BY <3>6, <3>7 DEF Timely
  <2>3. CASE ~(alive /\ Open(breach[h]) = {})
    <3>1. pc'[h] = "failed" /\ UNCHANGED incidents
      BY <1>9, <1>pc, <2>3 DEF Create, Fails
    <3> QED
      BY <1>0, <2>1, <3>1, TimelySame DEF Judging
  <2> QED
    BY <2>2, <2>3
<1>10. CASE Remind(h)
  <2>1. pc[h] = "cooldown" /\ pc'[h] \in {"mail", "asleep"}
    BY <1>10, <1>pc DEF Remind, Notify, Done
  <2> QED
    BY <1>0, <1>10, <2>1, TimelySame DEF Remind, db, Judging
<1>11. CASE Close(h)
  <2>1. pc[h] = "close" /\ UNCHANGED <<now, check, breach>>
    BY <1>11 DEF Close
  <2>2. CASE found[h] \in DOMAIN incidents
    <3> DEFINE f == found[h]
    <3>1. pc'[h] \in {"mail", "asleep"}
      BY <1>11, <1>pc, <2>2 DEF Close, Notify, Done
    <3>2. CloseRow(f, check[h].at) /\ incidents \in Seq(Rows)
      BY <1>0, <1>11, <2>2 DEF Close, CloseRow, TypeOK, Rows
    <3>3. /\ DOMAIN incidents' = DOMAIN incidents
          /\ incidents'[f].closed = check[h].at
          /\ incidents'[f].breach = incidents[f].breach
          /\ incidents'[f].opened = incidents[f].opened
          /\ \A j \in DOMAIN incidents \ {f} : incidents'[j] = incidents[j]
      <4>1. incidents'[f].opened = incidents[f].opened
        <5>1. incidents' = [incidents EXCEPT ![f].closed = check[h].at]
          BY <3>2 DEF CloseRow
        <5>2. incidents[f] \in Rows
          BY <1>0, <2>2, IncidentRow
        <5> QED
          BY <2>2, <3>2, <5>1, <5>2 DEF Rows
      <4> QED
        BY <1>at, <2>2, <3>2, <4>1, CloseRowType
    <3>4. f \in Open(breach[h])
      <4>1. alive
        BY <1>0, <2>2 DEF OneWorkerInv, IncidentsInv
      <4> QED
        BY <1>0, <2>1, <4>1 DEF Decided
    <3> HIDE DEF f
    <3>5. f \in DOMAIN incidents /\ incidents[f].closed = None
      BY <3>4 DEF Open
    <3>6. ASSUME NEW i \in DOMAIN incidents, NEW t \in {incidents[i].opened, incidents[i].closed} \ {None}
          PROVE  t <= check[h].at /\ t < check[h].at
      <4>1. "close" \in Judging
        BY DEF Judging
      <4> QED
        BY <1>0, <2>1, <3>6, <4>1 DEF Timely, InTime
    <3>7. InTime(h)'
      <4>1. ASSUME NEW i \in DOMAIN incidents', NEW t \in {incidents'[i].opened, incidents'[i].closed} \ {None}
            PROVE  t <= check[h].at
        BY <1>at, <3>3, <3>5, <3>6, <4>1
      <4>2. pc'[h] \notin Judging /\ pc'[h] # "due"
        BY <3>1 DEF Judging
      <4> QED
        BY <1>0, <2>1, <4>1, <4>2 DEF InTime, Timely
    <3>8. IncidentsDisjoint'
      <4> SUFFICES ASSUME NEW i \in DOMAIN incidents, NEW j \in DOMAIN incidents
                   PROVE  /\ incidents'[i].closed # None => incidents'[i].opened < incidents'[i].closed
                          /\ i < j /\ incidents'[i].breach = incidents'[j].breach =>
                               incidents'[i].closed # None /\ incidents'[i].closed < incidents'[j].opened
        BY <3>3 DEF IncidentsDisjoint
      <4>1. incidents'[i].closed # None => incidents'[i].opened < incidents'[i].closed
        <5>1. CASE i = f
          BY <1>0, <3>3, <3>6, <5>1, TimeFacts
        <5>2. CASE i # f
          BY <1>0, <3>3, <5>2 DEF Timely, IncidentsDisjoint
        <5> QED
          BY <5>1, <5>2
      <4>2. ASSUME i < j, incidents'[i].breach = incidents'[j].breach
            PROVE  incidents'[i].closed # None /\ incidents'[i].closed < incidents'[j].opened
        <5>1. incidents[i].breach = incidents[j].breach
          BY <3>3, <4>2
        <5>2. incidents[i].closed # None /\ incidents[i].closed < incidents[j].opened
          BY <1>0, <4>2, <5>1 DEF Timely, IncidentsDisjoint
        <5>3. i # f
          BY <3>5, <5>2
        <5>4. incidents'[j].opened = incidents[j].opened
          BY <3>3
        <5> QED
          BY <3>3, <5>2, <5>3, <5>4
      <4> QED
        BY <4>1, <4>2
    <3> QED
      BY <3>7, <3>8 DEF Timely
  <2>3. CASE found[h] \notin DOMAIN incidents
    <3>1. pc'[h] = "failed" /\ UNCHANGED incidents
      BY <1>11, <1>pc, <2>3 DEF Close, Fails
    <3> QED
      BY <1>0, <2>1, <3>1, TimelySame DEF Judging
  <2> QED
    BY <2>2, <2>3
<1>12. CASE Mail(h) \/ Log(h) \/ LogFails(h) \/ Abort(h)
  <2>1. pc'[h] \in {"log", "asleep", "failed"} /\ UNCHANGED <<now, incidents, check>>
    BY <1>12, <1>pc DEF Mail, Log, LogFails, Abort, Done, Fails, db, local
  <2> QED
    BY <1>0, <2>1, TimelySame DEF Judging
<1>13. CASE UNCHANGED vars
  BY <1>0, <1>13, TimelySame DEF vars, db, local
<1> QED
  BY <1>0, <1>1, <1>2, <1>3, <1>4, <1>5, <1>6, <1>7, <1>8, <1>9, <1>10, <1>11, <1>12, <1>13
     DEF Next, Step

-----------------------------------------------------------------------------
(***************************************************************************)
(* Who is about to mail finds the mails as their order asks for.           *)
(***************************************************************************)
Ordered(h) == MailFits(h) /\ MailsInOrder

LEMMA OrderedSame ==
    ASSUME NEW h \in Handlers, Ordered(h), UNCHANGED mails, found'[h] = found[h],
           \/ pc'[h] = pc[h] /\ note'[h] = note[h]
           \/ pc'[h] \notin {"cooldown", "close", "mail"}
    PROVE  Ordered(h)'
<1>1. \A K : About(found[h], K)' = About(found[h], K)
  BY DEF About
<1> QED
  BY <1>1 DEF Ordered, MailFits, MailsInOrder, Announcing

LEMMA OrderedStep ==
    ASSUME OneWorker, OneWorkerInv, TypeOK', [Next]_vars
    PROVE  \A h \in Handlers : Ordered(h)'
<1> SUFFICES ASSUME NEW h \in Handlers PROVE Ordered(h)'
  OBVIOUS
<1>0. TypeOK /\ Ordered(h) /\ \A g \in Handlers : g = h
  BY DEF OneWorkerInv, IncidentsInv, Ordered, OneWorker
<1>com. ASSUME incidents # <<>>
        PROVE  alive /\ MailsAreCommitted
  BY <1>com DEF OneWorkerInv, IncidentsInv
<1>pc. ASSUME NEW l, Goto(h, l) PROVE pc'[h] = l
  BY <1>0, <1>pc DEF Goto, TypeOK
<1>1. CASE Tick
  <2>1. pc'[h] = pc[h] \/ pc'[h] = "due"
    BY <1>1 DEF Tick
  <2> QED
    BY <1>0, <1>1, <2>1, OrderedSame DEF Tick, local
<1>2. CASE Delete \/ Retarget \/ UNCHANGED vars
  BY <1>0, <1>2, OrderedSame DEF Delete, Retarget, vars, local
<1>3. CASE Check(h) \/ Save(h) \/ SaveFails(h) \/ Load(h) \/ History(h) \/ Abort(h)
  <2>1. /\ pc'[h] \in {"save", "load", "find", "history", "asleep", "failed"}
        /\ UNCHANGED <<mails, found>>
    BY <1>3, <1>pc DEF Check, Save, SaveFails, Load, History, Abort, Done, Fails, db, local
  <2> QED
    BY <1>0, <2>1, OrderedSame
<1>4. CASE Find(h)
  <2>1. PICK i \in IF Open(breach[h]) = {} THEN {0} ELSE Open(breach[h]) : Take(h, i)
    BY <1>4 DEF Find
  <2>2. pc'[h] = Decide(h, i) /\ found'[h] = i /\ UNCHANGED <<mails, note>>
    BY <1>0, <1>4, <1>pc, <2>1 DEF Find, Take, TypeOK
  <2>3. pc'[h] # "mail"
    BY <2>2 DEF Decide
  <2>4. ASSUME pc'[h] \in {"cooldown", "close"}
        PROVE  About(i, {"incident_closed"}) = {}
    <3>1. i \in Open(breach[h])
      BY <2>1, <2>2, <2>4 DEF Decide
    <3>2. i \in DOMAIN incidents /\ incidents[i].closed = None /\ alive /\ MailsAreCommitted
      BY <1>com, <3>1 DEF Open
    <3> QED
      BY <3>2 DEF MailsAreCommitted, About
  <2>5. \A K : About(i, K)' = About(i, K)
    BY <2>2 DEF About
  <2>6. MailFits(h)'
    BY <2>2, <2>3, <2>4, <2>5 DEF MailFits, Announcing
  <2> QED
    BY <1>0, <2>2, <2>6 DEF Ordered, MailsInOrder
<1>5. CASE Create(h)
  <2>1. CASE alive /\ Open(breach[h]) = {}
    <3>1. pc'[h] = "mail" /\ UNCHANGED mails
      BY <1>5, <1>pc, <2>1 DEF Create, Announce, Notify
    <3>2. note'[h] \in Opening
      BY <1>0, <1>5, <2>1 DEF Create, Announce, Notify, Opening, TypeOK
    <3>3. found'[h] = Len(incidents) + 1
      BY <1>0, <1>5, <2>1 DEF Create, Insert, TypeOK
    <3>4. Len(incidents) + 1 \notin DOMAIN incidents
      BY <1>0 DEF TypeOK
    <3>5. MailsAreCommitted
      BY DEF OneWorkerInv, IncidentsInv
    <3>6. About(found[h], Notes)' = {}
      BY <2>1, <3>1, <3>3, <3>4, <3>5 DEF MailsAreCommitted, About
    <3>7. MailFits(h)'
      BY <3>1, <3>2, <3>6 DEF MailFits
    <3> QED
      BY <1>0, <3>1, <3>7 DEF Ordered, MailsInOrder
  <2>2. CASE ~(alive /\ Open(breach[h]) = {})
    <3>1. pc'[h] = "failed" /\ UNCHANGED <<mails, found>>
      BY <1>5, <1>pc, <2>2 DEF Create, Fails
    <3> QED
      BY <1>0, <3>1, OrderedSame
  <2> QED
    BY <2>1, <2>2
<1>6. CASE Remind(h) \/ Close(h)
  <2>1. pc[h] \in {"cooldown", "close"} /\ UNCHANGED <<mails, found>>
    BY <1>6 DEF Remind, Close
  <2>2. pc'[h] \in {"mail", "asleep", "failed"}
    BY <1>6, <1>pc DEF Remind, Close, Notify, Done, Fails
  <2>3. pc'[h] = "mail" => note'[h] \notin Opening
    BY <1>0, <1>6, <2>2 DEF Remind, Close, Notify, Done, Fails, Goto, Opening, TypeOK
  <2>4. \A K : About(found[h], K)' = About(found[h], K)
    BY <2>1 DEF About
  <2>5. MailFits(h)'
    BY <1>0, <2>1, <2>2, <2>3, <2>4 DEF Ordered, MailFits, Announcing
  <2> QED
    BY <1>0, <2>1, <2>5 DEF Ordered, MailsInOrder
<1>7. CASE Mail(h)
  <2> DEFINE new == [incident |-> found[h], kind |-> note[h], at |-> now]
             m == Len(mails) + 1
  <2>1. pc[h] = "mail" /\ pc'[h] = "log" /\ found' = found
    BY <1>7, <1>pc DEF Mail, local
  <2>2. CASE UNCHANGED mails
    BY <1>0, <2>1, <2>2, OrderedSame
  <2>3. CASE mails' = Append(mails, new)
    <3>1. /\ DOMAIN mails' = DOMAIN mails \cup {m} /\ m \notin DOMAIN mails /\ mails'[m] = new
          /\ \A k \in DOMAIN mails : k \in Nat /\ mails'[k] = mails[k] /\ mails[k].kind \in Notes /\ k < m
      <4> DEFINE S == [incident : Nat, kind : Notes, at : Nat]
      <4>1. mails \in Seq(S)
        BY <1>0 DEF TypeOK
      <4>2. \A x \in S : x.kind \in Notes
        OBVIOUS
      <4> HIDE DEF S
      <4> QED
        BY <2>3, <4>1, <4>2
    <3>2. m \in Nat /\ note[h] \in Notes
      BY <1>0 DEF TypeOK
    <3> HIDE DEF m
    <3>3. ASSUME NEW k \in DOMAIN mails, mails[k].incident = found[h]
          PROVE  \/ Place[mails[k].kind] < Place[note[h]]
                 \/ mails[k].kind = "incident_reminder" /\ note[h] = "incident_reminder"
      <4>1. mails[k].kind \in Notes
        BY <3>1
      <4>2. CASE note[h] \in Opening
        <5>1. About(found[h], Notes) = {}
          BY <1>0, <2>1, <4>2 DEF Ordered, MailFits, Announcing
        <5> QED
          BY <3>3, <4>1, <5>1 DEF About
      <4>3. CASE note[h] \notin Opening
        <5>1. About(found[h], {"incident_closed"}) = {}
          BY <1>0, <2>1, <4>3 DEF Ordered, MailFits
        <5>2. mails[k].kind # "incident_closed"
          BY <3>3, <5>1 DEF About
        <5>3. /\ Place["incident_opened"] = 1 /\ Place["sla_breach"] = 1
              /\ Place["incident_reminder"] = 2 /\ Place["incident_closed"] = 3
          BY DEF Place, Notes, Opening
        <5> QED
          BY <3>2, <4>1, <4>3, <5>2, <5>3 DEF Notes, Opening
      <4> QED
        BY <4>2, <4>3
    <3>4. MailsInOrder'
      <4> SUFFICES ASSUME NEW k \in DOMAIN mails', NEW l \in DOMAIN mails',
                          k < l, mails'[k].incident = mails'[l].incident
                   PROVE  \/ Place[mails'[k].kind] < Place[mails'[l].kind]
                          \/ mails'[k].kind = "incident_reminder" /\ mails'[l].kind = "incident_reminder"
        BY DEF MailsInOrder
      <4>1. CASE l \in DOMAIN mails
        <5>1. k \in DOMAIN mails
          BY <3>1, <3>2, <4>1
        <5> QED
          BY <1>0, <3>1, <4>1, <5>1 DEF Ordered, MailsInOrder
      <4>2. CASE l = m
        <5>1. k \in DOMAIN mails
          BY <3>1, <3>2, <4>2
        <5> QED
          BY <3>1, <3>3, <4>2, <5>1
      <4> QED
        BY <3>1, <4>1, <4>2
    <3>5. MailFits(h)'
      BY <2>1 DEF MailFits, Announcing
    <3> QED
      BY <3>4, <3>5 DEF Ordered
  <2> QED
    BY <1>7, <2>2, <2>3 DEF Mail
<1>8. CASE Log(h) \/ LogFails(h)
  <2>1. pc'[h] \in {"asleep", "failed"} /\ UNCHANGED <<mails, found>>
    BY <1>8, <1>pc DEF Log, LogFails, Done, Fails, db, local
  <2> QED
    BY <1>0, <2>1, OrderedSame
<1> QED
  BY <1>0, <1>1, <1>2, <1>3, <1>4, <1>5, <1>6, <1>7, <1>8 DEF Next, Step

-----------------------------------------------------------------------------
(***************************************************************************)
(* A reminder is a cooldown younger than those of its incident in the log, *)
(* and logged after its check.                                             *)
(***************************************************************************)
Reminders(i) == {e \in log : e.incident = i /\ e.kind = "incident_reminder"}
Spaced(h) == LogFits(h) /\ LoggedRemindersSpaced

LEMMA SpacedSame ==
    ASSUME NEW h \in Handlers, Spaced(h), UNCHANGED log,
           \/ pc'[h] \notin {"mail", "log"}
           \/ note'[h] # "incident_reminder"
           \/ /\ pc[h] \in {"mail", "log"} /\ note'[h] = note[h]
              /\ found'[h] = found[h] /\ check'[h] = check[h]
    PROVE  Spaced(h)'
BY DEF Spaced, LogFits, LoggedRemindersSpaced

LEMMA SpacedStep ==
    ASSUME OneWorker, OneWorkerInv, TypeOK', [Next]_vars
    PROVE  \A h \in Handlers : Spaced(h)'
<1> SUFFICES ASSUME NEW h \in Handlers PROVE Spaced(h)'
  OBVIOUS
<1>0. TypeOK /\ Spaced(h) /\ InTime(h) /\ \A g \in Handlers : g = h
  BY DEF OneWorkerInv, IncidentsInv, Spaced, OneWorker
<1>at. /\ check[h].at \in Nat /\ now \in Nat /\ check[h].at <= now /\ Cooldown \in Nat
       /\ \A e \in log : e.at \in Nat
  BY <1>0, IncidentsAssumption DEF TypeOK, Checks, InTime
<1>pc. ASSUME NEW l, Goto(h, l) PROVE pc'[h] = l
  BY <1>0, <1>pc DEF Goto, TypeOK
<1>1. CASE Tick
  <2>1. pc'[h] = pc[h] \/ pc'[h] = "due"
    BY <1>1 DEF Tick
  <2> QED
    BY <1>0, <1>1, <2>1, SpacedSame DEF Tick, db, local
<1>2. CASE Delete
  BY <1>2 DEF Delete, Spaced, LogFits, LoggedRemindersSpaced
<1>3. CASE Retarget \/ UNCHANGED vars
  <2>1. pc'[h] = pc[h] /\ UNCHANGED <<log, note, found, check>>
    BY <1>3 DEF Retarget, vars, db, local
  <2> QED
    BY <1>0, <2>1, SpacedSame
<1>4. CASE Check(h) \/ Save(h) \/ SaveFails(h) \/ Load(h) \/ History(h) \/ Abort(h)
  <2>1. /\ pc'[h] \in {"save", "load", "find", "history", "asleep", "failed"}
        /\ UNCHANGED log
    BY <1>4, <1>pc DEF Check, Save, SaveFails, Load, History, Abort, Done, Fails, db
  <2> QED
    BY <1>0, <2>1, SpacedSame
<1>5. CASE Find(h)
  <2>1. pc'[h] \notin {"mail", "log"} /\ UNCHANGED log
    BY <1>5, <1>pc DEF Find, Take, Decide, db
  <2> QED
    BY <1>0, <2>1, SpacedSame
<1>6. CASE Create(h) \/ Close(h)
  <2>1. UNCHANGED log /\ \/ pc'[h] \in {"asleep", "failed"}
                         \/ note'[h] # "incident_reminder"
    BY <1>0, <1>6, <1>pc DEF Create, Close, Announce, Notify, Done, Fails, TypeOK
  <2> QED
    BY <1>0, <2>1, SpacedSame
<1>7. CASE Remind(h)
  <2>1. UNCHANGED <<log, found, check>>
    BY <1>7 DEF Remind, db
  <2>2. CASE CooldownOver(h)
    <3>1. \A e \in log : e.incident = found[h] /\ e.kind = "incident_reminder" => check[h].at - e.at >= Cooldown
      BY <2>2 DEF CooldownOver
    <3> QED
      BY <1>0, <2>1, <3>1 DEF Spaced, LogFits, LoggedRemindersSpaced
  <2>3. CASE ~CooldownOver(h)
    <3>1. pc'[h] = "asleep"
      BY <1>7, <1>pc, <2>3 DEF Remind, Done
    <3> QED
      BY <1>0, <2>1, <3>1, SpacedSame
  <2> QED
    BY <2>2, <2>3
<1>8. CASE Mail(h)
  <2>1. pc[h] = "mail" /\ pc'[h] = "log" /\ UNCHANGED <<log, note, found, check>>
    BY <1>8, <1>pc DEF Mail, db, local
  <2> QED
    BY <1>0, <2>1, SpacedSame
<1>9. CASE Log(h) \/ LogFails(h)
  <2>1. pc[h] = "log" /\ pc'[h] \in {"asleep", "failed"}
    BY <1>9, <1>pc DEF Log, LogFails, Done, Fails
  <2>2. CASE UNCHANGED log
    BY <1>0, <2>1, <2>2, SpacedSame
  <2> DEFINE new == [incident |-> found[h], kind |-> note[h], at |-> now]
  <2>3. CASE log' = log \cup {new}
    <3>1. \A e \in log : e.incident = found[h] /\ e.kind = "incident_reminder" /\ note[h] = "incident_reminder"
                           => now - e.at >= Cooldown
      BY <1>0, <1>at, <2>1 DEF Spaced, LogFits
    <3>2. LoggedRemindersSpaced'
      <4> SUFFICES ASSUME NEW e \in log', NEW f \in log', e.incident = f.incident,
                          e.kind = "incident_reminder", f.kind = "incident_reminder"
                   PROVE  e = f \/ e.at - f.at >= Cooldown \/ f.at - e.at >= Cooldown
        BY DEF LoggedRemindersSpaced
      <4>1. CASE e \in log /\ f \in log
        BY <1>0, <4>1 DEF Spaced, LoggedRemindersSpaced
      <4>2. CASE e \in log /\ f = new
        BY <3>1, <4>2
      <4>3. CASE e = new /\ f \in log
        BY <3>1, <4>3
      <4>4. CASE e = new /\ f = new
        BY <4>4
      <4> QED
        BY <2>3, <4>1, <4>2, <4>3, <4>4
    <3> QED
      BY <2>1, <3>2 DEF Spaced, LogFits
  <2> QED
    BY <1>9, <2>2, <2>3 DEF Log, LogFails, db
<1> QED
  BY <1>0, <1>1, <1>2, <1>3, <1>4, <1>5, <1>6, <1>7, <1>8, <1>9 DEF Next, Step

-----------------------------------------------------------------------------
(***************************************************************************)
(* The incident a handler works on is the open one of the verdict's kind,  *)
(* and the mail it is about to send tells of it as it is.                  *)
(***************************************************************************)
LEMMA WorkSame ==
    ASSUME NEW h \in Handlers, WorkFits(h), UNCHANGED incidents, alive' => alive,
           \/ pc'[h] = pc[h] /\ UNCHANGED <<breach, found, note>>
           \/ pc'[h] \notin {"cooldown", "close", "mail"}
    PROVE  WorkFits(h)'
<1>1. \A b : Open(b)' = Open(b)
  BY DEF Open
<1> QED
  BY <1>1 DEF WorkFits

LEMMA WorkStep ==
    ASSUME OneWorker, OneWorkerInv, TypeOK', [Next]_vars
    PROVE  \A h \in Handlers : WorkFits(h)'
<1> SUFFICES ASSUME NEW h \in Handlers PROVE WorkFits(h)'
  OBVIOUS
<1>0. TypeOK /\ WorkFits(h) /\ \A g \in Handlers : g = h
  BY DEF OneWorkerInv, IncidentsInv, OneWorker
<1>pc. ASSUME NEW l, Goto(h, l) PROVE pc'[h] = l
  BY <1>0, <1>pc DEF Goto, TypeOK
<1>1. CASE Tick
  <2>1. pc'[h] = pc[h] \/ pc'[h] = "due"
    BY <1>1 DEF Tick
  <2> QED
    BY <1>0, <1>1, <2>1, WorkSame DEF Tick, db, local
<1>2. CASE Delete
  BY <1>2 DEF Delete, WorkFits
<1>3. CASE Retarget \/ UNCHANGED vars
  BY <1>0, <1>3, WorkSame DEF Retarget, vars, db, local
<1>4. CASE Check(h) \/ Save(h) \/ SaveFails(h) \/ Load(h) \/ History(h) \/ Abort(h)
  <2>1. /\ pc'[h] \in {"save", "load", "find", "history", "asleep", "failed"}
        /\ UNCHANGED <<incidents, alive>>
    BY <1>4, <1>pc DEF Check, Save, SaveFails, Load, History, Abort, Done, Fails, db
  <2> QED
    BY <1>0, <2>1, WorkSame
<1>5. CASE Find(h)
  <2>1. PICK i \in IF Open(breach[h]) = {} THEN {0} ELSE Open(breach[h]) : Take(h, i)
    BY <1>5 DEF Find
  <2>2. pc'[h] = Decide(h, i) /\ found'[h] = i
    BY <1>0, <1>pc, <2>1 DEF Take, TypeOK
  <2>3. breach' = breach /\ \A b : Open(b)' = Open(b)
    BY <1>5 DEF Find, db, Open
  <2>4. pc'[h] # "mail" /\ (pc'[h] = "cooldown" => ~breach[h])
    BY <2>2 DEF Decide
  <2>5. pc'[h] \in {"cooldown", "close"} => i \in Open(breach[h])
    BY <2>1, <2>2 DEF Decide
  <2> QED
    BY <2>2, <2>3, <2>4, <2>5 DEF WorkFits
<1>6. CASE Create(h)
  <2>1. CASE alive /\ Open(breach[h]) = {}
    <3> DEFINE n == Len(incidents) + 1
               new == [opened |-> check[h].at, closed |-> None, breach |-> breach[h]]
    <3>1. pc'[h] = "mail" /\ breach' = breach
      BY <1>6, <1>pc, <2>1 DEF Create, Announce, Notify
    <3>2. incidents' = Append(incidents, new) /\ found'[h] = n
      BY <1>0, <1>6, <2>1 DEF Create, Insert, TypeOK
    <3>3. n \in DOMAIN incidents' /\ incidents'[n] = new
      BY <1>0, <3>2 DEF TypeOK
    <3>4. note'[h] = IF breach[h] THEN "sla_breach" ELSE "incident_opened"
      BY <1>0, <1>6, <2>1 DEF Create, Announce, Notify, TypeOK
    <3> HIDE DEF n
    <3> QED
      BY <3>1, <3>2, <3>3, <3>4 DEF WorkFits
  <2>2. CASE ~(alive /\ Open(breach[h]) = {})
    <3>1. pc'[h] = "failed" /\ UNCHANGED <<incidents, alive>>
      BY <1>6, <1>pc, <2>2 DEF Create, Fails
    <3> QED
      BY <1>0, <3>1, WorkSame
  <2> QED
    BY <2>1, <2>2
<1>7. CASE Remind(h)
  <2>1. pc[h] = "cooldown" /\ UNCHANGED <<incidents, alive, breach, found>>
    BY <1>7 DEF Remind, db
  <2>2. CASE CooldownOver(h)
    <3>1. pc'[h] = "mail" /\ note'[h] = "incident_reminder"
      BY <1>0, <1>7, <1>pc, <2>2 DEF Remind, Notify, TypeOK
    <3> QED
      BY <1>0, <2>1, <3>1 DEF WorkFits, Open
  <2>3. CASE ~CooldownOver(h)
    <3>1. pc'[h] = "asleep"
      BY <1>7, <1>pc, <2>3 DEF Remind, Done
    <3> QED
      BY <1>0, <2>1, <3>1, WorkSame
  <2> QED
    BY <2>2, <2>3
<1>8. CASE Close(h)
  <2>1. pc[h] = "close" /\ UNCHANGED <<alive, breach, found, check>>
    BY <1>8 DEF Close
  <2>2. CASE alive /\ ~breach[h]
    <3>1. found[h] \in DOMAIN incidents /\ incidents[found[h]].breach = breach[h]
      BY <1>0, <2>1, <2>2 DEF WorkFits, Open
    <3>2. pc'[h] = "mail" /\ note'[h] = "incident_closed"
      BY <1>0, <1>8, <1>pc, <2>2, <3>1 DEF Close, Notify, TypeOK
    <3>3. /\ DOMAIN incidents' = DOMAIN incidents
          /\ incidents'[found[h]].closed = check[h].at
          /\ incidents'[found[h]].breach = incidents[found[h]].breach
      <4>1. CloseRow(found[h], check[h].at)
        BY <1>8, <3>1 DEF Close, CloseRow
      <4>2. incidents \in Seq(Rows) /\ check[h].at \in Nat
        BY <1>0 DEF TypeOK, Rows, Checks
      <4> QED
        BY <3>1, <4>1, <4>2, CloseRowType
    <3>4. check[h].at # None
      BY <1>0, IncidentsAssumption DEF TypeOK, Checks
    <3> QED
      BY <2>1, <2>2, <3>1, <3>2, <3>3, <3>4 DEF WorkFits
  <2>3. CASE breach[h]
    <3>1. pc'[h] \in {"asleep", "failed"}
      BY <1>8, <1>pc, <2>3 DEF Close, Done, Fails
    <3> QED
      BY <3>1 DEF WorkFits
  <2>4. CASE ~alive
    BY <2>1, <2>4 DEF WorkFits
  <2> QED
    BY <2>2, <2>3, <2>4
<1>9. CASE Mail(h) \/ Log(h) \/ LogFails(h)
  <2>1. pc'[h] \in {"log", "asleep", "failed"}
    BY <1>9, <1>pc DEF Mail, Log, LogFails, Done, Fails
  <2> QED
    BY <2>1 DEF WorkFits
<1> QED
  BY <1>0, <1>1, <1>2, <1>3, <1>4, <1>5, <1>6, <1>7, <1>8, <1>9 DEF Next, Step

-----------------------------------------------------------------------------
LEMMA OneWorkerStep == OneWorker /\ OneWorkerInv /\ [Next]_vars => OneWorkerInv'
<1> SUFFICES ASSUME OneWorker, OneWorkerInv, [Next]_vars PROVE OneWorkerInv'
  OBVIOUS
<1>1. IncidentsInv' /\ TypeOK'
  BY InvStep DEF OneWorkerInv, IncidentsInv
<1>2. \A h \in Handlers : Tracked(h)' /\ Timely(h)' /\ Ordered(h)' /\ Spaced(h)' /\ WorkFits(h)'
  BY <1>1, TrackedStep, TimelyStep, OrderedStep, SpacedStep, WorkStep
<1>3. OutageTracked'
  BY <1>2 DEF OutageTracked, Tracked
<1>4. Handlers # {}
  BY DEF OneWorker
<1> QED
  BY <1>1, <1>2, <1>3, <1>4 DEF OneWorkerInv, Tracked, Timely, Ordered, Spaced

\* What the handler of a service's only worker decided stays true until it has
\* acted, whatever fails in between.
THEOREM OneWorkerConsistent == ASSUME OneWorker PROVE Spec => []OneWorkerInv
<1>1. OneWorkerInv /\ [Next]_vars => OneWorkerInv'
  BY OneWorkerStep
<1> QED
  BY <1>1, OneWorkerInit, PTL DEF Spec

\* A check handled to its end leaves the incident it calls for.
THEOREM OutageTrackedHolds == ASSUME OneWorker PROVE Spec => []OutageTracked
<1>1. OneWorkerInv => OutageTracked
  BY DEF OneWorkerInv
<1> QED
  BY <1>1, OneWorkerConsistent, PTL

\* Incidents of a kind follow one another.
THEOREM IncidentsDisjointHolds == ASSUME OneWorker PROVE Spec => []IncidentsDisjoint
<1>1. OneWorkerInv => IncidentsDisjoint
  BY DEF OneWorkerInv
<1> QED
  BY <1>1, OneWorkerConsistent, PTL

\* Opening, reminders, closing reach the owner in this order.
THEOREM MailsInOrderHolds == ASSUME OneWorker PROVE Spec => []MailsInOrder
<1>1. OneWorkerInv => MailsInOrder
  BY DEF OneWorkerInv
<1> QED
  BY <1>1, OneWorkerConsistent, PTL

\* Logged reminders of an incident are a cooldown apart.
THEOREM LoggedRemindersSpacedHolds == ASSUME OneWorker PROVE Spec => []LoggedRemindersSpaced
<1>1. OneWorkerInv => LoggedRemindersSpaced
  BY DEF OneWorkerInv
<1> QED
  BY <1>1, OneWorkerConsistent, PTL

-----------------------------------------------------------------------------
(***************************************************************************)
(* What the two findings about notifications need: without the failures    *)
(* named here, the only worker of a service keeps both promises, whatever  *)
(* becomes of the checks' rows, of the mails on their way and of the       *)
(* target.                                                                 *)
(***************************************************************************)
HandlersFinish == "abort" \notin Faults /\ "log" \notin Faults
LogIsKept == HandlersFinish /\ "delete" \notin Faults

\* An open incident is announced, or its announcement is on its way to the log.
Telling(h) ==
  alive => \A i \in DOMAIN incidents : incidents[i].closed = None =>
    \/ Announced(i)
    \/ pc[h] \in {"mail", "log"} /\ note[h] \in Opening /\ found[h] = i

LEMMA TellingSame ==
    ASSUME NEW h \in Handlers, Telling(h), UNCHANGED <<incidents, log>>, alive' => alive,
           \/ pc[h] \notin {"mail", "log"}
           \/ pc'[h] \in {"mail", "log"} /\ UNCHANGED <<note, found>>
    PROVE  Telling(h)'
<1>1. \A i : Announced(i)' <=> Announced(i)
  BY DEF Announced
<1> QED
  BY <1>1 DEF Telling

LEMMA TellingStep ==
    ASSUME OneWorker, OneWorkerInv, HandlersFinish, [Next]_vars, NEW h \in Handlers, Telling(h)
    PROVE  Telling(h)'
<1>0. TypeOK /\ (alive => WorksOnIncident) /\ \A g \in Handlers : g = h
  BY DEF OneWorkerInv, IncidentsInv, OneWorker
<1>pc. ASSUME NEW l, Goto(h, l) PROVE pc'[h] = l
  BY <1>0, <1>pc DEF Goto, TypeOK
<1>1. CASE Tick \/ Retarget \/ UNCHANGED vars
  <2>1. UNCHANGED <<incidents, log, alive, note, found>>
    BY <1>1 DEF Tick, Retarget, vars, db, local
  <2>2. pc[h] \in {"mail", "log"} => pc'[h] = pc[h]
    BY <1>1 DEF Tick, Retarget, vars
  <2> QED
    BY <2>1, <2>2, TellingSame
<1>2. CASE Delete
  BY <1>2 DEF Delete, Telling
<1>3. CASE Check(h) \/ Save(h) \/ SaveFails(h) \/ Load(h) \/ History(h) \/ Find(h) \/ Remind(h)
  <2>1. pc[h] \notin {"mail", "log"} /\ UNCHANGED <<incidents, log, alive>>
    BY <1>3 DEF Check, Save, SaveFails, Load, History, Find, Remind, db
  <2> QED
    BY <2>1, TellingSame
<1>4. CASE Create(h)
  <2>1. pc[h] = "create" /\ UNCHANGED <<log, alive>>
    BY <1>4 DEF Create
  <2>2. CASE alive /\ Open(breach[h]) = {}
    <3>0. PICK n : n = Len(incidents) + 1
      OBVIOUS
    <3> DEFINE new == [opened |-> check[h].at, closed |-> None, breach |-> breach[h]]
    <3>1. pc'[h] = "mail" /\ note'[h] \in Opening
      BY <1>0, <1>4, <1>pc, <2>2 DEF Create, Announce, Notify, TypeOK, Opening
    <3>2. incidents' = Append(incidents, new) /\ found'[h] = n
      BY <1>0, <1>4, <2>2, <3>0 DEF Create, Insert, TypeOK
    <3>3. incidents \in Seq(Rows) /\ new \in Rows
      BY <1>0 DEF TypeOK, Rows, Checks
    <3> HIDE DEF new
    <3>4. /\ DOMAIN incidents' = DOMAIN incidents \cup {n}
          /\ \A i \in DOMAIN incidents : incidents'[i] = incidents[i]
      BY <3>0, <3>2, <3>3, AppendProperties
    <3>5. \A i : Announced(i)' <=> Announced(i)
      BY <2>1 DEF Announced
    <3> QED
      BY <2>1, <2>2, <3>1, <3>2, <3>4, <3>5 DEF Telling
  <2>3. CASE ~(alive /\ Open(breach[h]) = {})
    BY <1>4, <2>1, <2>3, TellingSame DEF Create
  <2> QED
    BY <2>2, <2>3
<1>5. CASE Close(h)
  <2>1. pc[h] = "close" /\ UNCHANGED <<log, alive>>
    BY <1>5 DEF Close
  <2>2. CASE found[h] \in DOMAIN incidents
    <3>1. CloseRow(found[h], check[h].at)
      BY <1>5, <2>2 DEF Close, CloseRow
    <3>2. incidents \in Seq(Rows) /\ check[h].at \in Nat /\ check[h].at # None
      BY <1>0, IncidentsAssumption DEF TypeOK, Rows, Checks
    <3>3. /\ DOMAIN incidents' = DOMAIN incidents
          /\ \A i \in DOMAIN incidents : incidents'[i].closed = None => incidents[i].closed = None
      BY <2>2, <3>1, <3>2, CloseRowType
    <3>4. \A i : Announced(i)' <=> Announced(i)
      BY <2>1 DEF Announced
    <3> QED
      BY <2>1, <3>3, <3>4 DEF Telling
  <2>3. CASE found[h] \notin DOMAIN incidents
    BY <1>5, <2>1, <2>3, TellingSame DEF Close
  <2> QED
    BY <2>2, <2>3
<1>6. CASE Mail(h)
  <2>1. pc'[h] = "log" /\ UNCHANGED <<incidents, log, alive, note, found>>
    BY <1>6, <1>pc DEF Mail, db, local
  <2> QED
    BY <2>1, TellingSame
<1>7. CASE Log(h)
  <2> SUFFICES ASSUME alive', NEW i \in DOMAIN incidents', incidents'[i].closed = None
               PROVE  Announced(i)'
    BY DEF Telling
  <2>1. alive /\ pc[h] = "log" /\ incidents' = incidents
    BY <1>7 DEF Log
  <2>2. found[h] \in DOMAIN incidents
    BY <1>0, <2>1 DEF WorksOnIncident
  <2>3. log' = log \cup {[incident |-> found[h], kind |-> note[h], at |-> now]}
    BY <1>7, <2>2 DEF Log
  <2>4. Announced(i) \/ (note[h] \in Opening /\ found[h] = i)
    BY <2>1 DEF Telling
  <2>5. CASE Announced(i)
    BY <2>3, <2>5 DEF Announced
  <2>6. CASE note[h] \in Opening /\ found[h] = i
    <3> DEFINE new == [incident |-> found[h], kind |-> note[h], at |-> now]
    <3>1. new \in log' /\ new.incident = i /\ new.kind \in Opening
      BY <2>3, <2>6
    <3> QED
      BY <3>1 DEF Announced
  <2> QED
    BY <2>4, <2>5, <2>6
<1>8. ~LogFails(h) /\ ~Abort(h)
  BY DEF HandlersFinish, LogFails, Abort
<1> QED
  BY <1>0, <1>1, <1>2, <1>3, <1>4, <1>5, <1>6, <1>7, <1>8 DEF Next, Step

\* If no handler is cut off and the log takes every row, a check that was handled
\* to its end leaves every open incident announced: what loses an announcement is
\* an exception, a cancellation or a crash after the commit of create_incident, or
\* a row that notification_log refuses.
THEOREM OwnersToldWhenHandlersFinish ==
  ASSUME OneWorker, HandlersFinish PROVE Spec => []OwnersTold
<1> DEFINE Inv == OneWorkerInv /\ \A h \in Handlers : Telling(h)
<1>1. Init => Inv
  <2> SUFFICES ASSUME Init PROVE Inv
    OBVIOUS
  <2>1. DOMAIN incidents = {}
    BY DEF Init
  <2> QED
    BY <2>1, OneWorkerInit DEF Telling
<1>2. Inv /\ [Next]_vars => Inv'
  BY OneWorkerStep, TellingStep
<1>3. Inv => OwnersTold
  <2> SUFFICES ASSUME Inv, NEW h \in Handlers, NEW b \in BOOLEAN, pc[h] = "asleep", NEW i \in Open(b)
               PROVE  Announced(i)
    BY DEF OwnersTold
  <2>1. i \in DOMAIN incidents /\ incidents[i].closed = None
    BY DEF Open
  <2>2. alive
    <3>1. ~alive => DOMAIN incidents = {}
      BY DEF OneWorkerInv, IncidentsInv
    <3> QED
      BY <2>1, <3>1
  <2> QED
    BY <2>1, <2>2 DEF Telling
<1> QED
  BY <1>1, <1>2, <1>3, PTL DEF Spec

-----------------------------------------------------------------------------
\* Every reminder mailed is in the log, or on its way there; the next one is a
\* cooldown after all that were mailed.
Remembered(h) ==
  /\ alive
  /\ \A k \in DOMAIN mails : mails[k].at <= now
  /\ \A k \in DOMAIN mails : mails[k].kind = "incident_reminder" =>
       \/ \E e \in log : /\ e.incident = mails[k].incident /\ e.kind = "incident_reminder"
                         /\ mails[k].at <= e.at
       \/ pc[h] = "log" /\ note[h] = "incident_reminder" /\ found[h] = mails[k].incident
  /\ pc[h] = "mail" /\ note[h] = "incident_reminder" =>
       \A k \in About(found[h], {"incident_reminder"}) : check[h].at - mails[k].at >= Cooldown
  /\ ReminderSpacing

LEMMA MailRow ==
    ASSUME TypeOK, NEW k \in DOMAIN mails
    PROVE  k \in Nat /\ mails[k].at \in Nat
<1>1. mails \in Seq(Sent)
  BY DEF TypeOK, Sent
<1>2. k \in 1..Len(mails) /\ mails[k] \in Sent
  BY <1>1
<1> QED
  BY <1>1, <1>2 DEF Sent

LEMMA RememberedSame ==
    ASSUME NEW h \in Handlers, Remembered(h), TypeOK, UNCHANGED <<alive, mails, log>>,
           now' = now \/ now' = now + 1,
           \/ pc[h] # "log" /\ (pc'[h] # "mail" \/ note'[h] # "incident_reminder")
           \/ pc'[h] = pc[h] /\ UNCHANGED <<note, found, check>>
    PROVE  Remembered(h)'
<1>1. \A i : About(i, {"incident_reminder"})' = About(i, {"incident_reminder"})
  BY DEF About
<1>2. \A k \in DOMAIN mails : mails[k].at \in Nat
  BY MailRow
<1>3. \A k \in DOMAIN mails : mails[k].at <= now'
  BY <1>2 DEF Remembered, TypeOK
<1>4. ReminderSpacing'
  BY DEF Remembered, ReminderSpacing
<1> QED
  BY <1>1, <1>3, <1>4 DEF Remembered

LEMMA RememberedStep ==
    ASSUME OneWorker, OneWorkerInv, LogIsKept, [Next]_vars, NEW h \in Handlers, Remembered(h)
    PROVE  Remembered(h)'
<1>0. TypeOK /\ WorksOnIncident /\ InTime(h) /\ alive /\ \A g \in Handlers : g = h
  BY DEF OneWorkerInv, IncidentsInv, OneWorker, Remembered
<1>at. /\ check[h].at \in Nat /\ now \in Nat /\ check[h].at <= now /\ Cooldown \in Nat
       /\ \A e \in log : e.at \in Nat
       /\ \A k \in DOMAIN mails : k \in Nat /\ mails[k].at \in Nat
  <2>1. \A k \in DOMAIN mails : k \in Nat /\ mails[k].at \in Nat
    BY <1>0, MailRow
  <2> QED
    BY <1>0, <2>1, IncidentsAssumption DEF TypeOK, Checks, InTime
<1>pc. ASSUME NEW l, Goto(h, l) PROVE pc'[h] = l
  BY <1>0, <1>pc DEF Goto, TypeOK
<1>1. CASE Tick
  <2>1. pc'[h] = pc[h] \/ (pc[h] # "log" /\ pc'[h] = "due")
    BY <1>1 DEF Tick
  <2> QED
    BY <1>0, <1>1, <2>1, RememberedSame DEF Tick, db, local
<1>2. CASE Retarget \/ UNCHANGED vars
  <2>1. pc'[h] = pc[h] /\ UNCHANGED <<now, alive, mails, log, note, found, check>>
    BY <1>2 DEF Retarget, vars, db, local
  <2> QED
    BY <1>0, <2>1, RememberedSame
<1>3. CASE Check(h) \/ Save(h) \/ SaveFails(h) \/ Load(h) \/ History(h)
  <2>1. pc[h] # "log" /\ pc'[h] # "mail" /\ UNCHANGED <<now, alive, mails, log>>
    BY <1>3, <1>pc DEF Check, Save, SaveFails, Load, History, Done, db
  <2> QED
    BY <1>0, <2>1, RememberedSame
<1>4. CASE Find(h)
  <2>1. pc[h] # "log" /\ pc'[h] # "mail" /\ UNCHANGED <<now, alive, mails, log>>
    BY <1>4, <1>pc DEF Find, Take, Decide, db
  <2> QED
    BY <1>0, <2>1, RememberedSame
<1>5. CASE Create(h) \/ Close(h)
  <2>1. pc[h] # "log" /\ (pc'[h] # "mail" \/ note'[h] # "incident_reminder")
    BY <1>0, <1>5, <1>pc DEF Create, Close, Announce, Notify, Done, Fails, TypeOK
  <2> QED
    BY <1>0, <1>5, <2>1, RememberedSame DEF Create, Close
<1>6. CASE Remind(h)
  <2>1. pc[h] = "cooldown" /\ UNCHANGED <<now, alive, mails, log, found, check>>
    BY <1>6 DEF Remind, db
  <2>2. CASE CooldownOver(h)
    <3>1. ASSUME NEW k \in About(found[h], {"incident_reminder"})
          PROVE  check[h].at - mails[k].at >= Cooldown
      <4>1. k \in DOMAIN mails /\ mails[k].incident = found[h] /\ mails[k].kind = "incident_reminder"
        BY DEF About
      <4>2. PICK e \in log : /\ e.incident = found[h] /\ e.kind = "incident_reminder"
                             /\ mails[k].at <= e.at
        BY <2>1, <4>1 DEF Remembered
      <4>3. check[h].at - e.at >= Cooldown
        BY <2>2, <4>2 DEF CooldownOver
      <4> QED
        BY <1>at, <4>1, <4>2, <4>3
    <3>2. (\A k \in About(found[h], {"incident_reminder"}) : check[h].at - mails[k].at >= Cooldown)'
      BY <2>1, <3>1 DEF About
    <3>3. ReminderSpacing'
      BY <2>1 DEF Remembered, ReminderSpacing
    <3> QED
      BY <2>1, <3>2, <3>3 DEF Remembered
  <2>3. CASE ~CooldownOver(h)
    <3>1. pc'[h] = "asleep"
      BY <1>6, <1>pc, <2>3 DEF Remind, Done
    <3> QED
      BY <1>0, <2>1, <3>1, RememberedSame
  <2> QED
    BY <2>2, <2>3
<1>7. CASE Mail(h)
  <2>1. pc[h] = "mail" /\ pc'[h] = "log" /\ UNCHANGED <<now, alive, log, note, found, check>>
    BY <1>7, <1>pc DEF Mail, db, local
  <2>2. CASE UNCHANGED mails
    BY <1>0, <2>1, <2>2, RememberedSame
  <2> DEFINE new == [incident |-> found[h], kind |-> note[h], at |-> now]
  <2>3. CASE mails' = Append(mails, new)
    <3>0. PICK m : m = Len(mails) + 1
      OBVIOUS
    <3>1. /\ DOMAIN mails' = DOMAIN mails \cup {m} /\ m \in Nat /\ mails'[m] = new
          /\ \A k \in DOMAIN mails : mails'[k] = mails[k] /\ k < m
      <4>1. mails \in Seq(Sent) /\ new \in Sent
        BY <1>0 DEF TypeOK, Sent
      <4> HIDE DEF new
      <4> QED
        BY <2>3, <3>0, <4>1, AppendProperties
    <3>2. \A k \in DOMAIN mails' : mails'[k].at <= now'
      BY <1>at, <2>1, <3>1 DEF Remembered
    <3>3. ASSUME NEW k \in DOMAIN mails', mails'[k].kind = "incident_reminder"
          PROVE  \/ \E e \in log : /\ e.incident = mails'[k].incident /\ e.kind = "incident_reminder"
                                   /\ mails'[k].at <= e.at
                 \/ note[h] = "incident_reminder" /\ found[h] = mails'[k].incident
      <4>1. CASE k = m
        BY <3>1, <3>3, <4>1
      <4>2. CASE k \in DOMAIN mails
        BY <2>1, <3>1, <3>3, <4>2 DEF Remembered
      <4> QED
        BY <3>1, <4>1, <4>2
    <3>4. ReminderSpacing'
      <4> SUFFICES ASSUME NEW k \in DOMAIN mails', NEW l \in DOMAIN mails',
                          k < l, mails'[k].incident = mails'[l].incident,
                          mails'[k].kind = "incident_reminder", mails'[l].kind = "incident_reminder"
                   PROVE  mails'[l].at - mails'[k].at >= Cooldown
        BY DEF ReminderSpacing
      <4>1. k \in DOMAIN mails
        BY <1>at, <3>1
      <4>2. CASE l \in DOMAIN mails
        BY <3>1, <4>1, <4>2 DEF Remembered, ReminderSpacing
      <4>3. CASE l = m
        <5>1. note[h] = "incident_reminder" /\ mails[k].incident = found[h]
          BY <3>1, <4>1, <4>3
        <5>2. k \in About(found[h], {"incident_reminder"})
          BY <3>1, <4>1, <5>1 DEF About
        <5>3. check[h].at - mails[k].at >= Cooldown
          BY <2>1, <5>1, <5>2 DEF Remembered
        <5> QED
          BY <1>at, <3>1, <4>1, <4>3, <5>3
      <4> QED
        BY <3>1, <4>2, <4>3
    <3> QED
      BY <1>0, <2>1, <3>2, <3>3, <3>4 DEF Remembered
  <2> QED
    BY <1>7, <2>2, <2>3 DEF Mail
<1>8. CASE Log(h)
  <2>1. pc[h] = "log" /\ UNCHANGED <<now, alive, mails>>
    BY <1>8 DEF Log
  <2>2. found[h] \in DOMAIN incidents
    BY <1>0, <2>1 DEF WorksOnIncident
  <2> DEFINE new == [incident |-> found[h], kind |-> note[h], at |-> now]
  <2>3. log' = log \cup {new} /\ pc'[h] = "asleep"
    BY <1>8, <1>pc, <2>2 DEF Log, Done
  <2>4. ASSUME NEW k \in DOMAIN mails, mails[k].kind = "incident_reminder"
        PROVE  \E e \in log' : /\ e.incident = mails[k].incident /\ e.kind = "incident_reminder"
                               /\ mails[k].at <= e.at
    <3>1. CASE note[h] = "incident_reminder" /\ found[h] = mails[k].incident
      <4>1. new \in log' /\ new.incident = found[h] /\ new.kind = note[h] /\ new.at = now
        BY <2>3
      <4>2. mails[k].at <= now
        BY DEF Remembered
      <4> QED
        BY <3>1, <4>1, <4>2
    <3>2. CASE ~(note[h] = "incident_reminder" /\ found[h] = mails[k].incident)
      BY <2>3, <2>4, <3>2 DEF Remembered
    <3> QED
      BY <3>1, <3>2
  <2>5. ReminderSpacing'
    BY <2>1 DEF Remembered, ReminderSpacing
  <2> QED
    BY <2>1, <2>3, <2>4, <2>5 DEF Remembered
<1>9. ~LogFails(h) /\ ~Abort(h) /\ ~Delete
  BY DEF LogIsKept, HandlersFinish, LogFails, Abort, Delete
<1> QED
  BY <1>0, <1>1, <1>2, <1>3, <1>4, <1>5, <1>6, <1>7, <1>8, <1>9 DEF Next, Step

\* If in addition the service is not deleted under its handler, two reminders
\* that reach the owners are a cooldown apart: ReminderSpacing fails in the code
\* only where a reminder was mailed and its row of notification_log is missing.
THEOREM ReminderSpacingWhenLogIsKept ==
  ASSUME OneWorker, LogIsKept PROVE Spec => []ReminderSpacing
<1> DEFINE Inv == OneWorkerInv /\ \A h \in Handlers : Remembered(h)
<1>1. Init => Inv
  <2> SUFFICES ASSUME Init PROVE Inv
    OBVIOUS
  <2>1. DOMAIN mails = {} /\ alive /\ \A h \in Handlers : pc[h] = "asleep"
    BY DEF Init
  <2> QED
    BY <2>1, OneWorkerInit DEF Remembered, ReminderSpacing
<1>2. Inv /\ [Next]_vars => Inv'
  BY OneWorkerStep, RememberedStep
<1>3. Inv => ReminderSpacing
  BY DEF OneWorker, Remembered
<1> QED
  BY <1>1, <1>2, <1>3, PTL DEF Spec

-----------------------------------------------------------------------------
(***************************************************************************)
(* The refinement of module Outage: every step of the only worker judges,  *)
(* begins or ends an outage, tells the owners, or changes nothing of it.   *)
(***************************************************************************)
LEMMA OnlyWorker ==
    ASSUME OneWorker
    PROVE  TheWorker \in Handlers /\ \A h \in Handlers : h = TheWorker
BY DEF OneWorker, TheWorker

\* What is recorded of the outages changes only with the incidents and the mails.
LEMMA OutagesSame ==
    ASSUME UNCHANGED <<incidents, mails>>
    PROVE  Outages' = Outages
BY DEF Outages, Told, About

\* The verdict is the check, judged.
LEMMA VerdictType ==
    ASSUME OneWorker, TypeOK
    PROVE  /\ Verdict \in O!Verdicts
           /\ Verdict.at = check[TheWorker].at
           /\ Verdict.bad = bad[TheWorker]
           /\ Verdict.breach = breach[TheWorker]
<1>1. TheWorker \in Handlers
  BY OnlyWorker
<1>2. check[TheWorker].at \in Nat /\ bad[TheWorker] \in BOOLEAN /\ breach[TheWorker] \in BOOLEAN
  BY <1>1 DEF TypeOK, Checks
<1> QED
  BY <1>2 DEF Verdict, O!Verdicts

\* The steps that only read, and those that write something else.
LEMMA OutageStutter ==
    ASSUME UNCHANGED <<incidents, mails, alive, check, bad, breach>>
    PROVE  UNCHANGED O!outageVars
<1>1. Outages' = Outages
  BY OutagesSame
<1>2. Verdict' = Verdict
  BY DEF Verdict
<1> QED
  BY <1>1, <1>2 DEF O!outageVars

LEMMA OutageJudge ==
    ASSUME OneWorker, TypeOK, TypeOK', UNCHANGED <<incidents, mails, alive>>,
           check'[TheWorker].at >= check[TheWorker].at
    PROVE  O!Judge
<1>1. Outages' = Outages
  BY OutagesSame
<1>2. Verdict' \in O!Verdicts
  <2>1. TheWorker \in Handlers
    BY OnlyWorker
  <2>2. check'[TheWorker].at \in Nat /\ bad'[TheWorker] \in BOOLEAN /\ breach'[TheWorker] \in BOOLEAN
    BY <2>1 DEF TypeOK, Checks
  <2> QED
    BY <2>2 DEF Verdict, O!Verdicts
<1>3. Verdict'.at = check'[TheWorker].at /\ Verdict.at = check[TheWorker].at
  BY DEF Verdict
<1> QED
  BY <1>1, <1>2, <1>3 DEF O!Judge

\* The outage of an incident.
LEMMA OutageOf ==
    ASSUME NEW i \in DOMAIN incidents
    PROVE  /\ i \in DOMAIN Outages
           /\ Outages[i] = [from |-> incidents[i].opened, to |-> incidents[i].closed,
                            breach |-> incidents[i].breach,
                            told |-> Told(i)]
           /\ Outages[i].from = incidents[i].opened
           /\ Outages[i].to = incidents[i].closed
           /\ Outages[i].breach = incidents[i].breach
           /\ Outages[i].told = Told(i)
BY DEF Outages

LEMMA OutagesLasting ==
    ASSUME NEW b PROVE O!Lasting(b) = Open(b)
<1>1. DOMAIN Outages = DOMAIN incidents
  BY DEF Outages
<1> QED
  BY <1>1, OutageOf DEF O!Lasting, Open

\* A check is handled before another one: nothing recorded is as young.
LEMMA OutageNews ==
    ASSUME OneWorker, OneWorkerInv, pc[TheWorker] \in Judging
    PROVE  O!News
<1>1. TheWorker \in Handlers /\ TypeOK /\ InTime(TheWorker)
  BY OnlyWorker DEF OneWorkerInv, IncidentsInv
<1>2. Verdict.at = check[TheWorker].at
  BY DEF Verdict
<1>3. DOMAIN Outages = DOMAIN incidents
  BY DEF Outages
<1>4. ASSUME NEW i \in DOMAIN incidents
      PROVE  /\ Outages[i].from < Verdict.at
             /\ Outages[i].to # None => Outages[i].to < Verdict.at
  <2>1. Outages[i].from = incidents[i].opened /\ Outages[i].to = incidents[i].closed
    BY OutageOf
  <2>2. incidents[i].opened # None
    BY <1>1, TimeFacts
  <2>3. \A t \in {incidents[i].opened, incidents[i].closed} \ {None} : t < check[TheWorker].at
    BY <1>1 DEF InTime
  <2> QED
    BY <1>2, <2>1, <2>2, <2>3
<1> QED
  BY <1>3, <1>4 DEF O!News

\* The outages after a step, one by one.
LEMMA OutageNext ==
    ASSUME NEW i \in DOMAIN incidents'
    PROVE  /\ DOMAIN Outages' = DOMAIN incidents'
           /\ Outages'[i] = [from |-> incidents'[i].opened, to |-> incidents'[i].closed,
                             breach |-> incidents'[i].breach, told |-> Told(i)']
BY DEF Outages

\* Functions that differ in one place.
LEMMA ChangedAt ==
    ASSUME NEW f, NEW g, NEW x \in DOMAIN f, NEW v,
           f = [y \in DOMAIN f |-> f[y]], g = [y \in DOMAIN f |-> g[y]],
           g[x] = v, \A y \in DOMAIN f \ {x} : g[y] = f[y]
    PROVE  g = [f EXCEPT ![x] = v]
OBVIOUS

LEMMA OutagesAreFunctions ==
    /\ Outages = [i \in DOMAIN incidents |-> Outages[i]]
    /\ Outages' = [i \in DOMAIN incidents' |-> Outages'[i]]
    /\ DOMAIN Outages = DOMAIN incidents
    /\ DOMAIN Outages' = DOMAIN incidents'
BY DEF Outages

LEMMA OutageBegin ==
    ASSUME OneWorker, OneWorkerInv, TypeOK',
           Create(TheWorker), alive, Open(breach[TheWorker]) = {}
    PROVE  O!Begin
<1> DEFINE w == TheWorker
           new == [opened |-> check[w].at, closed |-> None, breach |-> breach[w]]
           first == [from |-> check[w].at, to |-> None, breach |-> breach[w], told |-> {}]
<1>0. PICK n : n = Len(incidents) + 1
  OBVIOUS
<1>1. w \in Handlers /\ TypeOK /\ Decided(w) /\ MailsAreCommitted
  BY OnlyWorker DEF OneWorkerInv, IncidentsInv
<1>2. pc[w] = "create" /\ UNCHANGED <<alive, mails, check, bad, breach>>
  BY DEF Create
<1>3. incidents' = Append(incidents, new)
  BY DEF Create, Insert
<1>4. incidents \in Seq(Rows) /\ new \in Rows
  BY <1>1 DEF TypeOK, Rows, Checks
<1>5. new.opened = check[w].at /\ new.closed = None /\ new.breach = breach[w]
  OBVIOUS
<1> HIDE DEF new
<1>6. /\ DOMAIN incidents' = DOMAIN incidents \cup {n} /\ n \notin DOMAIN incidents
      /\ incidents'[n] = new
      /\ \A i \in DOMAIN incidents : incidents'[i] = incidents[i]
  BY <1>0, <1>3, <1>4, AppendProperties
<1>7. Told(n)' = {} /\ \A i \in DOMAIN incidents : Told(i)' = Told(i)
  <2>1. \A k \in DOMAIN mails : mails[k].incident # n
    BY <1>1, <1>6 DEF MailsAreCommitted
  <2>2. mails' = mails
    BY <1>2
  <2>3. About(n, Notes)' = {}
    BY <2>1, <2>2 DEF About
  <2>4. ASSUME NEW i \in DOMAIN incidents PROVE Told(i)' = Told(i)
    BY <2>2 DEF Told, About
  <2> QED
    BY <2>3, <2>4 DEF Told
<1>8. Outages' = [i \in DOMAIN Outages \cup {n} |-> IF i = n THEN first ELSE Outages[i]]
  <2>1. Outages'[n] = first
    BY <1>5, <1>6, <1>7, OutageNext
  <2>2. ASSUME NEW i \in DOMAIN incidents PROVE i # n /\ Outages'[i] = Outages[i]
    BY <1>6, <1>7, OutageNext, OutageOf
  <2> HIDE DEF first
  <2>3. Outages' = [i \in DOMAIN incidents \cup {n} |-> Outages'[i]]
    BY <1>6, OutagesAreFunctions
  <2> QED
    BY <2>1, <2>2, <2>3, OutagesAreFunctions
<1>9. n \in DOMAIN Outages' \ DOMAIN Outages
  BY <1>6, OutagesAreFunctions
<1>10. bad[w] /\ pc[w] \in Judging
  BY <1>1, <1>2 DEF Decided, Judging
<1>11. O!News
  BY <1>10, OutageNews
<1>12. Verdict' = Verdict /\ Verdict.at = check[w].at /\ Verdict.bad = bad[w] /\ Verdict.breach = breach[w]
  BY <1>2 DEF Verdict
<1>13. O!Lasting(Verdict.breach) = {}
  BY <1>12, OutagesLasting
<1> QED
  BY <1>2, <1>8, <1>9, <1>10, <1>11, <1>12, <1>13 DEF O!Begin

LEMMA OutageEnd ==
    ASSUME OneWorker, OneWorkerInv, Close(TheWorker), alive
    PROVE  O!End
<1> DEFINE w == TheWorker
<1>0. PICK f : f = found[w]
  OBVIOUS
<1>1. w \in Handlers /\ TypeOK /\ Decided(w)
  BY OnlyWorker DEF OneWorkerInv, IncidentsInv
<1>2. pc[w] = "close" /\ UNCHANGED <<alive, mails, check, bad, breach>>
  BY DEF Close
<1>3. ~bad[w] /\ f \in Open(breach[w]) /\ pc[w] \in Judging
  BY <1>0, <1>1, <1>2 DEF Decided, Judging
<1>4. f \in DOMAIN incidents
  BY <1>3 DEF Open
<1>5. /\ DOMAIN incidents' = DOMAIN incidents
      /\ incidents'[f].opened = incidents[f].opened
      /\ incidents'[f].closed = check[w].at
      /\ incidents'[f].breach = incidents[f].breach
      /\ \A j \in DOMAIN incidents \ {f} : incidents'[j] = incidents[j]
  <2>1. CloseRow(f, check[w].at)
    BY <1>0, <1>4 DEF Close, CloseRow
  <2>2. incidents \in Seq(Rows) /\ check[w].at \in Nat
    BY <1>1 DEF TypeOK, Rows, Checks
  <2> QED
    BY <1>4, <2>1, <2>2, CloseRowType
<1>6. ASSUME NEW i PROVE Told(i)' = Told(i)
  BY <1>2 DEF Told, About
<1>7. Outages' = [Outages EXCEPT ![f].to = check[w].at]
  <2> DEFINE ended == [Outages[f] EXCEPT !.to = check[w].at]
  <2>1. Outages'[f] = ended
    <3>1. Outages'[f] = [from |-> incidents[f].opened, to |-> check[w].at,
                         breach |-> incidents[f].breach, told |-> Told(f)]
      BY <1>4, <1>5, <1>6, OutageNext
    <3>2. Outages[f] = [from |-> incidents[f].opened, to |-> incidents[f].closed,
                        breach |-> incidents[f].breach, told |-> Told(f)]
      BY <1>4, OutageOf
    <3>3. ended = [from |-> incidents[f].opened, to |-> check[w].at,
                   breach |-> incidents[f].breach, told |-> Told(f)]
      BY <3>2
    <3> QED
      BY <3>1, <3>3
  <2>2. ASSUME NEW i \in DOMAIN incidents \ {f} PROVE Outages'[i] = Outages[i]
    BY <1>5, <1>6, OutageNext, OutageOf
  <2> HIDE DEF ended
  <2>3. Outages' = [Outages EXCEPT ![f] = ended]
    BY <1>4, <1>5, <2>1, <2>2, OutagesAreFunctions, ChangedAt
  <2> QED
    BY <2>3 DEF ended
<1>8. O!News
  BY <1>3, OutageNews
<1>9. Verdict' = Verdict /\ Verdict.at = check[w].at /\ Verdict.bad = bad[w] /\ Verdict.breach = breach[w]
  BY <1>2 DEF Verdict
<1>10. f \in O!Lasting(Verdict.breach)
  BY <1>3, <1>9, OutagesLasting
<1> QED
  BY <1>2, <1>3, <1>7, <1>8, <1>9, <1>10 DEF O!End

LEMMA OutageTell ==
    ASSUME OneWorker, OneWorkerInv, Mail(TheWorker), alive, ~UNCHANGED mails
    PROVE  O!Tell
<1> DEFINE w == TheWorker
<1>0. PICK f, kind, m : f = found[w] /\ kind = note[w] /\ m = Len(mails) + 1
  OBVIOUS
<1> DEFINE new == [incident |-> f, kind |-> kind, at |-> now]
<1>1. /\ w \in Handlers /\ TypeOK /\ WorkFits(w) /\ MailFits(w)
  BY OnlyWorker DEF OneWorkerInv, IncidentsInv
<1>2. pc[w] = "mail" /\ UNCHANGED <<alive, incidents, check, bad, breach>>
  BY DEF Mail, db, local
<1>3. mails' = Append(mails, new)
  BY <1>0 DEF Mail
<1>4. /\ f \in DOMAIN incidents
      /\ incidents[f].breach = breach[w]
      /\ kind = "sla_breach" <=> breach[w]
      /\ kind = "incident_closed" <=> incidents[f].closed # None
      /\ kind \in Notes
  BY <1>0, <1>1, <1>2 DEF WorkFits, TypeOK
<1>5. /\ DOMAIN mails' = DOMAIN mails \cup {m} /\ m \notin DOMAIN mails /\ mails'[m] = new
      /\ \A k \in DOMAIN mails : mails'[k] = mails[k]
  <2>1. mails \in Seq(Sent) /\ new \in Sent
    BY <1>0, <1>1 DEF TypeOK, Sent
  <2> QED
    BY <1>0, <1>3, <2>1, AppendProperties
<1>6. new.incident = f /\ new.kind = kind
  OBVIOUS
<1> HIDE DEF new
<1>7. ASSUME NEW i
      PROVE  About(i, Notes)' = IF i = f THEN About(i, Notes) \cup {m} ELSE About(i, Notes)
  BY <1>4, <1>5, <1>6 DEF About
<1>8. Told(f)' = Told(f) \cup {kind}
  <2>1. \A k \in About(f, Notes) : mails'[k].kind = mails[k].kind
    BY <1>5 DEF About
  <2>2. mails'[m].kind = kind
    BY <1>5, <1>6
  <2>3. About(f, Notes)' = About(f, Notes) \cup {m}
    BY <1>7
  <2>4. {mails'[k].kind : k \in About(f, Notes) \cup {m}} = {mails[k].kind : k \in About(f, Notes)} \cup {kind}
    BY <2>1, <2>2
  <2> QED
    BY <2>3, <2>4 DEF Told
<1>9. ASSUME NEW i, i # f PROVE Told(i)' = Told(i)
  <2>1. \A k \in About(i, Notes) : mails'[k].kind = mails[k].kind
    BY <1>5 DEF About
  <2>2. About(i, Notes)' = About(i, Notes)
    BY <1>7, <1>9
  <2>3. {mails'[k].kind : k \in About(i, Notes)} = {mails[k].kind : k \in About(i, Notes)}
    BY <2>1
  <2> QED
    BY <2>2, <2>3 DEF Told
<1>10. Outages' = [Outages EXCEPT ![f].told = @ \cup {kind}]
  <2> DEFINE told == [Outages[f] EXCEPT !.told = @ \cup {kind}]
  <2>1. Outages'[f] = told
    <3>1. Outages'[f] = [from |-> incidents[f].opened, to |-> incidents[f].closed,
                         breach |-> incidents[f].breach, told |-> Told(f) \cup {kind}]
      BY <1>2, <1>4, <1>8, OutageNext
    <3>2. Outages[f] = [from |-> incidents[f].opened, to |-> incidents[f].closed,
                        breach |-> incidents[f].breach, told |-> Told(f)]
      BY <1>4, OutageOf
    <3>3. told = [from |-> incidents[f].opened, to |-> incidents[f].closed,
                  breach |-> incidents[f].breach, told |-> Told(f) \cup {kind}]
      BY <3>2
    <3> QED
      BY <3>1, <3>3
  <2>2. ASSUME NEW i \in DOMAIN incidents \ {f} PROVE Outages'[i] = Outages[i]
    BY <1>2, <1>9, OutageNext, OutageOf
  <2> HIDE DEF told
  <2>3. Outages' = [Outages EXCEPT ![f] = told]
    BY <1>2, <1>4, <2>1, <2>2, OutagesAreFunctions, ChangedAt
  <2> QED
    BY <2>3 DEF told
<1>11. O!Announces(f, kind) \/ O!Reminds(f, kind) \/ O!Closes(f, kind)
  <2>1. /\ Outages[f].told = Told(f)
        /\ Outages[f].to = incidents[f].closed /\ Outages[f].breach = breach[w]
    BY <1>4, OutageOf
  <2>2. CASE kind \in Opening
    <3>1. About(f, Notes) = {}
      BY <1>0, <1>1, <1>2, <2>2 DEF MailFits, Announcing
    <3>2. Outages[f].told = {}
      BY <2>1, <3>1 DEF Told
    <3>3. incidents[f].closed = None
      BY <1>4, <2>2 DEF Opening
    <3>4. kind = IF Outages[f].breach THEN "sla_breach" ELSE "incident_opened"
      BY <1>4, <2>1, <2>2 DEF Opening
    <3> QED
      BY <2>1, <3>2, <3>3, <3>4 DEF O!Announces
  <2>3. CASE kind = "incident_reminder"
    BY <1>4, <2>1, <2>3 DEF O!Reminds
  <2>4. CASE kind = "incident_closed"
    <3>1. About(f, {"incident_closed"}) = {}
      BY <1>0, <1>1, <1>2, <2>4 DEF MailFits, Opening
    <3>2. "incident_closed" \notin Outages[f].told
      BY <2>1, <3>1 DEF Told, About
    <3> QED
      BY <1>4, <2>1, <2>4, <3>2 DEF O!Closes
  <2> QED
    BY <1>4, <2>2, <2>3, <2>4 DEF Notes, Opening
<1>12. f \in DOMAIN Outages
  BY <1>4, OutageOf
<1>13. kind \in {"incident_opened", "sla_breach", "incident_reminder", "incident_closed"}
  BY <1>4 DEF Notes
<1>14. Verdict' = Verdict
  BY <1>2 DEF Verdict
<1> QED
  BY <1>2, <1>10, <1>11, <1>12, <1>13, <1>14 DEF O!Tell

\* Whoever mails about a deleted service tells nothing of an outage recorded.
LEMMA OutageGone ==
    ASSUME incidents = <<>>, incidents' = <<>>
    PROVE  Outages' = Outages /\ Outages = O!NoOutages
<1>1. DOMAIN incidents = {} /\ DOMAIN incidents' = {}
  OBVIOUS
<1> QED
  BY <1>1 DEF Outages, O!NoOutages

LEMMA OutageStep ==
    ASSUME OneWorker, OneWorkerInv, OneWorkerInv', [Next]_vars
    PROVE  [O!Next]_(O!outageVars)
<1> DEFINE w == TheWorker
<1>0. /\ w \in Handlers /\ \A h \in Handlers : h = w
      /\ TypeOK /\ TypeOK' /\ InTime(w)
      /\ ~alive => incidents = <<>>
  BY OnlyWorker DEF OneWorkerInv, IncidentsInv
<1>1. CASE Tick \/ Retarget \/ UNCHANGED vars
  BY <1>1, OutageStutter DEF Tick, Retarget, vars, db, local
<1>2. CASE Delete
  <2>1. incidents' = <<>> /\ alive /\ ~alive' /\ UNCHANGED <<check, bad, breach>>
    BY <1>2 DEF Delete, local
  <2>2. Outages' = O!NoOutages
    BY <2>1 DEF Outages, O!NoOutages
  <2>3. Verdict' = Verdict
    BY <2>1 DEF Verdict
  <2> QED
    BY <2>1, <2>2, <2>3 DEF O!Remove, O!Next
<1>3. CASE Check(w)
  <2>1. check'[w].at = now /\ UNCHANGED <<incidents, mails, alive>>
    BY <1>0, <1>3 DEF Check, TypeOK, db
  <2>2. check'[w].at >= check[w].at
    BY <1>0, <2>1 DEF InTime, TypeOK, Checks
  <2> QED
    BY <1>0, <2>1, <2>2, OutageJudge DEF O!Next
<1>4. CASE Load(w) \/ History(w)
  <2>1. UNCHANGED <<incidents, mails, alive, check>>
    BY <1>4 DEF Load, History, db
  <2>2. check'[w].at >= check[w].at
    BY <1>0, <2>1 DEF TypeOK, Checks
  <2> QED
    BY <1>0, <2>1, <2>2, OutageJudge DEF O!Next
<1>5. CASE Save(w) \/ SaveFails(w) \/ Find(w) \/ Remind(w) \/ Log(w) \/ LogFails(w) \/ Abort(w)
  BY <1>5, OutageStutter DEF Save, SaveFails, Find, Remind, Log, LogFails, Abort, db, local
<1>6. CASE Create(w)
  <2>1. CASE alive /\ Open(breach[w]) = {}
    BY <1>0, <1>6, <2>1, OutageBegin DEF O!Next
  <2>2. CASE ~(alive /\ Open(breach[w]) = {})
    BY <1>6, <2>2, OutageStutter DEF Create
  <2> QED
    BY <2>1, <2>2
<1>7. CASE Close(w)
  <2>1. CASE alive
    BY <1>7, <2>1, OutageEnd DEF O!Next
  <2>2. CASE ~alive
    <3>1. found[w] \notin DOMAIN incidents
      BY <1>0, <2>2
    <3> QED
      BY <1>7, <3>1, OutageStutter DEF Close
  <2> QED
    BY <2>1, <2>2
<1>8. CASE Mail(w)
  <2>1. UNCHANGED <<incidents, alive, check, bad, breach>>
    BY <1>8 DEF Mail, db, local
  <2>2. CASE UNCHANGED mails
    BY <2>1, <2>2, OutageStutter
  <2>3. CASE alive /\ ~UNCHANGED mails
    BY <1>8, <2>3, OutageTell DEF O!Next
  <2>4. CASE ~alive
    <3>1. Outages' = Outages
      BY <1>0, <2>1, <2>4, OutageGone
    <3>2. Verdict' = Verdict
      BY <2>1 DEF Verdict
    <3> QED
      BY <2>1, <3>1, <3>2 DEF O!outageVars
  <2> QED
    BY <2>2, <2>3, <2>4
<1> QED
  BY <1>0, <1>1, <1>2, <1>3, <1>4, <1>5, <1>6, <1>7, <1>8 DEF Next, Step

\* The only worker of a service records and tells what module Outage promises,
\* whatever fails and wherever it is cut off.
THEOREM ImplementsOutageHolds == ASSUME OneWorker PROVE Spec => ImplementsOutage
<1>1. Init => O!Init
  <2> SUFFICES ASSUME Init PROVE O!Init
    OBVIOUS
  <2>1. incidents = <<>> /\ alive
    BY DEF Init
  <2>2. Outages = O!NoOutages
    BY <2>1 DEF Outages, O!NoOutages
  <2>3. Verdict \in O!Verdicts
    BY TypeInit, VerdictType
  <2> QED
    BY <2>1, <2>2, <2>3 DEF O!Init
<1>2. OneWorkerInv /\ OneWorkerInv' /\ [Next]_vars => [O!Next]_(O!outageVars)
  BY OutageStep
<1> QED
  BY <1>1, <1>2, OneWorkerConsistent, PTL DEF Spec, ImplementsOutage, O!Spec
=============================================================================
