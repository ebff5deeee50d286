------------------------------ MODULE Migrations ------------------------------
(***************************************************************************)
(* The Alembic revisions of the database (alembic/versions), and commands  *)
(* that run them: `pa-server migrate` at the start of every container, and *)
(* `alembic downgrade` by an operator.  A command reads alembic_version,   *)
(* then executes what it takes to be missing in ONE transaction (env.py);  *)
(* it locks a table when a revision first touches it and a row of          *)
(* alembic_version when it changes it, so commands run side by side until  *)
(* one needs what the other has, and learn only then what has changed      *)
(* since they read.                                                        *)
(*                                                                         *)
(* Of the schema only what revisions change and can fail on is kept, of    *)
(* the rows only what they look at; incidents stand for their log and the  *)
(* check results as well.                                                  *)
(***************************************************************************)
EXTENDS FiniteSets

CONSTANTS Users, Services,   \* the rows there may be
          Migrators          \* commands in progress at a time

Revisions == {"0001", "003", "004", "7e8a", "005", "006", "007", "008", "009"}

\* down_revision
Parents(r) == CASE r = "0001" -> {}
                [] r = "003"  -> {"0001"}
                [] r = "004"  -> {"003"}
                [] r = "7e8a" -> {"004"}
                [] r = "005"  -> {"7e8a"}
                [] r = "006"  -> {"7e8a"}
                [] r = "007"  -> {"005", "006"}
                [] r = "008"  -> {"007"}
                [] r = "009"  -> {"008"}

\* With a revision, its parents.
Closed(R) == \A r \in R : Parents(r) \subseteq R
Versions == {R \in SUBSET Revisions : Closed(R)}

\* A revision and its ancestors, and what rows of alembic_version stand for.
Line == [r \in Revisions |-> {a \in Revisions : \A R \in Versions : r \in R => a \in R}]
Known(H) == UNION {Line[r] : r \in H}
Overlapping(H) == \E v \in H : v \in Known(H \ {v})

\* A revision of a version that no other builds on.
Heads(R) == {r \in R : \A c \in R : r \notin Parents(c)}

UserFeatures == {"table", "is_admin", "is_active", "is_superuser"}
ServiceFeatures == {"table", "owner_emails", "sla", "sla_required"}
IncidentFeatures == {"table", "one_open", "one_open_of_kind", "cascade"}

\* Each table: what it has of the schema, and its rows.
Database ==
  [users     : [schema   : SUBSET UserFeatures,
                ids      : SUBSET Users,
                admin    : SUBSET Users,           \* is_admin
                super    : SUBSET Users,           \* is_superuser
                inactive : SUBSET Users],          \* is_active false
   services  : [schema   : SUBSET ServiceFeatures,
                ids      : SUBSET Services,
                targets  : SUBSET Services],       \* with an sla_target_pct
   incidents : [schema   : SUBSET IncidentFeatures,
                open     : SUBSET (Services \X BOOLEAN)]]   \* open ones, sla_breach

Tables == {"users", "services", "incidents"}

Empty == [users     |-> [schema |-> {}, ids |-> {}, admin |-> {}, super |-> {}, inactive |-> {}],
          services  |-> [schema |-> {}, ids |-> {}, targets |-> {}],
          incidents |-> [schema |-> {}, open |-> {}]]

VARIABLES db,      \* the tables, as committed
          rows,    \* alembic_version, as committed
          cmd      \* the commands

vars == <<db, rows, cmd>>

\* A command and its transaction.
Command ==
  [pc    : {"idle", "running"},
   way   : {"up", "down"},
   read  : SUBSET Revisions,    \* the rows of alembic_version it has read
   heads : SUBSET Revisions,    \* what it has made of them (HeadMaintainer.heads)
   todo  : SUBSET Revisions,    \* the revisions not yet executed and recorded
   ddl   : SUBSET Revisions,    \* the one executed but not recorded
   holds : SUBSET Tables,       \* the tables it has locked
   work  : Database]            \* their contents as the transaction sees them

Idle == [pc |-> "idle", way |-> "up", read |-> {}, heads |-> {}, todo |-> {}, ddl |-> {},
         holds |-> {}, work |-> Empty]

Running(m) == cmd[m].pc = "running"

\* The tables of T from one database, the others from another.
Choice(T, c, d) ==
  [users     |-> IF "users"     \in T THEN c.users     ELSE d.users,
   services  |-> IF "services"  \in T THEN c.services  ELSE d.services,
   incidents |-> IF "incidents" \in T THEN c.incidents ELSE d.incidents]

\* The database as a command's transaction sees it.
View(c) == Choice(c.holds, c.work, db)

-----------------------------------------------------------------------------
(* The revisions: the tables they lock, whether PostgreSQL executes them,  *)
(* and what they make of the database.                                     *)

\* A new foreign key locks the table it refers to as well.
Touches(r) == CASE r = "0001" -> Tables
                [] r \in {"003", "005"} -> {"services"}
                [] r = "004"  -> {"incidents"}
                [] r = "7e8a" -> {"services", "incidents", "users"}
                [] r \in {"006", "008"} -> {"users"}
                [] r = "007"  -> {}
                [] r = "009"  -> {"services", "incidents"}

Up0001(d) ==
  [ok  |-> \A t \in Tables : "table" \notin d[t].schema,
   new |-> [d EXCEPT !.users.schema = @ \cup {"table"}, !.services.schema = @ \cup {"table"},
                     !.incidents.schema = @ \cup {"table", "one_open"}]]
Down0001(d) == [ok |-> \A t \in Tables : "table" \in d[t].schema, new |-> Empty]

\* ADD COLUMN IF NOT EXISTS
Up003(d) == [ok  |-> "table" \in d.services.schema,
             new |-> [d EXCEPT !.services.schema = @ \cup {"owner_emails"}]]
Down003(d) == [ok  |-> "owner_emails" \in d.services.schema,
               new |-> [d EXCEPT !.services.schema = @ \ {"owner_emails"}]]

\* A unique index on rows that are not unique is refused.
OneKindOpen(open) == \A s \in Services : ~({<<s, TRUE>>, <<s, FALSE>>} \subseteq open)

Up004(d) ==
  [ok  |-> "table" \in d.incidents.schema /\ "one_open_of_kind" \notin d.incidents.schema,
   new |-> [d EXCEPT !.incidents.schema = (@ \ {"one_open"}) \cup {"one_open_of_kind"}]]

\* Mutants: the new index stays; the old index does not come back, or is not unique.
Down004Keeps(d) ==
  [ok  |-> "one_open" \notin d.incidents.schema /\ OneKindOpen(d.incidents.open),
   new |-> [d EXCEPT !.incidents.schema = @ \cup {"one_open"}]]
Down004NoIndex(d) ==
  [ok  |-> "table" \in d.incidents.schema,
   new |-> [d EXCEPT !.incidents.schema = @ \ {"one_open_of_kind"}]]
Down004NotUnique(d) ==
  [ok  |-> "table" \in d.incidents.schema /\ "one_open" \notin d.incidents.schema,
   new |-> [d EXCEPT !.incidents.schema = (@ \ {"one_open_of_kind"}) \cup {"one_open"}]]

Down004(d) ==
  [ok  |-> /\ "table" \in d.incidents.schema /\ "one_open" \notin d.incidents.schema
           /\ OneKindOpen(d.incidents.open),
   new |-> [d EXCEPT !.incidents.schema = (@ \ {"one_open_of_kind"}) \cup {"one_open"}]]

\* services.updated_at is NOT NULL and has no default, so services must have no
\* row; the downgrade drops a constraint without naming it, which always raises.
Up7e8a(d) ==
  [ok  |-> "table" \in d.services.schema /\ "sla" \notin d.services.schema /\ d.services.ids = {},
   new |-> [d EXCEPT !.services.schema = @ \cup {"sla"}]]
Down7e8a(d) == [ok |-> FALSE, new |-> d]

\* sla_target_pct has been nullable from the start; the downgrade makes it NOT NULL.
Up005(d) == [ok  |-> "sla" \in d.services.schema,
             new |-> [d EXCEPT !.services.schema = @ \ {"sla_required"}]]
Down005(d) == [ok  |-> "sla" \in d.services.schema /\ d.services.ids = d.services.targets,
               new |-> [d EXCEPT !.services.schema = @ \cup {"sla_required"}]]

Up006(d) == [ok  |-> "table" \in d.users.schema /\ "is_admin" \notin d.users.schema,
             new |-> [d EXCEPT !.users.schema = @ \cup {"is_admin"}]]
Down006(d) == [ok  |-> "is_admin" \in d.users.schema,
               new |-> [d EXCEPT !.users.schema = @ \ {"is_admin"}, !.users.admin = {}]]

AuthFields == {"is_active", "is_superuser"}

\* Mutant: without the UPDATE.
Up008NoCopy(d) ==
  [ok  |-> AuthFields \cap d.users.schema = {} /\ "is_admin" \in d.users.schema,
   new |-> [d EXCEPT !.users.schema = (@ \ {"is_admin"}) \cup AuthFields, !.users.admin = {}]]

Up008(d) ==
  [ok  |-> AuthFields \cap d.users.schema = {} /\ "is_admin" \in d.users.schema,
   new |-> [d EXCEPT !.users.schema = (@ \ {"is_admin"}) \cup AuthFields,
                     !.users.super = d.users.admin, !.users.admin = {}]]

Down008(d) ==
  [ok  |-> AuthFields \subseteq d.users.schema /\ "is_admin" \notin d.users.schema,
   new |-> [d EXCEPT !.users.schema = (@ \ AuthFields) \cup {"is_admin"},
                     !.users.admin = d.users.super, !.users.super = {}, !.users.inactive = {}]]

\* The foreign keys are dropped and created again under the same names.
Up009(d) == [ok  |-> "table" \in d.incidents.schema,
             new |-> [d EXCEPT !.incidents.schema = @ \cup {"cascade"}]]
Down009(d) == [ok  |-> "table" \in d.incidents.schema,
               new |-> [d EXCEPT !.incidents.schema = @ \ {"cascade"}]]

Upgrade(r, d) == CASE r = "0001" -> Up0001(d)
                   [] r = "003"  -> Up003(d)
                   [] r = "004"  -> Up004(d)
                   [] r = "7e8a" -> Up7e8a(d)
                   [] r = "005"  -> Up005(d)
                   [] r = "006"  -> Up006(d)
                   [] r = "007"  -> [ok |-> TRUE, new |-> d]
                   [] r = "008"  -> Up008(d)
                   [] r = "009"  -> Up009(d)

Downgrade(r, d) == CASE r = "0001" -> Down0001(d)
                     [] r = "003"  -> Down003(d)
                     [] r = "004"  -> Down004(d)
                     [] r = "7e8a" -> Down7e8a(d)
                     [] r = "005"  -> Down005(d)
                     [] r = "006"  -> Down006(d)
                     [] r = "007"  -> [ok |-> TRUE, new |-> d]
                     [] r = "008"  -> Down008(d)
                     [] r = "009"  -> Down009(d)

-----------------------------------------------------------------------------
(* The commands.                                                           *)

\* What the schema is when a set of revisions is applied, whatever the way there,
\* but for the NOT NULL that a downgrade of 005 leaves behind.
SchemaOf(R) ==
  [users     |-> {f \in UserFeatures :
                    \/ f = "table"     /\ "0001" \in R
                    \/ f = "is_admin"  /\ "006" \in R /\ "008" \notin R
                    \/ f \in AuthFields /\ "008" \in R},
   services  |-> {f \in ServiceFeatures :
                    \/ f = "table"        /\ "0001" \in R
                    \/ f = "owner_emails" /\ "003" \in R
                    \/ f = "sla"          /\ "7e8a" \in R},
   incidents |-> {f \in IncidentFeatures :
                    \/ f = "table"            /\ "0001" \in R
                    \/ f = "one_open"         /\ "0001" \in R /\ "004" \notin R
                    \/ f = "one_open_of_kind" /\ "004" \in R
                    \/ f = "cascade"          /\ "009" \in R}]

\* A new database, or one that an earlier release has left.
Init ==
  /\ \E R \in Versions :
       /\ db = [Empty EXCEPT !.users.schema = SchemaOf(R).users,
                             !.services.schema = SchemaOf(R).services,
                             !.incidents.schema = SchemaOf(R).incidents]
       /\ rows = Heads(R)
  /\ cmd = [m \in Migrators |-> Idle]

\* The command reads alembic_version and has revisions to execute.
Plan(m, direction, R) ==
  /\ cmd[m].pc = "idle"
  /\ R # {}
  /\ cmd' = [cmd EXCEPT ![m] = [Idle EXCEPT !.pc = "running", !.way = direction,
                                            !.read = rows, !.heads = rows, !.todo = R]]
  /\ UNCHANGED <<db, rows>>

\* cli.py: command.upgrade(alembic_cfg, "heads").  Alembic does not plan from a
\* row that another stands for as well.
Migrate(m) == ~Overlapping(rows) /\ Plan(m, "up", Revisions \ Known(rows))

\* alembic downgrade, to any earlier version
Retreat(m) == \E R \in Versions : R \subseteq Known(rows) /\ Plan(m, "down", Known(rows) \ R)

\* The revisions that may be next: parents first, or children first.
Ready(c) == {r \in c.todo :
  IF c.way = "up" THEN Parents(r) \cap c.todo = {}
                  ELSE \A child \in c.todo : r \notin Parents(child)}

\* MigrationContext.run_migrations comes to a revision, and its statements have
\* their tables.
Reaches(m, r) ==
  /\ Running(m)
  /\ cmd[m].ddl = {}
  /\ r \in Ready(cmd[m])
  /\ \A n \in Migrators \ {m} : cmd[n].holds \cap Touches(r) = {}

Effect(c, r) == IF c.way = "up" THEN Upgrade(r, View(c)) ELSE Downgrade(r, View(c))

\* Its upgrade() or downgrade() is executed.
Executed(c, r) ==
  LET T == c.holds \cup Touches(r)
  IN [c EXCEPT !.ddl = {r}, !.holds = T, !.work = Choice(T, Effect(c, r).new, Empty)]

Execute(m, r) ==
  /\ Reaches(m, r)
  /\ Effect(cmd[m], r).ok
  /\ cmd' = [cmd EXCEPT ![m] = Executed(cmd[m], r)]
  /\ UNCHANGED <<db, rows>>

\* PostgreSQL refuses one of its statements.
Refuses(m, r) == Reaches(m, r) /\ ~Effect(cmd[m], r).ok

\* HeadMaintainer.update_to_step: a revision takes the place of its parents, or
\* they take its place, but for those that another head stands for.
HeadsAfter(c, r) ==
  IF c.way = "up" THEN (c.heads \ Parents(r)) \cup {r}
                  ELSE (c.heads \ {r}) \cup (Parents(r) \ Known(c.heads \ {r}))

\* The rows a transaction has deleted and inserted, an UPDATE being both; their
\* locks are its own until it ends.
Deleted(c) == c.read \ c.heads
Inserted(c) == c.heads \ c.read
Changed(c) == Deleted(c) \cup Inserted(c)

\* The rows of others that the revision deletes, and those it inserts.
ToDelete(c, r) == (c.heads \ HeadsAfter(c, r)) \cap c.read
ToInsert(c, r) == HeadsAfter(c, r) \ (c.heads \cup c.read)
ToChange(c, r) == ToDelete(c, r) \cup ToInsert(c, r)

RowsFree(m, V) == \A n \in Migrators \ {m} : Changed(cmd[n]) \cap V = {}

\* The rows to delete are there, those to insert are not, and nobody is at them.
Record(m, r) ==
  /\ Running(m)
  /\ cmd[m].ddl = {r}
  /\ ToDelete(cmd[m], r) \subseteq rows
  /\ ToInsert(cmd[m], r) \cap rows = {}
  /\ RowsFree(m, ToChange(cmd[m], r))
  /\ cmd' = [cmd EXCEPT ![m].heads = HeadsAfter(cmd[m], r), ![m].todo = @ \ {r}, ![m].ddl = {}]
  /\ UNCHANGED <<db, rows>>

\* A row to delete is gone (CommandError), one to insert is there (primary key).
Outdated(m, r) ==
  /\ Running(m)
  /\ cmd[m].ddl = {r}
  /\ \/ ~(ToDelete(cmd[m], r) \subseteq rows)
     \/ \E v \in ToInsert(cmd[m], r) \cap rows : RowsFree(m, {v})

\* Who waits for whom, for a table or for a row; a deadlock.
WaitsFor(m, n) ==
  /\ m # n /\ Running(m) /\ Running(n)
  /\ \/ cmd[m].ddl = {} /\ \E r \in Ready(cmd[m]) : Touches(r) \cap cmd[n].holds # {}
     \/ \E r \in cmd[m].ddl : ToChange(cmd[m], r) \cap Changed(cmd[n]) # {}

Deadlocked(m) ==
  \E M \in SUBSET Migrators : m \in M /\ \A n \in M : \E o \in M : WaitsFor(n, o)

\* The transaction is over, and with it its locks.
Over(m) == cmd' = [cmd EXCEPT ![m] = Idle]

\* `pa-server migrate` exits with an error, and its container does not serve: a
\* statement is refused, a row is not as expected, PostgreSQL ends a deadlock.
Fail(m) ==
  /\ \/ \E r \in Revisions : Refuses(m, r) \/ Outdated(m, r)
     \/ Deadlocked(m)
  /\ Over(m)
  /\ UNCHANGED <<db, rows>>

Killed(m) ==
  /\ Running(m)
  /\ Over(m)
  /\ UNCHANGED <<db, rows>>

Commit(m) ==
  /\ Running(m)
  /\ cmd[m].todo = {}
  /\ db' = View(cmd[m])
  /\ rows' = (rows \ Deleted(cmd[m])) \cup Inserted(cmd[m])
  /\ Over(m)

-----------------------------------------------------------------------------
(* The application, on the tables as they are.                             *)

\* A transaction on tables that no command has locked.
Use(T, d) ==
  /\ \A m \in Migrators : cmd[m].holds \cap T = {}
  /\ db' = d
  /\ UNCHANGED <<rows, cmd>>

\* create_user; a superuser of the seed script needs the column.
Register(u) ==
  /\ "table" \in db.users.schema
  /\ u \notin db.users.ids
  /\ \/ Use({"users"}, [db EXCEPT !.users.ids = @ \cup {u}])
     \/ /\ "is_superuser" \in db.users.schema
        /\ Use({"users"}, [db EXCEPT !.users.ids = @ \cup {u}, !.users.super = @ \cup {u}])

\* The other flags are set by hand; columns that do not exist cannot be.
SetFlag(u) ==
  /\ u \in db.users.ids
  /\ \/ /\ "is_admin" \in db.users.schema
        /\ Use({"users"}, [db EXCEPT !.users.admin = @ \cup {u}])
     \/ /\ "is_active" \in db.users.schema
        /\ Use({"users"}, [db EXCEPT !.users.inactive = @ \cup {u}])

AddService(s) ==
  /\ "table" \in db.services.schema
  /\ s \notin db.services.ids
  /\ \/ /\ "sla_required" \notin db.services.schema
        /\ Use({"services"}, [db EXCEPT !.services.ids = @ \cup {s}])
     \/ /\ "sla" \in db.services.schema
        /\ Use({"services"}, [db EXCEPT !.services.ids = @ \cup {s}, !.services.targets = @ \cup {s}])

\* The foreign key looks at the service.
OpenIncident(s, breach) ==
  /\ "table" \in db.incidents.schema
  /\ s \in db.services.ids
  /\ <<s, breach>> \notin db.incidents.open
  /\ <<s, ~breach>> \in db.incidents.open => "one_open" \notin db.incidents.schema
  /\ Use({"services", "incidents"}, [db EXCEPT !.incidents.open = @ \cup {<<s, breach>>}])

Next ==
  \/ \E m \in Migrators :
       \/ Migrate(m) \/ Retreat(m) \/ Fail(m) \/ Killed(m) \/ Commit(m)
       \/ \E r \in Revisions : Execute(m, r) \/ Record(m, r)
  \/ \E u \in Users : Register(u) \/ SetFlag(u)
  \/ \E s \in Services : AddService(s) \/ \E breach \in BOOLEAN : OpenIncident(s, breach)

Spec == Init /\ [][Next]_vars

-----------------------------------------------------------------------------
(* Properties.                                                             *)

\* The rows fit the tables, columns and constraints there are.
UsersFit(u) ==
  /\ u.admin \cup u.super \cup u.inactive \subseteq u.ids
  /\ "table" \notin u.schema => u.ids = {}
  /\ "is_admin" \notin u.schema => u.admin = {}
  /\ "is_superuser" \notin u.schema => u.super = {}
  /\ "is_active" \notin u.schema => u.inactive = {}

ServicesFit(s) ==
  /\ s.targets \subseteq s.ids
  /\ "table" \notin s.schema => s.ids = {}
  /\ "sla_required" \in s.schema => s.targets = s.ids

IncidentsFit(i) ==
  /\ "table" \notin i.schema => i.open = {}
  /\ "one_open" \in i.schema => OneKindOpen(i.open)

Fits(d) == d \in Database /\ UsersFit(d.users) /\ ServicesFit(d.services) /\ IncidentsFit(d.incidents)

TypeOK ==
  /\ Fits(db)
  /\ rows \subseteq Revisions
  /\ cmd \in [Migrators -> Command]
  /\ \A m \in Migrators : Fits(cmd[m].work)

\* The schema is what alembic_version says, however often commands went up and
\* down, side by side, refused or killed on the way, so that a downgrade undoes
\* what its upgrade did.  There is one way to lose the record, and nothing else is
\* lost by it: of the parallel heads 005 and 006 one command takes back the one,
\* another the other, both plan while both rows are there; they change different
\* tables and delete different rows.  Then no row is left, and the schema is that
\* of 7e8a (005_make_sla_target_nullable.py:21, 006_add_is_admin_to_users.py:27).
FollowsUsers(u, R) == u.schema = SchemaOf(R).users
FollowsServices(s, R) == s.schema \ {"sla_required"} = SchemaOf(R).services
FollowsIncidents(i, R) == i.schema = SchemaOf(R).incidents

Follows(d, R) ==
  FollowsUsers(d.users, R) /\ FollowsServices(d.services, R) /\ FollowsIncidents(d.incidents, R)

Recorded == Follows(db, Known(rows))
Unrecorded == rows = {} /\ Follows(db, Known({"7e8a"}))

SchemaFollowsRevisions == Recorded \/ Unrecorded

\* 008: "existing admins keep their privileges".  A command never changes who is an
\* administrator while there is a column to say so, and neither loses nor makes rows
\* in tables that are there before and after, whatever is committed beside it.
TellsAdmins(u) == "is_admin" \in u.schema \/ "is_superuser" \in u.schema
Admins(u) == u.admin \cup u.super
SameAdmins(u, v) == TellsAdmins(u) /\ TellsAdmins(v) => Admins(u) = Admins(v)

BothThere(s, t) == "table" \in s.schema /\ "table" \in t.schema

SameRows(c, d) ==
  /\ BothThere(c.users, d.users) => c.users.ids = d.users.ids
  /\ BothThere(c.services, d.services) =>
       c.services.ids = d.services.ids /\ c.services.targets = d.services.targets
  /\ BothThere(c.incidents, d.incidents) => c.incidents.open = d.incidents.open

AdminsKept ==
  [][\A m \in Migrators : Commit(m) => SameAdmins(db.users, db'.users) /\ SameRows(db, db')]_vars

\* `pa-server migrate` is refused, but for a deadlock, for three reasons only,
\* wherever the database has been: a release before 7e8a has left services in it;
\* since the command read alembic_version another one was committed, as when two
\* containers start at a time; or the record was lost as above, and then always.
UpgradeRefused ==
  \A m \in Migrators, r \in Revisions :
    cmd[m].way = "up" /\ (Refuses(m, r) \/ Outdated(m, r)) =>
      \/ r = "7e8a" /\ db.services.ids # {}
      \/ rows # cmd[m].read
      \/ Unrecorded

-----------------------------------------------------------------------------
(* The inductive invariants behind them.                                   *)

\* What a command leaves of a table, whatever it does to its columns.
CarriesUsers(way, u, v) ==
  /\ SameAdmins(u, v)
  /\ IF way = "up" THEN v.ids = u.ids /\ (TellsAdmins(u) => TellsAdmins(v))
     ELSE /\ "table" \in v.schema => "table" \in u.schema /\ v.ids = u.ids
          /\ TellsAdmins(v) => TellsAdmins(u)

CarriesServices(way, s, t) ==
  way = "up" \/ "table" \in t.schema =>
    /\ t.ids = s.ids /\ t.targets = s.targets
    /\ way = "up" \/ "table" \in s.schema

CarriesIncidents(way, i, j) ==
  way = "up" \/ "table" \in j.schema =>
    /\ j.open = i.open
    /\ way = "up" \/ "table" \in i.schema

\* One column at a time says who is an administrator, but for an upgrade on its
\* way from 006 to a 008 that will be refused.
OneFlag(u) == ~({"is_admin", "is_superuser"} \subseteq u.schema)

Carries(c) ==
  /\ "users" \in c.holds =>
       /\ CarriesUsers(c.way, db.users, c.work.users)
       /\ OneFlag(c.work.users) \/ (c.way = "up" /\ "008" \in c.todo \ c.ddl)
  /\ "services" \in c.holds => CarriesServices(c.way, db.services, c.work.services)
  /\ "incidents" \in c.holds => CarriesIncidents(c.way, db.incidents, c.work.incidents)

\* With a revision to execute, those that build on it.
Onward(c) == c.way = "up" => \A r \in c.todo, s \in Revisions : r \in Parents(s) => s \in c.todo

\* Tables are locked by one command at a time; what runs has changed nothing that
\* AdminsKept forbids.
KeepsInv ==
  /\ TypeOK
  /\ OneFlag(db.users)
  /\ \A m, n \in Migrators : m # n => cmd[m].holds \cap cmd[n].holds = {}
  /\ \A m \in Migrators : cmd[m].ddl \subseteq Ready(cmd[m]) /\ Onward(cmd[m]) /\ Carries(cmd[m])

\* Downgrades by somebody who sees to it that no other command runs, and upgrades as
\* they come, of several containers at a time.
Alone ==
  \A m \in Migrators :
    /\ Retreat(m) => \A n \in Migrators : ~Running(n)
    /\ Migrate(m) => \A n \in Migrators : Running(n) => cmd[n].way = "up"

DowngradesAlone == [][Alone]_vars

\* The revisions a command has executed or found.
Applied(c) == IF c.way = "up" THEN Known(c.heads) \cup c.ddl ELSE Known(c.heads) \ c.ddl

\* Then the rows are those that a command has read, or another has upgraded the
\* database meanwhile; only in the first case does its transaction come to an end.
OnRecord(c) ==
  /\ c.heads \subseteq Revisions /\ ~Overlapping(c.heads)
  /\ Deleted(c) \subseteq rows
  /\ rows = c.read \/ (c.way = "up" /\ rows = {"009"})
  /\ rows = c.read => Follows(View(c), Applied(c))
  /\ IF c.way = "up"
     THEN /\ c.todo = Revisions \ Known(c.heads)
          /\ "009" \notin c.read
          /\ c.read = {} =>
               IF "0001" \in c.todo \ c.ddl THEN c.holds = {}
               ELSE "users" \in c.holds /\ "table" \notin db.users.schema
     ELSE c.todo \subseteq Known(c.heads) /\ Closed(Known(c.heads) \ c.todo)

RecordInv ==
  /\ KeepsInv
  /\ Recorded /\ ~Overlapping(rows)
  /\ \A m \in Migrators : Running(m) => OnRecord(cmd[m])
  /\ \A m, n \in Migrators : m # n =>
       /\ Changed(cmd[m]) \cap Changed(cmd[n]) = {}
       /\ Running(m) /\ Running(n) => cmd[m].way = "up"
=============================================================================
