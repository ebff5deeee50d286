--------------------------- MODULE MigrationsProofs ---------------------------
(***************************************************************************)
(* Theorems about module Migrations, for any rows and any number of        *)
(* commands.                                                               *)
(***************************************************************************)
EXTENDS Migrations, TLAPS

(***************************************************************************)
(* The revisions, one at a time.                                           *)
(***************************************************************************)

UsersTable == [schema : SUBSET UserFeatures, ids : SUBSET Users, admin : SUBSET Users,
               super : SUBSET Users, inactive : SUBSET Users]
ServicesTable == [schema : SUBSET ServiceFeatures, ids : SUBSET Services, targets : SUBSET Services]
IncidentsTable == [schema : SUBSET IncidentFeatures, open : SUBSET (Services \X BOOLEAN)]

UsersOK(u) == u \in UsersTable /\ UsersFit(u)
ServicesOK(s) == s \in ServicesTable /\ ServicesFit(s)
IncidentsOK(i) == i \in IncidentsTable /\ IncidentsFit(i)

LEMMA DatabaseTables ==
  ASSUME NEW d
  PROVE  /\ Fits(d) => /\ UsersOK(d.users) /\ ServicesOK(d.services) /\ IncidentsOK(d.incidents)
                       /\ d = [users |-> d.users, services |-> d.services, incidents |-> d.incidents]
         /\ \A u, s, i : UsersOK(u) /\ ServicesOK(s) /\ IncidentsOK(i) =>
              Fits([users |-> u, services |-> s, incidents |-> i])
<1>1. Database = [users : UsersTable, services : ServicesTable, incidents : IncidentsTable]
  BY DEF Database, UsersTable, ServicesTable, IncidentsTable
<1> QED
  BY <1>1 DEF Fits, UsersOK, ServicesOK, IncidentsOK

\* What a revision does to each table, where it is executed.
UpUsers(r, u) ==
  CASE r = "0001" -> [u EXCEPT !.schema = @ \cup {"table"}]
    [] r = "006"  -> [u EXCEPT !.schema = @ \cup {"is_admin"}]
    [] r = "008"  -> [u EXCEPT !.schema = (@ \ {"is_admin"}) \cup AuthFields,
                               !.super = u.admin, !.admin = {}]
    [] OTHER -> u
UpServices(r, s) ==
  CASE r = "0001" -> [s EXCEPT !.schema = @ \cup {"table"}]
    [] r = "003"  -> [s EXCEPT !.schema = @ \cup {"owner_emails"}]
    [] r = "7e8a" -> [s EXCEPT !.schema = @ \cup {"sla"}]
    [] r = "005"  -> [s EXCEPT !.schema = @ \ {"sla_required"}]
    [] OTHER -> s
UpIncidents(r, i) ==
  CASE r = "0001" -> [i EXCEPT !.schema = @ \cup {"table", "one_open"}]
    [] r = "004"  -> [i EXCEPT !.schema = (@ \ {"one_open"}) \cup {"one_open_of_kind"}]
    [] r = "009"  -> [i EXCEPT !.schema = @ \cup {"cascade"}]
    [] OTHER -> i

LEMMA UpgradeByTable ==
  ASSUME NEW d, d = [users |-> d.users, services |-> d.services, incidents |-> d.incidents],
         UsersOK(d.users), ServicesOK(d.services), IncidentsOK(d.incidents), NEW r \in Revisions
  PROVE  Upgrade(r, d).new = [users |-> UpUsers(r, d.users), services |-> UpServices(r, d.services),
                              incidents |-> UpIncidents(r, d.incidents)]
<1> USE DEF UsersOK, ServicesOK, IncidentsOK, UsersTable, ServicesTable, IncidentsTable
<1>1. CASE r = "0001"
  BY <1>1 DEF Upgrade, Up0001, UpUsers, UpServices, UpIncidents
<1>2. CASE r = "003"
  BY <1>2 DEF Upgrade, Up003, UpUsers, UpServices, UpIncidents
<1>3. CASE r = "004"
  BY <1>3 DEF Upgrade, Up004, UpUsers, UpServices, UpIncidents
<1>4. CASE r = "7e8a"
  BY <1>4 DEF Upgrade, Up7e8a, UpUsers, UpServices, UpIncidents
<1>5. CASE r = "005"
  BY <1>5 DEF Upgrade, Up005, UpUsers, UpServices, UpIncidents
<1>6. CASE r = "006"
  BY <1>6 DEF Upgrade, Up006, UpUsers, UpServices, UpIncidents
<1>7. CASE r = "007"
  BY <1>7 DEF Upgrade, UpUsers, UpServices, UpIncidents
<1>8. CASE r = "008"
  BY <1>8 DEF Upgrade, Up008, UpUsers, UpServices, UpIncidents
<1>9. CASE r = "009"
  BY <1>9 DEF Upgrade, Up009, UpUsers, UpServices, UpIncidents
<1> QED
  BY <1>1, <1>2, <1>3, <1>4, <1>5, <1>6, <1>7, <1>8, <1>9 DEF Revisions

DownUsers(r, u) ==
  CASE r = "0001" -> Empty.users
    [] r = "006"  -> [u EXCEPT !.schema = @ \ {"is_admin"}, !.admin = {}]
    [] r = "008"  -> [u EXCEPT !.schema = (@ \ AuthFields) \cup {"is_admin"},
                               !.admin = u.super, !.super = {}, !.inactive = {}]
    [] OTHER -> u
DownServices(r, s) ==
  CASE r = "0001" -> Empty.services
    [] r = "003"  -> [s EXCEPT !.schema = @ \ {"owner_emails"}]
    [] r = "005"  -> [s EXCEPT !.schema = @ \cup {"sla_required"}]
    [] OTHER -> s
DownIncidents(r, i) ==
  CASE r = "0001" -> Empty.incidents
    [] r = "004"  -> [i EXCEPT !.schema = (@ \ {"one_open_of_kind"}) \cup {"one_open"}]
    [] r = "009"  -> [i EXCEPT !.schema = @ \ {"cascade"}]
    [] OTHER -> i

LEMMA DowngradeByTable ==
  ASSUME NEW d, d = [users |-> d.users, services |-> d.services, incidents |-> d.incidents],
         UsersOK(d.users), ServicesOK(d.services), IncidentsOK(d.incidents), NEW r \in Revisions
  PROVE  Downgrade(r, d).new = [users |-> DownUsers(r, d.users), services |-> DownServices(r, d.services),
                                incidents |-> DownIncidents(r, d.incidents)]
<1> USE DEF UsersOK, ServicesOK, IncidentsOK, UsersTable, ServicesTable, IncidentsTable
<1>1. CASE r = "0001"
  BY <1>1 DEF Downgrade, Down0001, DownUsers, DownServices, DownIncidents, Empty
<1>2. CASE r = "003"
  BY <1>2 DEF Downgrade, Down003, DownUsers, DownServices, DownIncidents
<1>3. CASE r = "004"
  BY <1>3 DEF Downgrade, Down004, DownUsers, DownServices, DownIncidents
<1>4. CASE r = "7e8a"
  BY <1>4 DEF Downgrade, Down7e8a, DownUsers, DownServices, DownIncidents
<1>5. CASE r = "005"
  BY <1>5 DEF Downgrade, Down005, DownUsers, DownServices, DownIncidents
<1>6. CASE r = "006"
  BY <1>6 DEF Downgrade, Down006, DownUsers, DownServices, DownIncidents
<1>7. CASE r = "007"
  BY <1>7 DEF Downgrade, DownUsers, DownServices, DownIncidents
<1>8. CASE r = "008"
  BY <1>8 DEF Downgrade, Down008, DownUsers, DownServices, DownIncidents
<1>9. CASE r = "009"
  BY <1>9 DEF Downgrade, Down009, DownUsers, DownServices, DownIncidents
<1> QED
  BY <1>1, <1>2, <1>3, <1>4, <1>5, <1>6, <1>7, <1>8, <1>9 DEF Revisions

\* A table after a revision: its rows fit, and it carries what was there.
LEMMA UpUsersKeeps ==
  ASSUME NEW u, UsersOK(u), NEW r \in Revisions,
         r = "0001" => "table" \notin u.schema,
         r = "006" => "is_admin" \notin u.schema,
         r = "008" => AuthFields \cap u.schema = {} /\ "is_admin" \in u.schema
  PROVE  LET v == UpUsers(r, u)
         IN /\ UsersOK(v) /\ CarriesUsers("up", u, v)
            /\ OneFlag(u) /\ r # "006" => OneFlag(v)
            /\ r = "008" => OneFlag(v)
            /\ "users" \notin Touches(r) => v = u
<1> USE DEF UsersOK, UsersTable, UsersFit, CarriesUsers, SameAdmins, TellsAdmins, Admins, OneFlag, UserFeatures,
            AuthFields
<1>1. CASE r = "0001"
  BY <1>1 DEF UpUsers, Touches, Tables
<1>2. CASE r = "006"
  BY <1>2 DEF UpUsers, Touches
<1>3. CASE r = "008"
  <2>1. /\ UpUsers(r, u).schema = (u.schema \ {"is_admin"}) \cup {"is_active", "is_superuser"}
        /\ UpUsers(r, u).super = u.admin /\ UpUsers(r, u).admin = {}
        /\ UpUsers(r, u).ids = u.ids /\ UpUsers(r, u).inactive = u.inactive
        /\ UpUsers(r, u) \in UsersTable
    BY <1>3 DEF UpUsers
  <2>2. u.super = {} /\ u.inactive = {}
    BY <1>3
  <2> QED
    BY <1>3, <2>1, <2>2 DEF Touches
<1>4. CASE r \notin {"0001", "006", "008"}
  BY <1>4 DEF UpUsers
<1> QED
  BY <1>1, <1>2, <1>3, <1>4

LEMMA DownUsersKeeps ==
  ASSUME NEW u, UsersOK(u), NEW r \in Revisions,
         r = "0001" => "table" \in u.schema,
         r = "006" => "is_admin" \in u.schema,
         r = "008" => AuthFields \subseteq u.schema /\ "is_admin" \notin u.schema,
         OneFlag(u)
  PROVE  LET v == DownUsers(r, u)
         IN /\ UsersOK(v) /\ CarriesUsers("down", u, v) /\ OneFlag(v)
            /\ "users" \notin Touches(r) => v = u
<1> USE DEF UsersOK, UsersTable, UsersFit, CarriesUsers, SameAdmins, TellsAdmins, Admins, OneFlag, UserFeatures,
            AuthFields
<1>1. CASE r = "0001"
  BY <1>1 DEF DownUsers, Touches, Tables, Empty
<1>2. CASE r = "006"
  BY <1>2 DEF DownUsers, Touches
<1>3. CASE r = "008"
  <2>1. /\ DownUsers(r, u).schema = (u.schema \ {"is_active", "is_superuser"}) \cup {"is_admin"}
        /\ DownUsers(r, u).admin = u.super /\ DownUsers(r, u).super = {}
        /\ DownUsers(r, u).ids = u.ids /\ DownUsers(r, u).inactive = {}
        /\ DownUsers(r, u) \in UsersTable
    BY <1>3 DEF DownUsers
  <2>2. u.admin = {}
    BY <1>3
  <2> QED
    BY <1>3, <2>1, <2>2 DEF Touches
<1>4. CASE r \notin {"0001", "006", "008"}
  BY <1>4 DEF DownUsers
<1> QED
  BY <1>1, <1>2, <1>3, <1>4

LEMMA UpServicesKeeps ==
  ASSUME NEW s, ServicesOK(s), NEW r \in Revisions
  PROVE  LET t == UpServices(r, s)
         IN /\ ServicesOK(t) /\ CarriesServices("up", s, t)
            /\ "services" \notin Touches(r) => t = s
<1> USE DEF ServicesOK, ServicesTable, ServicesFit, CarriesServices, ServiceFeatures
<1>1. CASE r \in {"0001", "003", "7e8a", "005"}
  BY <1>1 DEF UpServices, Touches, Tables
<1>2. CASE r \notin {"0001", "003", "7e8a", "005"}
  BY <1>2 DEF UpServices
<1> QED
  BY <1>1, <1>2

LEMMA DownServicesKeeps ==
  ASSUME NEW s, ServicesOK(s), NEW r \in Revisions,
         r = "005" => s.ids = s.targets
  PROVE  LET t == DownServices(r, s)
         IN /\ ServicesOK(t) /\ CarriesServices("down", s, t)
            /\ "services" \notin Touches(r) => t = s
<1> USE DEF ServicesOK, ServicesTable, ServicesFit, CarriesServices, ServiceFeatures
<1>1. CASE r = "0001"
  BY <1>1 DEF DownServices, Touches, Tables, Empty
<1>2. CASE r \in {"003", "005"}
  BY <1>2 DEF DownServices, Touches
<1>3. CASE r \notin {"0001", "003", "005"}
  BY <1>3 DEF DownServices
<1> QED
  BY <1>1, <1>2, <1>3

LEMMA UpIncidentsKeeps ==
  ASSUME NEW i, IncidentsOK(i), NEW r \in Revisions,
         r = "0001" => "table" \notin i.schema,
         r = "004" => "table" \in i.schema
  PROVE  LET j == UpIncidents(r, i)
         IN /\ IncidentsOK(j) /\ CarriesIncidents("up", i, j)
            /\ "incidents" \notin Touches(r) => j = i
<1> USE DEF IncidentsOK, IncidentsTable, IncidentsFit, CarriesIncidents, IncidentFeatures
<1>1. CASE r = "0001"
  BY <1>1 DEF UpIncidents, Touches, Tables, OneKindOpen
<1>2. CASE r \in {"004", "009"}
  BY <1>2 DEF UpIncidents, Touches
<1>3. CASE r \notin {"0001", "004", "009"}
  BY <1>3 DEF UpIncidents
<1> QED
  BY <1>1, <1>2, <1>3

LEMMA DownIncidentsKeeps ==
  ASSUME NEW i, IncidentsOK(i), NEW r \in Revisions,
         r = "004" => OneKindOpen(i.open)
  PROVE  LET j == DownIncidents(r, i)
         IN /\ IncidentsOK(j) /\ CarriesIncidents("down", i, j)
            /\ "incidents" \notin Touches(r) => j = i
<1> USE DEF IncidentsOK, IncidentsTable, IncidentsFit, CarriesIncidents, IncidentFeatures
<1>1. CASE r = "0001"
  BY <1>1 DEF DownIncidents, Touches, Tables, Empty
<1>2. CASE r = "004"
  BY <1>2 DEF DownIncidents, Touches
<1>3. CASE r = "009"
  BY <1>3 DEF DownIncidents, Touches
<1>4. CASE r \notin {"0001", "004", "009"}
  BY <1>4 DEF DownIncidents
<1> QED
  BY <1>1, <1>2, <1>3, <1>4

\* The whole database after a revision that is not refused.
CarriesAll(way, d, e) ==
  /\ CarriesUsers(way, d.users, e.users)
  /\ CarriesServices(way, d.services, e.services)
  /\ CarriesIncidents(way, d.incidents, e.incidents)

OnlyTouched(T, d, e) ==
  /\ "users" \notin T => e.users = d.users
  /\ "services" \notin T => e.services = d.services
  /\ "incidents" \notin T => e.incidents = d.incidents

LEMMA UpgradeKeeps ==
  ASSUME NEW d, Fits(d), NEW r \in Revisions, Upgrade(r, d).ok
  PROVE  LET e == Upgrade(r, d).new
         IN /\ Fits(e) /\ CarriesAll("up", d, e) /\ OnlyTouched(Touches(r), d, e)
            /\ OneFlag(d.users) /\ r # "006" => OneFlag(e.users)
            /\ r = "008" => OneFlag(e.users)
<1> DEFINE e == Upgrade(r, d).new
<1>1. /\ UsersOK(d.users) /\ ServicesOK(d.services) /\ IncidentsOK(d.incidents)
      /\ d = [users |-> d.users, services |-> d.services, incidents |-> d.incidents]
  BY DatabaseTables
<1>2. e = [users |-> UpUsers(r, d.users), services |-> UpServices(r, d.services),
           incidents |-> UpIncidents(r, d.incidents)]
  BY <1>1, UpgradeByTable
<1>3. /\ r = "0001" => "table" \notin d.users.schema /\ "table" \notin d.incidents.schema
      /\ r = "004" => "table" \in d.incidents.schema
      /\ r = "006" => "is_admin" \notin d.users.schema
      /\ r = "008" => AuthFields \cap d.users.schema = {} /\ "is_admin" \in d.users.schema
  BY DEF Upgrade, Up0001, Up004, Up006, Up008, Tables
<1> HIDE DEF e
<1>4. e.users = UpUsers(r, d.users) /\ e.services = UpServices(r, d.services) /\ e.incidents = UpIncidents(r, d.incidents)
  BY <1>2
<1>5. /\ UsersOK(e.users) /\ CarriesUsers("up", d.users, e.users)
      /\ OneFlag(d.users) /\ r # "006" => OneFlag(e.users)
      /\ r = "008" => OneFlag(e.users)
      /\ "users" \notin Touches(r) => e.users = d.users
  BY <1>1, <1>3, <1>4, UpUsersKeeps
<1>6. /\ ServicesOK(e.services) /\ CarriesServices("up", d.services, e.services)
      /\ "services" \notin Touches(r) => e.services = d.services
  BY <1>1, <1>4, UpServicesKeeps
<1>7. /\ IncidentsOK(e.incidents) /\ CarriesIncidents("up", d.incidents, e.incidents)
      /\ "incidents" \notin Touches(r) => e.incidents = d.incidents
  BY <1>1, <1>3, <1>4, UpIncidentsKeeps
<1>8. Fits(e)
  BY <1>2, <1>4, <1>5, <1>6, <1>7, DatabaseTables
<1> QED
  BY <1>5, <1>6, <1>7, <1>8 DEF CarriesAll, OnlyTouched, e

LEMMA DowngradeKeeps ==
  ASSUME NEW d, Fits(d), OneFlag(d.users), NEW r \in Revisions, Downgrade(r, d).ok
  PROVE  LET e == Downgrade(r, d).new
         IN /\ Fits(e) /\ CarriesAll("down", d, e) /\ OnlyTouched(Touches(r), d, e)
            /\ OneFlag(e.users)
<1> DEFINE e == Downgrade(r, d).new
<1>1. /\ UsersOK(d.users) /\ ServicesOK(d.services) /\ IncidentsOK(d.incidents)
      /\ d = [users |-> d.users, services |-> d.services, incidents |-> d.incidents]
  BY DatabaseTables
<1>2. e = [users |-> DownUsers(r, d.users), services |-> DownServices(r, d.services),
           incidents |-> DownIncidents(r, d.incidents)]
  BY <1>1, DowngradeByTable
<1>3. /\ r = "0001" => "table" \in d.users.schema
      /\ r = "004" => OneKindOpen(d.incidents.open)
      /\ r = "005" => d.services.ids = d.services.targets
      /\ r = "006" => "is_admin" \in d.users.schema
      /\ r = "008" => AuthFields \subseteq d.users.schema /\ "is_admin" \notin d.users.schema
  BY DEF Downgrade, Down0001, Down004, Down005, Down006, Down008, Tables
<1> HIDE DEF e
<1>4. /\ e.users = DownUsers(r, d.users) /\ e.services = DownServices(r, d.services)
      /\ e.incidents = DownIncidents(r, d.incidents)
  BY <1>2
<1>5. /\ UsersOK(e.users) /\ CarriesUsers("down", d.users, e.users) /\ OneFlag(e.users)
      /\ "users" \notin Touches(r) => e.users = d.users
  BY <1>1, <1>3, <1>4, DownUsersKeeps
<1>6. /\ ServicesOK(e.services) /\ CarriesServices("down", d.services, e.services)
      /\ "services" \notin Touches(r) => e.services = d.services
  BY <1>1, <1>3, <1>4, DownServicesKeeps
<1>7. /\ IncidentsOK(e.incidents) /\ CarriesIncidents("down", d.incidents, e.incidents)
      /\ "incidents" \notin Touches(r) => e.incidents = d.incidents
  BY <1>1, <1>3, <1>4, DownIncidentsKeeps
<1>8. Fits(e)
  BY <1>2, <1>4, <1>5, <1>6, <1>7, DatabaseTables
<1> QED
  BY <1>5, <1>6, <1>7, <1>8 DEF CarriesAll, OnlyTouched, e

LEMMA CarriesComposes ==
  ASSUME NEW way \in {"up", "down"}
  PROVE  /\ \A u, v, w : CarriesUsers(way, u, v) /\ CarriesUsers(way, v, w) => CarriesUsers(way, u, w)
         /\ \A s, t, v : CarriesServices(way, s, t) /\ CarriesServices(way, t, v) => CarriesServices(way, s, v)
         /\ \A i, j, k : CarriesIncidents(way, i, j) /\ CarriesIncidents(way, j, k) => CarriesIncidents(way, i, k)
<1>1. ASSUME NEW u, NEW v, NEW w, CarriesUsers(way, u, v), CarriesUsers(way, v, w)
      PROVE  CarriesUsers(way, u, w)
  <2>1. SameAdmins(u, w)
    BY <1>1 DEF CarriesUsers, SameAdmins
  <2> QED
    BY <1>1, <2>1 DEF CarriesUsers
<1>2. ASSUME NEW s, NEW t, NEW v, CarriesServices(way, s, t), CarriesServices(way, t, v)
      PROVE  CarriesServices(way, s, v)
  BY <1>2 DEF CarriesServices
<1>3. ASSUME NEW i, NEW j, NEW k, CarriesIncidents(way, i, j), CarriesIncidents(way, j, k)
      PROVE  CarriesIncidents(way, i, k)
  BY <1>3 DEF CarriesIncidents
<1> QED
  BY <1>1, <1>2, <1>3

LEMMA ChoiceFits ==
  ASSUME NEW T, NEW c, NEW d, Fits(c), Fits(d)
  PROVE  Fits(Choice(T, c, d))
<1> DEFINE e == Choice(T, c, d)
<1>1. /\ UsersOK(c.users) /\ ServicesOK(c.services) /\ IncidentsOK(c.incidents)
      /\ UsersOK(d.users) /\ ServicesOK(d.services) /\ IncidentsOK(d.incidents)
  BY DatabaseTables
<1>2. e = [users |-> e.users, services |-> e.services, incidents |-> e.incidents]
  BY DEF Choice
<1>3. UsersOK(e.users) /\ ServicesOK(e.services) /\ IncidentsOK(e.incidents)
  BY <1>1 DEF Choice
<1> HIDE DEF e
<1>4. Fits(e)
  BY <1>2, <1>3, DatabaseTables
<1> QED
  BY <1>4 DEF e

LEMMA EmptyFits == Fits(Empty) /\ Idle \in Command
<1>1. UsersOK(Empty.users) /\ ServicesOK(Empty.services) /\ IncidentsOK(Empty.incidents)
  BY DEF UsersOK, ServicesOK, IncidentsOK, UsersTable, ServicesTable, IncidentsTable, UsersFit, ServicesFit,
         IncidentsFit, Empty
<1>2. Fits([users |-> Empty.users, services |-> Empty.services, incidents |-> Empty.incidents])
  BY <1>1, DatabaseTables
<1>3. Fits(Empty)
  BY <1>2 DEF Empty
<1> QED
  BY <1>3 DEF Idle, Command, Fits

LEMMA ParentsAreRevisions == \A r \in Revisions : Parents(r) \subseteq Revisions \ {r}
BY DEF Parents, Revisions

\* What rows stand for comes with its parents.
LEMMA KnownClosed == \A H \in SUBSET Revisions : Known(H) \subseteq Revisions /\ Closed(Known(H))
BY ParentsAreRevisions DEF Known, Line, Closed, Versions

(***************************************************************************)
(* What a command carries through.                                         *)
(***************************************************************************)

\* What the transaction of a command sees, and the revision it executes on that.
LEMMA ExecutedKeeps ==
  ASSUME KeepsInv, NEW m \in Migrators, NEW r \in Revisions, Execute(m, r)
  PROVE  LET c == cmd[m]
             e == Effect(c, r).new
         IN /\ Fits(e) /\ CarriesAll(c.way, View(c), e) /\ OnlyTouched(Touches(r), View(c), e)
            /\ OneFlag(e.users) \/ (c.way = "up" /\ "008" \in c.todo \ {r})
<1> DEFINE c == cmd[m]
           d == View(c)
           e == Effect(c, r).new
<1>1. /\ c \in Command /\ Fits(c.work) /\ Fits(db) /\ OneFlag(db.users)
      /\ Carries(c) /\ Onward(c) /\ c.ddl = {} /\ r \in c.todo
  BY DEF KeepsInv, TypeOK, Execute, Reaches, Ready
<1>2. Fits(d)
  BY <1>1, ChoiceFits DEF View
<1>3. OneFlag(d.users) \/ (c.way = "up" /\ "008" \in c.todo)
  BY <1>1 DEF View, Choice, Carries
<1>4. CASE c.way = "up"
  <2>1. Upgrade(r, d).ok /\ e = Upgrade(r, d).new
    BY <1>4 DEF Execute, Effect
  <2>2. /\ Fits(e) /\ CarriesAll("up", d, e) /\ OnlyTouched(Touches(r), d, e)
        /\ OneFlag(d.users) /\ r # "006" => OneFlag(e.users)
        /\ r = "008" => OneFlag(e.users)
    BY <1>2, <2>1, UpgradeKeeps
  <2>3. r = "006" => "008" \in c.todo
    <3>1. "006" \in c.todo => "007" \in c.todo
      BY <1>1, <1>4 DEF Onward, Revisions, Parents
    <3>2. "007" \in c.todo => "008" \in c.todo
      BY <1>1, <1>4 DEF Onward, Revisions, Parents
    <3> QED
      BY <1>1, <3>1, <3>2
  <2> QED
    BY <1>3, <1>4, <2>2, <2>3
<1>5. CASE c.way # "up"
  <2>1. Downgrade(r, d).ok /\ e = Downgrade(r, d).new /\ c.way = "down"
    BY <1>1, <1>5 DEF Execute, Effect, Command
  <2> QED
    BY <1>2, <1>3, <1>5, <2>1, DowngradeKeeps
<1> QED
  BY <1>4, <1>5

LEMMA OthersCarry ==
  ASSUME NEW n \in Migrators, cmd'[n] = cmd[n], Carries(cmd[n]),
         \A t \in cmd[n].holds : db'[t] = db[t]
  PROVE  Carries(cmd[n])'
<1>1. /\ "users" \in cmd[n].holds => db'["users"] = db["users"]
      /\ "services" \in cmd[n].holds => db'["services"] = db["services"]
      /\ "incidents" \in cmd[n].holds => db'["incidents"] = db["incidents"]
  OBVIOUS
<1> QED
  BY <1>1 DEF Carries

LEMMA ExecutedCommand ==
  ASSUME KeepsInv, NEW m \in Migrators, NEW r \in Revisions, Execute(m, r)
  PROVE  LET c == cmd[m]
             e == Effect(c, r).new
             T == c.holds \cup Touches(r)
         IN /\ cmd' = [cmd EXCEPT ![m] = Executed(c, r)] /\ Executed(c, r) \in Command
            /\ Executed(c, r).ddl = {r} /\ Executed(c, r).holds = T /\ Executed(c, r).work = Choice(T, e, Empty)
            /\ Executed(c, r).pc = c.pc /\ Executed(c, r).way = c.way /\ Executed(c, r).todo = c.todo
            /\ Executed(c, r).read = c.read /\ Executed(c, r).heads = c.heads
            /\ Fits(Choice(T, e, Empty))
<1> DEFINE c == cmd[m]
           e == Effect(c, r).new
           T == c.holds \cup Touches(r)
           x == Executed(c, r)
<1>1. c \in Command
  BY DEF KeepsInv, TypeOK
<1>2. Fits(e)
  BY ExecutedKeeps
<1> HIDE DEF e
<1>3. Fits(Choice(T, e, Empty))
  BY <1>2, ChoiceFits, EmptyFits
<1>4. T \subseteq Tables
  BY <1>1 DEF Command, Touches, Tables, Revisions
<1>5. Choice(T, e, Empty) \in Database
  BY <1>3 DEF Fits
<1>6. x = [c EXCEPT !.ddl = {r}, !.holds = T, !.work = Choice(T, e, Empty)]
  BY DEF Executed, e
<1> HIDE DEF x, T, c
<1>7. /\ x \in Command /\ x.ddl = {r} /\ x.holds = T /\ x.work = Choice(T, e, Empty)
      /\ x.pc = c.pc /\ x.way = c.way /\ x.todo = c.todo /\ x.read = c.read /\ x.heads = c.heads
  BY <1>1, <1>4, <1>5, <1>6 DEF Command
<1> QED
  BY <1>3, <1>7 DEF c, e, T, x, Execute

LEMMA ExecuteKeepsInv ==
  ASSUME KeepsInv, NEW m \in Migrators, NEW r \in Revisions, Execute(m, r)
  PROVE  KeepsInv'
<1> DEFINE c == cmd[m]
           e == Effect(c, r).new
           T == c.holds \cup Touches(r)
<1>1. /\ cmd \in [Migrators -> Command] /\ Fits(db) /\ rows \subseteq Revisions /\ OneFlag(db.users)
      /\ \A n \in Migrators : Fits(cmd[n].work)
      /\ \A n, o \in Migrators : n # o => cmd[n].holds \cap cmd[o].holds = {}
      /\ \A n \in Migrators : cmd[n].ddl \subseteq Ready(cmd[n]) /\ Onward(cmd[n]) /\ Carries(cmd[n])
  BY DEF KeepsInv, TypeOK
<1>2. /\ Fits(e) /\ CarriesAll(c.way, View(c), e) /\ OnlyTouched(Touches(r), View(c), e)
      /\ OneFlag(e.users) \/ (c.way = "up" /\ "008" \in c.todo \ {r})
  BY ExecutedKeeps
<1>3. /\ UNCHANGED <<db, rows>> /\ cmd' = [cmd EXCEPT ![m] = Executed(c, r)]
      /\ c.ddl = {} /\ r \in Ready(c)
      /\ \A n \in Migrators \ {m} : cmd[n].holds \cap Touches(r) = {}
  BY DEF Execute, Reaches
<1> HIDE DEF e
<1>4. Fits(Choice(T, e, Empty))
  BY <1>2, ChoiceFits, EmptyFits
<1>5. /\ cmd'[m].ddl = {r} /\ cmd'[m].holds = T /\ cmd'[m].work = Choice(T, e, Empty)
      /\ cmd'[m].way = c.way /\ cmd'[m].todo = c.todo /\ cmd'[m] \in Command
      /\ \A n \in Migrators \ {m} : cmd'[n] = cmd[n]
      /\ cmd' \in [Migrators -> Command]
  <2>1. cmd'[m] = Executed(c, r)
    BY <1>1, <1>3
  <2>2. /\ Executed(c, r) \in Command
        /\ Executed(c, r).ddl = {r} /\ Executed(c, r).holds = T /\ Executed(c, r).work = Choice(T, e, Empty)
        /\ Executed(c, r).way = c.way /\ Executed(c, r).todo = c.todo
    BY ExecutedCommand DEF e
  <2> QED
    BY <1>1, <1>3, <2>1, <2>2
<1>6. TypeOK'
  <2>1. Fits(cmd'[m].work)
    BY <1>4, <1>5
  <2>2. Fits(db)' /\ \A n \in Migrators : Fits(cmd'[n].work)
    BY <1>1, <1>3, <1>5, <2>1
  <2> QED
    BY <1>1, <1>3, <1>5, <2>2 DEF TypeOK
<1>7. OneFlag(db.users)'
  BY <1>1, <1>3
<1>8. (\A n, o \in Migrators : n # o => cmd[n].holds \cap cmd[o].holds = {})'
  BY <1>1, <1>3, <1>5
<1>9. (cmd[m].ddl \subseteq Ready(cmd[m]) /\ Onward(cmd[m]))'
  <2>1. Ready(cmd'[m]) = Ready(c) /\ Onward(cmd'[m]) <=> Onward(c)
    BY <1>5 DEF Ready, Onward
  <2> QED
    BY <1>1, <1>3, <1>5, <2>1 DEF Ready, Onward
<1>10. Carries(cmd[m])'
  <2>1. c.way \in {"up", "down"} /\ Carries(c)
    BY <1>1 DEF Command
  <2>2. "users" \in T => CarriesUsers(c.way, db.users, e.users)
    <3>1. CASE "users" \in c.holds
      <4>1. CarriesUsers(c.way, db.users, View(c).users) /\ CarriesUsers(c.way, View(c).users, e.users)
        BY <1>2, <2>1, <3>1 DEF Carries, CarriesAll, View, Choice
      <4> QED
        BY <2>1, <4>1, CarriesComposes
    <3>2. CASE "users" \notin c.holds
      BY <1>2, <3>2 DEF CarriesAll, View, Choice
    <3> QED
      BY <3>1, <3>2
  <2>3. "services" \in T => CarriesServices(c.way, db.services, e.services)
    <3>1. CASE "services" \in c.holds
      <4>1. /\ CarriesServices(c.way, db.services, View(c).services)
            /\ CarriesServices(c.way, View(c).services, e.services)
        BY <1>2, <2>1, <3>1 DEF Carries, CarriesAll, View, Choice
      <4> QED
        BY <2>1, <4>1, CarriesComposes
    <3>2. CASE "services" \notin c.holds
      BY <1>2, <3>2 DEF CarriesAll, View, Choice
    <3> QED
      BY <3>1, <3>2
  <2>4. "incidents" \in T => CarriesIncidents(c.way, db.incidents, e.incidents)
    <3>1. CASE "incidents" \in c.holds
      <4>1. /\ CarriesIncidents(c.way, db.incidents, View(c).incidents)
            /\ CarriesIncidents(c.way, View(c).incidents, e.incidents)
        BY <1>2, <2>1, <3>1 DEF Carries, CarriesAll, View, Choice
      <4> QED
        BY <2>1, <4>1, CarriesComposes
    <3>2. CASE "incidents" \notin c.holds
      BY <1>2, <3>2 DEF CarriesAll, View, Choice
    <3> QED
      BY <3>1, <3>2
  <2>5. /\ "users" \in T => cmd'[m].work.users = e.users
        /\ "services" \in T => cmd'[m].work.services = e.services
        /\ "incidents" \in T => cmd'[m].work.incidents = e.incidents
    BY <1>5 DEF Choice
  <2> QED
    BY <1>2, <1>3, <1>5, <2>2, <2>3, <2>4, <2>5 DEF Carries
<1>11. \A n \in Migrators \ {m} : (cmd[n].ddl \subseteq Ready(cmd[n]) /\ Onward(cmd[n]) /\ Carries(cmd[n]))'
  BY <1>1, <1>3, <1>5, OthersCarry DEF Ready, Onward
<1> QED
  BY <1>6, <1>7, <1>8, <1>9, <1>10, <1>11 DEF KeepsInv


\* A step of one command that is not a revision, and leaves the tables alone.
LEMMA CommandStep ==
  ASSUME KeepsInv, NEW m \in Migrators, NEW x \in Command, cmd' = [cmd EXCEPT ![m] = x],
         UNCHANGED <<db, rows>>, Fits(x.work), x.holds \subseteq cmd[m].holds,
         x.ddl \subseteq Ready(x), Onward(x), Carries(x)
  PROVE  KeepsInv'
<1>1. /\ cmd \in [Migrators -> Command] /\ Fits(db) /\ rows \subseteq Revisions /\ OneFlag(db.users)
      /\ \A n \in Migrators : Fits(cmd[n].work)
      /\ \A n, o \in Migrators : n # o => cmd[n].holds \cap cmd[o].holds = {}
      /\ \A n \in Migrators : cmd[n].ddl \subseteq Ready(cmd[n]) /\ Onward(cmd[n]) /\ Carries(cmd[n])
  BY DEF KeepsInv, TypeOK
<1>2. /\ cmd' \in [Migrators -> Command] /\ cmd'[m] = x /\ \A n \in Migrators \ {m} : cmd'[n] = cmd[n]
      /\ db' = db /\ rows' = rows
  BY <1>1
<1>3. TypeOK'
  BY <1>1, <1>2 DEF TypeOK
<1>4. OneFlag(db.users)'
  BY <1>1, <1>2
<1>5. (\A n, o \in Migrators : n # o => cmd[n].holds \cap cmd[o].holds = {})'
  BY <1>1, <1>2
<1>6. \A n \in Migrators : (cmd[n].ddl \subseteq Ready(cmd[n]) /\ Onward(cmd[n]) /\ Carries(cmd[n]))'
  BY <1>1, <1>2 DEF Ready, Onward, Carries
<1> QED
  BY <1>3, <1>4, <1>5, <1>6 DEF KeepsInv

LEMMA RecordedCommand ==
  ASSUME KeepsInv, NEW m \in Migrators, NEW r \in Revisions, Record(m, r)
  PROVE  \E x \in Command :
           /\ cmd' = [cmd EXCEPT ![m] = x]
           /\ x.heads = HeadsAfter(cmd[m], r) /\ x.todo = cmd[m].todo \ {r} /\ x.ddl = {}
           /\ x.pc = cmd[m].pc /\ x.way = cmd[m].way /\ x.read = cmd[m].read
           /\ x.holds = cmd[m].holds /\ x.work = cmd[m].work
<1> DEFINE c == cmd[m]
           H == HeadsAfter(c, r)
           x == [c EXCEPT !.heads = H, !.todo = @ \ {r}, !.ddl = {}]
<1>1. c \in Command /\ cmd \in [Migrators -> Command]
  BY DEF KeepsInv, TypeOK
<1>2. H \subseteq Revisions
  <2>1. c.heads \subseteq Revisions
    BY <1>1 DEF Command
  <2> QED
    BY <2>1, ParentsAreRevisions DEF HeadsAfter
<1>3. cmd' = [cmd EXCEPT ![m] = x]
  BY <1>1 DEF Record
<1> HIDE DEF H
<1>4. /\ x \in Command /\ x.heads = H /\ x.todo = c.todo \ {r} /\ x.ddl = {}
      /\ x.pc = c.pc /\ x.way = c.way /\ x.read = c.read /\ x.holds = c.holds /\ x.work = c.work
  BY <1>1, <1>2 DEF Command
<1> HIDE DEF x
<1> QED
  BY <1>3, <1>4 DEF H

LEMMA RecordKeepsInv ==
  ASSUME KeepsInv, NEW m \in Migrators, NEW r \in Revisions, Record(m, r)
  PROVE  KeepsInv'
<1> DEFINE c == cmd[m]
<1>1. /\ Fits(c.work) /\ c.ddl = {r} /\ r \in Ready(c) /\ Onward(c) /\ Carries(c) /\ UNCHANGED <<db, rows>>
  BY DEF KeepsInv, TypeOK, Record
<1>2. PICK x \in Command :
        /\ cmd' = [cmd EXCEPT ![m] = x]
        /\ x.todo = c.todo \ {r} /\ x.ddl = {} /\ x.holds = c.holds /\ x.work = c.work /\ x.way = c.way
  BY RecordedCommand
<1>3. Onward(x)
  <2>1. ASSUME c.way = "up", NEW q \in x.todo, NEW s \in Revisions, q \in Parents(s)
        PROVE  s \in x.todo
    <3>1. s \in c.todo
      BY <1>1, <1>2, <2>1 DEF Onward
    <3>2. Parents(r) \cap c.todo = {}
      BY <1>1, <2>1 DEF Ready
    <3> QED
      BY <1>2, <2>1, <3>1, <3>2
  <2> QED
    BY <1>2, <2>1 DEF Onward
<1>4. Carries(x)
  BY <1>1, <1>2 DEF Carries
<1> QED
  BY <1>1, <1>2, <1>3, <1>4, CommandStep

LEMMA OverKeepsInv ==
  ASSUME KeepsInv, NEW m \in Migrators, Over(m), UNCHANGED <<db, rows>>
  PROVE  KeepsInv'
<1>1. Onward(Idle) /\ Carries(Idle) /\ Idle.ddl = {} /\ Idle.holds = {} /\ Idle.work = Empty
  BY DEF Idle, Onward, Carries
<1> QED
  BY <1>1, EmptyFits, CommandStep DEF Over

LEMMA PlanKeepsInv ==
  ASSUME KeepsInv, NEW m \in Migrators, Migrate(m) \/ Retreat(m)
  PROVE  KeepsInv'
<1>1. /\ cmd \in [Migrators -> Command] /\ rows \subseteq Revisions
  BY DEF KeepsInv, TypeOK
<1>2. Known(rows) \subseteq Revisions /\ Closed(Known(rows))
  BY <1>1, KnownClosed
<1>3. ASSUME NEW way \in {"up", "down"}, NEW R \in SUBSET Revisions, Plan(m, way, R),
             way = "up" => R = Revisions \ Known(rows)
      PROVE  KeepsInv'
  <2> DEFINE x == [Idle EXCEPT !.pc = "running", !.way = way, !.read = rows, !.heads = rows, !.todo = R]
  <2>1. cmd' = [cmd EXCEPT ![m] = x] /\ UNCHANGED <<db, rows>>
    BY <1>3 DEF Plan
  <2>2. x \in Command /\ x.ddl = {} /\ x.holds = {} /\ x.work = Empty /\ x.way = way /\ x.todo = R
    BY <1>1, <1>3, EmptyFits DEF Command, Idle
  <2> HIDE DEF x
  <2>3. Onward(x)
    BY <1>2, <1>3, <2>2 DEF Onward, Closed
  <2>4. Carries(x)
    BY <2>2 DEF Carries
  <2> QED
    BY <2>1, <2>2, <2>3, <2>4, EmptyFits, CommandStep
<1>4. Migrate(m) => Plan(m, "up", Revisions \ Known(rows))
  BY DEF Migrate
<1>5. Retreat(m) => \E R \in SUBSET Revisions : Plan(m, "down", R)
  BY <1>2 DEF Retreat
<1> QED
  BY <1>3, <1>4, <1>5

\* What is committed has lost nothing, and nobody else has its tables.
LEMMA CommitKeeps ==
  ASSUME KeepsInv, NEW m \in Migrators, Commit(m)
  PROVE  KeepsInv' /\ SameAdmins(db.users, db'.users) /\ SameRows(db, db')
<1> DEFINE c == cmd[m]
<1>1. /\ cmd \in [Migrators -> Command] /\ Fits(db) /\ rows \subseteq Revisions /\ OneFlag(db.users)
      /\ \A n \in Migrators : Fits(cmd[n].work)
      /\ \A n, o \in Migrators : n # o => cmd[n].holds \cap cmd[o].holds = {}
      /\ \A n \in Migrators : cmd[n].ddl \subseteq Ready(cmd[n]) /\ Onward(cmd[n]) /\ Carries(cmd[n])
  BY DEF KeepsInv, TypeOK
<1>2. /\ db' = View(c) /\ rows' = (rows \ Deleted(c)) \cup Inserted(c) /\ cmd' = [cmd EXCEPT ![m] = Idle]
      /\ c.todo = {}
  BY DEF Commit, Over
<1>3. c \in Command /\ Carries(c)
  BY <1>1
<1>4. Fits(db')
  BY <1>1, <1>2, ChoiceFits DEF View
<1>5. /\ \/ "users" \in c.holds /\ CarriesUsers(c.way, db.users, db'.users) /\ OneFlag(db'.users)
         \/ "users" \notin c.holds /\ db'.users = db.users
      /\ \/ "services" \in c.holds /\ CarriesServices(c.way, db.services, db'.services)
         \/ "services" \notin c.holds /\ db'.services = db.services
      /\ \/ "incidents" \in c.holds /\ CarriesIncidents(c.way, db.incidents, db'.incidents)
         \/ "incidents" \notin c.holds /\ db'.incidents = db.incidents
  BY <1>2, <1>3 DEF Carries, View, Choice
<1>6. SameAdmins(db.users, db'.users)
  BY <1>5 DEF CarriesUsers, SameAdmins
<1>7. SameRows(db, db')
  BY <1>5 DEF CarriesUsers, CarriesServices, CarriesIncidents, SameRows, BothThere
<1>8. cmd'[m] = Idle /\ \A n \in Migrators \ {m} : cmd'[n] = cmd[n]
  BY <1>1, <1>2
<1>9. TypeOK'
  <2>1. rows' \subseteq Revisions
    BY <1>1, <1>2, <1>3 DEF Deleted, Inserted, Command
  <2>2. cmd' \in [Migrators -> Command]
    BY <1>1, <1>2, EmptyFits
  <2>3. \A n \in Migrators : Fits(cmd'[n].work)
    <3>1. Idle.work = Empty
      BY DEF Idle
    <3> QED
      BY <1>1, <1>8, <3>1, EmptyFits
  <2> QED
    BY <1>4, <2>1, <2>2, <2>3 DEF TypeOK
<1>10. OneFlag(db.users)'
  BY <1>1, <1>5
<1>11. Idle.holds = {} /\ Idle.ddl = {} /\ Idle.todo = {}
  BY DEF Idle
<1>12. (\A n, o \in Migrators : n # o => cmd[n].holds \cap cmd[o].holds = {})'
  BY <1>1, <1>8, <1>11
<1>13. (cmd[m].ddl \subseteq Ready(cmd[m]) /\ Onward(cmd[m]) /\ Carries(cmd[m]))'
  BY <1>8, <1>11 DEF Onward, Carries
<1>14. ASSUME NEW n \in Migrators \ {m}
       PROVE  (cmd[n].ddl \subseteq Ready(cmd[n]) /\ Onward(cmd[n]) /\ Carries(cmd[n]))'
  <2>1. cmd[n].holds \cap c.holds = {} /\ cmd[n].holds \subseteq Tables
    BY <1>1 DEF Command
  <2>2. \A t \in cmd[n].holds : db'[t] = db[t]
    BY <1>5, <2>1 DEF Tables
  <2>3. Carries(cmd[n])'
    BY <1>1, <1>8, <2>2, OthersCarry
  <2> QED
    BY <1>1, <1>8, <2>3 DEF Ready, Onward
<1> QED
  BY <1>6, <1>7, <1>9, <1>10, <1>12, <1>13, <1>14 DEF KeepsInv

\* The application: rows fit, columns stay, tables a command has are let alone.
LEMMA UseKeepsInv ==
  ASSUME KeepsInv, NEW T, NEW d, Use(T, d), Fits(d), d.users.schema = db.users.schema,
         OnlyTouched(T, db, d)
  PROVE  KeepsInv'
<1>1. /\ cmd \in [Migrators -> Command] /\ rows \subseteq Revisions /\ OneFlag(db.users)
      /\ \A n \in Migrators : Fits(cmd[n].work)
      /\ \A n, o \in Migrators : n # o => cmd[n].holds \cap cmd[o].holds = {}
      /\ \A n \in Migrators : cmd[n].ddl \subseteq Ready(cmd[n]) /\ Onward(cmd[n]) /\ Carries(cmd[n])
  BY DEF KeepsInv, TypeOK
<1>2. db' = d /\ rows' = rows /\ cmd' = cmd /\ \A m \in Migrators : cmd[m].holds \cap T = {}
  BY DEF Use
<1>3. ASSUME NEW n \in Migrators
      PROVE  Carries(cmd[n])'
  <2>1. \A t \in cmd[n].holds : db'[t] = db[t]
    <3>1. cmd[n].holds \cap T = {} /\ cmd[n].holds \subseteq Tables
      BY <1>1, <1>2 DEF Command
    <3> QED
      BY <1>2, <3>1 DEF OnlyTouched, Tables
  <2> QED
    BY <1>1, <1>2, <2>1, OthersCarry
<1>4. TypeOK'
  BY <1>1, <1>2 DEF TypeOK
<1>5. OneFlag(db.users)'
  BY <1>1, <1>2 DEF OneFlag
<1> QED
  BY <1>1, <1>2, <1>3, <1>4, <1>5 DEF KeepsInv, Ready, Onward


\* A table with more rows in it.
LEMMA AppliesToTable ==
  ASSUME NEW d, Fits(d)
  PROVE  /\ \A u : UsersOK(u) => Fits([d EXCEPT !.users = u])
         /\ \A s : ServicesOK(s) => Fits([d EXCEPT !.services = s])
         /\ \A i : IncidentsOK(i) => Fits([d EXCEPT !.incidents = i])
<1>1. /\ UsersOK(d.users) /\ ServicesOK(d.services) /\ IncidentsOK(d.incidents)
      /\ d = [users |-> d.users, services |-> d.services, incidents |-> d.incidents]
  BY DatabaseTables
<1>2. /\ \A u : [d EXCEPT !.users = u] = [users |-> u, services |-> d.services, incidents |-> d.incidents]
      /\ \A s : [d EXCEPT !.services = s] = [users |-> d.users, services |-> s, incidents |-> d.incidents]
      /\ \A i : [d EXCEPT !.incidents = i] = [users |-> d.users, services |-> d.services, incidents |-> i]
  BY <1>1
<1> QED
  BY <1>1, <1>2, DatabaseTables

LEMMA UsersKeepInv ==
  ASSUME KeepsInv, NEW u \in Users, Register(u) \/ SetFlag(u)
  PROVE  KeepsInv'
<1> DEFINE t == db.users
<1>1. UsersOK(t) /\ Fits(db)
  BY DatabaseTables DEF KeepsInv, TypeOK
<1>2. ASSUME NEW v, UsersOK(v), v.schema = t.schema, Use({"users"}, [db EXCEPT !.users = v])
      PROVE  KeepsInv'
  <2> DEFINE d == [db EXCEPT !.users = v]
  <2>1. Fits(d)
    BY <1>1, <1>2, AppliesToTable
  <2>2. d.users = v /\ d.services = db.services /\ d.incidents = db.incidents
    BY <1>1 DEF Fits, Database
  <2> QED
    BY <1>2, <2>1, <2>2, UseKeepsInv DEF OnlyTouched
<1>3. CASE Register(u)
  <2> DEFINE v == [t EXCEPT !.ids = @ \cup {u}]
             w == [t EXCEPT !.ids = @ \cup {u}, !.super = @ \cup {u}]
  <2>1. UsersOK(v) /\ v.schema = t.schema
    BY <1>1, <1>3 DEF Register, UsersOK, UsersTable, UsersFit
  <2>2. "is_superuser" \in t.schema => UsersOK(w) /\ w.schema = t.schema
    BY <1>1, <1>3 DEF Register, UsersOK, UsersTable, UsersFit
  <2>3. \/ Use({"users"}, [db EXCEPT !.users = v])
        \/ "is_superuser" \in t.schema /\ Use({"users"}, [db EXCEPT !.users = w])
    BY <1>1, <1>3 DEF Register, Fits, Database
  <2> QED
    BY <1>2, <2>1, <2>2, <2>3
<1>4. CASE SetFlag(u)
  <2> DEFINE v == [t EXCEPT !.admin = @ \cup {u}]
             w == [t EXCEPT !.inactive = @ \cup {u}]
  <2>1. "is_admin" \in t.schema => UsersOK(v) /\ v.schema = t.schema
    BY <1>1, <1>4 DEF SetFlag, UsersOK, UsersTable, UsersFit
  <2>2. "is_active" \in t.schema => UsersOK(w) /\ w.schema = t.schema
    BY <1>1, <1>4 DEF SetFlag, UsersOK, UsersTable, UsersFit
  <2>3. \/ "is_admin" \in t.schema /\ Use({"users"}, [db EXCEPT !.users = v])
        \/ "is_active" \in t.schema /\ Use({"users"}, [db EXCEPT !.users = w])
    BY <1>1, <1>4 DEF SetFlag, Fits, Database
  <2> QED
    BY <1>2, <2>1, <2>2, <2>3
<1> QED
  BY <1>3, <1>4

LEMMA ServicesKeepInv ==
  ASSUME KeepsInv, NEW s \in Services, AddService(s) \/ \E breach \in BOOLEAN : OpenIncident(s, breach)
  PROVE  KeepsInv'
<1>1. ServicesOK(db.services) /\ IncidentsOK(db.incidents) /\ Fits(db)
  BY DatabaseTables DEF KeepsInv, TypeOK
<1>2. CASE AddService(s)
  <2> DEFINE v == [db.services EXCEPT !.ids = @ \cup {s}]
             w == [db.services EXCEPT !.ids = @ \cup {s}, !.targets = @ \cup {s}]
  <2>1. "sla_required" \notin db.services.schema => ServicesOK(v)
    BY <1>1, <1>2 DEF AddService, ServicesOK, ServicesTable, ServicesFit
  <2>2. ServicesOK(w)
    BY <1>1, <1>2 DEF AddService, ServicesOK, ServicesTable, ServicesFit
  <2>3. \/ "sla_required" \notin db.services.schema /\ Use({"services"}, [db EXCEPT !.services = v])
        \/ Use({"services"}, [db EXCEPT !.services = w])
    BY <1>1, <1>2 DEF AddService, Fits, Database
  <2>4. ASSUME NEW x, ServicesOK(x), Use({"services"}, [db EXCEPT !.services = x])
        PROVE  KeepsInv'
    <3> DEFINE d == [db EXCEPT !.services = x]
    <3>1. Fits(d)
      BY <1>1, <2>4, AppliesToTable
    <3>2. d.users = db.users /\ d.services = x /\ d.incidents = db.incidents
      BY <1>1 DEF Fits, Database
    <3> QED
      BY <2>4, <3>1, <3>2, UseKeepsInv DEF OnlyTouched
  <2> QED
    BY <2>1, <2>2, <2>3, <2>4
<1>3. ASSUME NEW breach \in BOOLEAN, OpenIncident(s, breach)
      PROVE  KeepsInv'
  <2> DEFINE x == [db.incidents EXCEPT !.open = @ \cup {<<s, breach>>}]
             d == [db EXCEPT !.incidents = x]
  <2>1. x \in IncidentsTable /\ x.schema = db.incidents.schema /\ x.open = db.incidents.open \cup {<<s, breach>>}
    BY <1>1 DEF IncidentsOK, IncidentsTable
  <2>2. "one_open" \in db.incidents.schema => OneKindOpen(x.open)
    BY <1>1, <1>3, <2>1 DEF OpenIncident, IncidentsOK, IncidentsFit, OneKindOpen
  <2>3. IncidentsOK(x)
    BY <1>1, <1>3, <2>1, <2>2 DEF OpenIncident, IncidentsOK, IncidentsFit
  <2> HIDE DEF x
  <2>4. Fits(d)
    BY <1>1, <2>3, AppliesToTable
  <2>5. d.users = db.users /\ d.services = db.services /\ d.incidents = x
    BY <1>1 DEF Fits, Database
  <2>6. Use({"services", "incidents"}, d)
    BY <1>1, <1>3 DEF OpenIncident, Fits, Database, x
  <2> QED
    BY <2>4, <2>5, <2>6, UseKeepsInv DEF OnlyTouched
<1> QED
  BY <1>2, <1>3

LEMMA KeepsStep == KeepsInv /\ [Next]_vars => KeepsInv'
<1> SUFFICES ASSUME KeepsInv, [Next]_vars
             PROVE  KeepsInv'
  OBVIOUS
<1>1. ASSUME NEW m \in Migrators, NEW r \in Revisions, Execute(m, r) \/ Record(m, r)
      PROVE  KeepsInv'
  BY <1>1, ExecuteKeepsInv, RecordKeepsInv
<1>2. ASSUME NEW m \in Migrators, Migrate(m) \/ Retreat(m)
      PROVE  KeepsInv'
  BY <1>2, PlanKeepsInv
<1>3. ASSUME NEW m \in Migrators, Fail(m) \/ Killed(m)
      PROVE  KeepsInv'
  BY <1>3, OverKeepsInv DEF Fail, Killed
<1>4. ASSUME NEW m \in Migrators, Commit(m)
      PROVE  KeepsInv'
  BY <1>4, CommitKeeps
<1>5. ASSUME NEW u \in Users, Register(u) \/ SetFlag(u)
      PROVE  KeepsInv'
  BY <1>5, UsersKeepInv
<1>6. ASSUME NEW s \in Services, AddService(s) \/ \E breach \in BOOLEAN : OpenIncident(s, breach)
      PROVE  KeepsInv'
  BY <1>6, ServicesKeepInv
<1>7. CASE UNCHANGED vars
  BY <1>7 DEF vars, KeepsInv, TypeOK, Ready, Onward, Carries
<1> QED
  BY <1>1, <1>2, <1>3, <1>4, <1>5, <1>6, <1>7 DEF Next

LEMMA InitFits ==
  ASSUME Init
  PROVE  Fits(db) /\ OneFlag(db.users)
<1>1. PICK R \in Versions :
        db = [Empty EXCEPT !.users.schema = SchemaOf(R).users,
                           !.services.schema = SchemaOf(R).services,
                           !.incidents.schema = SchemaOf(R).incidents]
  BY DEF Init
<1> DEFINE U == SchemaOf(R).users
           S == SchemaOf(R).services
           I == SchemaOf(R).incidents
<1>2. U \subseteq UserFeatures /\ S \subseteq ServiceFeatures /\ I \subseteq IncidentFeatures /\ "sla_required" \notin S
  BY DEF SchemaOf
<1>3. OneFlag([schema |-> U])
  BY DEF SchemaOf, OneFlag, AuthFields
<1> HIDE DEF U, S, I
<1>4. db = [users |-> [schema |-> U, ids |-> {}, admin |-> {}, super |-> {}, inactive |-> {}],
            services |-> [schema |-> S, ids |-> {}, targets |-> {}],
            incidents |-> [schema |-> I, open |-> {}]]
  BY <1>1 DEF Empty, U, S, I
<1>5. UsersOK(db.users) /\ ServicesOK(db.services) /\ IncidentsOK(db.incidents)
  BY <1>2, <1>4 DEF UsersOK, UsersTable, UsersFit, ServicesOK, ServicesTable, ServicesFit, IncidentsOK,
                    IncidentsTable, IncidentsFit, OneKindOpen
<1>6. Fits(db)
  BY <1>4, <1>5, DatabaseTables
<1>7. OneFlag(db.users)
  BY <1>3, <1>4 DEF OneFlag
<1> QED
  BY <1>6, <1>7

LEMMA KeepsInit == Init => KeepsInv
<1> SUFFICES ASSUME Init
             PROVE  KeepsInv
  OBVIOUS
<1>1. Fits(db) /\ OneFlag(db.users)
  BY InitFits
<1>2. rows \subseteq Revisions /\ cmd = [m \in Migrators |-> Idle]
  BY DEF Init, Versions, Heads
<1>3. Idle.holds = {} /\ Idle.ddl = {} /\ Idle.todo = {} /\ Idle.work = Empty
  BY DEF Idle
<1>4. TypeOK
  BY <1>1, <1>2, <1>3, EmptyFits DEF TypeOK
<1> QED
  BY <1>1, <1>2, <1>3, <1>4 DEF KeepsInv, Onward, Carries

LEMMA KeepsInvariant == Spec => []KeepsInv
BY KeepsInit, KeepsStep, PTL DEF Spec

\* Whatever commands ran, were refused or killed, side by side, the rows fit the
\* tables, columns and constraints, in the database and in every transaction.
THEOREM TypeCorrect == Spec => []TypeOK
BY KeepsInvariant, PTL DEF KeepsInv

\* A command that is committed has neither changed who is an administrator nor
\* lost or made rows, whatever ran beside it (008_user_auth_fields.py:27).
THEOREM AdminsKeptHolds == Spec => AdminsKept
<1>1. KeepsInv /\ [Next]_vars =>
        [\A m \in Migrators : Commit(m) => SameAdmins(db.users, db'.users) /\ SameRows(db, db')]_vars
  BY CommitKeeps
<1> QED
  BY <1>1, KeepsInvariant, PTL DEF Spec, AdminsKept


(***************************************************************************)
(* The record of the revisions, revision by revision.                      *)
(***************************************************************************)

LineByLine(R) ==
  /\ "003" \in R => "0001" \in R
  /\ "004" \in R => "003" \in R
  /\ "7e8a" \in R => "004" \in R
  /\ "005" \in R => "7e8a" \in R
  /\ "006" \in R => "7e8a" \in R
  /\ "007" \in R => "005" \in R /\ "006" \in R
  /\ "008" \in R => "007" \in R
  /\ "009" \in R => "008" \in R

LEMMA ParentsOf ==
  /\ Parents("0001") = {} /\ Parents("003") = {"0001"} /\ Parents("004") = {"003"}
  /\ Parents("7e8a") = {"004"} /\ Parents("005") = {"7e8a"} /\ Parents("006") = {"7e8a"}
  /\ Parents("007") = {"005", "006"} /\ Parents("008") = {"007"} /\ Parents("009") = {"008"}
BY DEF Parents

LEMMA ClosedLineByLine ==
  ASSUME NEW R \in SUBSET Revisions
  PROVE  Closed(R) <=> LineByLine(R)
BY ParentsOf DEF Closed, LineByLine, Revisions

LineOf(r) ==
  CASE r = "0001" -> {"0001"}
    [] r = "003"  -> {"0001", "003"}
    [] r = "004"  -> {"0001", "003", "004"}
    [] r = "7e8a" -> {"0001", "003", "004", "7e8a"}
    [] r = "005"  -> {"0001", "003", "004", "7e8a", "005"}
    [] r = "006"  -> {"0001", "003", "004", "7e8a", "006"}
    [] r = "007"  -> {"0001", "003", "004", "7e8a", "005", "006", "007"}
    [] r = "008"  -> {"0001", "003", "004", "7e8a", "005", "006", "007", "008"}
    [] r = "009"  -> {"0001", "003", "004", "7e8a", "005", "006", "007", "008", "009"}

LEMMA LinesOf ==
  /\ LineOf("0001") = {"0001"} /\ LineOf("003") = {"0001", "003"} /\ LineOf("004") = {"0001", "003", "004"}
  /\ LineOf("7e8a") = {"0001", "003", "004", "7e8a"}
  /\ LineOf("005") = {"0001", "003", "004", "7e8a", "005"}
  /\ LineOf("006") = {"0001", "003", "004", "7e8a", "006"}
  /\ LineOf("007") = {"0001", "003", "004", "7e8a", "005", "006", "007"}
  /\ LineOf("008") = {"0001", "003", "004", "7e8a", "005", "006", "007", "008"}
  /\ LineOf("009") = {"0001", "003", "004", "7e8a", "005", "006", "007", "008", "009"}
BY DEF LineOf

LEMMA LineIs ==
  ASSUME NEW r \in Revisions, NEW L \in SUBSET Revisions, r \in L, LineByLine(L),
         \A R \in SUBSET Revisions : LineByLine(R) /\ r \in R => L \subseteq R
  PROVE  Line[r] = L
<1>1. L \in Versions /\ \A R \in Versions : LineByLine(R) /\ R \in SUBSET Revisions
  BY ClosedLineByLine DEF Versions
<1>2. Line[r] = {a \in Revisions : \A R \in Versions : r \in R => a \in R}
  BY DEF Line
<1> QED
  BY <1>1, <1>2

LEMMA Lines == \A r \in Revisions : Line[r] = LineOf(r)
<1>1. \A r \in Revisions : LineOf(r) \in SUBSET Revisions /\ r \in LineOf(r)
  BY LinesOf DEF Revisions
<1>2. \A r \in Revisions : LineByLine(LineOf(r))
  BY LinesOf DEF Revisions, LineByLine
<1>3. ASSUME NEW R \in SUBSET Revisions, LineByLine(R), NEW r \in R
      PROVE  LineOf(r) \subseteq R
  BY <1>3, LinesOf DEF Revisions, LineByLine
<1> QED
  BY <1>1, <1>2, <1>3, LineIs

\* Only 005 and 006 do not build on each other.
LEMMA Comparable ==
  ASSUME NEW r \in Revisions, NEW h \in Revisions, r # h, ~({r, h} \subseteq {"005", "006"})
  PROVE  r \in Line[h] \/ h \in Line[r]
BY Lines, LinesOf DEF Revisions

\* The rows there can be, if none stands for another, and what they stand for.
Records == {{}, {"0001"}, {"003"}, {"004"}, {"7e8a"}, {"005"}, {"006"}, {"005", "006"}, {"007"}, {"008"}, {"009"}}

LEMMA KnownOfRecords ==
  /\ Known({}) = {} /\ Known({"0001"}) = Line["0001"] /\ Known({"003"}) = Line["003"]
  /\ Known({"004"}) = Line["004"] /\ Known({"7e8a"}) = Line["7e8a"]
  /\ Known({"005"}) = Line["005"] /\ Known({"006"}) = Line["006"]
  /\ Known({"005", "006"}) = Line["005"] \cup Line["006"]
  /\ Known({"007"}) = Line["007"] /\ Known({"008"}) = Line["008"] /\ Known({"009"}) = Line["009"]
BY DEF Known

LEMMA NotOverlapping ==
  ASSUME NEW H \in SUBSET Revisions
  PROVE  ~Overlapping(H) <=> H \in Records
<1>1. Overlapping(H) <=> \E v, h \in H : v # h /\ v \in Line[h]
  BY DEF Overlapping, Known
<1>2. ASSUME H \in Records
      PROVE  ~Overlapping(H)
  BY <1>1, <1>2, Lines, LinesOf DEF Records, Revisions
<1>3. ASSUME ~Overlapping(H)
      PROVE  H \in Records
  <2>1. ASSUME NEW r \in H \ {"005", "006"}
        PROVE  H = {r}
    BY <1>1, <1>3, Comparable
  <2>2. H \subseteq {"005", "006"} \/ \E r \in Revisions : H = {r}
    BY <2>1
  <2>3. H \subseteq {"005", "006"} => H \in {{}, {"005"}, {"006"}, {"005", "006"}}
    <3>1. H \subseteq {"005", "006"} /\ "005" \in H /\ "006" \in H => H = {"005", "006"}
      OBVIOUS
    <3>2. H \subseteq {"005", "006"} /\ "005" \in H /\ "006" \notin H => H = {"005"}
      OBVIOUS
    <3>3. H \subseteq {"005", "006"} /\ "005" \notin H /\ "006" \in H => H = {"006"}
      OBVIOUS
    <3>4. H \subseteq {"005", "006"} /\ "005" \notin H /\ "006" \notin H => H = {}
      OBVIOUS
    <3> QED
      BY <3>1, <3>2, <3>3, <3>4
  <2> QED
    BY <2>2, <2>3 DEF Records, Revisions
<1> QED
  BY <1>2, <1>3


LEMMA KnownSets ==
  ASSUME NEW H \in Records
  PROVE  H \subseteq Revisions /\ Known(H) \subseteq Revisions /\ Closed(Known(H)) /\ H \subseteq Known(H)
<1>1. H \subseteq Revisions
  BY DEF Records, Revisions
<1>2. \A r \in Revisions : r \in Line[r]
  BY Lines, LinesOf DEF Revisions
<1> QED
  BY <1>1, <1>2, KnownClosed DEF Known

\* A revision more.
LEMMA UpRecord ==
  ASSUME NEW H \in Records, NEW r \in Revisions \ Known(H), Parents(r) \subseteq Known(H)
  PROVE  LET G == (H \ Parents(r)) \cup {r}
         IN G \in Records /\ Known(G) = Known(H) \cup {r}
<1> DEFINE G == (H \ Parents(r)) \cup {r}
<1> USE KnownOfRecords, Lines, LinesOf, ParentsOf DEF Revisions, Records
<1>1. CASE H = {}
  <2>1. r = "0001"
    BY <1>1
  <2>2. G = {"0001"}
    BY <1>1, <2>1
  <2>3. Known(G) = Known(H) \cup {r}
    BY <1>1, <2>1, <2>2
  <2> QED
    BY <2>2, <2>3
<1>2. CASE H = {"0001"}
  <2>1. r = "003"
    BY <1>2
  <2>2. G = {"003"}
    BY <1>2, <2>1
  <2>3. Known(G) = Known(H) \cup {r}
    BY <1>2, <2>1, <2>2
  <2> QED
    BY <2>2, <2>3
<1>3. CASE H = {"003"}
  <2>1. r = "004"
    BY <1>3
  <2>2. G = {"004"}
    BY <1>3, <2>1
  <2>3. Known(G) = Known(H) \cup {r}
    BY <1>3, <2>1, <2>2
  <2> QED
    BY <2>2, <2>3
<1>4. CASE H = {"004"}
  <2>1. r = "7e8a"
    BY <1>4
  <2>2. G = {"7e8a"}
    BY <1>4, <2>1
  <2>3. Known(G) = Known(H) \cup {r}
    BY <1>4, <2>1, <2>2
  <2> QED
    BY <2>2, <2>3
<1>5. CASE H = {"7e8a"}
  <2>1. r = "005" \/ r = "006"
    BY <1>5
  <2>2. G = {r}
    BY <1>5, <2>1
  <2>3. Known(G) = Known(H) \cup {r}
    BY <1>5, <2>1, <2>2
  <2> QED
    BY <2>1, <2>2, <2>3
<1>6. CASE H = {"005"}
  <2>1. r = "006"
    BY <1>6
  <2>2. G = {"005", "006"}
    BY <1>6, <2>1
  <2>3. Known(G) = Known(H) \cup {r}
    BY <1>6, <2>1, <2>2
  <2> QED
    BY <2>2, <2>3
<1>7. CASE H = {"006"}
  <2>1. r = "005"
    BY <1>7
  <2>2. G = {"005", "006"}
    BY <1>7, <2>1
  <2>3. Known(G) = Known(H) \cup {r}
    BY <1>7, <2>1, <2>2
  <2> QED
    BY <2>2, <2>3
<1>8. CASE H = {"005", "006"}
  <2>1. r = "007"
    BY <1>8
  <2>2. G = {"007"}
    BY <1>8, <2>1
  <2>3. Known(G) = Known(H) \cup {r}
    BY <1>8, <2>1, <2>2
  <2> QED
    BY <2>2, <2>3
<1>9. CASE H = {"007"}
  <2>1. r = "008"
    BY <1>9
  <2>2. G = {"008"}
    BY <1>9, <2>1
  <2>3. Known(G) = Known(H) \cup {r}
    <3>1. Known(G) = LineOf("008") /\ Known(H) = LineOf("007")
      BY <1>9, <2>2
    <3>2. LineOf("008") = LineOf("007") \cup {"008"}
      BY LinesOf
    <3> QED
      BY <2>1, <3>1, <3>2
  <2> QED
    BY <2>2, <2>3
<1>10. CASE H = {"008"}
  <2>1. r = "009"
    BY <1>10
  <2>2. G = {"009"}
    BY <1>10, <2>1
  <2>3. Known(G) = Known(H) \cup {r}
    BY <1>10, <2>1, <2>2
  <2> QED
    BY <2>2, <2>3
<1>11. CASE H = {"009"}
  BY <1>11
<1> QED
  BY <1>1, <1>2, <1>3, <1>4, <1>5, <1>6, <1>7, <1>8, <1>9, <1>10, <1>11

\* A revision that no other builds on is a row, and one less.
LEMMA DownRecord ==
  ASSUME NEW H \in Records, NEW r \in Known(H), \A s \in Known(H) : r \notin Parents(s)
  PROVE  LET G == (H \ {r}) \cup (Parents(r) \ Known(H \ {r}))
         IN G \in Records /\ Known(G) = Known(H) \ {r}
<1> DEFINE G == (H \ {r}) \cup (Parents(r) \ Known(H \ {r}))
<1> USE KnownOfRecords, Lines, LinesOf, ParentsOf DEF Revisions, Records
<1>1. CASE H = {}
  BY <1>1
<1>2. CASE H = {"0001"}
  <2>1. r = "0001"
    BY <1>2
  <2>2. G = {}
    BY <1>2, <2>1
  <2>3. Known(G) = Known(H) \ {r}
    BY <1>2, <2>1, <2>2
  <2> QED
    BY <2>2, <2>3
<1>3. CASE H = {"003"}
  <2>1. r = "003"
    BY <1>3
  <2>2. G = {"0001"}
    BY <1>3, <2>1
  <2>3. Known(G) = Known(H) \ {r}
    BY <1>3, <2>1, <2>2
  <2> QED
    BY <2>2, <2>3
<1>4. CASE H = {"004"}
  <2>1. r = "004"
    BY <1>4
  <2>2. G = {"003"}
    BY <1>4, <2>1
  <2>3. Known(G) = Known(H) \ {r}
    BY <1>4, <2>1, <2>2
  <2> QED
    BY <2>2, <2>3
<1>5. CASE H = {"7e8a"}
  <2>1. r = "7e8a"
    BY <1>5
  <2>2. G = {"004"}
    BY <1>5, <2>1
  <2>3. Known(G) = Known(H) \ {r}
    BY <1>5, <2>1, <2>2
  <2> QED
    BY <2>2, <2>3
<1>6. CASE H = {"005"}
  <2>1. r = "005"
    BY <1>6
  <2>2. G = {"7e8a"}
    BY <1>6, <2>1
  <2>3. Known(G) = Known(H) \ {r}
    BY <1>6, <2>1, <2>2
  <2> QED
    BY <2>2, <2>3
<1>7. CASE H = {"006"}
  <2>1. r = "006"
    BY <1>7
  <2>2. G = {"7e8a"}
    BY <1>7, <2>1
  <2>3. Known(G) = Known(H) \ {r}
    BY <1>7, <2>1, <2>2
  <2> QED
    BY <2>2, <2>3
<1>8. CASE H = {"005", "006"}
  <2>1. r = "005" \/ r = "006"
    BY <1>8
  <2>2. r = "005" => G = {"006"}
    BY <1>8
  <2>3. r = "006" => G = {"005"}
    BY <1>8
  <2>4. Known(G) = Known(H) \ {r}
    BY <1>8, <2>1, <2>2, <2>3
  <2> QED
    BY <2>1, <2>2, <2>3, <2>4
<1>9. CASE H = {"007"}
  <2>1. r = "007"
    BY <1>9
  <2>2. G = {"005", "006"}
    BY <1>9, <2>1
  <2>3. Known(G) = Known(H) \ {r}
    BY <1>9, <2>1, <2>2
  <2> QED
    BY <2>2, <2>3
<1>10. CASE H = {"008"}
  <2>1. r = "008"
    BY <1>10
  <2>2. G = {"007"}
    BY <1>10, <2>1
  <2>3. Known(G) = Known(H) \ {r}
    BY <1>10, <2>1, <2>2
  <2> QED
    BY <2>2, <2>3
<1>11. CASE H = {"009"}
  <2>1. r = "009"
    BY <1>11
  <2>2. G = {"008"}
    BY <1>11, <2>1
  <2>3. Known(G) = Known(H) \ {r}
    BY <1>11, <2>1, <2>2
  <2> QED
    BY <2>2, <2>3
<1> QED
  BY <1>1, <1>2, <1>3, <1>4, <1>5, <1>6, <1>7, <1>8, <1>9, <1>10, <1>11


(***************************************************************************)
(* The schema and its record, when nobody downgrades beside others.        *)
(***************************************************************************)

UsersWise(S, R) ==
  /\ "table" \in S        <=> "0001" \in R
  /\ "is_admin" \in S     <=> "006" \in R /\ "008" \notin R
  /\ "is_active" \in S    <=> "008" \in R
  /\ "is_superuser" \in S <=> "008" \in R
ServicesWise(S, R) ==
  /\ "table" \in S        <=> "0001" \in R
  /\ "owner_emails" \in S <=> "003" \in R
  /\ "sla" \in S          <=> "7e8a" \in R
IncidentsWise(S, R) ==
  /\ "table" \in S            <=> "0001" \in R
  /\ "one_open" \in S         <=> "0001" \in R /\ "004" \notin R
  /\ "one_open_of_kind" \in S <=> "004" \in R
  /\ "cascade" \in S          <=> "009" \in R

LEMMA TableWise ==
  ASSUME NEW R
  PROVE  /\ \A u : u.schema \subseteq UserFeatures => (FollowsUsers(u, R) <=> UsersWise(u.schema, R))
         /\ \A s : s.schema \subseteq ServiceFeatures => (FollowsServices(s, R) <=> ServicesWise(s.schema, R))
         /\ \A i : i.schema \subseteq IncidentFeatures => (FollowsIncidents(i, R) <=> IncidentsWise(i.schema, R))
<1>1. ASSUME NEW u, u.schema \subseteq UserFeatures
      PROVE  FollowsUsers(u, R) <=> UsersWise(u.schema, R)
  BY <1>1 DEF FollowsUsers, UsersWise, SchemaOf, UserFeatures, AuthFields
<1>2. ASSUME NEW s, s.schema \subseteq ServiceFeatures
      PROVE  FollowsServices(s, R) <=> ServicesWise(s.schema, R)
  BY <1>2 DEF FollowsServices, ServicesWise, SchemaOf, ServiceFeatures
<1>3. ASSUME NEW i, i.schema \subseteq IncidentFeatures
      PROVE  FollowsIncidents(i, R) <=> IncidentsWise(i.schema, R)
  BY <1>3 DEF FollowsIncidents, IncidentsWise, SchemaOf, IncidentFeatures
<1> QED
  BY <1>1, <1>2, <1>3

LEMMA FollowsTableWise ==
  ASSUME NEW d, Fits(d), NEW R
  PROVE  Follows(d, R) <=> /\ UsersWise(d.users.schema, R)
                           /\ ServicesWise(d.services.schema, R)
                           /\ IncidentsWise(d.incidents.schema, R)
<1>1. /\ d.users.schema \subseteq UserFeatures
      /\ d.services.schema \subseteq ServiceFeatures
      /\ d.incidents.schema \subseteq IncidentFeatures
  BY DatabaseTables DEF UsersOK, ServicesOK, IncidentsOK, UsersTable, ServicesTable, IncidentsTable
<1> QED
  BY <1>1, TableWise DEF Follows

\* A revision that is due and not refused makes the schema that of one more.
LEMMA UpgradeFollows ==
  ASSUME NEW d, Fits(d), NEW R \in SUBSET Revisions, Closed(R), Follows(d, R),
         NEW r \in Revisions \ R, Parents(r) \subseteq R, Upgrade(r, d).ok
  PROVE  Follows(Upgrade(r, d).new, R \cup {r})
<1> DEFINE e == Upgrade(r, d).new
<1>1. Fits(e)
  BY UpgradeKeeps
<1>2. /\ UsersOK(d.users) /\ ServicesOK(d.services) /\ IncidentsOK(d.incidents)
      /\ d = [users |-> d.users, services |-> d.services, incidents |-> d.incidents]
  BY DatabaseTables
<1>3. e = [users |-> UpUsers(r, d.users), services |-> UpServices(r, d.services),
           incidents |-> UpIncidents(r, d.incidents)]
  BY <1>2, UpgradeByTable
<1> HIDE DEF e
<1>4. /\ e.users = UpUsers(r, d.users) /\ e.services = UpServices(r, d.services)
      /\ e.incidents = UpIncidents(r, d.incidents)
  BY <1>3
<1>5. /\ UsersWise(d.users.schema, R) /\ ServicesWise(d.services.schema, R) /\ IncidentsWise(d.incidents.schema, R)
  BY FollowsTableWise
<1>6. LineByLine(R)
  BY ClosedLineByLine
<1>7. UsersWise(e.users.schema, R \cup {r})
  BY <1>2, <1>4, <1>5, <1>6 DEF UsersWise, UpUsers, LineByLine, UsersOK, UsersTable, AuthFields, Revisions
<1>8. ServicesWise(e.services.schema, R \cup {r})
  BY <1>2, <1>4, <1>5, <1>6 DEF ServicesWise, UpServices, LineByLine, ServicesOK, ServicesTable, Revisions
<1>9. IncidentsWise(e.incidents.schema, R \cup {r})
  BY <1>2, <1>4, <1>5, <1>6 DEF IncidentsWise, UpIncidents, LineByLine, IncidentsOK, IncidentsTable, Revisions
<1> QED
  BY <1>1, <1>7, <1>8, <1>9, FollowsTableWise DEF e

LEMMA DowngradeFollows ==
  ASSUME NEW d, Fits(d), OneFlag(d.users), NEW R \in SUBSET Revisions, Closed(R), Follows(d, R),
         NEW r \in R, \A s \in R : r \notin Parents(s), Downgrade(r, d).ok
  PROVE  Follows(Downgrade(r, d).new, R \ {r})
<1> DEFINE e == Downgrade(r, d).new
<1>1. Fits(e)
  BY DowngradeKeeps
<1>2. /\ UsersOK(d.users) /\ ServicesOK(d.services) /\ IncidentsOK(d.incidents)
      /\ d = [users |-> d.users, services |-> d.services, incidents |-> d.incidents]
  BY DatabaseTables
<1>3. e = [users |-> DownUsers(r, d.users), services |-> DownServices(r, d.services),
           incidents |-> DownIncidents(r, d.incidents)]
  BY <1>2, DowngradeByTable
<1> HIDE DEF e
<1>4. /\ e.users = DownUsers(r, d.users) /\ e.services = DownServices(r, d.services)
      /\ e.incidents = DownIncidents(r, d.incidents)
  BY <1>3
<1>5. /\ UsersWise(d.users.schema, R) /\ ServicesWise(d.services.schema, R) /\ IncidentsWise(d.incidents.schema, R)
  BY FollowsTableWise
<1>6. /\ LineByLine(R)
      /\ r = "0001" => "003" \notin R
      /\ r = "003" => "004" \notin R
      /\ r = "004" => "7e8a" \notin R
      /\ r = "006" => "007" \notin R
      /\ r = "008" => "009" \notin R
      /\ r # "7e8a"
  BY ClosedLineByLine, ParentsOf DEF Downgrade, Down7e8a
<1>7. UsersWise(e.users.schema, R \ {r})
  BY <1>2, <1>4, <1>5, <1>6 DEF UsersWise, DownUsers, LineByLine, UsersOK, UsersTable, AuthFields, Revisions, Empty
<1>8. ServicesWise(e.services.schema, R \ {r})
  BY <1>2, <1>4, <1>5, <1>6 DEF ServicesWise, DownServices, LineByLine, ServicesOK, ServicesTable, Revisions, Empty
<1>9. IncidentsWise(e.incidents.schema, R \ {r})
  BY <1>2, <1>4, <1>5, <1>6 DEF IncidentsWise, DownIncidents, LineByLine, IncidentsOK, IncidentsTable, Revisions,
                                Empty
<1> QED
  BY <1>1, <1>7, <1>8, <1>9, FollowsTableWise DEF e

\* On the schema of a version, what is due is refused for one reason only.
LEMMA DueIsRefusedOnlyFor7e8a ==
  ASSUME NEW d, Fits(d), NEW R \in SUBSET Revisions, Closed(R), Follows(d, R),
         NEW r \in Revisions \ R, Parents(r) \subseteq R, ~Upgrade(r, d).ok
  PROVE  r = "7e8a" /\ d.services.ids # {}
<1>1. /\ UsersWise(d.users.schema, R) /\ ServicesWise(d.services.schema, R) /\ IncidentsWise(d.incidents.schema, R)
  BY FollowsTableWise
<1>2. LineByLine(R)
  BY ClosedLineByLine
<1> USE <1>1, <1>2, ParentsOf DEF UsersWise, ServicesWise, IncidentsWise, LineByLine, Upgrade
<1>3. r # "0001"
  BY DEF Up0001, Tables
<1>4. r # "003"
  BY DEF Up003
<1>5. r # "004"
  BY DEF Up004
<1>6. r # "005"
  BY DEF Up005
<1>7. r # "006"
  BY DEF Up006
<1>8. r # "007"
  OBVIOUS
<1>9. r # "008"
  <2> SUFFICES ASSUME r = "008"
               PROVE  FALSE
    OBVIOUS
  <2>1. "006" \in R /\ "008" \notin R
    OBVIOUS
  <2>2. AuthFields \cap d.users.schema = {} /\ "is_admin" \in d.users.schema
    BY <2>1 DEF AuthFields
  <2> QED
    BY <2>2 DEF Up008
<1>10. r # "009"
  BY DEF Up009
<1>11. r = "7e8a" => d.services.ids # {}
  BY DEF Up7e8a
<1> QED
  BY <1>3, <1>4, <1>5, <1>6, <1>7, <1>8, <1>9, <1>10, <1>11 DEF Revisions


\* What the plan of a command says of the revisions that may be next.
LEMMA Due ==
  ASSUME KeepsInv, NEW m \in Migrators, OnRecord(cmd[m]), NEW r \in Ready(cmd[m])
  PROVE  LET K == Known(cmd[m].heads)
         IN /\ cmd[m].heads \in Records /\ K \subseteq Revisions /\ Closed(K) /\ r \in Revisions
            /\ cmd[m].way = "up" => r \notin K /\ Parents(r) \subseteq K
            /\ cmd[m].way = "down" => r \in K /\ \A s \in K : r \notin Parents(s)
<1> DEFINE c == cmd[m]
           K == Known(c.heads)
<1>1. c \in Command
  BY DEF KeepsInv, TypeOK
<1>2. c.heads \in Records
  BY NotOverlapping DEF OnRecord
<1>3. K \subseteq Revisions /\ Closed(K)
  BY <1>2, KnownSets
<1>4. r \in Revisions
  BY <1>1 DEF Ready, Command
<1>5. c.way = "up" => r \notin K /\ Parents(r) \subseteq K
  BY <1>4, ParentsAreRevisions DEF Ready, OnRecord
<1>6. c.way = "down" => r \in K /\ \A s \in K : r \notin Parents(s)
  BY DEF Ready, OnRecord, Closed
<1> QED
  BY <1>2, <1>3, <1>4, <1>5, <1>6

\* A step of one command that commits nothing.
LEMMA RecordCommandStep ==
  ASSUME RecordInv, KeepsInv', NEW m \in Migrators, NEW x,
         cmd'[m] = x, \A n \in Migrators \ {m} : cmd'[n] = cmd[n], UNCHANGED <<db, rows>>,
         x.pc = "running" => OnRecord(x),
         \A n \in Migrators \ {m} : Changed(x) \cap Changed(cmd[n]) = {},
         x.pc = "running" => \A n \in Migrators \ {m} : Running(n) => x.way = "up" /\ cmd[n].way = "up"
  PROVE  RecordInv'
<1>1. cmd'[m] = x /\ \A n \in Migrators \ {m} : cmd'[n] = cmd[n]
  OBVIOUS
<1>2. db' = db /\ rows' = rows
  OBVIOUS
<1>3. (Recorded /\ ~Overlapping(rows))'
  BY <1>2 DEF RecordInv, Recorded
<1>4. ASSUME NEW n \in Migrators, Running(n)'
      PROVE  OnRecord(cmd[n])'
  <2> DEFINE y == cmd'[n]
  <2>1. y.pc = "running"
    BY <1>4 DEF Running
  <2>2. OnRecord(y)
    BY <1>1, <2>1 DEF RecordInv, Running
  <2> QED
    BY <1>2, <2>2 DEF OnRecord, View
<1>5. ASSUME NEW n \in Migrators, NEW o \in Migrators, n # o
      PROVE  (Changed(cmd[n]) \cap Changed(cmd[o]) = {} /\ (Running(n) /\ Running(o) => cmd[n].way = "up"))'
  <2>1. CASE n = m
    BY <1>1, <1>5, <2>1 DEF RecordInv, Running
  <2>2. CASE o = m
    <3>1. Changed(x) \cap Changed(cmd[n]) = {}
      BY <1>5, <2>2
    <3> QED
      BY <1>1, <1>5, <2>2, <3>1 DEF RecordInv, Running
  <2>3. CASE n # m /\ o # m
    BY <1>1, <1>5, <2>3 DEF RecordInv, Running
  <2> QED
    BY <2>1, <2>2, <2>3
<1> QED
  BY <1>3, <1>4, <1>5 DEF RecordInv

LEMMA PlanKeepsRecord ==
  ASSUME RecordInv, NEW m \in Migrators, Migrate(m) \/ Retreat(m), Alone
  PROVE  RecordInv'
<1> DEFINE K == Known(rows)
<1>1. /\ KeepsInv /\ KeepsInv' /\ cmd \in [Migrators -> Command] /\ rows \in Records /\ Follows(db, K)
      /\ ~Overlapping(rows) /\ rows \subseteq Revisions
  BY PlanKeepsInv, NotOverlapping DEF RecordInv, KeepsInv, TypeOK, Recorded
<1>2. K \subseteq Revisions /\ Closed(K)
  BY <1>1, KnownSets
<1>3. ASSUME NEW way \in {"up", "down"}, NEW R \in SUBSET Revisions, Plan(m, way, R),
             way = "up" => R = Revisions \ K,
             way = "down" => R \subseteq K /\ Closed(K \ R),
             \A n \in Migrators : Running(n) => way = "up" /\ cmd[n].way = "up"
      PROVE  RecordInv'
  <2> DEFINE x == [Idle EXCEPT !.pc = "running", !.way = way, !.read = rows, !.heads = rows, !.todo = R]
  <2>1. /\ cmd'[m] = x /\ \A n \in Migrators \ {m} : cmd'[n] = cmd[n]
        /\ UNCHANGED <<db, rows>> /\ R # {}
    BY <1>1, <1>3 DEF Plan
  <2>2. /\ x.ddl = {} /\ x.holds = {} /\ x.way = way /\ x.todo = R /\ x.read = rows /\ x.heads = rows
    BY DEF Idle
  <2> HIDE DEF x
  <2>3. View(x) = db
    <3>1. db = [users |-> db.users, services |-> db.services, incidents |-> db.incidents]
      BY <1>1, DatabaseTables DEF KeepsInv, TypeOK
    <3> QED
      BY <2>2, <3>1 DEF View, Choice
  <2>4. Deleted(x) = {} /\ Changed(x) = {}
    BY <2>2 DEF Deleted, Changed, Inserted
  <2>5. Applied(x) = K
    BY <2>2 DEF Applied
  <2>6. way = "up" => "009" \notin rows
    <3>1. "009" \in rows => rows = {"009"}
      BY <1>1 DEF Records
    <3>2. Known({"009"}) = Revisions
      BY KnownOfRecords, Lines, LinesOf DEF Revisions
    <3> QED
      BY <1>3, <2>1, <3>1, <3>2
  <2>7. way = "up" /\ rows = {} => "0001" \in x.todo \ x.ddl
    BY <1>3, <2>2, KnownOfRecords DEF Revisions
  <2>8. OnRecord(x)
    BY <1>1, <1>3, <2>2, <2>3, <2>4, <2>5, <2>6, <2>7 DEF OnRecord
  <2> QED
    BY <1>1, <1>3, <2>1, <2>2, <2>4, <2>8, RecordCommandStep
<1>4. CASE Migrate(m)
  <2>1. Plan(m, "up", Revisions \ K)
    BY <1>4 DEF Migrate
  <2>2. \A n \in Migrators : Running(n) => cmd[n].way = "up"
    BY <1>4 DEF Alone
  <2> QED
    BY <1>3, <2>1, <2>2
<1>5. CASE Retreat(m)
  <2>1. PICK R \in Versions : R \subseteq K /\ Plan(m, "down", K \ R)
    BY <1>5 DEF Retreat
  <2>2. K \ (K \ R) = R /\ Closed(R)
    BY <2>1 DEF Versions
  <2>3. \A n \in Migrators : ~Running(n)
    BY <1>5 DEF Alone
  <2>4. K \ R \in SUBSET Revisions
    BY <1>2
  <2> QED
    BY <1>3, <2>1, <2>2, <2>3, <2>4
<1> QED
  BY <1>4, <1>5

LEMMA ExecuteKeepsRecord ==
  ASSUME RecordInv, NEW m \in Migrators, NEW r \in Revisions, Execute(m, r)
  PROVE  RecordInv'
<1> DEFINE c == cmd[m]
           e == Effect(c, r).new
           T == c.holds \cup Touches(r)
           x == Executed(c, r)
           K == Known(c.heads)
<1>1. /\ KeepsInv /\ KeepsInv' /\ c \in Command /\ Fits(db) /\ Carries(c) /\ c.ddl = {} /\ r \in Ready(c)
      /\ c.pc = "running" /\ OnRecord(c) /\ OneFlag(db.users) /\ Fits(c.work)
  BY ExecuteKeepsInv DEF RecordInv, KeepsInv, TypeOK, Execute, Reaches, Running
<1>2. /\ cmd'[m] = x /\ \A n \in Migrators \ {m} : cmd'[n] = cmd[n]
      /\ UNCHANGED <<db, rows>>
      /\ x.ddl = {r} /\ x.holds = T /\ x.work = Choice(T, e, Empty)
      /\ x.pc = c.pc /\ x.way = c.way /\ x.todo = c.todo /\ x.read = c.read /\ x.heads = c.heads
  BY <1>1, ExecutedCommand DEF Execute, KeepsInv, TypeOK
<1>3. /\ Fits(e) /\ OnlyTouched(Touches(r), View(c), e)
  BY <1>1, ExecutedKeeps
<1>4. /\ K \subseteq Revisions /\ Closed(K) /\ c.heads \in Records
      /\ c.way = "up" => r \notin K /\ Parents(r) \subseteq K
      /\ c.way = "down" => r \in K /\ \A s \in K : r \notin Parents(s)
  BY <1>1, Due
<1>5. Fits(View(c)) /\ (c.way = "down" => OneFlag(View(c).users))
  BY <1>1, ChoiceFits DEF View, Choice, Carries
<1>6. Follows(View(c), K) => Follows(e, Applied(x))
  <2>1. CASE c.way = "up"
    <3>1. e = Upgrade(r, View(c)).new /\ Upgrade(r, View(c)).ok
      BY <2>1 DEF Effect, Execute
    <3>2. Applied(x) = K \cup {r}
      BY <1>2, <2>1 DEF Applied
    <3> HIDE DEF x, e
    <3> QED
      BY <1>4, <1>5, <2>1, <3>1, <3>2, UpgradeFollows
  <2>2. CASE c.way = "down"
    <3>1. e = Downgrade(r, View(c)).new /\ Downgrade(r, View(c)).ok
      BY <2>2 DEF Effect, Execute
    <3>2. Applied(x) = K \ {r}
      BY <1>2, <2>2 DEF Applied
    <3> HIDE DEF x, e
    <3> QED
      BY <1>4, <1>5, <2>2, <3>1, <3>2, DowngradeFollows
  <2> QED
    BY <1>1, <2>1, <2>2 DEF Command
<1> HIDE DEF e, x
<1>7. View(x) = e
  <2>1. e = [users |-> e.users, services |-> e.services, incidents |-> e.incidents]
    BY <1>3, DatabaseTables
  <2>2. /\ "users" \notin T => e.users = db.users
        /\ "services" \notin T => e.services = db.services
        /\ "incidents" \notin T => e.incidents = db.incidents
    BY <1>3 DEF OnlyTouched, View, Choice
  <2> QED
    BY <1>2, <2>1, <2>2 DEF View, Choice
<1>8. /\ Deleted(x) = Deleted(c) /\ Changed(x) = Changed(c)
      /\ Applied(c) = K
  BY <1>1, <1>2 DEF Deleted, Inserted, Changed, Applied
<1>9. c.way = "up" /\ c.read = {} => "users" \in T /\ "table" \notin db.users.schema /\ "0001" \notin c.todo \ {r}
  <2> SUFFICES ASSUME c.way = "up", c.read = {}
               PROVE  "users" \in T /\ "table" \notin db.users.schema /\ "0001" \notin c.todo \ {r}
    OBVIOUS
  <2>1. CASE r = "0001"
    <3>1. c.holds = {}
      BY <1>1, <2>1 DEF OnRecord, Ready
    <3>2. "table" \notin View(c).users.schema
      BY <2>1 DEF Execute, Effect, Upgrade, Up0001, Tables
    <3> QED
      BY <2>1, <3>1, <3>2 DEF View, Choice, Touches, Tables
  <2>2. CASE r # "0001"
    <3>1. "0001" \in K
      <4>1. \A s \in Revisions \ {"0001"} : Parents(s) # {}
        BY ParentsOf DEF Revisions
      <4>2. K # {}
        BY <1>4, <2>2, <4>1
      <4>3. LineByLine(K)
        BY <1>4, ClosedLineByLine
      <4> QED
        BY <1>4, <4>2, <4>3 DEF LineByLine, Revisions
    <3>2. "0001" \notin c.todo
      BY <1>1, <3>1 DEF OnRecord
    <3> QED
      BY <1>1, <3>2 DEF OnRecord
  <2> QED
    BY <2>1, <2>2
<1>10. OnRecord(x)
  BY <1>1, <1>2, <1>6, <1>7, <1>8, <1>9 DEF OnRecord
<1> QED
  <2>1. \A n \in Migrators \ {m} : /\ Changed(x) \cap Changed(cmd[n]) = {}
                                   /\ Running(n) => x.way = "up" /\ cmd[n].way = "up"
    BY <1>1, <1>2, <1>8 DEF RecordInv, Running
  <2> QED
    BY <1>1, <1>2, <1>10, <2>1, RecordCommandStep

LEMMA RecordKeepsRecord ==
  ASSUME RecordInv, NEW m \in Migrators, NEW r \in Revisions, Record(m, r)
  PROVE  RecordInv'
<1> DEFINE c == cmd[m]
           K == Known(c.heads)
           G == HeadsAfter(c, r)
<1>1. /\ KeepsInv /\ KeepsInv' /\ c \in Command /\ c.ddl = {r} /\ r \in Ready(c)
      /\ c.pc = "running" /\ OnRecord(c)
  BY RecordKeepsInv DEF RecordInv, KeepsInv, TypeOK, Record, Running
<1>2. /\ K \subseteq Revisions /\ Closed(K) /\ c.heads \in Records
      /\ c.way = "up" => r \notin K /\ Parents(r) \subseteq K
      /\ c.way = "down" => r \in K /\ \A s \in K : r \notin Parents(s)
  BY <1>1, Due
<1>3. /\ G \in Records
      /\ c.way = "up" => Known(G) = K \cup {r}
      /\ c.way = "down" => Known(G) = K \ {r}
  <2>1. CASE c.way = "up"
    BY <1>2, <2>1, UpRecord DEF HeadsAfter
  <2>2. CASE c.way = "down"
    BY <1>2, <2>2, DownRecord DEF HeadsAfter
  <2> QED
    BY <1>1, <2>1, <2>2 DEF Command
<1> HIDE DEF G
<1>4. PICK x \in Command :
        /\ cmd'[m] = x /\ \A n \in Migrators \ {m} : cmd'[n] = cmd[n]
        /\ x.heads = G /\ x.todo = c.todo \ {r} /\ x.ddl = {}
        /\ x.pc = c.pc /\ x.way = c.way /\ x.read = c.read /\ x.holds = c.holds /\ x.work = c.work
  BY <1>1, RecordedCommand DEF G, KeepsInv, TypeOK
<1>5. /\ ToDelete(c, r) \subseteq rows /\ RowsFree(m, ToChange(c, r)) /\ UNCHANGED <<db, rows>>
  BY DEF Record
<1>6. /\ Deleted(x) \subseteq Deleted(c) \cup ToDelete(c, r)
      /\ Inserted(x) \subseteq Inserted(c) \cup ToInsert(c, r)
  BY <1>4 DEF Deleted, Inserted, ToDelete, ToInsert, G
<1>7. Deleted(x) \subseteq rows
  BY <1>1, <1>5, <1>6 DEF OnRecord
<1>8. \A n \in Migrators \ {m} : Changed(x) \cap Changed(cmd[n]) = {}
  <2> SUFFICES ASSUME NEW n \in Migrators \ {m}
               PROVE  Changed(x) \cap Changed(cmd[n]) = {}
    OBVIOUS
  <2>1. Changed(c) \cap Changed(cmd[n]) = {}
    BY DEF RecordInv
  <2>2. Changed(cmd[n]) \cap ToChange(c, r) = {}
    BY <1>5 DEF RowsFree
  <2>3. Changed(x) \subseteq Changed(c) \cup ToChange(c, r)
    BY <1>6 DEF Changed, ToChange
  <2> QED
    BY <2>1, <2>2, <2>3
<1>9. Applied(x) = Applied(c) /\ View(x) = View(c)
  BY <1>1, <1>3, <1>4 DEF Applied, View, Command
<1>10. G \subseteq Revisions /\ ~Overlapping(G)
  BY <1>3, KnownSets, NotOverlapping
<1>11. IF c.way = "up" THEN x.todo = Revisions \ Known(G)
       ELSE x.todo \subseteq Known(G) /\ Known(G) \ x.todo = K \ c.todo
  <2>1. c.way \in {"up", "down"} /\ r \in c.todo
    BY <1>1 DEF Command, Ready
  <2> QED
    BY <1>1, <1>3, <1>4, <2>1 DEF OnRecord
<1>12. OnRecord(x)
  BY <1>1, <1>4, <1>7, <1>9, <1>10, <1>11 DEF OnRecord
<1> QED
  <2>1. \A n \in Migrators \ {m} : Running(n) => x.way = "up" /\ cmd[n].way = "up"
    BY <1>1, <1>4 DEF RecordInv, Running
  <2> QED
    BY <1>1, <1>4, <1>5, <1>8, <1>12, <2>1, RecordCommandStep

LEMMA OverKeepsRecord ==
  ASSUME RecordInv, NEW m \in Migrators, Over(m), UNCHANGED <<db, rows>>
  PROVE  RecordInv'
<1>1. Idle.pc = "idle" /\ Changed(Idle) = {}
  BY DEF Idle, Changed, Deleted, Inserted
<1>2. KeepsInv'
  BY OverKeepsInv DEF RecordInv
<1> QED
  <2>1. cmd'[m] = Idle /\ \A n \in Migrators \ {m} : cmd'[n] = cmd[n]
    BY DEF Over, RecordInv, KeepsInv, TypeOK
  <2> QED
    BY <1>1, <1>2, <2>1, RecordCommandStep

\* Of several upgrades one is committed, and the others have become late.
LEMMA CommitKeepsRecord ==
  ASSUME RecordInv, NEW m \in Migrators, Commit(m)
  PROVE  RecordInv'
<1> DEFINE c == cmd[m]
<1>1. /\ KeepsInv /\ KeepsInv' /\ cmd \in [Migrators -> Command] /\ c \in Command /\ OnRecord(c)
      /\ c.todo = {} /\ c.ddl = {}
      /\ db' = View(c) /\ rows' = (rows \ Deleted(c)) \cup Inserted(c) /\ cmd' = [cmd EXCEPT ![m] = Idle]
  BY CommitKeeps DEF RecordInv, KeepsInv, TypeOK, Commit, Over, Ready, Running
<1>2. cmd'[m] = Idle /\ \A n \in Migrators \ {m} : cmd'[n] = cmd[n]
  BY <1>1
<1>3. c.heads \in Records /\ rows \in Records /\ Known(c.heads) \subseteq Revisions
  BY <1>1, NotOverlapping, KnownSets DEF OnRecord, RecordInv, KeepsInv, TypeOK
<1>4. c.way = "up" => c.heads = {"009"}
  <2> SUFFICES ASSUME c.way = "up"
               PROVE  c.heads = {"009"}
    OBVIOUS
  <2>1. Known(c.heads) = Revisions
    BY <1>1, <1>3 DEF OnRecord
  <2>2. PICK h \in c.heads : "009" \in Line[h]
    BY <2>1 DEF Revisions, Known
  <2>3. h = "009"
    <3>1. h \in Revisions
      BY <1>3, KnownSets
    <3>2. \A r \in Revisions \ {"009"} : "009" \notin LineOf(r)
      BY LinesOf DEF Revisions
    <3> QED
      BY <2>2, <3>1, <3>2, Lines
  <2> QED
    BY <1>3, <2>2, <2>3 DEF Records
<1>5. rows = c.read
  <2> SUFFICES ASSUME c.way = "up", rows = {"009"}, rows # c.read
               PROVE  FALSE
    BY <1>1 DEF OnRecord
  <2>1. c.read = {}
    BY <1>1, <1>4 DEF OnRecord, Deleted
  <2>2. "table" \notin db.users.schema
    BY <1>1, <2>1 DEF OnRecord
  <2>3. "0001" \in Known(rows)
    BY KnownOfRecords, Lines, LinesOf DEF Revisions
  <2>4. UsersWise(db.users.schema, Known(rows))
    BY FollowsTableWise DEF RecordInv, Recorded, KeepsInv, TypeOK
  <2> QED
    BY <2>2, <2>3, <2>4 DEF UsersWise
<1>6. rows' = c.heads
  BY <1>1, <1>5 DEF Deleted, Inserted
<1>7. (Recorded /\ ~Overlapping(rows))'
  <2>1. Applied(c) = Known(c.heads)
    BY <1>1 DEF Applied
  <2>2. Follows(View(c), Known(c.heads))
    BY <1>1, <1>5, <2>1 DEF OnRecord
  <2>3. ~Overlapping(c.heads)
    BY <1>1 DEF OnRecord
  <2> QED
    BY <1>1, <1>6, <2>2, <2>3 DEF Recorded
<1>8. ASSUME NEW n \in Migrators, Running(n)'
      PROVE  OnRecord(cmd[n])'
  <2>1. n # m /\ cmd'[n] = cmd[n]
    BY <1>2, <1>8 DEF Running, Idle
  <2>2. OnRecord(cmd[n]) /\ cmd[n].way = "up" /\ c.way = "up" /\ Changed(c) \cap Changed(cmd[n]) = {}
    BY <1>8, <2>1 DEF RecordInv, Running, Commit
  <2>3. rows' = {"009"} /\ "009" \notin cmd[n].read /\ "009" \notin rows
    BY <1>1, <1>4, <1>5, <1>6, <2>2 DEF OnRecord
  <2>4. Deleted(cmd[n]) = {}
    <3>1. Deleted(c) = rows
      BY <1>4, <1>5, <2>2, <2>3 DEF Deleted
    <3> QED
      BY <2>2, <3>1 DEF OnRecord, Changed
  <2>5. cmd[n].read = {} /\ "users" \in cmd[n].holds => db'.users = db.users
    <3>1. cmd[n].holds \cap c.holds = {}
      BY <1>1, <2>1 DEF KeepsInv
    <3> QED
      BY <1>1, <3>1 DEF View, Choice
  <2>6. rows' # cmd[n].read
    BY <2>3
  <2> QED
    BY <2>1, <2>2, <2>3, <2>4, <2>5, <2>6 DEF OnRecord
<1>9. Idle.pc = "idle" /\ Changed(Idle) = {}
  BY DEF Idle, Changed, Deleted, Inserted
<1>10. ASSUME NEW n \in Migrators, NEW o \in Migrators, n # o
       PROVE  (Changed(cmd[n]) \cap Changed(cmd[o]) = {} /\ (Running(n) /\ Running(o) => cmd[n].way = "up"))'
  <2>1. CASE n = m \/ o = m
    BY <1>2, <1>9, <1>10, <2>1 DEF Running
  <2>2. CASE n # m /\ o # m
    BY <1>2, <1>10, <2>2 DEF RecordInv, Running
  <2> QED
    BY <2>1, <2>2
<1> QED
  BY <1>1, <1>7, <1>8, <1>10 DEF RecordInv


SchemaStays ==
  /\ UNCHANGED <<rows, cmd>>
  /\ db'.users.schema = db.users.schema
  /\ db'.services.schema = db.services.schema
  /\ db'.incidents.schema = db.incidents.schema

LEMMA ApplicationKeepsSchema ==
  ASSUME KeepsInv, \/ \E u \in Users : Register(u) \/ SetFlag(u)
                   \/ \E s \in Services : AddService(s) \/ \E breach \in BOOLEAN : OpenIncident(s, breach)
  PROVE  SchemaStays
<1>1. db \in Database
  BY DEF KeepsInv, TypeOK, Fits
<1> USE <1>1 DEF SchemaStays, Use, Database
<1>2. ASSUME NEW u \in Users, Register(u)
      PROVE  SchemaStays
  <2>1. CASE Use({"users"}, [db EXCEPT !.users.ids = @ \cup {u}])
    BY <2>1
  <2>2. CASE Use({"users"}, [db EXCEPT !.users.ids = @ \cup {u}, !.users.super = @ \cup {u}])
    BY <2>2
  <2> QED
    BY <1>2, <2>1, <2>2 DEF Register
<1>3. ASSUME NEW u \in Users, SetFlag(u)
      PROVE  SchemaStays
  BY <1>3 DEF SetFlag
<1>4. ASSUME NEW s \in Services, AddService(s)
      PROVE  SchemaStays
  <2>1. CASE Use({"services"}, [db EXCEPT !.services.ids = @ \cup {s}])
    BY <2>1
  <2>2. CASE Use({"services"}, [db EXCEPT !.services.ids = @ \cup {s}, !.services.targets = @ \cup {s}])
    BY <2>2
  <2> QED
    BY <1>4, <2>1, <2>2 DEF AddService
<1>5. ASSUME NEW s \in Services, NEW breach \in BOOLEAN, OpenIncident(s, breach)
      PROVE  SchemaStays
  BY <1>5 DEF OpenIncident
<1> HIDE DEF SchemaStays
<1> QED
  BY <1>2, <1>3, <1>4, <1>5

LEMMA ApplicationKeepsRecord ==
  ASSUME RecordInv, KeepsInv', SchemaStays
  PROVE  RecordInv'
<1>1. /\ db'.users.schema = db.users.schema /\ db'.services.schema = db.services.schema
      /\ db'.incidents.schema = db.incidents.schema /\ UNCHANGED <<rows, cmd>>
  BY DEF SchemaStays
<1>2. \A R : Follows(db, R) <=> Follows(db', R)
  BY <1>1 DEF Follows, FollowsUsers, FollowsServices, FollowsIncidents
<1>3. \A c, R : Follows(View(c), R) <=> Follows(View(c), R)'
  <2>1. ASSUME NEW c, NEW R
        PROVE  Follows(View(c), R) <=> Follows(View(c)', R)
    BY <1>1 DEF View, Choice, Follows, FollowsUsers, FollowsServices, FollowsIncidents
  <2> QED
    BY <2>1
<1>4. (Recorded /\ ~Overlapping(rows))'
  BY <1>1, <1>2 DEF RecordInv, Recorded
<1>5. ASSUME NEW m \in Migrators, Running(m)
      PROVE  OnRecord(cmd[m])'
  BY <1>1, <1>3, <1>5 DEF RecordInv, OnRecord
<1> QED
  BY <1>1, <1>4, <1>5 DEF RecordInv, Running

LEMMA RecordStep == RecordInv /\ [Next]_vars /\ [Alone]_vars => RecordInv'
<1> SUFFICES ASSUME RecordInv, [Next]_vars, [Alone]_vars
             PROVE  RecordInv'
  OBVIOUS
<1>1. KeepsInv /\ KeepsInv'
  BY KeepsStep DEF RecordInv
<1>2. CASE UNCHANGED vars
  BY <1>1, <1>2, ApplicationKeepsRecord DEF vars, SchemaStays
<1>3. ASSUME NEW m \in Migrators, Migrate(m) \/ Retreat(m), Alone
      PROVE  RecordInv'
  BY <1>3, PlanKeepsRecord
<1>4. ASSUME NEW m \in Migrators, NEW r \in Revisions, Execute(m, r) \/ Record(m, r)
      PROVE  RecordInv'
  BY <1>4, ExecuteKeepsRecord, RecordKeepsRecord
<1>5. ASSUME NEW m \in Migrators, Fail(m) \/ Killed(m)
      PROVE  RecordInv'
  BY <1>5, OverKeepsRecord DEF Fail, Killed
<1>6. ASSUME NEW m \in Migrators, Commit(m)
      PROVE  RecordInv'
  BY <1>6, CommitKeepsRecord
<1>7. ASSUME \/ \E u \in Users : Register(u) \/ SetFlag(u)
             \/ \E s \in Services : AddService(s) \/ \E breach \in BOOLEAN : OpenIncident(s, breach)
      PROVE  RecordInv'
  <2>1. SchemaStays
    BY <1>1, <1>7, ApplicationKeepsSchema
  <2> QED
    BY <1>1, <2>1, ApplicationKeepsRecord
<1> QED
  BY <1>2, <1>3, <1>4, <1>5, <1>6, <1>7 DEF Next

\* The heads of a version stand for all of it.
LEMMA HeadsOfVersion ==
  ASSUME NEW R \in Versions
  PROVE  Heads(R) \in Records /\ Known(Heads(R)) = R
<1> DEFINE H == Heads(R)
<1>1. R \subseteq Revisions /\ Closed(R) /\ LineByLine(R)
  BY ClosedLineByLine DEF Versions
<1>2. H \subseteq R /\ \A r \in R : r \in H <=> \A s \in R : r \notin Parents(s)
  BY DEF Heads
<1> HIDE DEF H
<1>3. \A r \in Revisions : /\ r = "0001" /\ r \in R /\ r \notin H => "003" \in R
                           /\ r = "003" /\ r \in R /\ r \notin H => "004" \in R
                           /\ r = "004" /\ r \in R /\ r \notin H => "7e8a" \in R
                           /\ r = "7e8a" /\ r \in R /\ r \notin H => "005" \in R \/ "006" \in R
                           /\ r \in {"005", "006"} /\ r \in R /\ r \notin H => "007" \in R
                           /\ r = "007" /\ r \in R /\ r \notin H => "008" \in R
                           /\ r = "008" /\ r \in R /\ r \notin H => "009" \in R
                           /\ r = "009" /\ r \in R => r \in H
  BY <1>1, <1>2, ParentsOf DEF Revisions
<1>4. Known(H) \subseteq R
  <2>1. ASSUME NEW h \in H
        PROVE  Line[h] \subseteq R
    BY <1>1, <1>2, <2>1, Lines, LinesOf DEF LineByLine, Revisions
  <2> QED
    BY <2>1 DEF Known
<1>5. R \subseteq Known(H)
  <2> DEFINE K == Known(H)
  <2>1. LineByLine(K) /\ H \subseteq K
    <3>1. H \subseteq Revisions
      BY <1>1, <1>2
    <3>2. K \subseteq Revisions /\ Closed(K)
      BY <3>1, KnownClosed
    <3>3. \A r \in Revisions : r \in Line[r]
      BY Lines, LinesOf DEF Revisions
    <3>4. H \subseteq K
      BY <3>1, <3>3 DEF Known
    <3> QED
      BY <3>2, <3>4, ClosedLineByLine
  <2> HIDE DEF K
  <2>2. /\ "009" \in R => "009" \in K
        /\ "008" \in R => "008" \in K
        /\ "007" \in R => "007" \in K
    BY <1>3, <2>1 DEF LineByLine, Revisions
  <2>3. /\ "006" \in R => "006" \in K
        /\ "005" \in R => "005" \in K
        /\ "7e8a" \in R => "7e8a" \in K
    BY <1>3, <2>1, <2>2 DEF LineByLine, Revisions
  <2>4. /\ "004" \in R => "004" \in K
        /\ "003" \in R => "003" \in K
        /\ "0001" \in R => "0001" \in K
    BY <1>3, <2>1, <2>3 DEF LineByLine, Revisions
  <2> QED
    BY <1>1, <2>2, <2>3, <2>4 DEF Revisions, K
<1>6. H \in Records
  <2>1. ASSUME NEW v \in H, v \in Known(H \ {v})
        PROVE  FALSE
    <3>1. PICK h \in H \ {v} : v \in Line[h]
      BY <2>1 DEF Known
    <3>2. h \in Revisions /\ Line[h] \subseteq R /\ h \in R /\ v \in R
      BY <1>1, <1>2, <1>4, <3>1 DEF Known
    <3>3. \E s \in Line[h] : v \in Parents(s)
      BY <3>1, <3>2, Lines, LinesOf, ParentsOf DEF Revisions
    <3> QED
      BY <1>2, <3>2, <3>3
  <2>2. ~Overlapping(H)
    BY <2>1 DEF Overlapping
  <2> QED
    BY <1>1, <1>2, <2>2, NotOverlapping
<1> QED
  BY <1>4, <1>5, <1>6 DEF H

LEMMA RecordInit == Init => RecordInv
<1> SUFFICES ASSUME Init
             PROVE  RecordInv
  OBVIOUS
<1>1. KeepsInv
  BY KeepsInit
<1>2. PICK R \in Versions :
        /\ db = [Empty EXCEPT !.users.schema = SchemaOf(R).users,
                              !.services.schema = SchemaOf(R).services,
                              !.incidents.schema = SchemaOf(R).incidents]
        /\ rows = Heads(R)
  BY DEF Init
<1>3. Follows(db, R)
  <2>1. "sla_required" \notin SchemaOf(R).services
    BY DEF SchemaOf
  <2>2. /\ db.users.schema = SchemaOf(R).users /\ db.services.schema = SchemaOf(R).services
        /\ db.incidents.schema = SchemaOf(R).incidents
    BY <1>2 DEF Empty
  <2> QED
    BY <2>1, <2>2 DEF Follows, FollowsUsers, FollowsServices, FollowsIncidents
<1>4. Recorded /\ ~Overlapping(rows)
  BY <1>1, <1>2, <1>3, HeadsOfVersion, NotOverlapping DEF Recorded, KeepsInv, TypeOK
<1>5. Idle.pc = "idle" /\ Changed(Idle) = {}
  BY DEF Idle, Changed, Deleted, Inserted
<1>6. \A m \in Migrators : cmd[m] = Idle
  BY DEF Init
<1> QED
  BY <1>1, <1>4, <1>5, <1>6 DEF RecordInv, Running

LEMMA RecordInvariant == Spec /\ DowngradesAlone => []RecordInv
BY RecordInit, RecordStep, PTL DEF Spec, DowngradesAlone

LEMMA NeverUnrecorded == RecordInv => Recorded /\ ~Unrecorded
<1> SUFFICES ASSUME RecordInv
             PROVE  Recorded /\ ~Unrecorded
  OBVIOUS
<1>1. Recorded /\ Fits(db)
  BY DEF RecordInv, KeepsInv, TypeOK
<1>2. ASSUME Unrecorded
      PROVE  FALSE
  <2>1. UsersWise(db.users.schema, Known({})) /\ UsersWise(db.users.schema, Known({"7e8a"}))
    BY <1>1, <1>2, FollowsTableWise DEF Recorded, Unrecorded
  <2>2. "0001" \in Known({"7e8a"}) /\ "0001" \notin Known({})
    BY KnownOfRecords, Lines, LinesOf DEF Revisions
  <2> QED
    BY <2>1, <2>2 DEF UsersWise
<1> QED
  BY <1>1, <1>2

LEMMA RefusedForTwoReasons ==
  ASSUME RecordInv, NEW m \in Migrators, NEW r \in Revisions, cmd[m].way = "up", Refuses(m, r) \/ Outdated(m, r)
  PROVE  (r = "7e8a" /\ db.services.ids # {}) \/ rows # cmd[m].read
<1> SUFFICES ASSUME rows = cmd[m].read
             PROVE  r = "7e8a" /\ db.services.ids # {}
  OBVIOUS
<1> DEFINE c == cmd[m]
<1>1. /\ KeepsInv /\ OnRecord(c) /\ Carries(c) /\ Fits(db) /\ Fits(c.work) /\ c \in Command
  BY DEF RecordInv, KeepsInv, TypeOK, Refuses, Reaches, Outdated, Running
<1>2. ~Outdated(m, r)
  BY DEF Outdated, ToDelete, ToInsert
<1>3. Reaches(m, r) /\ ~Upgrade(r, View(c)).ok /\ c.ddl = {} /\ r \in Ready(c)
  BY <1>2 DEF Refuses, Effect, Reaches
<1>4. /\ Known(c.heads) \subseteq Revisions /\ Closed(Known(c.heads))
      /\ r \notin Known(c.heads) /\ Parents(r) \subseteq Known(c.heads)
  BY <1>1, <1>3, Due
<1>5. Applied(c) = Known(c.heads)
  BY <1>3 DEF Applied
<1>6. Fits(View(c)) /\ Follows(View(c), Known(c.heads))
  BY <1>1, <1>5, ChoiceFits DEF OnRecord, View
<1>7. r = "7e8a" /\ View(c).services.ids # {}
  BY <1>3, <1>4, <1>6, DueIsRefusedOnlyFor7e8a
<1>8. View(c).services.ids = db.services.ids
  BY <1>1 DEF View, Choice, Carries, CarriesServices
<1> QED
  BY <1>7, <1>8

\* Where nobody downgrades beside another command, the schema is what alembic_version
\* says at every commit, whatever upgrades run at a time, fail or are killed: the one
\* way to lose the record is a downgrade beside another (005_make_sla_target_nullable.py:21,
\* 006_add_is_admin_to_users.py:27).
THEOREM SchemaFollowsRevisionsAlone == Spec /\ DowngradesAlone => [](SchemaFollowsRevisions /\ ~Unrecorded)
BY RecordInvariant, NeverUnrecorded, PTL DEF SchemaFollowsRevisions

\* And then an upgrade is refused only for the services an old release has left, and
\* for a command that was committed since it read (cli.py:31).
THEOREM UpgradeRefusedAlone == Spec /\ DowngradesAlone => [](UpgradeRefused /\ ~Unrecorded)
<1>1. RecordInv => UpgradeRefused /\ ~Unrecorded
  BY RefusedForTwoReasons, NeverUnrecorded DEF UpgradeRefused
<1> QED
  BY <1>1, RecordInvariant, PTL
===============================================================================
