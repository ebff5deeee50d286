---------------------------- MODULE AccountsProofs ----------------------------
(***************************************************************************)
(* Theorems about module Accounts, for any addresses, requests, lifetimes  *)
(* and demo services.                                                      *)
(***************************************************************************)
EXTENDS Accounts, TLAPS, SequenceTheorems

\* What create_user does to the rows: one more, at the end, everything else as
\* it was.
LEMMA InsertEffect ==
  ASSUME TypeOK, NEW email \in Emails, NEW superuser \in BOOLEAN, Insert(email, superuser)
  PROVE  /\ users' \in Seq(User)
         /\ off' \in Seq(0..now) /\ Len(off') = Len(users')
         /\ Ids \subseteq Ids'
         /\ \A i \in Ids : users'[i] = users[i] /\ off'[i] = off[i]
         /\ \E n \in Ids' : /\ Ids' = Ids \cup {n} /\ n \notin Ids
                            /\ users'[n].email = email
<1> DEFINE new == Account(email, superuser)
<1>1. new \in User /\ new.email = email
  BY DEF Account, User
<1>2. users \in Seq(User) /\ Len(users) \in Nat /\ Ids = 1..Len(users)
  BY DEF TypeOK, Ids
<1>3. users' = Append(users, new)
  BY Zenon DEF Insert
<1> HIDE DEF new
<1>4. /\ users' \in Seq(User)
      /\ Ids' = 1..(Len(users) + 1)
      /\ \A i \in Ids : users'[i] = users[i]
      /\ users'[Len(users) + 1] = new
  BY <1>1, <1>2, <1>3, AppendProperties DEF Ids
<1>5. off \in Seq(0..now) /\ Len(off) = Len(users)
  BY DEF TypeOK
<1>6. now \in Nat /\ 0 \in 0..now
  BY AccountsAssumption DEF TypeOK
<1>7. off' = Append(off, 0)
  BY DEF Insert
<1>8. /\ off' \in Seq(0..now) /\ Len(off') = Len(users) + 1
      /\ \A i \in Ids : off'[i] = off[i]
  BY <1>2, <1>5, <1>6, <1>7, AppendProperties
<1>10. Len(users') = Len(users) + 1
  BY <1>1, <1>2, <1>3, AppendProperties
<1>9. Len(users) + 1 \in Ids' /\ Ids' = Ids \cup {Len(users) + 1} /\ Len(users) + 1 \notin Ids
  BY <1>2, <1>4
<1> QED
  BY <1>1, <1>2, <1>4, <1>8, <1>9, <1>10

\* What an operator does to one row in the database.
LEMMA AlterEffect ==
  ASSUME TypeOK, NEW i \in Ids, Alter(i)
  PROVE  /\ users' \in Seq(User)
         /\ off' \in Seq(0..now) /\ Len(off') = Len(users')
         /\ Ids' = Ids
         /\ \A j \in Ids : users'[j].email = users[j].email
         /\ \A j \in Ids \ {i} : users'[j] = users[j] /\ off'[j] = off[j]
         /\ off'[i] = IF users'[i].active THEN 0 ELSE IF users[i].active THEN now ELSE off[i]
<1> PICK a \in BOOLEAN, s \in BOOLEAN :
       /\ users' = [users EXCEPT ![i].active = a, ![i].superuser = s]
       /\ off' = [off EXCEPT ![i] = IF a THEN 0 ELSE IF users[i].active THEN now ELSE off[i]]
  BY DEF Alter
<1> DEFINE row == [[users[i] EXCEPT !.active = a] EXCEPT !.superuser = s]
<1>1. users \in Seq(User) /\ i \in 1..Len(users) /\ users[i] \in User
  BY DEF TypeOK, Ids
<1>2. row \in User /\ row.email = users[i].email /\ row.active = a
  BY <1>1 DEF User
<1>3. users' = [users EXCEPT ![i] = row]
  BY <1>1
<1> HIDE DEF row
<1>4. users' \in Seq(User) /\ DOMAIN users' = DOMAIN users /\ users'[i] = row
      /\ \A j \in DOMAIN users \ {i} : users'[j] = users[j]
  <2>0. /\ [users EXCEPT ![i] = row] \in Seq(User)
        /\ Len([users EXCEPT ![i] = row]) = Len(users)
        /\ \A j \in 1..Len(users) : [users EXCEPT ![i] = row][j] = IF j = i THEN row ELSE users[j]
    BY <1>1, <1>2, ExceptSeq
  <2>1. users' \in Seq(User) /\ users'[i] = row /\ Len(users') = Len(users)
        /\ \A j \in 1..Len(users) \ {i} : users'[j] = users[j]
    BY <1>1, <1>3, <2>0
  <2>2. DOMAIN users = 1..Len(users) /\ DOMAIN users' = 1..Len(users')
    BY <1>1, <2>1, LenProperties
  <2> QED
    BY <2>1, <2>2
<1>5. now \in Nat /\ off \in Seq(0..now) /\ Len(off) = Len(users) /\ Len(users') = Len(users)
  BY <1>1, <1>2, <1>3, ExceptSeq, AccountsAssumption DEF TypeOK
<1>6. i \in 1..Len(off) /\ off[i] \in 0..now
  BY <1>1, <1>5, ElementOfSeq
<1> DEFINE time == IF a THEN 0 ELSE IF users[i].active THEN now ELSE off[i]
<1>7. off' = [off EXCEPT ![i] = time] /\ time \in 0..now
  BY <1>5, <1>6
<1> HIDE DEF time
<1>8. off' \in Seq(0..now) /\ Len(off') = Len(off) /\ off'[i] = time
      /\ \A j \in 1..Len(off) \ {i} : off'[j] = off[j]
  BY <1>5, <1>6, <1>7, ExceptSeq
<1>9. Ids = 1..Len(off)
  BY <1>1, <1>5, LenProperties DEF Ids
<1> QED
  BY <1>2, <1>4, <1>5, <1>8, <1>9 DEF Ids, time

LEMMA TypeInit == Init => TypeOK
<1> SUFFICES ASSUME Init PROVE TypeOK
  OBVIOUS
<1>1. users \in Seq(User)
  <2>1. CASE users = <<>>
    BY <2>1, EmptySeq, Zenon
  <2>2. ASSUME NEW email \in Emails, users = <<Account(email, TRUE)>> PROVE users \in Seq(User)
    <3> DEFINE row == Account(email, TRUE)
    <3>1. row \in User
      BY DEF Account, User
    <3>2. users = <<row>>
      BY <2>2
    <3> HIDE DEF row
    <3> QED
      BY <3>1, <3>2
  <2> QED
    BY <2>1, <2>2 DEF Init
<1>2. off \in Seq(0..now) /\ Len(off) = Len(users)
  <2>1. Len(users) \in Nat /\ Ids = 1..Len(users)
    BY <1>1, LenProperties DEF Ids
  <2>2. off \in [1..Len(users) -> 0..now]
    BY <2>1 DEF Init
  <2>3. off \in Seq(0..now)
    BY <2>1, <2>2, SeqDef
  <2>4. Len(off) \in Nat /\ 1..Len(off) = 1..Len(users)
    BY <2>2, <2>3, LenProperties
  <2> QED
    BY <2>1, <2>3, <2>4
<1>3. urls \in Seq(Urls)
  BY EmptySeq, Zenon DEF Init
<1>4. /\ now \in 0..MaxTime /\ granted = {} /\ tokens = {}
      /\ pc \in [Requests -> {"idle", "find", "create", "created", "conflict"}]
      /\ form \in [Requests -> Emails]
      /\ seed \in [Seeders -> {"idle", "admin", "create", "list", "services", "done"}]
      /\ todo \in [Seeders -> SUBSET Urls] /\ \A s \in Seeders : todo[s] = {}
  BY AccountsAssumption DEF Init
<1> QED
  BY <1>1, <1>2, <1>3, <1>4 DEF TypeOK

LEMMA GrantType == ASSUME TypeOK, NEW i \in Ids, Grant(i) PROVE TypeOK'
<1>1. [sub |-> i, at |-> now] \in [sub : Ids, at : 0..now]
  BY AccountsAssumption DEF TypeOK
<1> QED
  BY <1>1 DEF Grant, TypeOK, Ids

LEMMA IssueType == ASSUME TypeOK, NEW g \in granted, Issue(g) PROVE TypeOK'
<1>1. now + Ttl("access") \in Nat /\ now + Ttl("refresh") \in Nat
  BY AccountsAssumption DEF TypeOK, Ttl
<1>2. g.sub \in Ids
  BY DEF TypeOK
<1>3. tokens' \subseteq [type : Types, sub : Ids, exp : Nat]
  BY <1>1, <1>2 DEF Issue, Pair, TypeOK, Types
<1> QED
  BY <1>3 DEF Issue, TypeOK, Ids

LEMMA TypeStep == TypeOK /\ [Next]_vars => TypeOK'
<1> SUFFICES ASSUME TypeOK, [Next]_vars PROVE TypeOK'
  OBVIOUS
<1>1. CASE Tick
  <2>1. now' \in 0..MaxTime /\ 0..now \subseteq 0..now'
    BY <1>1, AccountsAssumption DEF Tick, TypeOK
  <2>2. off \in Seq(0..now')
    BY <2>1, SeqMonotonic DEF TypeOK
  <2>3. granted' \subseteq [sub : Ids', at : 0..now'] /\ tokens' \subseteq [type : Types, sub : Ids', exp : Nat]
    BY <1>1, <2>1 DEF Tick, TypeOK, Ids
  <2> QED
    BY <1>1, <2>1, <2>2, <2>3 DEF Tick, TypeOK
<1>2. CASE Login \/ Refresh
  BY <1>2, GrantType DEF Login, Refresh, Holders
<1>3. ASSUME NEW g \in granted, Issue(g) PROVE TypeOK'
  BY <1>3, IssueType
<1>4. ASSUME NEW i \in Ids, Alter(i) PROVE TypeOK'
  BY <1>4, AlterEffect DEF Alter, TypeOK
<1>5. ASSUME NEW email \in Emails, NEW superuser \in BOOLEAN, Insert(email, superuser),
             UNCHANGED <<now, granted, tokens, urls, form, todo>>,
             pc' \in [Requests -> {"idle", "find", "create", "created", "conflict"}],
             seed' \in [Seeders -> {"idle", "admin", "create", "list", "services", "done"}],
             \A s \in Seeders : seed'[s] # "services" => todo'[s] = {}
      PROVE  TypeOK'
  <2>1. users' \in Seq(User) /\ off' \in Seq(0..now) /\ Len(off') = Len(users') /\ Ids \subseteq Ids'
    BY <1>5, InsertEffect
  <2>2. /\ granted \subseteq [sub : Ids', at : 0..now]
        /\ tokens \subseteq [type : Types, sub : Ids', exp : Nat]
    BY <2>1 DEF TypeOK
  <2> QED
    BY <1>5, <2>1, <2>2 DEF TypeOK
<1>6. ASSUME NEW p \in Requests, Register(p) \/ RegisterFind(p) \/ RegisterAnswered(p) PROVE TypeOK'
  <2>1. form' \in [Requests -> Emails]
    BY <1>6, AccountsAssumption DEF Register, RegisterFind, RegisterAnswered, TypeOK
  <2>2. pc' \in [Requests -> {"idle", "find", "create", "created", "conflict"}]
    BY <1>6 DEF Register, RegisterFind, RegisterAnswered, TypeOK
  <2> QED
    BY <1>6, <2>1, <2>2 DEF Register, RegisterFind, RegisterAnswered, TypeOK, Ids
<1>7. ASSUME NEW p \in Requests, RegisterCreate(p) PROVE TypeOK'
  <2>1. pc' \in [Requests -> {"idle", "find", "create", "created", "conflict"}]
    BY <1>7 DEF RegisterCreate, TypeOK
  <2>2. CASE Known(form[p])
    BY <1>7, <2>1, <2>2 DEF RegisterCreate, TypeOK, Ids
  <2>3. CASE ~Known(form[p])
    BY <1>5, <1>7, <2>1, <2>3 DEF RegisterCreate, InsertForm, TypeOK
  <2> QED
    BY <2>2, <2>3
<1>8. CASE ServerDies
  BY <1>8, AccountsAssumption DEF ServerDies, TypeOK, Ids
<1>9. ASSUME NEW s \in Seeders,
             SeedStart(s) \/ SeedFind(s) \/ SeedList(s) \/ SeedEnd(s) \/ SeedDies(s)
      PROVE  TypeOK'
  <2>1. seed' \in [Seeders -> {"idle", "admin", "create", "list", "services", "done"}]
    BY <1>9 DEF SeedStart, SeedFind, SeedList, SeedEnd, SeedDies, SeedGoto, TypeOK
  <2>2. todo' \in [Seeders -> SUBSET Urls]
    BY <1>9 DEF SeedStart, SeedFind, SeedList, SeedEnd, SeedDies, TypeOK
  <2>3. \A r \in Seeders : seed'[r] # "services" => todo'[r] = {}
    BY <1>9 DEF SeedStart, SeedFind, SeedList, SeedEnd, SeedDies, SeedGoto, TypeOK
  <2> QED
    BY <1>9, <2>1, <2>2, <2>3
    DEF SeedStart, SeedFind, SeedList, SeedEnd, SeedDies, TypeOK, Ids
<1>10. ASSUME NEW s \in Seeders, SeedCreate(s) PROVE TypeOK'
  <2>1. seed' \in [Seeders -> {"idle", "admin", "create", "list", "services", "done"}]
    BY <1>10 DEF SeedCreate, SeedGoto, TypeOK
  <2>2. \A r \in Seeders : seed'[r] # "services" => todo'[r] = {}
    BY <1>10 DEF SeedCreate, SeedGoto, TypeOK
  <2>3. CASE Known(Admin)
    BY <1>10, <2>1, <2>2, <2>3 DEF SeedCreate, TypeOK, Ids
  <2>4. CASE ~Known(Admin)
    BY <1>5, <1>10, <2>1, <2>2, <2>4, AccountsAssumption DEF SeedCreate, TypeOK
  <2> QED
    BY <2>3, <2>4
<1>11. ASSUME NEW s \in Seeders, SeedService(s) PROVE TypeOK'
  <2>1. PICK u \in todo[s] : urls' = Append(urls, u) /\ todo' = [todo EXCEPT ![s] = todo[s] \ {u}]
    BY <1>11 DEF SeedService
  <2>2. urls' \in Seq(Urls)
    BY <2>1, AppendProperties DEF TypeOK
  <2>3. /\ todo' \in [Seeders -> SUBSET Urls]
        /\ \A r \in Seeders : seed[r] # "services" => todo'[r] = {}
    BY <2>1 DEF TypeOK
  <2> QED
    BY <1>11, <2>2, <2>3 DEF SeedService, TypeOK, Ids
<1>12. CASE UNCHANGED vars
  BY <1>12 DEF vars, TypeOK, Ids
<1> QED
  BY <1>1, <1>2, <1>3, <1>4, <1>6, <1>7, <1>8, <1>9, <1>10, <1>11, <1>12 DEF Next

\* No action leaves a variable of an account, a token, a registration or the
\* script with a value outside its type.
THEOREM TypeCorrect == Spec => []TypeOK
  BY TypeInit, TypeStep, PTL DEF Spec

-----------------------------------------------------------------------------
\* The three things a step does to the accounts.
LEMMA UserSteps ==
  ASSUME TypeOK, [Next]_vars
  PROVE  \/ UNCHANGED <<users, off>>
         \/ \E i \in Ids : Alter(i)
         \/ \E email \in Emails, superuser \in BOOLEAN :
              ~Known(email) /\ Insert(email, superuser) /\ UNCHANGED <<now, granted, tokens>>
<1>1. CASE Tick \/ Login \/ Refresh \/ ServerDies \/ \E g \in granted : Issue(g)
  BY <1>1 DEF Tick, Login, Refresh, Grant, Issue, ServerDies
<1>2. ASSUME NEW p \in Requests, Register(p) \/ RegisterFind(p) \/ RegisterCreate(p) \/ RegisterAnswered(p)
      PROVE  \/ UNCHANGED <<users, off>>
             \/ \E email \in Emails, superuser \in BOOLEAN :
                  ~Known(email) /\ Insert(email, superuser) /\ UNCHANGED <<now, granted, tokens>>
  BY <1>2 DEF Register, RegisterFind, RegisterCreate, RegisterAnswered, InsertForm, TypeOK
<1>3. ASSUME NEW s \in Seeders, SeedCreate(s)
      PROVE  \/ UNCHANGED <<users, off>>
             \/ \E email \in Emails, superuser \in BOOLEAN :
                  ~Known(email) /\ Insert(email, superuser) /\ UNCHANGED <<now, granted, tokens>>
  BY <1>3, AccountsAssumption DEF SeedCreate
<1>4. ASSUME NEW s \in Seeders, \/ SeedStart(s) \/ SeedFind(s) \/ SeedList(s)
                                \/ SeedService(s) \/ SeedEnd(s) \/ SeedDies(s)
      PROVE  UNCHANGED <<users, off>>
  BY <1>4 DEF SeedStart, SeedFind, SeedList, SeedService, SeedEnd, SeedDies
<1> QED
  BY <1>1, <1>2, <1>3, <1>4 DEF Next, vars

\* What a step that leaves the accounts alone does to the tokens.
LEMMA TokenSteps ==
  ASSUME [Next]_vars
  PROVE  \/ UNCHANGED <<now, granted, tokens>>
         \/ Tick
         \/ \E i \in Ids : users[i].active /\ Grant(i)
         \/ \E g \in granted : Issue(g)
         \/ ServerDies
<1>1. CASE Login \/ Refresh
  BY <1>1 DEF Login, Refresh, Holders
<1>2. CASE \E i \in Ids : Alter(i)
  BY <1>2 DEF Alter
<1>3. ASSUME NEW p \in Requests, Register(p) \/ RegisterFind(p) \/ RegisterCreate(p) \/ RegisterAnswered(p)
      PROVE  UNCHANGED <<now, granted, tokens>>
  BY <1>3 DEF Register, RegisterFind, RegisterCreate, RegisterAnswered
<1>4. ASSUME NEW s \in Seeders, \/ SeedStart(s) \/ SeedFind(s) \/ SeedCreate(s) \/ SeedList(s)
                                \/ SeedService(s) \/ SeedEnd(s) \/ SeedDies(s)
      PROVE  UNCHANGED <<now, granted, tokens>>
  BY <1>4 DEF SeedStart, SeedFind, SeedCreate, SeedList, SeedService, SeedEnd, SeedDies
<1> QED
  BY <1>1, <1>2, <1>3, <1>4 DEF Next, vars

\* No step forgets an address.
LEMMA KnownStays ==
  ASSUME TypeOK, [Next]_vars, NEW email, Known(email)
  PROVE  \E i \in Ids' : users'[i].email = email
<1>1. CASE UNCHANGED <<users, off>>
  BY <1>1 DEF Known, Ids
<1>2. ASSUME NEW i \in Ids, Alter(i) PROVE \E j \in Ids' : users'[j].email = email
  BY <1>2, AlterEffect DEF Known
<1>3. ASSUME NEW other \in Emails, NEW superuser \in BOOLEAN, Insert(other, superuser)
      PROVE  \E j \in Ids' : users'[j].email = email
  BY <1>3, InsertEffect DEF Known
<1> QED
  BY <1>1, <1>2, <1>3, UserSteps

LEMMA OneAccountStep == ASSUME TypeOK, [Next]_vars, OneAccount PROVE OneAccount'
<1>1. CASE UNCHANGED <<users, off>>
  BY <1>1 DEF OneAccount, Ids
<1>2. ASSUME NEW i \in Ids, Alter(i) PROVE OneAccount'
  BY <1>2, AlterEffect DEF OneAccount
<1>3. ASSUME NEW email \in Emails, NEW superuser \in BOOLEAN, ~Known(email), Insert(email, superuser)
      PROVE  OneAccount'
  BY <1>3, InsertEffect DEF OneAccount, Known
<1> QED
  BY <1>1, <1>2, <1>3, UserSteps

LEMMA OneWinnerStep == ASSUME TypeOK, [Next]_vars, OneWinner PROVE OneWinner'
<1> DEFINE Answered(q) == \E i \in Ids' : users'[i].email = form'[q]
           Rivals(q, r) == pc'[q] = "created" /\ pc'[r] = "created" /\ form'[q] = form'[r]
<1>0. \A q \in Requests : Known(form[q]) /\ form'[q] = form[q] => Answered(q)
  BY KnownStays
<1>1. ASSUME \A q \in Requests : pc'[q] \in {"created", "conflict"} => Answered(q),
             \A q, r \in Requests : Rivals(q, r) => q = r
      PROVE  OneWinner'
  BY <1>1 DEF OneWinner, Known
<1> HIDE DEF Answered
<1>2. CASE UNCHANGED <<pc, form>>
  <2>1. \A q \in Requests : pc'[q] \in {"created", "conflict"} => Answered(q)
    BY <1>0, <1>2 DEF OneWinner
  <2>2. \A q, r \in Requests : Rivals(q, r) => q = r
    BY <1>2 DEF OneWinner
  <2> QED
    BY <1>1, <2>1, <2>2
<1>3. ASSUME NEW p \in Requests, pc'[p] # "created",
             pc'[p] = "conflict" => form'[p] = form[p] /\ Known(form[p]),
             \A q \in Requests \ {p} : pc'[q] = pc[q] /\ form'[q] = form[q]
      PROVE  /\ \A q \in Requests : pc'[q] \in {"created", "conflict"} => Answered(q)
             /\ \A q, r \in Requests : Rivals(q, r) => q = r
  <2>1. \A q \in Requests : pc'[q] \in {"created", "conflict"} => Answered(q)
    BY <1>0, <1>3 DEF OneWinner
  <2>2. \A q, r \in Requests : Rivals(q, r) => q = r
    BY <1>3 DEF OneWinner
  <2> QED
    BY <2>1, <2>2
<1>4. ASSUME NEW p \in Requests, Register(p) \/ RegisterFind(p) \/ RegisterAnswered(p) PROVE OneWinner'
  <2>1. pc'[p] # "created" /\ \A q \in Requests \ {p} : pc'[q] = pc[q] /\ form'[q] = form[q]
    BY <1>4 DEF Register, RegisterFind, RegisterAnswered, TypeOK
  <2>2. pc'[p] = "conflict" => form'[p] = form[p] /\ Known(form[p])
    BY <1>4 DEF Register, RegisterFind, RegisterAnswered, TypeOK
  <2> QED
    BY <1>1, <1>3, <2>1, <2>2
<1>5. ASSUME NEW p \in Requests, RegisterCreate(p) PROVE OneWinner'
  <2>1. form' = form /\ \A q \in Requests \ {p} : pc'[q] = pc[q]
    BY <1>5 DEF RegisterCreate, TypeOK
  <2>2. CASE Known(form[p])
    <3>1. pc'[p] = "conflict"
      BY <1>5, <2>2 DEF RegisterCreate, TypeOK
    <3> QED
      BY <1>1, <1>3, <2>1, <2>2, <3>1
  <2>3. CASE ~Known(form[p])
    <3>1. PICK superuser \in BOOLEAN : Insert(form[p], superuser)
      BY <1>5, <2>3 DEF RegisterCreate, InsertForm
    <3>2. Answered(p)
      BY <2>1, <3>1, InsertEffect DEF Answered, TypeOK
    <3>3. \A q \in Requests : pc'[q] \in {"created", "conflict"} => Answered(q)
      BY <1>0, <2>1, <3>2 DEF OneWinner
    <3>4. \A q \in Requests \ {p} : pc[q] = "created" => form[q] # form[p]
      BY <2>3 DEF OneWinner
    <3>5. \A q, r \in Requests : Rivals(q, r) => q = r
      BY <2>1, <3>4 DEF OneWinner
    <3> QED
      BY <1>1, <3>3, <3>5
  <2> QED
    BY <2>2, <2>3
<1>6. ASSUME NEW s \in Seeders, \/ SeedStart(s) \/ SeedFind(s) \/ SeedCreate(s) \/ SeedList(s)
                                \/ SeedService(s) \/ SeedEnd(s) \/ SeedDies(s)
      PROVE  UNCHANGED <<pc, form>>
  BY <1>6 DEF SeedStart, SeedFind, SeedCreate, SeedList, SeedService, SeedEnd, SeedDies
<1>7. CASE Tick \/ Login \/ Refresh \/ (\E g \in granted : Issue(g)) \/ (\E i \in Ids : Alter(i)) \/ UNCHANGED vars
  BY <1>2, <1>7 DEF Tick, Login, Refresh, Grant, Issue, Alter, vars
<1>8. CASE ServerDies
  BY <1>8 DEF ServerDies, OneWinner
<1> QED
  BY <1>2, <1>4, <1>5, <1>6, <1>7, <1>8 DEF Next

\* A token is issued to an account that was active when it was looked up, and
\* does not live longer than any other of its type issued at this moment.
LEMMA TokensStep ==
  ASSUME TypeOK, [Next]_vars, NoRenewal, TokensIssued, GrantsHeld
  PROVE  NoRenewal' /\ TokensIssued' /\ GrantsHeld'
<1>1. \A t \in tokens : t.sub \in Ids /\ t.exp \in Nat /\ Ttl(t.type) \in Nat
  BY AccountsAssumption DEF TypeOK, Ttl
<1>2. now \in Nat /\ Slow \in Nat /\ \A g \in granted : g.sub \in Ids /\ g.at \in Nat /\ g.at <= now
  BY AccountsAssumption DEF TypeOK
<1>3. \A i \in Ids : off[i] \in Nat
  <2>1. now \in Nat /\ off \in Seq(0..now) /\ Ids = 1..Len(off)
    BY AccountsAssumption, LenProperties DEF TypeOK, Ids
  <2> QED
    BY <2>1, ElementOfSeq
<1>4. CASE Tick
  <2>1. now' = now + 1 /\ tokens' \subseteq tokens /\ UNCHANGED <<users, off, granted>>
    BY <1>4 DEF Tick
  <2>2. NoRenewal'
    BY <2>1 DEF NoRenewal, Ttl
  <2>3. \A t \in tokens : t.exp <= now + 1 + Ttl(t.type)
    BY <1>1, <1>2 DEF TokensIssued
  <2>4. TokensIssued'
    BY <2>1, <2>3 DEF TokensIssued, Ttl
  <2>5. \A g \in granted : (now + 1) - g.at <= Slow /\ (~users[g.sub].active => g.at <= off[g.sub])
    BY <1>2, <1>4 DEF Tick, GrantsHeld
  <2>6. GrantsHeld'
    BY <2>1, <2>5 DEF GrantsHeld
  <2> QED
    BY <2>2, <2>4, <2>6
<1>5. ASSUME NEW i \in Ids, users[i].active, Grant(i) PROVE NoRenewal' /\ TokensIssued' /\ GrantsHeld'
  <2>1. UNCHANGED <<now, users, off, tokens>> /\ granted' = granted \cup {[sub |-> i, at |-> now]}
    BY <1>5 DEF Grant
  <2>2. \A g \in granted' : now - g.at <= Slow /\ (~users[g.sub].active => g.at <= off[g.sub])
    BY <1>2, <1>5, <2>1 DEF GrantsHeld
  <2>3. GrantsHeld'
    BY <2>1, <2>2 DEF GrantsHeld
  <2> QED
    BY <2>1, <2>3 DEF NoRenewal, TokensIssued, Ttl
<1>6. ASSUME NEW g \in granted, Issue(g) PROVE NoRenewal' /\ TokensIssued' /\ GrantsHeld'
  <2>1. \A t \in tokens' : t \in tokens \/ (t.sub = g.sub /\ t.exp = now + Ttl(t.type))
    BY <1>6 DEF Issue, Pair
  <2>2. UNCHANGED <<now, users, off>> /\ granted' \subseteq granted
    BY <1>6 DEF Issue
  <2>3. GrantsHeld'
    BY <2>2 DEF GrantsHeld
  <2>4. ASSUME NEW t \in tokens', t \notin tokens
        PROVE  /\ t.exp <= now + Ttl(t.type)
               /\ ~users[t.sub].active => t.exp <= off[t.sub] + Slow + Ttl(t.type)
    <3>1. t.sub = g.sub /\ t.exp = now + Ttl(t.type) /\ Ttl(t.type) \in Nat
      BY <2>1, <2>4, AccountsAssumption DEF Ttl
    <3>2. now - g.at <= Slow /\ (~users[t.sub].active => g.at <= off[t.sub])
      BY <3>1 DEF GrantsHeld
    <3> QED
      BY <1>2, <1>3, <3>1, <3>2
  <2>5. TokensIssued'
    BY <2>2, <2>4 DEF TokensIssued, Ttl
  <2>6. NoRenewal'
    BY <2>2, <2>4 DEF NoRenewal, Ttl
  <2> QED
    BY <2>3, <2>5, <2>6
<1>7. CASE ServerDies
  BY <1>7 DEF ServerDies, NoRenewal, TokensIssued, GrantsHeld, Ttl
<1>8. CASE UNCHANGED <<now, granted, tokens>> /\ UNCHANGED <<users, off>>
  BY <1>8 DEF NoRenewal, TokensIssued, GrantsHeld, Ttl
<1>9. ASSUME NEW i \in Ids, Alter(i) PROVE NoRenewal' /\ TokensIssued' /\ GrantsHeld'
  <2>1. UNCHANGED <<now, granted, tokens>>
    BY <1>9 DEF Alter
  <2>2. \A t \in tokens : ~users'[t.sub].active => t.exp <= off'[t.sub] + Slow + Ttl(t.type)
    <3> TAKE t \in tokens
    <3>1. CASE t.sub # i
      BY <1>1, <1>9, <3>1, AlterEffect DEF NoRenewal
    <3>2. CASE t.sub = i /\ users[i].active
      <4>1. t.exp <= now + Slow + Ttl(t.type)
        BY <1>1, <1>2 DEF TokensIssued
      <4>2. ~users'[i].active => off'[i] = now
        BY <1>9, <3>2, AlterEffect
      <4> QED
        BY <3>2, <4>1, <4>2
    <3>3. CASE t.sub = i /\ ~users[i].active
      <4>1. ~users'[i].active => off'[i] = off[i]
        BY <1>9, <3>3, AlterEffect
      <4> QED
        BY <3>3, <4>1 DEF NoRenewal
    <3> QED
      BY <3>1, <3>2, <3>3
  <2>3. \A g \in granted : ~users'[g.sub].active => g.at <= off'[g.sub]
    <3> TAKE g \in granted
    <3>1. CASE g.sub # i
      BY <1>2, <1>9, <3>1, AlterEffect DEF GrantsHeld
    <3>2. CASE g.sub = i /\ users[i].active
      BY <1>2, <1>9, <3>2, AlterEffect
    <3>3. CASE g.sub = i /\ ~users[i].active
      BY <1>9, <3>3, AlterEffect DEF GrantsHeld
    <3> QED
      BY <3>1, <3>2, <3>3
  <2>4. NoRenewal'
    BY <2>1, <2>2 DEF NoRenewal, Ttl
  <2>5. GrantsHeld'
    BY <2>1, <2>3 DEF GrantsHeld
  <2> QED
    BY <2>1, <2>4, <2>5 DEF TokensIssued, Ttl
<1>10. ASSUME NEW email \in Emails, NEW superuser \in BOOLEAN, Insert(email, superuser),
              UNCHANGED <<now, granted, tokens>>
       PROVE  NoRenewal' /\ TokensIssued' /\ GrantsHeld'
  <2>1. \A i \in Ids : users'[i] = users[i] /\ off'[i] = off[i]
    BY <1>10, InsertEffect
  <2>2. NoRenewal'
    BY <1>1, <1>10, <2>1 DEF NoRenewal, Ttl
  <2>3. GrantsHeld'
    BY <1>2, <1>10, <2>1 DEF GrantsHeld
  <2> QED
    BY <1>10, <2>2, <2>3 DEF TokensIssued, Ttl
<1>11. CASE UNCHANGED <<users, off>>
  BY <1>4, <1>5, <1>6, <1>7, <1>8, <1>11, TokenSteps
<1> QED
  BY <1>9, <1>10, <1>11, UserSteps

\* What create does to the table of services.
LEMMA AppendUrl ==
  ASSUME urls \in Seq(Urls), NEW u \in Urls \ ToSet(urls), urls' = Append(urls, u),
         \A i, j \in DOMAIN urls : urls[i] = urls[j] => i = j
  PROVE  /\ \A i, j \in DOMAIN urls' : urls'[i] = urls'[j] => i = j
         /\ ToSet(urls') = ToSet(urls) \cup {u}
<1>1. Len(urls) \in Nat /\ DOMAIN urls = 1..Len(urls) /\ DOMAIN urls' = 1..(Len(urls) + 1)
  BY AppendProperties, LenProperties
<1>2. urls'[Len(urls) + 1] = u /\ \A i \in DOMAIN urls : urls'[i] = urls[i]
  BY <1>1, AppendProperties
<1>3. \A i \in DOMAIN urls : urls[i] # u
  BY DEF ToSet
<1> QED
  BY <1>1, <1>2, <1>3 DEF ToSet

\* The script's list of services to create is right for as long as nobody else
\* creates them.
LEMMA SeedStep == ASSUME TypeOK, [Next]_vars, OneSeed, SeedInv PROVE SeedInv'
<1> DEFINE Fine(s) == /\ seed'[s] \in {"list", "services", "done"} => \E i \in Ids' : users'[i].email = Admin
                      /\ seed'[s] = "services" => todo'[s] = Urls \ ToSet(urls')
                      /\ seed'[s] = "done" => Urls \subseteq ToSet(urls')
<1>1. Known(Admin) => \E i \in Ids' : users'[i].email = Admin
  BY KnownStays
<1>2. ASSUME \A i, j \in DOMAIN urls' : urls'[i] = urls'[j] => i = j, \A s \in Seeders : Fine(s)
      PROVE  SeedInv'
  BY <1>2 DEF SeedInv, Known
<1>3. ASSUME UNCHANGED urls, \A s \in Seeders : Fine(s) PROVE SeedInv'
  BY <1>2, <1>3 DEF SeedInv
<1>4. CASE UNCHANGED <<urls, seed, todo>>
  <2>1. \A s \in Seeders : Fine(s)
    BY <1>1, <1>4 DEF SeedInv
  <2> QED
    BY <1>3, <1>4, <2>1
<1>5. ASSUME NEW s \in Seeders, Fine(s) PROVE \A r \in Seeders : Fine(r)
  BY <1>5 DEF OneSeed
<1>6. ASSUME NEW s \in Seeders, SeedStart(s) \/ SeedFind(s) \/ SeedList(s) \/ SeedDies(s) PROVE SeedInv'
  <2>1. UNCHANGED urls
    BY <1>6 DEF SeedStart, SeedFind, SeedList, SeedDies
  <2>2. Fine(s)
    BY <1>1, <1>6 DEF SeedStart, SeedFind, SeedList, SeedDies, SeedGoto, SeedInv, TypeOK
  <2> QED
    BY <1>3, <1>5, <2>1, <2>2
<1>7. ASSUME NEW s \in Seeders, SeedEnd(s) PROVE SeedInv'
  <2>1. UNCHANGED urls
    BY <1>7 DEF SeedEnd
  <2>2. Urls \subseteq ToSet(urls)
    BY <1>7 DEF SeedEnd, SeedInv
  <2>3. Fine(s)
    BY <1>1, <1>7, <2>1, <2>2 DEF SeedEnd, SeedGoto, SeedInv, TypeOK
  <2> QED
    BY <1>3, <1>5, <2>1, <2>3
<1>8. ASSUME NEW s \in Seeders, SeedCreate(s) PROVE SeedInv'
  <2>1. UNCHANGED urls
    BY <1>8 DEF SeedCreate
  <2>2. seed'[s] = "idle" \/ (seed'[s] = "list" /\ \E i \in Ids' : users'[i].email = Admin)
    <3>2. CASE Known(Admin)
      BY <1>8, <3>2 DEF SeedCreate, SeedGoto, TypeOK
    <3>3. CASE ~Known(Admin)
      <4>1. Insert(Admin, TRUE) /\ seed'[s] = "list"
        BY <1>8, <3>3 DEF SeedCreate, SeedGoto, TypeOK
      <4> QED
        BY <4>1, InsertEffect, AccountsAssumption
    <3> QED
      BY <3>2, <3>3
  <2>3. Fine(s)
    BY <2>2
  <2> QED
    BY <1>3, <1>5, <2>1, <2>3
<1>9. ASSUME NEW s \in Seeders, SeedService(s) PROVE SeedInv'
  <2>1. seed[s] = "services" /\ seed' = seed /\ todo[s] = Urls \ ToSet(urls)
    BY <1>9 DEF SeedService, SeedInv
  <2>2. PICK u \in todo[s] : urls' = Append(urls, u) /\ todo' = [todo EXCEPT ![s] = todo[s] \ {u}]
    BY <1>9 DEF SeedService
  <2>3. /\ \A i, j \in DOMAIN urls' : urls'[i] = urls'[j] => i = j
        /\ ToSet(urls') = ToSet(urls) \cup {u}
    BY <2>1, <2>2, AppendUrl DEF TypeOK, SeedInv
  <2>4. todo'[s] = Urls \ ToSet(urls')
    BY <2>1, <2>2, <2>3 DEF TypeOK
  <2>5. Fine(s)
    BY <1>1, <2>1, <2>4 DEF SeedInv
  <2> QED
    BY <1>2, <1>5, <2>3, <2>5
<1>10. ASSUME NEW p \in Requests, Register(p) \/ RegisterFind(p) \/ RegisterCreate(p) \/ RegisterAnswered(p)
       PROVE  UNCHANGED <<urls, seed, todo>>
  BY <1>10 DEF Register, RegisterFind, RegisterCreate, RegisterAnswered
<1>11. CASE \/ Tick \/ Login \/ Refresh \/ ServerDies \/ UNCHANGED vars
            \/ (\E g \in granted : Issue(g)) \/ (\E i \in Ids : Alter(i))
  BY <1>4, <1>11 DEF Tick, Login, Refresh, Grant, Issue, ServerDies, Alter, vars
<1> QED
  BY <1>4, <1>6, <1>7, <1>8, <1>9, <1>10, <1>11 DEF Next

-----------------------------------------------------------------------------
LEMMA InvInit == Init => AccountsInv
<1> SUFFICES ASSUME Init PROVE AccountsInv
  OBVIOUS
<1>1. TypeOK
  BY TypeInit
<1>2. DOMAIN urls = {} /\ tokens = {} /\ granted = {}
  BY DEF Init
<1>3. OneWinner /\ NoRenewal /\ TokensIssued /\ GrantsHeld
  BY <1>2 DEF Init, OneWinner, NoRenewal, TokensIssued, GrantsHeld
<1>5. OneAccount
  <2>1. Len(users) \in {0, 1} /\ Ids = 1..Len(users)
    <3>1. users \in Seq(User)
      BY <1>1 DEF TypeOK
    <3>2. Ids = 1..Len(users)
      BY <3>1, LenProperties DEF Ids
    <3>3. CASE users = <<>>
      BY <3>2, <3>3
    <3>4. ASSUME NEW row, users = <<row>> PROVE Len(users) = 1
      BY <3>4
    <3> QED
      BY <3>2, <3>3, <3>4 DEF Init
  <2> QED
    BY <2>1 DEF OneAccount
<1>4. SeedInv
  BY <1>2 DEF Init, SeedInv
<1> QED
  BY <1>1, <1>3, <1>4, <1>5 DEF AccountsInv

LEMMA InvStep == AccountsInv /\ [Next]_vars => AccountsInv'
<1> SUFFICES ASSUME AccountsInv, [Next]_vars PROVE AccountsInv'
  OBVIOUS
<1>1. TypeOK /\ OneAccount /\ OneWinner /\ NoRenewal /\ TokensIssued /\ GrantsHeld /\ (OneSeed => SeedInv)
  BY DEF AccountsInv
<1>2. TypeOK'
  BY <1>1, TypeStep
<1>3. OneAccount' /\ OneWinner' /\ NoRenewal' /\ TokensIssued' /\ GrantsHeld'
  BY <1>1, OneAccountStep, OneWinnerStep, TokensStep
<1>4. OneSeed => SeedInv'
  BY <1>1, SeedStep
<1> QED
  BY <1>2, <1>3, <1>4 DEF AccountsInv, OneSeed

\* The invariant of accounts, tokens, registrations and seed script together.
THEOREM AccountsConsistent == Spec => []AccountsInv
  BY InvInit, InvStep, PTL DEF Spec

\* However registrations and seeds interleave between their look at the address
\* and their insert, an address has one account.
THEOREM OneAccountHolds == Spec => []OneAccount
<1>1. AccountsInv => OneAccount
  BY DEF AccountsInv
<1> QED
  BY <1>1, AccountsConsistent, PTL

\* Of the registrations of one address, one is answered 201 at most, and each
\* that is answered has an account to its address (201 and 409 alike).
THEOREM OneWinnerHolds == Spec => []OneWinner
<1>1. AccountsInv => OneWinner
  BY DEF AccountsInv
<1> QED
  BY <1>1, AccountsConsistent, PTL

\* Whatever the two lifetimes are, no chain of refreshes carries a token of an
\* inactive account past what was issued when it was switched off.
THEOREM NoRenewalHolds == Spec => []NoRenewal
<1>1. AccountsInv => NoRenewal
  BY DEF AccountsInv
<1> QED
  BY <1>1, AccountsConsistent, PTL

\* When one seed process runs at a time, killing and repeating it never creates
\* a demo service twice, and when it ends nothing of it is missing.
THEOREM SeedIdempotentHolds == OneSeed /\ Spec => []SeedIdempotent
<1>1. OneSeed /\ AccountsInv => SeedIdempotent
  BY DEF AccountsInv, SeedInv, SeedIdempotent
<1>2. ASSUME OneSeed PROVE Spec => []SeedIdempotent
  <2>1. AccountsInv => SeedIdempotent
    BY <1>1, <1>2
  <2> QED
    BY <2>1, AccountsConsistent, PTL
<1> QED
  BY <1>2
=============================================================================
