------------------------------- MODULE Accounts -------------------------------
(***************************************************************************)
(* The accounts: registration, login and refresh of the API                *)
(* (services/auth), and the seed script, a process of its own that creates *)
(* the first superuser and the demo services and may be killed and run     *)
(* again (scripts/seed.py).  An action ends at an await of the code, and    *)
(* what it read there may be out of date when the next one begins.         *)
(***************************************************************************)
EXTENDS Integers, Sequences, SequencesExt, FiniteSets

CONSTANTS Emails,      \* addresses an account may have
          Admin,       \* ADMIN_EMAIL
          Urls,        \* the URLs of DEMO_SERVICES
          Requests,    \* POST /register in progress at a time
          Seeders,     \* seed processes at a time
          AccessTtl,   \* access_token_ttl_minutes, in ticks
          RefreshTtl,  \* refresh_token_ttl_days, in ticks
          Slow,        \* bound: ticks from the database's answer to the token
          MaxGranted,  \* bound: logins and refreshes in progress at a time
          MaxTime      \* bound: the last tick

ASSUME AccountsAssumption ==
  /\ Admin \in Emails
  /\ AccessTtl \in Nat /\ RefreshTtl \in Nat
  /\ Slow \in Nat /\ MaxGranted \in Nat /\ MaxTime \in Nat

VARIABLES now,
          users,       \* the rows of users, in the order of their ids
          off,         \* ghost: when each inactive account was switched off
          granted,     \* logins and refreshes that were shown an active account, and when
          tokens,      \* the tokens issued that have not expired
          urls,        \* the url of each row of services, in the order of their ids
          pc, form,    \* of each registration; the address in its UserCreate
          seed, todo   \* of each seed process; the demo services it has yet to create

vars == <<now, users, off, granted, tokens, urls, pc, form, seed, todo>>

User == [email : Emails, active : BOOLEAN, superuser : BOOLEAN]
Ids == DOMAIN users

Types == {"access", "refresh"}
Ttl(type) == IF type = "access" THEN AccessTtl ELSE RefreshTtl

TypeOK ==
  /\ now \in 0..MaxTime
  /\ users \in Seq(User)
  /\ off \in Seq(0..now) /\ Len(off) = Len(users)
  /\ granted \subseteq [sub : Ids, at : 0..now]
  /\ tokens \subseteq [type : Types, sub : Ids, exp : Nat]
  /\ urls \in Seq(Urls)
  /\ pc \in [Requests -> {"idle", "find", "create", "created", "conflict"}]
  /\ form \in [Requests -> Emails]
  /\ seed \in [Seeders -> {"idle", "admin", "create", "list", "services", "done"}]
  /\ todo \in [Seeders -> SUBSET Urls]
  /\ \A s \in Seeders : seed[s] # "services" => todo[s] = {}

\* A row as create_user makes it.
Account(email, superuser) == [email |-> email, active |-> TRUE, superuser |-> superuser]

\* A new database, or one in which the operator has made a superuser of his own.
Init ==
  /\ now = 0
  /\ users \in {<<>>} \cup {<<Account(email, TRUE)>> : email \in Emails}
  /\ off = [i \in Ids |-> 0]
  /\ granted = {} /\ tokens = {} /\ urls = <<>>
  /\ pc = [p \in Requests |-> "idle"]
  /\ form = [p \in Requests |-> Admin]
  /\ seed = [s \in Seeders |-> "idle"]
  /\ todo = [s \in Seeders |-> {}]

Tick ==
  /\ now < MaxTime
  /\ \A g \in granted : now - g.at < Slow
  /\ now' = now + 1
  /\ tokens' = {t \in tokens : now' < t.exp}
  /\ UNCHANGED <<users, off, granted, urls, pc, form, seed, todo>>

-----------------------------------------------------------------------------
(* repositories/users.py                                                   *)

Known(email) == \E i \in Ids : users[i].email = email

\* create_user.  The unique index refuses a known email.
Insert(email, superuser) ==
  /\ users' = Append(users, Account(email, superuser))
  /\ off' = Append(off, 0)

\* Accounts are switched on and off, and promoted, in the database only.
Alter(i) ==
  /\ \E a, s \in BOOLEAN :
       /\ users' = [users EXCEPT ![i].active = a, ![i].superuser = s]
       /\ off' = [off EXCEPT ![i] = IF a THEN 0 ELSE IF users[i].active THEN now ELSE @]
  /\ UNCHANGED <<now, granted, tokens, urls, pc, form, seed, todo>>

-----------------------------------------------------------------------------
(* Tokens.                                                                 *)

Pair(i) == {[type |-> type, sub |-> i, exp |-> now + Ttl(type)] : type \in Types}

\* decode_token and the lookup of its subject: the active users that present a
\* token of this type.
Holders(type) ==
  {i \in Ids : users[i].active /\ \E t \in tokens : t.type = type /\ t.sub = i}

Grant(i) ==
  /\ Cardinality(granted) < MaxGranted
  /\ granted' = granted \cup {[sub |-> i, at |-> now]}
  /\ UNCHANGED <<now, users, off, tokens, urls, pc, form, seed, todo>>

\* authenticate, with the right password; a wrong one changes nothing.
Login == \E i \in Ids : users[i].active /\ Grant(i)

RefreshInactive == \E t \in tokens : t.type = "refresh" /\ Grant(t.sub)

Refresh == \E i \in Holders("refresh") : Grant(i)

\* What follows the lookup of the account: the pair is signed and returned.
Issue(g) ==
  /\ granted' = granted \ {g}
  /\ tokens' = tokens \cup Pair(g.sub)
  /\ UNCHANGED <<now, users, off, urls, pc, form, seed, todo>>

-----------------------------------------------------------------------------
(* POST /register.                                                         *)

\* get_current_superuser: what it has checked holds when it checks it.
Register(p) ==
  /\ pc[p] = "idle"
  /\ \E i \in Holders("access") : users[i].superuser
  /\ \E email \in Emails : form' = [form EXCEPT ![p] = email]
  /\ pc' = [pc EXCEPT ![p] = "find"]
  /\ UNCHANGED <<now, users, off, granted, tokens, urls, seed, todo>>

\* get_user_by_email
RegisterFind(p) ==
  /\ pc[p] = "find"
  /\ pc' = [pc EXCEPT ![p] = IF Known(form[p]) THEN "conflict" ELSE "create"]
  /\ UNCHANGED <<now, users, off, granted, tokens, urls, form, seed, todo>>

InsertForm(p) == \E superuser \in BOOLEAN : Insert(form[p], superuser)

\* create_user, an IntegrityError answered as 409.
RegisterCreateNoIndex(p) ==
  /\ pc[p] = "create"
  /\ InsertForm(p) /\ pc' = [pc EXCEPT ![p] = "created"]
  /\ UNCHANGED <<now, granted, tokens, urls, form, seed, todo>>

RegisterCreateReturnsFound(p) ==
  /\ pc[p] = "create"
  /\ IF Known(form[p]) THEN UNCHANGED <<users, off>> ELSE InsertForm(p)
  /\ pc' = [pc EXCEPT ![p] = "created"]
  /\ UNCHANGED <<now, granted, tokens, urls, form, seed, todo>>

RegisterCreate(p) ==
  /\ pc[p] = "create"
  /\ IF Known(form[p])
     THEN pc' = [pc EXCEPT ![p] = "conflict"] /\ UNCHANGED <<users, off>>
     ELSE InsertForm(p) /\ pc' = [pc EXCEPT ![p] = "created"]
  /\ UNCHANGED <<now, granted, tokens, urls, form, seed, todo>>

\* The client has read its answer.
RegisterAnswered(p) ==
  /\ pc[p] \in {"created", "conflict"}
  /\ pc' = [pc EXCEPT ![p] = "idle"]
  /\ form' = [form EXCEPT ![p] = Admin]
  /\ UNCHANGED <<now, users, off, granted, tokens, urls, seed, todo>>

\* The server is killed and started again: nobody gets an answer any more.
ServerDies ==
  /\ pc' = [p \in Requests |-> "idle"]
  /\ form' = [p \in Requests |-> Admin]
  /\ granted' = {}
  /\ UNCHANGED <<now, users, off, tokens, urls, seed, todo>>

-----------------------------------------------------------------------------
(* The seed script.                                                        *)

SeedGoto(s, label) == seed' = [seed EXCEPT ![s] = label]

SeedStart(s) ==
  /\ seed[s] \in {"idle", "done"}
  /\ SeedGoto(s, "admin")
  /\ UNCHANGED <<now, users, off, granted, tokens, urls, pc, form, todo>>

\* ensure_superuser leaves an account it finds untouched.
SeedFind(s) ==
  /\ seed[s] = "admin"
  /\ SeedGoto(s, IF Known(Admin) THEN "list" ELSE "create")
  /\ UNCHANGED <<now, users, off, granted, tokens, urls, pc, form, todo>>

\* Nothing catches the IntegrityError here: the script ends.
SeedCreateAnyway(s) ==
  /\ seed[s] = "create"
  /\ Insert(Admin, TRUE) /\ SeedGoto(s, "list")
  /\ UNCHANGED <<now, granted, tokens, urls, pc, form, todo>>

SeedCreate(s) ==
  /\ seed[s] = "create"
  /\ IF Known(Admin)
     THEN SeedGoto(s, "idle") /\ UNCHANGED <<users, off>>
     ELSE Insert(Admin, TRUE) /\ SeedGoto(s, "list")
  /\ UNCHANGED <<now, granted, tokens, urls, pc, form, todo>>

\* list_all
SeedListNothing(s) ==
  /\ seed[s] = "list"
  /\ todo' = [todo EXCEPT ![s] = Urls]
  /\ SeedGoto(s, "services")
  /\ UNCHANGED <<now, users, off, granted, tokens, urls, pc, form>>

SeedList(s) ==
  /\ seed[s] = "list"
  /\ todo' = [todo EXCEPT ![s] = Urls \ ToSet(urls)]
  /\ SeedGoto(s, "services")
  /\ UNCHANGED <<now, users, off, granted, tokens, urls, pc, form>>

\* One demo service, committed at once.
SeedService(s) ==
  /\ seed[s] = "services"
  /\ \E u \in todo[s] : /\ urls' = Append(urls, u)
                        /\ todo' = [todo EXCEPT ![s] = @ \ {u}]
  /\ UNCHANGED <<now, users, off, granted, tokens, pc, form, seed>>

SeedEndEarly(s) ==
  /\ seed[s] = "services"
  /\ SeedGoto(s, "done")
  /\ UNCHANGED <<now, users, off, granted, tokens, urls, pc, form, todo>>

SeedEnd(s) ==
  /\ seed[s] = "services"
  /\ todo[s] = {}
  /\ SeedGoto(s, "done")
  /\ UNCHANGED <<now, users, off, granted, tokens, urls, pc, form, todo>>

\* The script is killed, or an await raises.
SeedDies(s) ==
  /\ seed[s] \in {"admin", "create", "list", "services"}
  /\ SeedGoto(s, "idle")
  /\ todo' = [todo EXCEPT ![s] = {}]
  /\ UNCHANGED <<now, users, off, granted, tokens, urls, pc, form>>

Next ==
  \/ Tick \/ Login \/ Refresh \/ ServerDies
  \/ \E g \in granted : Issue(g)
  \/ \E i \in Ids : Alter(i)
  \/ \E p \in Requests : Register(p) \/ RegisterFind(p) \/ RegisterCreate(p) \/ RegisterAnswered(p)
  \/ \E s \in Seeders : \/ SeedStart(s) \/ SeedFind(s) \/ SeedCreate(s)
                        \/ SeedList(s) \/ SeedService(s) \/ SeedEnd(s) \/ SeedDies(s)

Spec == Init /\ [][Next]_vars

-----------------------------------------------------------------------------
\* get_user_by_email uses one_or_none: a second account of an address would make
\* every later login with it fail.  Registrations and the seed look for the
\* address before they insert, in another transaction.
OneAccount == \A i, j \in Ids : users[i].email = users[j].email => i = j

\* Registrations of one address: one is told 201, the others 409, and a 409
\* is never given for an address nobody has (auth/service.py, the TOCTOU comment).
OneWinner ==
  /\ \A p \in Requests : pc[p] \in {"created", "conflict"} => Known(form[p])
  /\ \A p, q \in Requests :
       pc[p] = "created" /\ pc[q] = "created" /\ form[p] = form[q] => p = q

\* An account that is switched off is out for good once the tokens it had have
\* expired: none of its tokens outlives one whose login or refresh was in progress
\* when it was switched off, so refresh does not renew itself
\* (AuthService.refresh, authenticate).
NoRenewal == \A t \in tokens : ~users[t.sub].active => t.exp <= off[t.sub] + Slow + Ttl(t.type)

\* However often the script is killed and run again, it never creates a demo
\* service twice, and when it ends, all of it is there (scripts/seed.py).
SeedIdempotent ==
  /\ \A i, j \in DOMAIN urls : urls[i] = urls[j] => i = j
  /\ \A s \in Seeders : seed[s] = "done" => Known(Admin) /\ Urls \subseteq ToSet(urls)

\* The inductive invariant behind the four above: in addition no token is from
\* the future, a login or refresh in progress is not slow and was begun before its
\* account was switched off, the script knows the administrator when it gets to the demo
\* services, and has yet to create the missing ones exactly.  What it says of
\* the script needs that one is run at a time.
TokensIssued == \A t \in tokens : t.exp <= now + Ttl(t.type)

GrantsHeld ==
  \A g \in granted : now - g.at <= Slow /\ (~users[g.sub].active => g.at <= off[g.sub])

OneSeed == \A r, s \in Seeders : r = s

SeedInv ==
  /\ \A i, j \in DOMAIN urls : urls[i] = urls[j] => i = j
  /\ \A s \in Seeders :
       /\ seed[s] \in {"list", "services", "done"} => Known(Admin)
       /\ seed[s] = "services" => todo[s] = Urls \ ToSet(urls)
       /\ seed[s] = "done" => Urls \subseteq ToSet(urls)

AccountsInv ==
  /\ TypeOK
  /\ OneAccount
  /\ OneWinner
  /\ NoRenewal
  /\ TokensIssued
  /\ GrantsHeld
  /\ OneSeed => SeedInv
=============================================================================
