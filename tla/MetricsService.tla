---------------------------- MODULE MetricsService ----------------------------
(***************************************************************************)
(* The metrics of one service as the API serves them: the cache of         *)
(* services/metrics_service.py between the history of checks that a worker *)
(* writes (module CheckHistory) and the requests that read it.  A request  *)
(* is one coroutine, one action for each stretch between two awaits;       *)
(* several run at a time and share the cache, which has no lock.           *)
(***************************************************************************)
EXTENDS CheckHistory

CONSTANTS Readers,     \* requests in progress at a time
          Ttl,         \* cache_ttl_seconds, in ticks
          Slow,        \* bound: from a query to its rows, from a check to its commit
          MaxTime,     \* bound: the last tick
          None

ASSUME ServiceAssumption ==
  /\ Ttl \in Nat \ {0} /\ Slow \in Nat /\ MaxTime \in Nat
  /\ None \notin [uptime : Nat, sla : Nat]

VARIABLES now,
          exists,      \* the row of services
          cache,       \* _cache.get(service_id): the metrics and their datetime
          pc, got,     \* of each reader: the metrics it has computed or found
          asked        \* when the database answered its query

vars == <<checks, now, exists, cache, pc, got, asked>>

\* sla_pct is rounded to hundredths of a percent.
MetricsOf(history) ==
  LET sla == Sla(history)
  IN [uptime |-> CurrentUptime(history),
      sla |-> (20000 * sla.num + sla.den) \div (2 * sla.den)]

Fetched == [uptime : Nat, sla : Nat]

\* The history and the cache are of the past; a reader has metrics from its
\* query on.
ServiceTypeOK ==
  /\ TypeOK
  /\ now \in 0..MaxTime
  /\ exists \in BOOLEAN
  /\ cache \in {None} \cup [of : Fetched, at : 0..now]
  /\ pc \in [Readers -> {"idle", "lookup", "query", "rows", "answered"}]
  /\ asked \in [Readers -> 0..now]
  /\ \A r \in Readers : IF pc[r] \in {"rows", "answered"} THEN got[r] \in Fetched ELSE got[r] = None
  /\ \A i \in DOMAIN checks : checks[i].at <= now

ServiceInit ==
  /\ Init
  /\ now = 0 /\ exists = TRUE
  /\ cache = None
  /\ pc = [r \in Readers |-> "idle"]
  /\ got = [r \in Readers |-> None]
  /\ asked = [r \in Readers |-> 0]

\* An answer takes no time, rows at most Slow.
Tick ==
  /\ now < MaxTime
  /\ \A r \in Readers : pc[r] # "answered" /\ (pc[r] = "rows" => now - asked[r] < Slow)
  /\ now' = now + 1
  /\ UNCHANGED <<checks, exists, cache, pc, got, asked>>

\* The worker commits the check it has made; the first one is made at time 0.
Save ==
  /\ exists
  /\ Next
  /\ Last(checks').at \in (now - Slow)..now
  /\ UNCHANGED <<now, exists, cache, pc, got, asked>>

\* DELETE takes the rows of check_results along; the cache is not told.
Delete ==
  /\ exists
  /\ exists' = FALSE
  /\ checks' = <<>>
  /\ UNCHANGED <<now, cache, pc, got, asked>>

-----------------------------------------------------------------------------
\* GET /{id}/metrics asks for the service first, GET /summary for the active
\* services and their last checks: without a row there is nothing to serve.
Request(r) ==
  /\ pc[r] = "idle"
  /\ exists
  /\ pc' = [pc EXCEPT ![r] = "lookup"]
  /\ UNCHANGED <<checks, now, exists, cache, got, asked>>

\* _is_fresh
Fresh == cache # None /\ now - cache.at < Ttl

\* get_metrics up to its await.
LookupRenews(r) ==
  /\ pc[r] = "lookup"
  /\ IF Fresh THEN /\ got' = [got EXCEPT ![r] = cache.of]
                   /\ cache' = [cache EXCEPT !.at = now]
                   /\ pc' = [pc EXCEPT ![r] = "answered"]
              ELSE pc' = [pc EXCEPT ![r] = "query"] /\ UNCHANGED <<got, cache>>
  /\ UNCHANGED <<checks, now, exists, asked>>

Lookup(r) ==
  /\ pc[r] = "lookup"
  /\ IF Fresh THEN got' = [got EXCEPT ![r] = cache.of] /\ pc' = [pc EXCEPT ![r] = "answered"]
              ELSE pc' = [pc EXCEPT ![r] = "query"] /\ UNCHANGED got
  /\ UNCHANGED <<checks, now, exists, cache, asked>>

\* fetch_checks_for_service: the database reads the history, the rows are on
\* their way.
Query(r) ==
  /\ pc[r] = "query"
  /\ got' = [got EXCEPT ![r] = MetricsOf(checks)]
  /\ asked' = [asked EXCEPT ![r] = now]
  /\ pc' = [pc EXCEPT ![r] = "rows"]
  /\ UNCHANGED <<checks, now, exists, cache>>

\* The rows have come: what was computed from them replaces whatever another
\* request has cached meanwhile, and counts as new.
Store(r) ==
  /\ pc[r] = "rows"
  /\ cache' = [of |-> got[r], at |-> now]
  /\ pc' = [pc EXCEPT ![r] = "answered"]
  /\ UNCHANGED <<checks, now, exists, got, asked>>

Answer(r) ==
  /\ pc[r] = "answered"
  /\ pc' = [pc EXCEPT ![r] = "idle"]
  /\ got' = [got EXCEPT ![r] = None]
  /\ UNCHANGED <<checks, now, exists, cache, asked>>

ServiceNext ==
  Tick \/ Save \/ Delete \/ \E r \in Readers : Request(r) \/ Lookup(r) \/ Query(r) \/ Store(r) \/ Answer(r)

ServiceSpec == ServiceInit /\ [][ServiceNext]_vars

-----------------------------------------------------------------------------
\* What a request is told are the metrics of the history as it was at one
\* moment, and the checks it misses are recent: younger than the lifetime of a
\* cache entry and the time of the query that filled it and of a commit.  Also
\* when two requests fill the cache at the same time and the slower one wins.
ServedFresh ==
  exists => \A r \in Readers : pc[r] = "answered" =>
    \E k \in 0..Len(checks) :
      /\ got[r] = MetricsOf(SubSeq(checks, 1, k))
      /\ \A i \in (k + 1)..Len(checks) : now - checks[i].at < Ttl + 2 * Slow

\* The inductive invariant behind it.  Metrics that the database computed at a
\* time miss checks committed since, made at most Slow before; a cache entry is
\* at most Slow younger than its query.
Misses(metrics, from) ==
  \E k \in 0..Len(checks) :
    /\ metrics = MetricsOf(SubSeq(checks, 1, k))
    /\ \A i \in (k + 1)..Len(checks) : checks[i].at >= from

TimesOK ==
  /\ checks \in Seq([at : Nat, up : BOOLEAN])
  /\ now \in Nat
  /\ cache # None => cache.at \in 0..now
  /\ asked \in [Readers -> 0..now]
  /\ pc \in [Readers -> {"idle", "lookup", "query", "rows", "answered"}]
  /\ DOMAIN got = Readers

FreshInv ==
  /\ TimesOK
  /\ exists =>
       /\ cache # None => Misses(cache.of, cache.at - 2 * Slow)
       /\ \A r \in Readers :
            /\ pc[r] = "rows" => now - asked[r] <= Slow /\ Misses(got[r], asked[r] - Slow)
            /\ pc[r] = "answered" => Misses(got[r], now - Ttl - 2 * Slow + 1)
=============================================================================
