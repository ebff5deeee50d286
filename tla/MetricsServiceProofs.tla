------------------------- MODULE MetricsServiceProofs -------------------------
(***************************************************************************)
(* The metrics served are fresh and right, for any number of requests that *)
(* share the cache, any history and any times.                             *)
(***************************************************************************)
EXTENDS MetricsService, MetricsProofs

\* A commit only adds to what a prefix of the history misses.
LEMMA MissesMore ==
  ASSUME checks \in Seq(Row), NEW c \in Row, checks' = Append(checks, c),
         NEW m, NEW from \in Int, Misses(m, from), c.at >= from
  PROVE  \E k \in 0..Len(checks') :
           /\ m = MetricsOf(SubSeq(checks', 1, k))
           /\ \A i \in (k + 1)..Len(checks') : checks'[i].at >= from
<1>1. PICK k \in 0..Len(checks) : /\ m = MetricsOf(SubSeq(checks, 1, k))
                                  /\ \A i \in (k + 1)..Len(checks) : checks[i].at >= from
  BY DEF Misses
<1>2. /\ Len(checks') = Len(checks) + 1 /\ Len(checks) \in Nat
      /\ checks'[Len(checks) + 1] = c /\ \A i \in 1..Len(checks) : checks'[i] = checks[i]
  OBVIOUS
<1>3. SubSeq(checks', 1, k) = SubSeq(checks, 1, k)
  <2>1. SubSeq(checks', 1, k) = [i \in 1..k |-> checks'[i]]
    BY <1>2
  <2>2. SubSeq(checks, 1, k) = [i \in 1..k |-> checks[i]]
    BY <1>2
  <2> QED
    BY <1>2, <2>1, <2>2
<1>4. \A i \in (k + 1)..Len(checks') : checks'[i].at >= from
  BY <1>1, <1>2
<1>5. k \in 0..Len(checks')
  BY <1>2
<1>6. m = MetricsOf(SubSeq(checks', 1, k))
  BY <1>1, <1>3, Zenon
<1> QED
  BY <1>4, <1>5, <1>6, Zenon

\* What is missed since a time is missed since any earlier time.
LEMMA MissesEarlier ==
  ASSUME checks \in Seq(Row), NEW m, NEW from \in Int, NEW earlier \in Int,
         earlier <= from, Misses(m, from)
  PROVE  Misses(m, earlier)
<1>1. PICK k \in 0..Len(checks) : /\ m = MetricsOf(SubSeq(checks, 1, k))
                                  /\ \A i \in (k + 1)..Len(checks) : checks[i].at >= from
  BY DEF Misses
<1>2. \A i \in (k + 1)..Len(checks) : checks[i].at \in Nat
  <2>1. \A i \in 1..Len(checks) : checks[i] \in Row
    OBVIOUS
  <2>2. \A c \in Row : c.at \in Nat
    BY DEF Row
  <2> QED
    BY <2>1, <2>2
<1> QED
  BY <1>1, <1>2 DEF Misses

\* The whole history misses nothing.
LEMMA MissesNothing ==
  ASSUME checks \in Seq(Row), NEW from
  PROVE  Misses(MetricsOf(checks), from)
<1>1. SubSeq(checks, 1, Len(checks)) = checks /\ Len(checks) \in 0..Len(checks)
  OBVIOUS
<1>2. \A i \in (Len(checks) + 1)..Len(checks) : checks[i].at >= from
  OBVIOUS
<1> QED
  BY <1>1, <1>2 DEF Misses

\* A step that leaves the history alone leaves alone what metrics miss of it.
LEMMA MissesSame ==
  ASSUME checks' = checks, NEW m, NEW from, Misses(m, from)
  PROVE  \E k \in 0..Len(checks') :
           /\ m = MetricsOf(SubSeq(checks', 1, k))
           /\ \A i \in (k + 1)..Len(checks') : checks'[i].at >= from
BY DEF Misses

-----------------------------------------------------------------------------
\* A committed check is a row, made at most Slow ago.
LEMMA SaveAppends ==
  ASSUME TimesOK, Save
  PROVE  \E c \in Row : /\ checks' = Append(checks, c) /\ c.at >= now - Slow
<1>1. PICK gap \in MinGap..MaxGap, up \in BOOLEAN : SaveCheck(gap, up)
  BY DEF Save, Next
<1> DEFINE c == [at |-> IF checks = <<>> THEN 0 ELSE Last(checks).at + gap, up |-> up]
<1>2. gap \in Nat
  BY GapAssumption, UnitAssumption
<1>3. checks # <<>> => Last(checks).at \in Nat
  <2>0. checks \in Seq(Row)
    BY DEF TimesOK, Row
  <2>1. checks # <<>> => Last(checks) \in Row
    BY <2>0 DEF Last
  <2>2. \A d \in Row : d.at \in Nat
    BY DEF Row
  <2> QED
    BY <2>1, <2>2
<1>4. c \in Row
  BY <1>2, <1>3 DEF Row
<1>5. checks' = Append(checks, c)
  BY <1>1 DEF SaveCheck
<1>6. Last(checks') = c
  <2>1. checks \in Seq(Row)
    BY DEF TimesOK, Row
  <2> HIDE DEF c
  <2> QED
    BY <1>4, <1>5, <2>1 DEF Last
<1>7. c.at >= now - Slow
  <2>1. Last(checks').at \in (now - Slow)..now
    BY DEF Save
  <2>2. c.at \in (now - Slow)..now
    BY <1>6, <2>1, Zenon
  <2> QED
    BY <2>2, ServiceAssumption DEF TimesOK
<1> QED
  BY <1>4, <1>5, <1>7

LEMMA FreshInit == ServiceInit => FreshInv
BY DEF ServiceInit, Init, FreshInv, TimesOK

LEMMA FreshStep == FreshInv /\ [ServiceNext]_vars => FreshInv'
<1> SUFFICES ASSUME FreshInv, [ServiceNext]_vars
             PROVE  FreshInv'
  OBVIOUS
<1> USE ServiceAssumption
<1>0. TimesOK /\ checks \in Seq(Row)
  BY DEF FreshInv, TimesOK, Row
<1>1. CASE Tick
  <2>1. TimesOK'
    BY <1>0, <1>1 DEF Tick, TimesOK
  <2>2. exists' /\ cache' # None => Misses(cache.of, cache.at - 2 * Slow)'
    BY <1>1, MissesSame DEF Tick, FreshInv, Misses
  <2>3. ASSUME exists', NEW r \in Readers
        PROVE  /\ pc'[r] # "answered"
               /\ pc'[r] = "rows" => now' - asked'[r] <= Slow /\ Misses(got[r], asked[r] - Slow)'
    BY <1>0, <1>1, <2>3, MissesSame DEF Tick, FreshInv, TimesOK, Misses
  <2> QED
    BY <2>1, <2>2, <2>3 DEF FreshInv
<1>2. CASE Save
  <2>1. PICK c \in Row : checks' = Append(checks, c) /\ c.at >= now - Slow
    BY <1>0, <1>2, SaveAppends
  <2>2. c.at \in Nat
    BY DEF Row
  <2>3. TimesOK'
    BY <1>0, <1>2, <2>1 DEF Save, TimesOK, Row
  <2>4. exists' /\ cache' # None => Misses(cache.of, cache.at - 2 * Slow)'
    <3> SUFFICES ASSUME exists', cache' # None
                 PROVE  Misses(cache.of, cache.at - 2 * Slow)'
      OBVIOUS
    <3>1. Misses(cache.of, cache.at - 2 * Slow) /\ cache' = cache
      BY <1>2 DEF Save, FreshInv
    <3>2. cache.at - 2 * Slow \in Int /\ c.at >= cache.at - 2 * Slow
      BY <1>0, <2>1, <2>2, <3>1 DEF TimesOK
    <3>3. \E k \in 0..Len(checks') :
             /\ cache.of = MetricsOf(SubSeq(checks', 1, k))
             /\ \A i \in (k + 1)..Len(checks') : checks'[i].at >= cache.at - 2 * Slow
      BY <1>0, <2>1, <3>1, <3>2, MissesMore
    <3> QED
      BY <3>1, <3>3 DEF Misses
  <2>5. ASSUME exists', NEW r \in Readers, pc'[r] = "rows"
        PROVE  now' - asked'[r] <= Slow /\ Misses(got[r], asked[r] - Slow)'
    <3>1. /\ now - asked[r] <= Slow /\ Misses(got[r], asked[r] - Slow)
          /\ now' = now /\ asked' = asked /\ got' = got
      BY <1>2, <2>5 DEF Save, FreshInv
    <3>2. asked[r] - Slow \in Int /\ c.at >= asked[r] - Slow
      BY <1>0, <2>1, <2>2 DEF TimesOK
    <3>3. \E k \in 0..Len(checks') :
             /\ got[r] = MetricsOf(SubSeq(checks', 1, k))
             /\ \A i \in (k + 1)..Len(checks') : checks'[i].at >= asked[r] - Slow
      BY <1>0, <2>1, <3>1, <3>2, MissesMore
    <3> QED
      BY <3>1, <3>3 DEF Misses
  <2>6. ASSUME exists', NEW r \in Readers, pc'[r] = "answered"
        PROVE  Misses(got[r], now - Ttl - 2 * Slow + 1)'
    <3>1. Misses(got[r], now - Ttl - 2 * Slow + 1) /\ now' = now /\ got' = got
      BY <1>2, <2>6 DEF Save, FreshInv
    <3>2. now - Ttl - 2 * Slow + 1 \in Int /\ c.at >= now - Ttl - 2 * Slow + 1
      BY <1>0, <2>1, <2>2 DEF TimesOK
    <3>3. \E k \in 0..Len(checks') :
             /\ got[r] = MetricsOf(SubSeq(checks', 1, k))
             /\ \A i \in (k + 1)..Len(checks') : checks'[i].at >= now - Ttl - 2 * Slow + 1
      BY <1>0, <2>1, <3>1, <3>2, MissesMore
    <3> QED
      BY <3>1, <3>3 DEF Misses
  <2> QED
    BY <2>3, <2>4, <2>5, <2>6 DEF FreshInv
<1>3. CASE Delete
  BY <1>0, <1>3 DEF Delete, FreshInv, TimesOK
<1>4. ASSUME NEW r \in Readers, Request(r)
      PROVE  FreshInv'
  <2>1. TimesOK'
    BY <1>0, <1>4 DEF Request, TimesOK
  <2>2. exists' /\ cache' # None => Misses(cache.of, cache.at - 2 * Slow)'
    BY <1>4, MissesSame DEF Request, FreshInv, Misses
  <2>3. ASSUME exists', NEW q \in Readers
        PROVE  /\ pc'[q] = "rows" => now' - asked'[q] <= Slow /\ Misses(got[q], asked[q] - Slow)'
               /\ pc'[q] = "answered" => Misses(got[q], now - Ttl - 2 * Slow + 1)'
    BY <1>0, <1>4, <2>3, MissesSame DEF Request, FreshInv, TimesOK, Misses
  <2> QED
    BY <2>1, <2>2, <2>3 DEF FreshInv
<1>5. ASSUME NEW r \in Readers, Lookup(r)
      PROVE  FreshInv'
  <2>1. TimesOK'
    BY <1>0, <1>5 DEF Lookup, TimesOK
  <2>2. exists' /\ cache' # None => Misses(cache.of, cache.at - 2 * Slow)'
    BY <1>5, MissesSame DEF Lookup, FreshInv, Misses
  <2>3. ASSUME exists', NEW q \in Readers, q # r \/ ~Fresh
        PROVE  /\ pc'[q] = "rows" => now' - asked'[q] <= Slow /\ Misses(got[q], asked[q] - Slow)'
               /\ pc'[q] = "answered" => Misses(got[q], now - Ttl - 2 * Slow + 1)'
    BY <1>0, <1>5, <2>3, MissesSame DEF Lookup, FreshInv, TimesOK, Misses
  <2>4. ASSUME exists', Fresh
        PROVE  pc'[r] = "answered" /\ Misses(got[r], now - Ttl - 2 * Slow + 1)'
    <3>1. /\ exists /\ got'[r] = cache.of /\ pc'[r] = "answered"
          /\ now' = now /\ checks' = checks
      BY <1>0, <1>5, <2>4 DEF Lookup, TimesOK
    <3>2. cache # None /\ cache.at \in Nat /\ now - cache.at < Ttl
      BY <1>0, <2>4 DEF Fresh, TimesOK
    <3>3. Misses(cache.of, now - Ttl - 2 * Slow + 1)
      <4>1. /\ now - Ttl - 2 * Slow + 1 \in Int /\ cache.at - 2 * Slow \in Int
            /\ now - Ttl - 2 * Slow + 1 <= cache.at - 2 * Slow
        BY <1>0, <3>2 DEF TimesOK
      <4>2. Misses(cache.of, cache.at - 2 * Slow)
        BY <3>1, <3>2 DEF FreshInv
      <4> QED
        BY <1>0, <4>1, <4>2, MissesEarlier
    <3> QED
      BY <3>1, <3>3, MissesSame DEF Misses
  <2> QED
    BY <2>1, <2>2, <2>3, <2>4 DEF FreshInv
<1>6. ASSUME NEW r \in Readers, Query(r)
      PROVE  FreshInv'
  <2>1. TimesOK'
    BY <1>0, <1>6 DEF Query, TimesOK
  <2>2. exists' /\ cache' # None => Misses(cache.of, cache.at - 2 * Slow)'
    BY <1>6, MissesSame DEF Query, FreshInv, Misses
  <2>3. ASSUME exists', NEW q \in Readers, q # r
        PROVE  /\ pc'[q] = "rows" => now' - asked'[q] <= Slow /\ Misses(got[q], asked[q] - Slow)'
               /\ pc'[q] = "answered" => Misses(got[q], now - Ttl - 2 * Slow + 1)'
    BY <1>0, <1>6, <2>3, MissesSame DEF Query, FreshInv, TimesOK, Misses
  <2>4. /\ pc'[r] = "rows" /\ now' - asked'[r] <= Slow /\ Misses(got[r], asked[r] - Slow)'
    <3>1. /\ pc'[r] = "rows" /\ asked'[r] = now /\ got'[r] = MetricsOf(checks)
          /\ now' = now /\ checks' = checks
      BY <1>0, <1>6 DEF Query, TimesOK
    <3>2. Misses(MetricsOf(checks), now - Slow)
      BY <1>0, MissesNothing
    <3>3. now' - asked'[r] <= Slow
      BY <1>0, <3>1 DEF TimesOK
    <3> QED
      BY <3>1, <3>2, <3>3, MissesSame DEF Misses
  <2> QED
    BY <2>1, <2>2, <2>3, <2>4 DEF FreshInv
<1>7. ASSUME NEW r \in Readers, Store(r)
      PROVE  FreshInv'
  <2>1. TimesOK'
    BY <1>0, <1>7 DEF Store, TimesOK
  <2>2. ASSUME exists', NEW q \in Readers, q # r
        PROVE  /\ pc'[q] = "rows" => now' - asked'[q] <= Slow /\ Misses(got[q], asked[q] - Slow)'
               /\ pc'[q] = "answered" => Misses(got[q], now - Ttl - 2 * Slow + 1)'
    BY <1>0, <1>7, <2>2, MissesSame DEF Store, FreshInv, TimesOK, Misses
  <2>3. ASSUME exists'
        PROVE  /\ pc'[r] = "answered"
               /\ Misses(cache.of, cache.at - 2 * Slow)'
               /\ Misses(got[r], now - Ttl - 2 * Slow + 1)'
    <3>1. /\ exists /\ cache'.of = got[r] /\ cache'.at = now /\ got' = got
          /\ now' = now /\ checks' = checks /\ pc[r] = "rows" /\ pc'[r] = "answered"
      BY <1>0, <1>7, <2>3 DEF Store, TimesOK
    <3>2. now - asked[r] <= Slow /\ Misses(got[r], asked[r] - Slow)
      BY <3>1 DEF FreshInv
    <3>3. /\ now - 2 * Slow \in Int /\ asked[r] - Slow \in Int
          /\ now - Ttl - 2 * Slow + 1 \in Int
          /\ now - 2 * Slow <= asked[r] - Slow
          /\ now - Ttl - 2 * Slow + 1 <= asked[r] - Slow
      BY <1>0, <3>2 DEF TimesOK
    <3>4. Misses(got[r], now - 2 * Slow) /\ Misses(got[r], now - Ttl - 2 * Slow + 1)
      BY <1>0, <3>2, <3>3, MissesEarlier
    <3> QED
      BY <3>1, <3>4, MissesSame DEF Misses
  <2> QED
    BY <2>1, <2>2, <2>3 DEF FreshInv
<1>8. ASSUME NEW r \in Readers, Answer(r)
      PROVE  FreshInv'
  <2>1. TimesOK'
    BY <1>0, <1>8 DEF Answer, TimesOK
  <2>2. exists' /\ cache' # None => Misses(cache.of, cache.at - 2 * Slow)'
    BY <1>8, MissesSame DEF Answer, FreshInv, Misses
  <2>3. ASSUME exists', NEW q \in Readers
        PROVE  /\ pc'[q] = "rows" => now' - asked'[q] <= Slow /\ Misses(got[q], asked[q] - Slow)'
               /\ pc'[q] = "answered" => Misses(got[q], now - Ttl - 2 * Slow + 1)'
    BY <1>0, <1>8, <2>3, MissesSame DEF Answer, FreshInv, TimesOK, Misses
  <2> QED
    BY <2>1, <2>2, <2>3 DEF FreshInv
<1>9. CASE UNCHANGED vars
  BY <1>9 DEF vars, FreshInv, TimesOK, Misses
<1> QED
  BY <1>1, <1>2, <1>3, <1>4, <1>5, <1>6, <1>7, <1>8, <1>9 DEF ServiceNext

\* The invariant gives what a request is told.
LEMMA FreshIsServedFresh == FreshInv => ServedFresh
<1> SUFFICES ASSUME FreshInv, exists, NEW r \in Readers, pc[r] = "answered"
             PROVE  \E k \in 0..Len(checks) :
                      /\ got[r] = MetricsOf(SubSeq(checks, 1, k))
                      /\ \A i \in (k + 1)..Len(checks) : now - checks[i].at < Ttl + 2 * Slow
  BY DEF ServedFresh
<1>1. PICK k \in 0..Len(checks) :
         /\ got[r] = MetricsOf(SubSeq(checks, 1, k))
         /\ \A i \in (k + 1)..Len(checks) : checks[i].at >= now - Ttl - 2 * Slow + 1
  BY DEF FreshInv, Misses
<1>2. ASSUME NEW i \in (k + 1)..Len(checks)
      PROVE  now - checks[i].at < Ttl + 2 * Slow
  <2>0. checks \in Seq(Row) /\ i \in 1..Len(checks)
    BY DEF FreshInv, TimesOK, Row
  <2>1. checks[i] \in Row
    BY <2>0
  <2>2. checks[i].at \in Nat
    BY <2>1 DEF Row
  <2> QED
    BY <1>1, <2>2, ServiceAssumption DEF FreshInv, TimesOK
<1> QED
  BY <1>1, <1>2

-----------------------------------------------------------------------------
(* The history of the service, and the types.                              *)

ServiceInv ==
  /\ History(checks)
  /\ ServiceTypeOK
  /\ DOMAIN got = Readers

\* round(sla, 2) of a history is a natural number of hundredths.
LEMMA MetricsType ==
  ASSUME NEW h, History(h)
  PROVE  MetricsOf(h) \in Fetched
<1> DEFINE num == Sla(h).num
           den == Sla(h).den
<1>1. num \in Nat /\ den \in Nat \ {0}
  BY SlaType
<1>2. CurrentUptime(h) \in Nat
  BY DEF History
<1> HIDE DEF num, den
<1>3. (20000 * num + den) \div (2 * den) \in Nat
  <2>1. 20000 * num + den \in Nat /\ 2 * den \in Nat \ {0}
    BY <1>1
  <2> QED
    BY <2>1
<1>4. MetricsOf(h) = [uptime |-> CurrentUptime(h), sla |-> (20000 * num + den) \div (2 * den)]
  BY DEF MetricsOf, num, den
<1> QED
  BY <1>2, <1>3, <1>4 DEF Fetched

LEMMA ServiceInvInit == ServiceInit => ServiceInv
<1> SUFFICES ASSUME ServiceInit PROVE ServiceInv
  OBVIOUS
<1>1. History(checks) /\ checks = <<>>
  BY HistoryInit DEF ServiceInit, Init
<1>2. TypeOK
  BY <1>1, HistoryType
<1> QED
  BY <1>1, <1>2, ServiceAssumption DEF ServiceInit, ServiceInv, ServiceTypeOK

\* A commit keeps the history one.
LEMMA SaveHistory ==
  ASSUME History(checks), Save, now \in Nat, \A i \in DOMAIN checks : checks[i].at <= now
  PROVE  History(checks') /\ \A i \in DOMAIN checks' : checks'[i].at <= now
<1>1. Ordered(checks) /\ checks \in Seq(Row)
  BY DEF History, Ordered
<1>2. PICK c : NextCheck(checks, c) /\ checks' = Append(checks, c)
  BY <1>1, SavedCheck DEF Save
<1>3. History(checks')
  BY <1>2, HistoryAppend
<1>4. /\ Len(checks) \in Nat /\ Len(checks') = Len(checks) + 1 /\ checks'[Len(checks) + 1] = c
      /\ DOMAIN checks' = 1..(Len(checks) + 1) /\ DOMAIN checks = 1..Len(checks)
      /\ \A i \in 1..Len(checks) : checks'[i] = checks[i]
  <2>1. Follows(checks, c)
    BY <1>1, <1>2, NextCheckTime DEF History
  <2>2. checks' \in Seq(Row)
    BY <1>3 DEF History, Ordered
  <2> QED
    BY <1>1, <1>2, <2>1, <2>2, OrderedAppend
<1>5. Last(checks') = c
  BY <1>4 DEF Last
<1>6. c.at \in (now - Slow)..now
  <2>1. Last(checks').at \in (now - Slow)..now
    BY DEF Save
  <2> QED
    BY <1>5, <2>1, Zenon
<1>7. c.at <= now
  BY <1>6, ServiceAssumption
<1>8. ASSUME NEW i \in DOMAIN checks'
      PROVE  checks'[i].at <= now
  <2>1. CASE i = Len(checks) + 1
    BY <1>4, <1>7, <2>1
  <2>2. CASE i # Len(checks) + 1
    <3>1. i \in 1..Len(checks)
      BY <1>4, <2>2
    <3> QED
      BY <1>4, <3>1
  <2> QED
    BY <2>1, <2>2
<1> QED
  BY <1>3, <1>8

LEMMA ServiceInvStep == ServiceInv /\ [ServiceNext]_vars => ServiceInv'
<1> SUFFICES ASSUME ServiceInv, [ServiceNext]_vars PROVE ServiceInv'
  OBVIOUS
<1> USE ServiceAssumption
<1>0. /\ History(checks) /\ ServiceTypeOK /\ DOMAIN got = Readers
      /\ now \in Nat /\ now <= MaxTime
  BY DEF ServiceInv, ServiceTypeOK
<1>1. ASSUME History(checks')
      PROVE  History(checks)' /\ TypeOK'
  <2>1. History(checks)'
    BY <1>1 DEF History, Ordered, SpanOK, SlaOK, UptimeOK
  <2>2. TypeOK'
    <3>1. checks' \in Seq(Row) /\ DOMAIN checks' = 1..Len(checks')
      BY <1>1 DEF History, Ordered
    <3> QED
      BY <1>1, <3>1 DEF History, Ordered, TypeOK, Row
  <2> QED
    BY <2>1, <2>2
<1>2. CASE checks' = checks
  <2>1. History(checks)' /\ TypeOK'
    BY <1>0, <1>1, <1>2
  <2>2. CASE Tick
    <3>1. /\ now' = now + 1 /\ now' \in 0..MaxTime
          /\ exists' = exists /\ cache' = cache /\ pc' = pc /\ got' = got /\ asked' = asked
      BY <1>0, <2>2 DEF Tick
    <3>2. cache' \in {None} \cup [of : Fetched, at : 0..now']
      <4> HIDE DEF Fetched
      <4> QED
        BY <1>0, <3>1 DEF ServiceTypeOK
    <3>3. asked' \in [Readers -> 0..now']
      BY <1>0, <3>1 DEF ServiceTypeOK
    <3>4. \A i \in DOMAIN checks' : checks'[i].at <= now'
      <4>1. \A i \in DOMAIN checks : checks[i].at \in Nat /\ checks[i].at <= now
        BY <1>0, TimesOfRows DEF History, Ordered, ServiceTypeOK
      <4> QED
        BY <1>0, <1>2, <3>1, <4>1
    <3> QED
      BY <1>0, <2>1, <3>1, <3>2, <3>3, <3>4 DEF ServiceInv, ServiceTypeOK
  <2>3. ASSUME NEW r \in Readers, Request(r)
        PROVE  ServiceInv'
    BY <1>0, <2>1, <2>3 DEF Request, ServiceInv, ServiceTypeOK
  <2>4. ASSUME NEW r \in Readers, Lookup(r)
        PROVE  ServiceInv'
    <3>1. Fresh => cache.of \in Fetched
      BY <1>0 DEF Fresh, ServiceTypeOK
    <3>2. /\ UNCHANGED <<now, exists, cache, asked>>
          /\ \A q \in Readers : q # r => pc'[q] = pc[q] /\ got'[q] = got[q]
          /\ pc' \in [Readers -> {"idle", "lookup", "query", "rows", "answered"}]
          /\ DOMAIN got' = Readers
          /\ \/ pc'[r] = "answered" /\ got'[r] \in Fetched
             \/ pc'[r] = "query" /\ got'[r] = None
      <4> HIDE DEF Fetched
      <4> QED
        BY <1>0, <2>4, <3>1 DEF Lookup, ServiceTypeOK
    <3> HIDE DEF Fetched
    <3> QED
      BY <1>0, <1>2, <2>1, <3>2 DEF ServiceInv, ServiceTypeOK
  <2>5. ASSUME NEW r \in Readers, Query(r)
        PROVE  ServiceInv'
    <3>1. MetricsOf(checks) \in Fetched
      BY <1>0, MetricsType
    <3> HIDE DEF Fetched
    <3> QED
      BY <1>0, <2>1, <2>5, <3>1 DEF Query, ServiceInv, ServiceTypeOK
  <2>6. ASSUME NEW r \in Readers, Store(r)
        PROVE  ServiceInv'
    BY <1>0, <2>1, <2>6 DEF Store, ServiceInv, ServiceTypeOK
  <2>7. ASSUME NEW r \in Readers, Answer(r)
        PROVE  ServiceInv'
    BY <1>0, <2>1, <2>7 DEF Answer, ServiceInv, ServiceTypeOK
  <2>8. CASE UNCHANGED vars
    BY <1>0, <2>1, <2>8 DEF vars, ServiceInv, ServiceTypeOK
  <2>9. CASE Save \/ Delete
    <3>1. exists' \in BOOLEAN /\ UNCHANGED <<now, cache, pc, got, asked>>
      BY <1>0, <2>9 DEF Save, Delete, ServiceTypeOK
    <3> QED
      BY <1>0, <1>2, <2>1, <3>1 DEF ServiceInv, ServiceTypeOK
  <2> QED
    BY <2>2, <2>3, <2>4, <2>5, <2>6, <2>7, <2>8, <2>9 DEF ServiceNext
<1>3. CASE Save
  <2>1. History(checks') /\ \A i \in DOMAIN checks' : checks'[i].at <= now
    BY <1>0, <1>3, SaveHistory DEF ServiceTypeOK
  <2>2. History(checks)' /\ TypeOK'
    BY <1>1, <2>1
  <2> QED
    BY <1>0, <1>3, <2>1, <2>2 DEF Save, ServiceInv, ServiceTypeOK
<1>4. CASE Delete
  <2>1. checks' = <<>>
    BY <1>4 DEF Delete
  <2>2. History(checks)' /\ TypeOK'
    BY <1>1, <2>1, HistoryOfEmpty
  <2>3. \A i \in DOMAIN checks' : checks'[i].at <= now
    BY <2>1
  <2>4. exists' = FALSE /\ UNCHANGED <<now, cache, pc, got, asked>>
    BY <1>4 DEF Delete
  <2> QED
    BY <1>0, <2>2, <2>3, <2>4 DEF ServiceInv, ServiceTypeOK
<1>5. Save \/ Delete \/ checks' = checks
  BY DEF ServiceNext, vars, Tick, Request, Lookup, Query, Store, Answer
<1> QED
  BY <1>2, <1>3, <1>4, <1>5

-----------------------------------------------------------------------------
\* However requests, commits and a deletion interleave, the cache and whatever
\* a request holds miss nothing but recent checks (services/metrics_service.py).
THEOREM FreshConsistent == ServiceSpec => []FreshInv
<1> QED
  BY FreshInit, FreshStep, PTL DEF ServiceSpec

\* What get_metrics answers are the metrics of a recent history, for any number
\* of requests that overwrite each other's cache entry.
THEOREM ServedFreshHolds == ServiceSpec => []ServedFresh
<1> QED
  BY FreshConsistent, FreshIsServedFresh, PTL

\* Requests, commits and the deletion keep the types: what is cached, held and
\* answered are the metrics of a history.
THEOREM ServiceTypeCorrect == ServiceSpec => []ServiceTypeOK
<1>1. ServiceInv => ServiceTypeOK
  BY DEF ServiceInv
<1> QED
  BY <1>1, ServiceInvInit, ServiceInvStep, PTL DEF ServiceSpec

\* compute_sla reports 100% of no history with a failed check, however long.
THEOREM FullSlaHolds == ServiceSpec => []FullSlaMeansNoFailure
<1>1. ServiceInv => FullSlaMeansNoFailure
  BY HistoryFullSla DEF ServiceInv
<1> QED
  BY <1>1, ServiceInvInit, ServiceInvStep, PTL DEF ServiceSpec

\* The uptime compute_sla adds up is the true one but for truncation.
THEOREM SlaCountsHolds == ServiceSpec => []SlaCountsUptime
<1>1. ServiceInv => SlaCountsUptime
  BY HistoryCounts DEF ServiceInv
<1> QED
  BY <1>1, ServiceInvInit, ServiceInvStep, PTL DEF ServiceSpec

\* compute_current_uptime is the length of the current streak of successes but for
\* truncation, so at least an interval less than the time since the last failure.
THEOREM CurrentUptimeHolds == ServiceSpec => []CurrentUptimeIsStreak
<1>1. ServiceInv => CurrentUptimeIsStreak
  BY HistoryCounts DEF ServiceInv
<1> QED
  BY <1>1, ServiceInvInit, ServiceInvStep, PTL DEF ServiceSpec
=============================================================================
