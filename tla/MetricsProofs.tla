----------------------------- MODULE MetricsProofs -----------------------------
(***************************************************************************)
(* What the two functions of services/metrics.py compute, for a history of *)
(* any length.  Their loops are folds, that is, recursive functions over   *)
(* the subsets of the positions; induction is done with sets of numbers,   *)
(* by SetInduction.                                                        *)
(***************************************************************************)
EXTENDS CheckHistory, FiniteSetTheorems, WellFoundedInduction, TLAPS

-----------------------------------------------------------------------------
(* Induction, and recursion over finite sets.                              *)

\* A set that holds 0 and with a number the next one holds them all.
LEMMA SetInduction ==
  ASSUME NEW S, 0 \in S, \A n \in Nat : n \in S => n + 1 \in S
  PROVE  Nat \subseteq S
<1> DEFINE R == OpToRel(<, Nat)
<1>1. \A x, y \in Nat : <<y, x>> \in R <=> y < x
  BY DEF OpToRel
<1>2. IsWellFoundedOn(R, Nat)
  BY NatLessThanWellFounded
<1> HIDE DEF R
<1> SUFFICES ASSUME Nat \ S # {} PROVE FALSE
  OBVIOUS
<1>3. PICK x \in Nat \ S : \A y \in Nat \ S : ~(<<y, x>> \in R)
  BY <1>2, WFMin
<1>4. x # 0 /\ x - 1 \in Nat /\ (x - 1) + 1 = x
  OBVIOUS
<1>5. <<x - 1, x>> \in R
  <2>1. x - 1 < x
    OBVIOUS
  <2> QED
    BY <1>1, <1>4, <2>1
<1>6. x - 1 \in S
  BY <1>3, <1>4, <1>5
<1> QED
  BY <1>4, <1>6

\* What holds of a finite set whenever it holds without any of its elements.
LEMMA SubsetInduction ==
  ASSUME NEW D, IsFiniteSet(D), NEW Q,
         \A s \in SUBSET D : (\A x \in s : s \ {x} \in Q) => s \in Q
  PROVE  SUBSET D \subseteq Q
<1> DEFINE S == {n \in Nat : \A s \in SUBSET D : Cardinality(s) = n => s \in Q}
<1>1. \A s \in SUBSET D : /\ IsFiniteSet(s) /\ Cardinality(s) \in Nat
                          /\ Cardinality(s) = 0 <=> s = {}
  BY FS_Subset, FS_CardinalityType, FS_EmptySet
<1>2. 0 \in S
  <2>1. ASSUME NEW s \in SUBSET D, Cardinality(s) = 0
        PROVE  s \in Q
    <3>1. s = {}
      BY <1>1, <2>1
    <3> QED
      BY <3>1
  <2> QED
    BY <2>1
<1>3. ASSUME NEW n \in Nat, n \in S
      PROVE  n + 1 \in S
  <2>1. ASSUME NEW s \in SUBSET D, Cardinality(s) = n + 1
        PROVE  s \in Q
    <3>1. ASSUME NEW x \in s
          PROVE  s \ {x} \in Q
      <4>1. IsFiniteSet(s) /\ Cardinality(s \ {x}) = Cardinality(s) - 1
        BY <1>1, FS_RemoveElement
      <4>2. Cardinality(s \ {x}) = n
        BY <2>1, <4>1
      <4>3. s \ {x} \in SUBSET D
        OBVIOUS
      <4> QED
        BY <1>3, <4>2, <4>3
    <3> QED
      BY <3>1
  <2> QED
    BY <2>1
<1>4. Nat \subseteq S
  <2> HIDE DEF S
  <2> QED
    BY <1>2, <1>3, SetInduction
<1> QED
  BY <1>1, <1>4

\* A fold over a finite set takes an element out of it at a time: the recursion
\* that defines it has a solution, of the type its step keeps.
Fold(D, base, pick, step, g) ==
  \A s \in SUBSET D : g[s] = IF s = {} THEN base ELSE step[<<g[s \ {pick[s]}], pick[s]>>]

LEMMA FoldExists ==
  ASSUME NEW D, IsFiniteSet(D), NEW T, NEW base \in T,
         NEW pick, \A s \in SUBSET D : s # {} => pick[s] \in s,
         NEW step \in [T \X D -> T]
  PROVE  \E g \in [SUBSET D -> T] : Fold(D, base, pick, step, g)
<1> DEFINE Small(n) == {s \in SUBSET D : Cardinality(s) <= n}
           Solves(n, g) == \A s \in Small(n) :
             g[s] = IF s = {} THEN base ELSE step[<<g[s \ {pick[s]}], pick[s]>>]
           S == {n \in Nat : \E g \in [Small(n) -> T] : Solves(n, g)}
<1>1. \A s \in SUBSET D : /\ IsFiniteSet(s) /\ Cardinality(s) \in Nat
                          /\ Cardinality(s) = 0 <=> s = {}
  BY FS_Subset, FS_CardinalityType, FS_EmptySet
<1>2. \A s \in SUBSET D : s # {} =>
        /\ pick[s] \in D /\ s \ {pick[s]} \in SUBSET D
        /\ Cardinality(s \ {pick[s]}) = Cardinality(s) - 1
  BY <1>1, FS_RemoveElement
<1>3. 0 \in S
  <2>1. \A s \in Small(0) : s = {}
    BY <1>1
  <2>2. [s \in Small(0) |-> base] \in [Small(0) -> T]
    OBVIOUS
  <2>3. Solves(0, [s \in Small(0) |-> base])
    BY <2>1
  <2> QED
    BY <2>2, <2>3
<1>4. ASSUME NEW n \in Nat, n \in S
      PROVE  n + 1 \in S
  <2>1. PICK g \in [Small(n) -> T] : Solves(n, g)
    BY <1>4
  <2> DEFINE h == [s \in Small(n + 1) |-> IF s \in Small(n) THEN g[s]
                                          ELSE step[<<g[s \ {pick[s]}], pick[s]>>]]
  <2>2. \A s \in Small(n + 1) : s # {} => s \ {pick[s]} \in Small(n) /\ pick[s] \in D
    BY <1>1, <1>2
  <2>3. \A s \in Small(n + 1) : s \notin Small(n) => s # {}
    BY <1>1
  <2>4. h \in [Small(n + 1) -> T]
    <3>1. ASSUME NEW s \in Small(n + 1)
          PROVE  h[s] \in T
      <4>1. CASE s \in Small(n)
        BY <4>1
      <4>2. CASE s \notin Small(n)
        <5>1. g[s \ {pick[s]}] \in T /\ pick[s] \in D
          BY <2>2, <2>3, <4>2
        <5>2. <<g[s \ {pick[s]}], pick[s]>> \in T \X D
          BY <5>1
        <5> QED
          BY <4>2, <5>2
      <4> QED
        BY <4>1, <4>2
    <3> QED
      BY <3>1
  <2>5. Solves(n + 1, h)
    <3>1. ASSUME NEW s \in Small(n + 1), s # {}
          PROVE  h[s] = step[<<h[s \ {pick[s]}], pick[s]>>]
      <4>1. s \ {pick[s]} \in Small(n) /\ s \ {pick[s]} \in Small(n + 1)
        BY <1>1, <2>2, <3>1
      <4>2. h[s \ {pick[s]}] = g[s \ {pick[s]}]
        BY <4>1
      <4>3. h[s] = step[<<g[s \ {pick[s]}], pick[s]>>]
        <5>1. CASE s \in Small(n)
          <6>1. g[s] = step[<<g[s \ {pick[s]}], pick[s]>>]
            BY <2>1, <3>1, <5>1
          <6> QED
            BY <5>1, <6>1
        <5>2. CASE s \notin Small(n)
          BY <5>2
        <5> QED
          BY <5>1, <5>2
      <4> QED
        BY <4>2, <4>3
    <3>2. {} \in Small(n) /\ {} \in Small(n + 1) /\ h[{}] = base
      <4>1. {} \in Small(n) /\ {} \in Small(n + 1)
        BY <1>1
      <4> QED
        BY <2>1, <4>1
    <3> QED
      BY <3>1, <3>2
  <2> HIDE DEF h, Small, Solves
  <2> QED
    BY <2>4, <2>5
<1>5. Cardinality(D) \in Nat /\ \A s \in SUBSET D : s \in Small(Cardinality(D))
  BY FS_CardinalityType, FS_Subset
<1>6. Cardinality(D) \in S
  <2> HIDE DEF S
  <2> QED
    BY <1>3, <1>4, <1>5, SetInduction
<1>7. PICK g \in [Small(Cardinality(D)) -> T] : Solves(Cardinality(D), g)
  BY <1>6
<1>8. Small(Cardinality(D)) = SUBSET D
  BY <1>5
<1> QED
  BY <1>7, <1>8 DEF Fold

-----------------------------------------------------------------------------
(* compute_current_uptime: the fold of UptimeStep along the history.       *)

Row == [at : Nat, up : BOOLEAN]
Start == [uptime |-> 0, up |-> FALSE, at |-> 0]
Accumulator == [uptime : Int, up : BOOLEAN, at : Int]

\* Of each set of positions, what the loop has accumulated after them.
Loop(h) == CHOOSE g : g = [s \in SUBSET DOMAIN h |->
  IF s = {} THEN Start ELSE UptimeStep(g[s \ {Max(s)}], h[Max(s)])]

LEMMA LoopIsFold == ASSUME NEW h PROVE CurrentUptime(h) = Loop(h)[DOMAIN h].uptime
BY Zenon DEF CurrentUptime, Loop, Start, FoldLeft, MapThenFoldSet

LEMMA SecondsType == ASSUME NEW d \in Int
                     PROVE  /\ Seconds(d) \in Int
                            /\ d >= 0 => Seconds(d) \in Nat
                            /\ Unit * Seconds(d) <= d /\ d - Unit * Seconds(d) <= Unit - 1
BY UnitAssumption DEF Seconds

LEMMA StepType == ASSUME NEW a \in Accumulator, NEW c \in Row
                  PROVE  UptimeStep(a, c) \in Accumulator
<1>1. /\ a.uptime \in Int /\ a.at \in Int /\ c.at \in Nat /\ c.up \in BOOLEAN
  BY DEF Accumulator, Row
<1>2. Seconds(c.at - a.at) \in Int
  BY <1>1, SecondsType
<1>3. (IF ~c.up THEN 0 ELSE IF a.up THEN a.uptime + Seconds(c.at - a.at) ELSE a.uptime) \in Int
  BY <1>1, <1>2
<1> QED
  BY <1>1, <1>3 DEF Accumulator, UptimeStep

LEMMA MaxIsIn == ASSUME NEW n \in Nat, NEW s \in SUBSET (1..n), s # {}
                 PROVE  Max(s) \in s /\ \A i \in s : i <= Max(s)
<1> DEFINE P(k) == \A t \in SUBSET (1..k) : t # {} => \E m \in t : \A i \in t : m >= i
           S == {k \in Nat : P(k)}
<1>1. 0 \in S
  <2>1. \A t \in SUBSET (1..0) : t = {}
    OBVIOUS
  <2> QED
    BY <2>1
<1>2. ASSUME NEW k \in Nat, k \in S
      PROVE  k + 1 \in S
  <2>1. ASSUME NEW t \in SUBSET (1..(k + 1)), t # {}
        PROVE  \E m \in t : \A i \in t : m >= i
    <3>1. CASE k + 1 \in t
      BY <3>1
    <3>2. CASE k + 1 \notin t
      <4>1. t \in SUBSET (1..k)
        BY <3>2
      <4> QED
        BY <1>2, <2>1, <4>1
    <3> QED
      BY <3>1, <3>2
  <2> QED
    BY <2>1
<1>3. n \in S
  <2> HIDE DEF S
  <2> QED
    BY <1>1, <1>2, SetInduction
<1>4. PICK m \in s : \A i \in s : m >= i
  BY <1>3
<1> QED
  BY <1>4 DEF Max

\* The recursion of the loop has a solution.
LEMMA LoopDefined ==
  ASSUME NEW h \in Seq(Row)
  PROVE  /\ Loop(h)[{}] = Start
         /\ \A s \in SUBSET (1..Len(h)) : s # {} =>
              Loop(h)[s] = UptimeStep(Loop(h)[s \ {Max(s)}], h[Max(s)])
<1> DEFINE D == 1..Len(h)
           pick == [s \in SUBSET D |-> Max(s)]
           step == [p \in Accumulator \X D |-> UptimeStep(p[1], h[p[2]])]
           Solves(g) == g = [s \in SUBSET DOMAIN h |->
             IF s = {} THEN Start ELSE UptimeStep(g[s \ {Max(s)}], h[Max(s)])]
<1>1. Len(h) \in Nat /\ DOMAIN h = D /\ \A i \in D : h[i] \in Row
  OBVIOUS
<1>2. IsFiniteSet(D)
  BY <1>1, FS_Interval
<1>3. Start \in Accumulator
  BY DEF Start, Accumulator
<1>4. \A s \in SUBSET D : s # {} => pick[s] \in s
  BY <1>1, MaxIsIn
<1>5. step \in [Accumulator \X D -> Accumulator]
  BY <1>1, StepType
<1>6. PICK g \in [SUBSET D -> Accumulator] : Fold(D, Start, pick, step, g)
  <2> HIDE DEF D, pick, step
  <2> QED
    BY <1>2, <1>3, <1>4, <1>5, FoldExists
<1>7. Solves(g)
  <2>1. ASSUME NEW s \in SUBSET D
        PROVE  g[s] = IF s = {} THEN Start ELSE UptimeStep(g[s \ {Max(s)}], h[Max(s)])
    <3>1. CASE s = {}
      BY <1>6, <3>1 DEF Fold
    <3>2. CASE s # {}
      <4>1. g[s] = step[<<g[s \ {pick[s]}], pick[s]>>]
        <5> HIDE DEF step, pick, D
        <5> QED
          BY <1>6, <3>2 DEF Fold
      <4>2. pick[s] = Max(s) /\ Max(s) \in D
        BY <1>4, <3>2
      <4>3. <<g[s \ {Max(s)}], Max(s)>> \in Accumulator \X D
        <5>1. s \ {Max(s)} \in SUBSET D
          OBVIOUS
        <5> QED
          BY <1>6, <4>2, <5>1
      <4>4. step[<<g[s \ {Max(s)}], Max(s)>>] = UptimeStep(g[s \ {Max(s)}], h[Max(s)])
        BY <4>3
      <4> QED
        BY <3>2, <4>1, <4>2, <4>4, Zenon
    <3> QED
      BY <3>1, <3>2
  <2>2. g = [s \in SUBSET D |-> g[s]]
    BY <1>6
  <2> HIDE DEF D, pick, step
  <2> QED
    BY <1>1, <2>1, <2>2, Zenon
<1>8. Solves(Loop(h))
  <2> HIDE DEF D, pick, step
  <2> QED
    BY <1>7, Zenon DEF Loop
<1>9. \A s \in SUBSET D : Loop(h)[s] =
        IF s = {} THEN Start ELSE UptimeStep(Loop(h)[s \ {Max(s)}], h[Max(s)])
  <2> HIDE DEF D, pick, step
  <2> QED
    BY <1>1, <1>8, Zenon
<1> HIDE DEF Solves, pick, step
<1>10. Loop(h)[{}] = Start
  BY <1>9, Zenon
<1>11. ASSUME NEW s \in SUBSET D, s # {}
       PROVE  Loop(h)[s] = UptimeStep(Loop(h)[s \ {Max(s)}], h[Max(s)])
  BY <1>9, <1>11, Zenon
<1> QED
  BY <1>10, <1>11

\* What has been accumulated after the first k checks.
After(h, k) == Loop(h)[1..k]

LEMMA AfterStep ==
  ASSUME NEW h \in Seq(Row)
  PROVE  /\ After(h, 0) = Start
         /\ \A k \in 1..Len(h) : After(h, k) = UptimeStep(After(h, k - 1), h[k])
<1>1. After(h, 0) = Start
  <2>1. 1..0 = {}
    OBVIOUS
  <2> QED
    BY <2>1, LoopDefined DEF After
<1>2. ASSUME NEW k \in 1..Len(h)
      PROVE  After(h, k) = UptimeStep(After(h, k - 1), h[k])
  <2>0. k \in Nat \ {0} /\ Len(h) \in Nat /\ k <= Len(h)
    OBVIOUS
  <2>1. 1..k \in SUBSET (1..Len(h)) /\ 1..k # {} /\ (1..k) \ {k} = 1..(k - 1)
    <3>1. k \in 1..k
      BY <2>0
    <3>2. \A i \in 1..k : i \in 1..Len(h)
      BY <2>0
    <3>3. (1..k) \ {k} = 1..(k - 1)
      BY <2>0
    <3> QED
      BY <3>1, <3>2, <3>3
  <2>2. Max(1..k) = k
    <3>1. k \in Nat /\ 1..k \in SUBSET (1..k) /\ k \in 1..k
      OBVIOUS
    <3>2. Max(1..k) \in 1..k /\ k <= Max(1..k)
      BY <2>1, <3>1, MaxIsIn
    <3> QED
      BY <3>2
  <2>3. Loop(h)[1..k] = UptimeStep(Loop(h)[(1..k) \ {Max(1..k)}], h[Max(1..k)])
    BY <2>1, LoopDefined
  <2> QED
    BY <2>1, <2>2, <2>3, Zenon DEF After
<1> QED
  BY <1>1, <1>2

\* A later check does not change what was accumulated before it.
LEMMA AfterAppend ==
  ASSUME NEW h \in Seq(Row), NEW c \in Row
  PROVE  After(Append(h, c), Len(h)) = After(h, Len(h))
<1> DEFINE g == Append(h, c)
           S == {k \in Nat : k <= Len(h) => After(g, k) = After(h, k)}
<1>1. /\ g \in Seq(Row) /\ Len(g) = Len(h) + 1 /\ Len(h) \in Nat
      /\ \A k \in 1..Len(h) : g[k] = h[k]
  OBVIOUS
<1> HIDE DEF g
<1>2. 0 \in S
  BY <1>1, AfterStep
<1>3. ASSUME NEW n \in Nat, n \in S
      PROVE  n + 1 \in S
  <2> SUFFICES ASSUME n + 1 <= Len(h) PROVE After(g, n + 1) = After(h, n + 1)
    OBVIOUS
  <2>1. n + 1 \in 1..Len(h) /\ n + 1 \in 1..Len(g) /\ (n + 1) - 1 = n
    BY <1>1
  <2>2. After(g, n) = After(h, n) /\ g[n + 1] = h[n + 1]
    BY <1>1, <1>3, <2>1
  <2>3. After(g, n + 1) = UptimeStep(After(g, (n + 1) - 1), g[n + 1])
    BY <1>1, <2>1, AfterStep
  <2>4. After(h, n + 1) = UptimeStep(After(h, (n + 1) - 1), h[n + 1])
    BY <2>1, AfterStep
  <2> QED
    BY <2>1, <2>2, <2>3, <2>4
<1>4. Len(h) \in S
  <2> HIDE DEF S
  <2> QED
    BY <1>1, <1>2, <1>3, SetInduction
<1> QED
  BY <1>1, <1>4 DEF g

\* compute_current_uptime of a history with one check more.
LEMMA UptimeOfEmpty == CurrentUptime(<<>>) = 0
<1>1. <<>> \in Seq(Row) /\ DOMAIN <<>> = 1..0 /\ 1..0 = {}
  OBVIOUS
<1>2. Loop(<<>>)[{}] = Start
  BY <1>1, LoopDefined
<1> QED
  BY <1>1, <1>2, LoopIsFold DEF Start

LEMMA UptimeOfAppend ==
  ASSUME NEW h \in Seq(Row), NEW c \in Row
  PROVE  CurrentUptime(Append(h, c)) =
           IF ~c.up THEN 0
           ELSE IF h # <<>> /\ h[Len(h)].up
                THEN CurrentUptime(h) + Seconds(c.at - h[Len(h)].at)
                ELSE CurrentUptime(h)
<1> DEFINE g == Append(h, c)
           a == After(h, Len(h))
<1>1. /\ g \in Seq(Row) /\ Len(g) = Len(h) + 1 /\ Len(h) \in Nat
      /\ DOMAIN g = 1..Len(g) /\ DOMAIN h = 1..Len(h) /\ g[Len(g)] = c
  OBVIOUS
<1>2. CurrentUptime(g) = After(g, Len(g)).uptime /\ CurrentUptime(h) = a.uptime
  <2> HIDE DEF g
  <2> QED
    BY <1>1, LoopIsFold DEF After
<1>3. After(g, Len(g)) = UptimeStep(a, c)
  <2> HIDE DEF g
  <2>1. Len(g) \in 1..Len(g) /\ Len(g) - 1 = Len(h)
    BY <1>1
  <2>2. After(g, Len(g)) = UptimeStep(After(g, Len(h)), c)
    BY <1>1, <2>1, AfterStep
  <2>3. After(g, Len(h)) = a
    BY AfterAppend DEF g
  <2> QED
    BY <2>2, <2>3
<1>4. CASE h = <<>>
  <2>1. a = Start
    BY <1>4, AfterStep
  <2> QED
    BY <1>2, <1>3, <1>4, <2>1 DEF UptimeStep, Start
<1>5. CASE h # <<>>
  <2>1. Len(h) \in 1..Len(h)
    BY <1>5
  <2>2. a = UptimeStep(After(h, Len(h) - 1), h[Len(h)])
    BY <2>1, AfterStep
  <2>3. a.up = h[Len(h)].up /\ a.at = h[Len(h)].at
    BY <2>2 DEF UptimeStep
  <2> HIDE DEF g, a
  <2> QED
    BY <1>2, <1>3, <1>5, <2>3 DEF UptimeStep, g
<1> QED
  BY <1>4, <1>5

-----------------------------------------------------------------------------
(* compute_sla: the sum over the gaps between checks that are both up.     *)

GapAt(h, i) == Seconds(h[i].at - h[i - 1].at)
Chosen(s) == CHOOSE x \in s : TRUE

\* Of each subset of S, the sum of its gaps.
Adder(h, S) == CHOOSE g : g = [s \in SUBSET S |->
  IF s = {} THEN 0 ELSE GapAt(h, Chosen(s)) + g[s \ {Chosen(s)}]]

LEMMA TotalIsFold == ASSUME NEW h PROVE TotalUptime(h) = Adder(h, UpGaps(h))[UpGaps(h)]
BY Zenon DEF TotalUptime, Adder, GapAt, Chosen, MapThenSumSet, MapThenFoldSet

Summable(h, S) == IsFiniteSet(S) /\ \A i \in S : GapAt(h, i) \in Nat

Adds(h, S, g) ==
  /\ g[{}] = 0
  /\ \A s \in SUBSET S : s # {} => g[s] = GapAt(h, Chosen(s)) + g[s \ {Chosen(s)}]

\* The recursion of the sum has a solution.
LEMMA AdderDefined ==
  ASSUME NEW h, NEW S, Summable(h, S)
  PROVE  Adds(h, S, Adder(h, S))
<1> USE DEF Summable
<1> DEFINE pick == [s \in SUBSET S |-> Chosen(s)]
           step == [p \in Nat \X S |-> GapAt(h, p[2]) + p[1]]
           Solves(g) == g = [s \in SUBSET S |->
             IF s = {} THEN 0 ELSE GapAt(h, Chosen(s)) + g[s \ {Chosen(s)}]]
<1>1. \A s \in SUBSET S : s # {} => pick[s] \in s
  BY DEF Chosen
<1>2. step \in [Nat \X S -> Nat]
  OBVIOUS
<1>3. PICK g \in [SUBSET S -> Nat] : Fold(S, 0, pick, step, g)
  <2> HIDE DEF pick, step
  <2> QED
    BY <1>1, <1>2, FoldExists
<1>4. Solves(g)
  <2>1. ASSUME NEW s \in SUBSET S
        PROVE  g[s] = IF s = {} THEN 0 ELSE GapAt(h, Chosen(s)) + g[s \ {Chosen(s)}]
    <3>1. CASE s = {}
      BY <1>3, <3>1 DEF Fold
    <3>2. CASE s # {}
      <4>1. g[s] = step[<<g[s \ {pick[s]}], pick[s]>>]
        <5> HIDE DEF step, pick
        <5> QED
          BY <1>3, <3>2 DEF Fold
      <4>2. pick[s] = Chosen(s) /\ Chosen(s) \in S
        BY <1>1, <3>2
      <4>3. <<g[s \ {Chosen(s)}], Chosen(s)>> \in Nat \X S
        <5>1. s \ {Chosen(s)} \in SUBSET S
          OBVIOUS
        <5> QED
          BY <1>3, <4>2, <5>1
      <4>4. step[<<g[s \ {Chosen(s)}], Chosen(s)>>] = GapAt(h, Chosen(s)) + g[s \ {Chosen(s)}]
        BY <4>3
      <4> QED
        BY <3>2, <4>1, <4>2, <4>4, Zenon
    <3> QED
      BY <3>1, <3>2
  <2>2. g = [s \in SUBSET S |-> g[s]]
    BY <1>3
  <2> HIDE DEF pick, step
  <2> QED
    BY <2>1, <2>2, Zenon
<1>5. Solves(Adder(h, S))
  <2> HIDE DEF pick, step
  <2> QED
    BY <1>4, Zenon DEF Adder
<1>6. \A s \in SUBSET S : Adder(h, S)[s] =
        IF s = {} THEN 0 ELSE GapAt(h, Chosen(s)) + Adder(h, S)[s \ {Chosen(s)}]
  <2> HIDE DEF pick, step
  <2> QED
    BY <1>5, Zenon
<1> HIDE DEF Solves, pick, step
<1>7. Adder(h, S)[{}] = 0
  BY <1>6, Zenon
<1>8. ASSUME NEW s \in SUBSET S, s # {}
      PROVE  Adder(h, S)[s] = GapAt(h, Chosen(s)) + Adder(h, S)[s \ {Chosen(s)}]
  BY <1>6, <1>8, Zenon
<1> QED
  BY <1>7, <1>8 DEF Adds

\* A sum of natural numbers is one.
LEMMA SumType ==
  ASSUME NEW h, NEW S, Summable(h, S),
         NEW g, Adds(h, S, g)
  PROVE  \A s \in SUBSET S : g[s] \in Nat
<1> USE DEF Summable
<1> DEFINE Q == {s \in SUBSET S : g[s] \in Nat}
<1>1. ASSUME NEW s \in SUBSET S, \A x \in s : s \ {x} \in Q
      PROVE  s \in Q
  <2>1. CASE s = {}
    BY <2>1 DEF Adds
  <2>2. CASE s # {}
    <3>1. Chosen(s) \in s
      BY <2>2 DEF Chosen
    <3>2. g[s] = GapAt(h, Chosen(s)) + g[s \ {Chosen(s)}]
      BY <2>2 DEF Adds
    <3>3. g[s \ {Chosen(s)}] \in Nat /\ GapAt(h, Chosen(s)) \in Nat
      BY <1>1, <3>1
    <3> QED
      BY <3>2, <3>3
  <2> QED
    BY <2>1, <2>2
<1>2. SUBSET S \subseteq Q
  <2> HIDE DEF Q
  <2> QED
    BY <1>1, SubsetInduction
<1> QED
  BY <1>2

\* It does not matter which element is added last.
LEMMA SumAnyOrder ==
  ASSUME NEW h, NEW S, Summable(h, S),
         NEW g, Adds(h, S, g), NEW t \in SUBSET S, NEW y \in t
  PROVE  g[t] = GapAt(h, y) + g[t \ {y}]
<1> USE DEF Summable
<1> DEFINE Q == {s \in SUBSET S : \A x \in s : g[s] = GapAt(h, x) + g[s \ {x}]}
<1>1. ASSUME NEW s \in SUBSET S, \A x \in s : s \ {x} \in Q
      PROVE  s \in Q
  <2> SUFFICES ASSUME NEW x \in s PROVE g[s] = GapAt(h, x) + g[s \ {x}]
    OBVIOUS
  <2> DEFINE p == Chosen(s)
  <2>1. p \in s
    BY DEF Chosen
  <2>2. g[s] = GapAt(h, p) + g[s \ {p}]
    BY DEF Adds
  <2> HIDE DEF p
  <2>3. CASE x = p
    BY <2>2, <2>3
  <2>4. CASE x # p
    <3>1. g[s \ {p}] = GapAt(h, x) + g[(s \ {p}) \ {x}]
      BY <1>1, <2>1, <2>4
    <3>2. g[s \ {x}] = GapAt(h, p) + g[(s \ {x}) \ {p}]
      BY <1>1, <2>1, <2>4
    <3>3. (s \ {p}) \ {x} = (s \ {x}) \ {p} /\ (s \ {p}) \ {x} \in SUBSET S
      OBVIOUS
    <3>4. g[(s \ {p}) \ {x}] \in Nat /\ GapAt(h, x) \in Nat /\ GapAt(h, p) \in Nat
      BY <2>1, <3>3, SumType
    <3> DEFINE rest == g[(s \ {p}) \ {x}]
    <3>5. g[s] = GapAt(h, p) + (GapAt(h, x) + rest)
      BY <2>2, <3>1, Zenon
    <3>6. g[s \ {x}] = GapAt(h, p) + rest
      BY <3>2, <3>3, Zenon
    <3>7. GapAt(h, p) + (GapAt(h, x) + rest) = GapAt(h, x) + (GapAt(h, p) + rest)
      <4> HIDE DEF rest
      <4>1. rest \in Nat
        BY <3>4 DEF rest
      <4> QED
        BY <3>4, <4>1
    <3> QED
      BY <3>5, <3>6, <3>7, Zenon
  <2> QED
    BY <2>3, <2>4
<1>2. SUBSET S \subseteq Q
  <2> HIDE DEF Q
  <2> QED
    BY <1>1, SubsetInduction
<1> QED
  BY <1>2

\* An element of S is one summand of the sum over S.
LEMMA SumTakesOut ==
  ASSUME NEW h, NEW S, Summable(h, S), NEW x \in S
  PROVE  Adder(h, S)[S] = GapAt(h, x) + Adder(h, S)[S \ {x}]
<1> DEFINE g == Adder(h, S)
<1>1. Adds(h, S, g)
  BY AdderDefined
<1> HIDE DEF g
<1>2. S \in SUBSET S
  OBVIOUS
<1>3. g[S] = GapAt(h, x) + g[S \ {x}]
  BY <1>1, <1>2, SumAnyOrder
<1> QED
  BY <1>3 DEF g

\* Histories that agree on the gaps of a set have the same sum of them.
LEMMA SumAgrees ==
  ASSUME NEW h, NEW S, IsFiniteSet(S), NEW g, Adds(h, S, g),
         NEW hh, NEW SS, S \subseteq SS, NEW gg, Adds(hh, SS, gg),
         \A i \in S : GapAt(h, i) = GapAt(hh, i)
  PROVE  \A s \in SUBSET S : gg[s] = g[s]
<1> DEFINE Q == {s \in SUBSET S : gg[s] = g[s]}
<1>1. ASSUME NEW s \in SUBSET S, \A x \in s : s \ {x} \in Q
      PROVE  s \in Q
  <2>1. CASE s = {}
    BY <2>1 DEF Adds
  <2>2. CASE s # {}
    <3>1. Chosen(s) \in s
      BY <2>2 DEF Chosen
    <3>2. g[s] = GapAt(h, Chosen(s)) + g[s \ {Chosen(s)}]
      BY <2>2 DEF Adds
    <3>3. gg[s] = GapAt(hh, Chosen(s)) + gg[s \ {Chosen(s)}]
      <4>1. s \in SUBSET SS
        OBVIOUS
      <4> QED
        BY <2>2, <4>1 DEF Adds
    <3>4. gg[s \ {Chosen(s)}] = g[s \ {Chosen(s)}]
      BY <1>1, <3>1
    <3> QED
      BY <3>1, <3>2, <3>3, <3>4
  <2> QED
    BY <2>1, <2>2
<1>2. SUBSET S \subseteq Q
  <2> HIDE DEF Q
  <2> QED
    BY <1>1, SubsetInduction
<1> QED
  BY <1>2

-----------------------------------------------------------------------------
(* The definitions of CheckHistory, of any history h.                      *)

\* Rows in the order of their times.
Ordered(h) == h \in Seq(Row) /\ \A i, j \in 1..Len(h) : i < j => h[i].at < h[j].at

\* The next check of a worker.
Follows(h, c) == c \in Row /\ \A i \in 1..Len(h) : h[i].at < c.at

BothUp(h, c) == h # <<>> /\ h[Len(h)].up /\ c.up

LEMMA OrderedAppend ==
  ASSUME NEW h, Ordered(h), NEW c, Follows(h, c)
  PROVE  /\ h \in Seq(Row) /\ Len(h) \in Nat
         /\ Append(h, c) \in Seq(Row) /\ Len(Append(h, c)) = Len(h) + 1
         /\ Append(h, c)[Len(h) + 1] = c
         /\ \A i \in 1..Len(h) : Append(h, c)[i] = h[i]
         /\ Ordered(Append(h, c))
<1>1. /\ h \in Seq(Row) /\ c \in Row /\ Len(h) \in Nat
      /\ Append(h, c) \in Seq(Row) /\ Len(Append(h, c)) = Len(h) + 1
      /\ Append(h, c)[Len(h) + 1] = c
      /\ \A i \in 1..Len(h) : Append(h, c)[i] = h[i]
  BY DEF Ordered, Follows
<1>2. ASSUME NEW i \in 1..(Len(h) + 1), NEW j \in 1..(Len(h) + 1), i < j
      PROVE  Append(h, c)[i].at < Append(h, c)[j].at
  <2>0. i \in 1..Len(h) /\ Append(h, c)[i] = h[i]
    BY <1>1, <1>2
  <2>1. CASE j = Len(h) + 1
    BY <1>1, <2>0, <2>1, Zenon DEF Follows
  <2>2. CASE j # Len(h) + 1
    <3>1. j \in 1..Len(h) /\ Append(h, c)[j] = h[j]
      BY <1>1, <2>2
    <3>2. h[i].at < h[j].at
      BY <1>2, <2>0, <3>1 DEF Ordered
    <3> QED
      BY <2>0, <3>1, <3>2, Zenon
  <2> QED
    BY <2>1, <2>2
<1> QED
  BY <1>1, <1>2 DEF Ordered

\* The times of an ordered history are numbers.
LEMMA TimesOfRows ==
  ASSUME NEW h, Ordered(h)
  PROVE  \A i \in 1..Len(h) : h[i].at \in Nat /\ h[i].up \in BOOLEAN
<1>1. \A i \in 1..Len(h) : h[i] \in Row
  BY DEF Ordered
<1>2. \A c \in Row : c.at \in Nat /\ c.up \in BOOLEAN
  BY DEF Row
<1> QED
  BY <1>1, <1>2

-----------------------------------------------------------------------------
(* The gaps between successes, and their sum, with one check more.         *)

LEMMA GapsOfAppend ==
  ASSUME NEW h, Ordered(h), NEW c, Follows(h, c)
  PROVE  /\ UpGaps(h) \subseteq 2..Len(h)
         /\ UpGaps(Append(h, c)) = UpGaps(h) \cup (IF BothUp(h, c) THEN {Len(h) + 1} ELSE {})
<1> DEFINE g == Append(h, c)
<1>1. /\ Len(h) \in Nat /\ Len(g) = Len(h) + 1 /\ g[Len(h) + 1] = c
      /\ \A i \in 1..Len(h) : g[i] = h[i]
  BY OrderedAppend
<1>2. UpGaps(h) \subseteq 2..Len(h)
  BY DEF UpGaps
<1> HIDE DEF g
<1>3. ASSUME NEW i \in 2..Len(h)
      PROVE  i \in UpGaps(g) <=> i \in UpGaps(h)
  <2>1. i \in 2..Len(g) /\ g[i] = h[i] /\ g[i - 1] = h[i - 1]
    BY <1>1
  <2> QED
    BY <2>1 DEF UpGaps
<1>4. Len(h) + 1 \in UpGaps(g) <=> BothUp(h, c)
  <2>1. CASE h = <<>>
    BY <1>1, <2>1 DEF UpGaps, BothUp
  <2>2. CASE h # <<>>
    <3>1. Len(h) \in 1..Len(h)
      BY <1>1, <2>2 DEF Ordered
    <3>2. /\ Len(h) + 1 \in 2..Len(g) /\ (Len(h) + 1) - 1 = Len(h)
          /\ g[(Len(h) + 1) - 1] = h[Len(h)]
      BY <1>1, <3>1
    <3> QED
      BY <1>1, <2>2, <3>2 DEF UpGaps, BothUp
  <2> QED
    BY <2>1, <2>2
<1>5. \A i \in UpGaps(g) : i \in 2..Len(h) \/ i = Len(h) + 1
  BY <1>1 DEF UpGaps
<1> QED
  BY <1>2, <1>3, <1>4, <1>5 DEF g

LEMMA GapsAreNumbers ==
  ASSUME NEW h, Ordered(h)
  PROVE  /\ IsFiniteSet(UpGaps(h)) /\ Cardinality(UpGaps(h)) \in Nat
         /\ \A i \in UpGaps(h) : GapAt(h, i) \in Nat
<1>1. UpGaps(h) \subseteq 2..Len(h) /\ Len(h) \in Nat
  BY DEF UpGaps, Ordered
<1>2. IsFiniteSet(UpGaps(h)) /\ Cardinality(UpGaps(h)) \in Nat
  <2>1. IsFiniteSet(2..Len(h))
    BY <1>1, FS_Interval
  <2>2. IsFiniteSet(UpGaps(h))
    BY <1>1, <2>1, FS_Subset
  <2> QED
    BY <2>2, FS_CardinalityType
<1>3. ASSUME NEW i \in UpGaps(h)
      PROVE  GapAt(h, i) \in Nat
  <2>1. i \in 1..Len(h) /\ i - 1 \in 1..Len(h) /\ i - 1 < i
    BY <1>1
  <2>2. h[i].at \in Nat /\ h[i - 1].at \in Nat /\ h[i - 1].at < h[i].at
    BY <2>1, TimesOfRows DEF Ordered
  <2>3. h[i].at - h[i - 1].at \in Int /\ h[i].at - h[i - 1].at >= 0
    BY <2>2
  <2> QED
    BY <2>3, SecondsType DEF GapAt
<1> QED
  BY <1>2, <1>3

LEMMA TotalOfEmpty == TotalUptime(<<>>) = 0
<1>1. UpGaps(<<>>) = {} /\ IsFiniteSet({})
  BY FS_EmptySet DEF UpGaps
<1>2. Adds(<<>>, {}, Adder(<<>>, {}))
  BY <1>1, AdderDefined DEF Summable
<1> QED
  BY <1>1, <1>2, TotalIsFold DEF Adds

LEMMA TotalOfAppend ==
  ASSUME NEW h, Ordered(h), NEW c, Follows(h, c)
  PROVE  /\ TotalUptime(h) \in Nat
         /\ TotalUptime(Append(h, c)) = TotalUptime(h) +
              (IF BothUp(h, c) THEN Seconds(c.at - h[Len(h)].at) ELSE 0)
<1> DEFINE g == Append(h, c)
           S == UpGaps(h)
           SS == UpGaps(g)
           n == Len(h) + 1
<1>1. /\ Len(h) \in Nat /\ Len(g) = n /\ g[n] = c /\ Ordered(g)
      /\ \A i \in 1..Len(h) : g[i] = h[i]
  BY OrderedAppend
<1>2. S \subseteq 2..Len(h) /\ SS = S \cup (IF BothUp(h, c) THEN {n} ELSE {})
  BY GapsOfAppend
<1> HIDE DEF g
<1>3. Summable(h, S) /\ Summable(g, SS)
  BY <1>1, GapsAreNumbers DEF Summable
<1>4. Adds(h, S, Adder(h, S)) /\ Adds(g, SS, Adder(g, SS))
  <2> HIDE DEF S, SS
  <2> QED
    BY <1>3, AdderDefined
<1>5. \A i \in S : GapAt(h, i) = GapAt(g, i)
  <2> SUFFICES ASSUME NEW i \in S PROVE GapAt(h, i) = GapAt(g, i)
    OBVIOUS
  <2>1. g[i] = h[i] /\ g[i - 1] = h[i - 1]
    BY <1>1, <1>2
  <2> QED
    BY <2>1 DEF GapAt
<1>6. Adder(g, SS)[S] = Adder(h, S)[S]
  <2>1. S \subseteq SS /\ S \in SUBSET S
    BY <1>2
  <2> HIDE DEF S, SS
  <2> QED
    BY <1>3, <1>4, <1>5, <2>1, SumAgrees DEF Summable
<1>7. TotalUptime(h) = Adder(h, S)[S] /\ TotalUptime(g) = Adder(g, SS)[SS]
  BY TotalIsFold
<1>8. TotalUptime(h) \in Nat
  <2>1. S \in SUBSET S
    OBVIOUS
  <2> HIDE DEF S, SS
  <2> QED
    BY <1>3, <1>4, <1>7, <2>1, SumType
<1>9. CASE BothUp(h, c)
  <2>1. n \in SS /\ SS \ {n} = S /\ SS \in SUBSET SS
    BY <1>1, <1>2, <1>9
  <2>2. Adder(g, SS)[SS] = GapAt(g, n) + Adder(g, SS)[SS \ {n}]
    <3> HIDE DEF S, SS, n
    <3> QED
      BY <1>3, <2>1, SumTakesOut
  <2>3. GapAt(g, n) = Seconds(c.at - h[Len(h)].at)
    <3>1. Len(h) \in 1..Len(h) /\ n - 1 = Len(h)
      BY <1>1, <1>9 DEF BothUp, Ordered
    <3> QED
      BY <1>1, <3>1 DEF GapAt
  <2>4. GapAt(g, n) \in Nat
    BY <1>3, <2>1 DEF Summable
  <2>5. TotalUptime(g) = Seconds(c.at - h[Len(h)].at) + TotalUptime(h)
    BY <1>6, <1>7, <2>1, <2>2, <2>3, Zenon
  <2> HIDE DEF S, SS
  <2> QED
    BY <1>8, <1>9, <2>3, <2>4, <2>5 DEF g
<1>10. CASE ~BothUp(h, c)
  <2>1. SS = S
    BY <1>2, <1>10
  <2>2. TotalUptime(g) = TotalUptime(h)
    BY <1>6, <1>7, <2>1
  <2> QED
    BY <1>8, <1>10, <2>2 DEF g
<1> QED
  BY <1>9, <1>10

-----------------------------------------------------------------------------
(* The ticks of these gaps, with one check more.                           *)

TicksOf(h) ==
  {t \in 0..(MaxGap * MaxChecks) :
     \E i \in 2..Len(h) : h[i - 1].up /\ h[i].up /\ h[i - 1].at <= t /\ t < h[i].at}

\* The ticks from the last check to the next one, if both are up.
NewTicks(h, c) == IF BothUp(h, c) THEN h[Len(h)].at..(c.at - 1) ELSE {}

LEMMA TicksOfAppend ==
  ASSUME NEW h, Ordered(h), NEW c, Follows(h, c), c.at <= MaxGap * MaxChecks
  PROVE  TicksOf(Append(h, c)) = TicksOf(h) \cup NewTicks(h, c)
<1> DEFINE g == Append(h, c)
           n == Len(h) + 1
<1>1. /\ Len(h) \in Nat /\ Len(g) = n /\ g[n] = c /\ n \in Nat
      /\ \A i \in 1..Len(h) : g[i] = h[i]
  BY OrderedAppend
<1>2. c.at \in Nat /\ MaxGap * MaxChecks \in Nat
  BY GapAssumption DEF Follows, Row
<1> DEFINE In(q, i, t) == q[i - 1].up /\ q[i].up /\ q[i - 1].at <= t /\ t < q[i].at
<1> HIDE DEF g
<1>3. ASSUME NEW t, NEW i \in 2..Len(h)
      PROVE  i \in 2..n /\ (In(g, i, t) <=> In(h, i, t))
  <2>1. g[i] = h[i] /\ g[i - 1] = h[i - 1] /\ i \in 2..n
    BY <1>1
  <2> QED
    BY <2>1
<1>4. ASSUME NEW t \in Int, n \in 2..n
      PROVE  In(g, n, t) <=> t \in NewTicks(h, c)
  <2>1. Len(h) \in 1..Len(h) /\ n - 1 = Len(h) /\ h # <<>>
    BY <1>1, <1>4
  <2>2. g[n - 1] = h[Len(h)] /\ g[n] = c /\ h[Len(h)].at \in Nat
    BY <1>1, <2>1, TimesOfRows
  <2>3. In(g, n, t) <=> h[Len(h)].up /\ c.up /\ h[Len(h)].at <= t /\ t < c.at
    BY <2>2
  <2> QED
    BY <1>2, <2>1, <2>2, <2>3 DEF NewTicks, BothUp
<1>5. ASSUME NEW t \in NewTicks(h, c)
      PROVE  t \in 0..(MaxGap * MaxChecks) /\ n \in 2..n
  <2>1. BothUp(h, c)
    BY DEF NewTicks
  <2>2. Len(h) \in 1..Len(h)
    BY <1>1, <2>1 DEF BothUp, Ordered
  <2>3. h[Len(h)].at \in Nat
    BY <2>2, TimesOfRows
  <2>4. t \in h[Len(h)].at..(c.at - 1)
    BY <2>1 DEF NewTicks
  <2> QED
    BY <1>1, <1>2, <2>2, <2>3, <2>4
<1>6. ASSUME NEW t \in TicksOf(g)
      PROVE  t \in TicksOf(h) \cup NewTicks(h, c)
  <2>1. PICK i \in 2..n : In(g, i, t)
    BY <1>1 DEF TicksOf
  <2>2. t \in 0..(MaxGap * MaxChecks) /\ t \in Int
    BY DEF TicksOf
  <2>3. CASE i = n
    BY <1>4, <2>1, <2>2, <2>3
  <2>4. CASE i # n
    <3>1. i \in 2..Len(h)
      BY <1>1, <2>4
    <3>2. In(h, i, t)
      BY <1>3, <2>1, <3>1
    <3> QED
      BY <2>2, <3>1, <3>2 DEF TicksOf
  <2> QED
    BY <2>3, <2>4
<1>7. ASSUME NEW t \in TicksOf(h)
      PROVE  t \in TicksOf(g)
  <2>1. PICK i \in 2..Len(h) : In(h, i, t)
    BY DEF TicksOf
  <2>2. i \in 2..Len(g) /\ In(g, i, t)
    BY <1>1, <1>3, <2>1
  <2> QED
    BY <2>2 DEF TicksOf
<1>8. ASSUME NEW t \in NewTicks(h, c)
      PROVE  t \in TicksOf(g)
  <2>1. t \in 0..(MaxGap * MaxChecks) /\ n \in 2..Len(g) /\ t \in Int
    BY <1>1, <1>5
  <2>2. In(g, n, t)
    BY <1>1, <1>4, <2>1
  <2> QED
    BY <2>1, <2>2 DEF TicksOf
<1> QED
  BY <1>6, <1>7, <1>8 DEF g

\* They are finitely many and lie before the last check.
LEMMA TicksBeforeLast ==
  ASSUME NEW h, Ordered(h)
  PROVE  /\ IsFiniteSet(TicksOf(h)) /\ Cardinality(TicksOf(h)) \in Nat
         /\ \A t \in TicksOf(h) : t \in Nat /\ h # <<>> /\ t < h[Len(h)].at
<1>1. IsFiniteSet(TicksOf(h)) /\ Cardinality(TicksOf(h)) \in Nat
  <2>1. IsFiniteSet(0..(MaxGap * MaxChecks))
    BY GapAssumption, FS_Interval
  <2>2. TicksOf(h) \subseteq 0..(MaxGap * MaxChecks)
    BY DEF TicksOf
  <2>3. IsFiniteSet(TicksOf(h))
    BY <2>1, <2>2, FS_Subset
  <2> QED
    BY <2>3, FS_CardinalityType
<1>2. ASSUME NEW t \in TicksOf(h)
      PROVE  t \in Nat /\ h # <<>> /\ t < h[Len(h)].at
  <2>1. PICK i \in 2..Len(h) : t < h[i].at
    BY DEF TicksOf
  <2>2. /\ t \in Nat /\ Len(h) \in Nat /\ i \in 1..Len(h) /\ Len(h) \in 1..Len(h)
        /\ i = Len(h) \/ i < Len(h)
    BY DEF TicksOf, Ordered
  <2>3. h[i].at <= h[Len(h)].at /\ h[i].at \in Nat /\ h[Len(h)].at \in Nat
    BY <2>2, TimesOfRows DEF Ordered
  <2>4. h # <<>>
    BY <2>2
  <2> QED
    BY <2>1, <2>2, <2>3, <2>4
<1> QED
  BY <1>1, <1>2

\* The number of ticks grows by the length of the new gap.
LEMMA NewTicksCount ==
  ASSUME NEW h, Ordered(h), NEW c, Follows(h, c), BothUp(h, c),
         NEW T \in SUBSET TicksOf(h)
  PROVE  /\ IsFiniteSet(T) /\ Cardinality(T) \in Nat
         /\ Cardinality(T \cup NewTicks(h, c)) = Cardinality(T) + (c.at - h[Len(h)].at)
<1> DEFINE l == h[Len(h)]
<1>1. /\ Len(h) \in 1..Len(h) /\ l.at \in Nat /\ c.at \in Nat /\ l.at < c.at
  <2>1. Len(h) \in 1..Len(h)
    BY DEF Ordered, BothUp
  <2> QED
    BY <2>1, TimesOfRows DEF Follows, Row
<1> DEFINE N == l.at..(c.at - 1)
<1>2. NewTicks(h, c) = N
  BY DEF NewTicks
<1> HIDE DEF l
<1>3. IsFiniteSet(N) /\ Cardinality(N) = c.at - l.at
  <2>1. l.at \in Int /\ c.at - 1 \in Int /\ ~(l.at > c.at - 1)
    BY <1>1
  <2>2. IsFiniteSet(N) /\ Cardinality(N) = (c.at - 1) - l.at + 1
    BY <2>1, FS_Interval
  <2> HIDE DEF N
  <2> QED
    BY <1>1, <2>2
<1>4. IsFiniteSet(T) /\ Cardinality(T) \in Nat
  BY TicksBeforeLast, FS_Subset, FS_CardinalityType
<1>5. T \cap N = {}
  <2>1. \A t \in T : t \in Nat /\ t < l.at
    BY TicksBeforeLast DEF l
  <2> QED
    BY <1>1, <2>1
<1>6. Cardinality(T \cup N) = Cardinality(T) + Cardinality(N) - Cardinality(T \cap N)
  <2> HIDE DEF N
  <2> QED
    BY <1>3, <1>4, FS_Union
<1>7. Cardinality(T \cap N) = 0
  BY <1>5, FS_EmptySet
<1>8. Cardinality(T \cup N) = Cardinality(T) + (c.at - l.at)
  <2> HIDE DEF N
  <2> QED
    BY <1>1, <1>3, <1>4, <1>6, <1>7
<1> QED
  BY <1>2, <1>4, <1>8 DEF l

\* The number of gaps grows by one.
LEMMA NewGapCount ==
  ASSUME NEW h, Ordered(h), NEW G \in SUBSET UpGaps(h)
  PROVE  /\ IsFiniteSet(G) /\ Cardinality(G) \in Nat
         /\ Cardinality(G \cup {Len(h) + 1}) = Cardinality(G) + 1
<1>1. IsFiniteSet(G) /\ Cardinality(G) \in Nat
  BY GapsAreNumbers, FS_Subset, FS_CardinalityType
<1>2. Len(h) + 1 \notin G
  BY DEF UpGaps, Ordered
<1> QED
  BY <1>1, <1>2, FS_AddElement

-----------------------------------------------------------------------------
(* The last failure, and the successes after it.                           *)

LastFailIs(h, k) ==
  /\ k \in 0..Len(h)
  /\ k > 0 => ~h[k].up
  /\ \A j \in (k + 1)..Len(h) : h[j].up

LastFailOf(h) == CHOOSE i \in 0..Len(h) :
  /\ i > 0 => ~h[i].up
  /\ \A j \in (i + 1)..Len(h) : h[j].up

StreakTicksOf(h) == {t \in TicksOf(h) : LastFailOf(h) > 0 => t > h[LastFailOf(h)].at}
StreakGapsOf(h) == {i \in UpGaps(h) : i > LastFailOf(h)}

LEMMA LastFailUnique ==
  ASSUME NEW h, Ordered(h), NEW k, LastFailIs(h, k)
  PROVE  LastFailOf(h) = k
<1>1. Len(h) \in Nat
  BY DEF Ordered
<1>2. ASSUME NEW i \in 0..Len(h), LastFailIs(h, i)
      PROVE  i = k
  <2>1. CASE i < k
    <3>1. k \in (i + 1)..Len(h) /\ k > 0
      BY <1>1, <2>1 DEF LastFailIs
    <3> QED
      BY <1>2, <3>1 DEF LastFailIs
  <2>2. CASE k < i
    <3>1. i \in (k + 1)..Len(h) /\ i > 0
      BY <1>1, <2>2 DEF LastFailIs
    <3> QED
      BY <1>2, <3>1 DEF LastFailIs
  <2> QED
    BY <1>1, <2>1, <2>2 DEF LastFailIs
<1> DEFINE P(i) == (i > 0 => ~h[i].up) /\ \A j \in (i + 1)..Len(h) : h[j].up
<1>3. k \in 0..Len(h) /\ P(k)
  BY DEF LastFailIs
<1>4. LastFailOf(h) \in 0..Len(h) /\ P(LastFailOf(h))
  <2>1. LastFailOf(h) = CHOOSE i \in 0..Len(h) : P(i)
    BY DEF LastFailOf
  <2> HIDE DEF P
  <2> QED
    BY <1>3, <2>1
<1> QED
  BY <1>2, <1>4 DEF LastFailIs

LEMMA LastFailExists ==
  ASSUME NEW h, Ordered(h)
  PROVE  LastFailIs(h, LastFailOf(h))
<1> DEFINE F == {i \in 1..Len(h) : ~h[i].up}
<1>1. Len(h) \in Nat
  BY DEF Ordered
<1>2. CASE F = {}
  <2>1. LastFailIs(h, 0)
    BY <1>1, <1>2 DEF LastFailIs
  <2> QED
    BY <2>1, LastFailUnique
<1>3. CASE F # {}
  <2>1. F \in SUBSET (1..Len(h))
    OBVIOUS
  <2>2. Max(F) \in F /\ \A i \in F : i <= Max(F)
    <3> HIDE DEF F
    <3> QED
      BY <1>1, <1>3, <2>1, MaxIsIn
  <2>3. LastFailIs(h, Max(F))
    <3> DEFINE m == Max(F)
    <3>1. m \in 1..Len(h) /\ ~h[m].up /\ \A i \in F : i <= m
      BY <2>2
    <3> HIDE DEF m
    <3>2. ASSUME NEW j \in (m + 1)..Len(h)
          PROVE  h[j].up
      <4>1. j \in 1..Len(h) /\ ~(j <= m)
        BY <1>1, <3>1
      <4> QED
        BY <3>1, <4>1
    <3>3. LastFailIs(h, m)
      BY <1>1, <3>1, <3>2 DEF LastFailIs
    <3> QED
      BY <3>3 DEF m
  <2> QED
    BY <2>3, LastFailUnique
<1> QED
  BY <1>2, <1>3

LEMMA LastFailOfAppend ==
  ASSUME NEW h, Ordered(h), NEW c, Follows(h, c)
  PROVE  LastFailOf(Append(h, c)) = IF c.up THEN LastFailOf(h) ELSE Len(h) + 1
<1> DEFINE g == Append(h, c)
           k == LastFailOf(h)
<1>1. /\ Len(h) \in Nat /\ Len(g) = Len(h) + 1 /\ g[Len(h) + 1] = c /\ Ordered(g)
      /\ \A i \in 1..Len(h) : g[i] = h[i]
  BY OrderedAppend
<1>2. LastFailIs(h, k)
  BY LastFailExists
<1> HIDE DEF g, k
<1>3. CASE c.up
  <2>1. k \in 0..Len(g) /\ (k > 0 => ~g[k].up)
    BY <1>1, <1>2 DEF LastFailIs
  <2>2. ASSUME NEW j \in (k + 1)..Len(g)
        PROVE  g[j].up
    <3>1. CASE j = Len(h) + 1
      BY <1>1, <1>3, <3>1
    <3>2. CASE j # Len(h) + 1
      <4>1. j \in 1..Len(h) /\ j \in (k + 1)..Len(h)
        BY <1>1, <1>2, <3>2 DEF LastFailIs
      <4> QED
        BY <1>1, <1>2, <4>1 DEF LastFailIs
    <3> QED
      BY <3>1, <3>2
  <2>3. LastFailIs(g, k)
    BY <2>1, <2>2 DEF LastFailIs
  <2> QED
    BY <1>1, <1>3, <2>3, LastFailUnique DEF g, k
<1>4. CASE ~c.up
  <2>1. LastFailIs(g, Len(h) + 1)
    BY <1>1, <1>4 DEF LastFailIs
  <2> QED
    BY <1>1, <1>4, <2>1, LastFailUnique DEF g
<1> QED
  BY <1>3, <1>4

\* A failed check ends the streak, a successful one prolongs it by the new gap.
LEMMA StreakOfAppend ==
  ASSUME NEW h, Ordered(h), NEW c, Follows(h, c), c.at <= MaxGap * MaxChecks
  PROVE  /\ StreakTicksOf(Append(h, c)) =
              IF c.up THEN StreakTicksOf(h) \cup NewTicks(h, c) ELSE {}
         /\ StreakGapsOf(Append(h, c)) =
              IF ~c.up THEN {}
              ELSE StreakGapsOf(h) \cup (IF BothUp(h, c) THEN {Len(h) + 1} ELSE {})
<1> DEFINE g == Append(h, c)
           k == LastFailOf(h)
<1>1. /\ Len(h) \in Nat /\ Len(g) = Len(h) + 1 /\ g[Len(h) + 1] = c /\ Ordered(g)
      /\ \A i \in 1..Len(h) : g[i] = h[i]
  BY OrderedAppend
<1>2. k \in 0..Len(h) /\ (k > 0 => ~h[k].up)
  BY LastFailExists DEF LastFailIs
<1>3. TicksOf(g) = TicksOf(h) \cup NewTicks(h, c)
  BY TicksOfAppend
<1>4. /\ UpGaps(h) \subseteq 2..Len(h)
      /\ UpGaps(g) = UpGaps(h) \cup (IF BothUp(h, c) THEN {Len(h) + 1} ELSE {})
  BY GapsOfAppend
<1>5. LastFailOf(g) = IF c.up THEN k ELSE Len(h) + 1
  BY LastFailOfAppend
<1> HIDE DEF g, k
<1>6. CASE ~c.up
  <2>1. ~BothUp(h, c) /\ NewTicks(h, c) = {}
    BY <1>6 DEF BothUp, NewTicks
  <2>2. StreakGapsOf(g) = {}
    BY <1>1, <1>4, <1>5, <1>6, <2>1 DEF StreakGapsOf
  <2>3. ASSUME NEW t \in TicksOf(g)
        PROVE  ~(t > g[LastFailOf(g)].at) /\ LastFailOf(g) > 0
    <3>1. t \in Nat /\ t < g[Len(g)].at
      BY <1>1, TicksBeforeLast
    <3>2. g[Len(g)].at \in Nat
      BY <1>1, TimesOfRows
    <3> QED
      BY <1>1, <1>5, <1>6, <3>1, <3>2
  <2>4. StreakTicksOf(g) = {}
    BY <2>3 DEF StreakTicksOf
  <2> QED
    BY <1>6, <2>2, <2>4 DEF g
<1>7. CASE c.up
  <2>1. LastFailOf(g) = k /\ (k > 0 => g[k] = h[k])
    BY <1>1, <1>2, <1>5, <1>7
  <2>2. ASSUME NEW t \in NewTicks(h, c)
        PROVE  k > 0 => t > h[k].at
    <3> SUFFICES ASSUME k > 0 PROVE t > h[k].at
      OBVIOUS
    <3>1. BothUp(h, c) /\ t \in h[Len(h)].at..(c.at - 1)
      BY DEF NewTicks
    <3>2. k # Len(h) /\ k \in 1..Len(h) /\ Len(h) \in 1..Len(h) /\ k < Len(h)
      BY <1>1, <1>2, <3>1 DEF BothUp
    <3>3. h[k].at < h[Len(h)].at /\ h[k].at \in Nat /\ h[Len(h)].at \in Nat /\ c.at \in Nat
      BY <3>2, TimesOfRows DEF Ordered, Follows, Row
    <3> QED
      BY <3>1, <3>3
  <2>3. StreakTicksOf(g) = {t \in TicksOf(h) \cup NewTicks(h, c) : k > 0 => t > h[k].at}
    BY <1>3, <2>1 DEF StreakTicksOf
  <2>4. StreakTicksOf(h) = {t \in TicksOf(h) : k > 0 => t > h[k].at}
    BY DEF StreakTicksOf, k
  <2>5. StreakTicksOf(g) = StreakTicksOf(h) \cup NewTicks(h, c)
    BY <2>2, <2>3, <2>4
  <2>6. StreakGapsOf(g) = {i \in UpGaps(g) : i > k} /\ StreakGapsOf(h) = {i \in UpGaps(h) : i > k}
    BY <2>1 DEF StreakGapsOf, k
  <2>7. Len(h) + 1 > k
    BY <1>1, <1>2
  <2>8. StreakGapsOf(g) = StreakGapsOf(h) \cup (IF BothUp(h, c) THEN {Len(h) + 1} ELSE {})
    BY <1>4, <2>6, <2>7
  <2> QED
    BY <1>7, <2>5, <2>8 DEF g
<1> QED
  BY <1>6, <1>7

-----------------------------------------------------------------------------
(* The history invariant.                                                  *)

\* One gap more: its truncated length adds at most its length, and less than a
\* second under it.
LEMMA TruncatesMore ==
  ASSUME NEW s \in Nat, NEW t \in Nat, NEW n \in Nat, Truncates(s, t, n),
         NEW d \in Nat
  PROVE  Truncates(s + Seconds(d), t + d, n + 1)
<1> DEFINE x == Seconds(d)
<1>1. x \in Nat /\ Unit * x <= d /\ d - Unit * x <= Unit - 1
  BY SecondsType
<1> HIDE DEF x
<1>2. Unit * s \in Int /\ Unit * x \in Int /\ n * (Unit - 1) \in Int
  BY <1>1, UnitAssumption
<1>3. Unit * (s + x) = Unit * s + Unit * x /\ (n + 1) * (Unit - 1) = n * (Unit - 1) + (Unit - 1)
  BY <1>1, UnitAssumption
<1>4. Unit * s <= t /\ t - Unit * s <= n * (Unit - 1)
  BY DEF Truncates
<1>5. Unit * (s + x) <= t + d /\ (t + d) - Unit * (s + x) <= (n + 1) * (Unit - 1)
  <2> DEFINE us == Unit * s
             ux == Unit * x
             nu == n * (Unit - 1)
  <2>1. us \in Int /\ ux \in Int /\ nu \in Int
    BY <1>2
  <2>2. us <= t /\ t - us <= nu /\ ux <= d /\ d - ux <= Unit - 1
    BY <1>1, <1>4
  <2>3. Unit * (s + x) = us + ux /\ (n + 1) * (Unit - 1) = nu + (Unit - 1)
    BY <1>3
  <2> HIDE DEF us, ux, nu
  <2>4. us + ux <= t + d /\ (t + d) - (us + ux) <= nu + (Unit - 1)
    BY <2>1, <2>2, UnitAssumption
  <2> QED
    BY <2>3, <2>4
<1> QED
  BY <1>5 DEF Truncates, x

\* Nothing is nothing.
LEMMA TruncatesNone == Truncates(0, 0, 0)
BY UnitAssumption DEF Truncates

\* The uptime that is counted fits in the time of the history, and leaves out a
\* second of it if a check failed: a failure costs the gap beside it.
SpanOK(h) == h # <<>> =>
  Unit * TotalUptime(h) + (IF AllUp(h) \/ Len(h) = 1 THEN 0 ELSE Unit) <= h[Len(h)].at - h[1].at

SlaOK(h) == Truncates(TotalUptime(h), Cardinality(TicksOf(h)), Cardinality(UpGaps(h)))

UptimeOK(h) ==
  Truncates(CurrentUptime(h), Cardinality(StreakTicksOf(h)), Cardinality(StreakGapsOf(h)))

\* Every check comes an interval after the one before it.
SpacedOK(h) == \A i \in 1..Len(h) : i + 1 <= Len(h) => h[i + 1].at - h[i].at >= MinGap

History(h) ==
  /\ Ordered(h)
  /\ SpacedOK(h)
  /\ Len(h) <= MaxChecks
  /\ h # <<>> => h[Len(h)].at <= MaxGap * Len(h)
  /\ TotalUptime(h) \in Nat /\ CurrentUptime(h) \in Nat
  /\ SpanOK(h)
  /\ SlaOK(h)
  /\ UptimeOK(h)

\* A check that the worker saves next.
NextCheck(h, c) ==
  /\ Len(h) < MaxChecks
  /\ c \in Row
  /\ IF h = <<>> THEN c.at = 0 ELSE c.at - h[Len(h)].at \in MinGap..MaxGap

LEMMA HistoryOfEmpty == History(<<>>)
<1>1. Ordered(<<>>) /\ Len(<<>>) = 0
  BY DEF Ordered
<1>2. /\ TicksOf(<<>>) = {} /\ UpGaps(<<>>) = {}
      /\ StreakTicksOf(<<>>) = {} /\ StreakGapsOf(<<>>) = {}
  BY DEF TicksOf, UpGaps, StreakTicksOf, StreakGapsOf
<1>3. TotalUptime(<<>>) = 0 /\ CurrentUptime(<<>>) = 0 /\ Cardinality({}) = 0
  BY TotalOfEmpty, UptimeOfEmpty, FS_EmptySet
<1>4. SlaOK(<<>>) /\ UptimeOK(<<>>)
  BY <1>2, <1>3, TruncatesNone DEF SlaOK, UptimeOK
<1> QED
  BY <1>1, <1>3, <1>4, GapAssumption DEF History, SpanOK, SpacedOK

\* The time of the next check.
LEMMA NextCheckTime ==
  ASSUME NEW h, Ordered(h), h # <<>> => h[Len(h)].at <= MaxGap * Len(h),
         NEW c, NextCheck(h, c)
  PROVE  /\ Follows(h, c)
         /\ c.at <= MaxGap * (Len(h) + 1) /\ c.at <= MaxGap * MaxChecks
         /\ h # <<>> => /\ Len(h) \in 1..Len(h) /\ h[Len(h)].at \in Nat
                        /\ c.at \in Nat /\ c.at - h[Len(h)].at >= Unit
<1>1. /\ Len(h) \in Nat /\ Len(h) + 1 <= MaxChecks /\ c \in Row /\ c.at \in Nat
      /\ MinGap \in Nat /\ MaxGap \in Nat /\ MaxChecks \in Nat /\ MinGap >= Unit
      /\ Unit \in Nat \ {0}
  BY GapAssumption, UnitAssumption DEF NextCheck, Ordered, Row
<1>2. MaxGap * (Len(h) + 1) = MaxGap * Len(h) + MaxGap /\ MaxGap * Len(h) \in Nat
  BY <1>1
<1>3. MaxGap * (Len(h) + 1) <= MaxGap * MaxChecks
  <2> DEFINE d == MaxChecks - (Len(h) + 1)
  <2>1. d \in Nat /\ MaxChecks = (Len(h) + 1) + d
    BY <1>1
  <2> HIDE DEF d
  <2>2. MaxGap * ((Len(h) + 1) + d) = MaxGap * (Len(h) + 1) + MaxGap * d
    BY <1>1, <2>1
  <2>3. MaxGap * d \in Nat /\ MaxGap * (Len(h) + 1) \in Nat
    BY <1>1, <2>1
  <2> DEFINE p == MaxGap * (Len(h) + 1)
             q == MaxGap * d
  <2>4. MaxGap * MaxChecks = p + q /\ p \in Nat /\ q \in Nat
    BY <2>1, <2>2, <2>3
  <2> HIDE DEF p, q
  <2>5. p <= MaxGap * MaxChecks
    BY <2>4
  <2> QED
    BY <2>5 DEF p
<1> DEFINE old == MaxGap * Len(h)
           new == MaxGap * (Len(h) + 1)
           top == MaxGap * MaxChecks
<1>4. new = old + MaxGap /\ old \in Nat /\ new <= top /\ top \in Int
  BY <1>1, <1>2, <1>3
<1>5. CASE h = <<>>
  <2>1. c.at = 0 /\ \A i \in 1..Len(h) : h[i].at < c.at
    BY <1>5 DEF NextCheck
  <2> HIDE DEF old, new, top
  <2>2. c.at <= new /\ c.at <= top
    BY <1>1, <1>4, <2>1
  <2> QED
    BY <1>1, <1>5, <2>1, <2>2 DEF Follows, new, top
<1>6. CASE h # <<>>
  <2>1. c.at - h[Len(h)].at \in MinGap..MaxGap /\ h[Len(h)].at <= old
    BY <1>6 DEF NextCheck
  <2>2. Len(h) \in 1..Len(h)
    BY <1>1, <1>6 DEF Ordered
  <2>3. h[Len(h)].at \in Nat
    BY <2>2, TimesOfRows
  <2>4. c.at - h[Len(h)].at >= Unit /\ h[Len(h)].at < c.at
    BY <1>1, <2>1, <2>3
  <2>5. ASSUME NEW i \in 1..Len(h)
        PROVE  h[i].at < c.at
    <3>1. h[i].at \in Nat /\ (i = Len(h) \/ i < Len(h))
      BY <1>1, TimesOfRows
    <3>2. h[i].at <= h[Len(h)].at
      BY <2>2, <2>3, <3>1 DEF Ordered
    <3> QED
      BY <1>1, <2>3, <2>4, <3>1, <3>2
  <2> HIDE DEF old, new, top
  <2>6. c.at <= new /\ c.at <= top
    BY <1>1, <1>4, <2>1, <2>3
  <2> QED
    BY <1>1, <1>6, <2>2, <2>3, <2>4, <2>5, <2>6 DEF Follows, new, top
<1> QED
  BY <1>5, <1>6

\* Nothing of it is lost when a check is saved.
LEMMA TotalsOfAppend ==
  ASSUME NEW h, History(h), NEW c, NextCheck(h, c)
  PROVE  LET g == Append(h, c)
             gap == c.at - h[Len(h)].at
         IN /\ TotalUptime(g) = TotalUptime(h) + (IF BothUp(h, c) THEN Seconds(gap) ELSE 0)
            /\ CurrentUptime(g) = IF ~c.up THEN 0
                 ELSE CurrentUptime(h) + (IF BothUp(h, c) THEN Seconds(gap) ELSE 0)
            /\ BothUp(h, c) => gap \in Nat /\ Seconds(gap) \in Nat /\ Unit * Seconds(gap) <= gap
            /\ TotalUptime(g) \in Nat /\ CurrentUptime(g) \in Nat
<1> DEFINE gap == c.at - h[Len(h)].at
<1>1. Ordered(h) /\ TotalUptime(h) \in Nat /\ CurrentUptime(h) \in Nat
  BY DEF History
<1>2. BothUp(h, c) => gap \in Nat /\ Seconds(gap) \in Nat /\ Unit * Seconds(gap) <= gap
  <2> SUFFICES ASSUME BothUp(h, c)
               PROVE  gap \in Nat /\ Seconds(gap) \in Nat /\ Unit * Seconds(gap) <= gap
    OBVIOUS
  <2>1. gap \in Int /\ gap >= 0
    BY <1>1, NextCheckTime, UnitAssumption DEF BothUp, History
  <2> HIDE DEF gap
  <2> QED
    BY <2>1, SecondsType
<1>3. h \in Seq(Row) /\ c \in Row
  BY <1>1 DEF Ordered, NextCheck
<1>4. TotalUptime(Append(h, c)) = TotalUptime(h) + (IF BothUp(h, c) THEN Seconds(gap) ELSE 0)
  BY <1>1, NextCheckTime, TotalOfAppend DEF History
<1>5. CurrentUptime(Append(h, c)) = IF ~c.up THEN 0
        ELSE CurrentUptime(h) + (IF BothUp(h, c) THEN Seconds(gap) ELSE 0)
  <2>1. CurrentUptime(Append(h, c)) = IF ~c.up THEN 0
          ELSE IF h # <<>> /\ h[Len(h)].up THEN CurrentUptime(h) + Seconds(gap)
               ELSE CurrentUptime(h)
    BY <1>3, UptimeOfAppend
  <2> HIDE DEF gap
  <2> QED
    BY <1>1, <2>1 DEF BothUp
<1>6. TotalUptime(Append(h, c)) \in Nat /\ CurrentUptime(Append(h, c)) \in Nat
  <2> HIDE DEF gap
  <2> QED
    BY <1>1, <1>2, <1>4, <1>5
<1> HIDE DEF gap
<1> QED
  BY <1>2, <1>4, <1>5, <1>6 DEF gap

LEMMA SpanAppend ==
  ASSUME NEW h, History(h), NEW c, NextCheck(h, c)
  PROVE  SpanOK(Append(h, c))
<1> DEFINE g == Append(h, c)
           gap == c.at - h[Len(h)].at
           total == TotalUptime(h)
<1>1. Ordered(h) /\ total \in Nat /\ Follows(h, c) /\ Unit \in Nat \ {0}
  BY NextCheckTime, UnitAssumption DEF History
<1>2. /\ Len(h) \in Nat /\ Len(g) = Len(h) + 1 /\ g[Len(g)] = c /\ DOMAIN g = 1..Len(g)
      /\ \A i \in 1..Len(h) : g[i] = h[i]
  BY <1>1, OrderedAppend
<1>3. /\ TotalUptime(g) = total + (IF BothUp(h, c) THEN Seconds(gap) ELSE 0)
      /\ BothUp(h, c) => gap \in Nat /\ Seconds(gap) \in Nat /\ Unit * Seconds(gap) <= gap
  BY TotalsOfAppend
<1>4. CASE h = <<>>
  <2>1. Len(g) = 1 /\ g[1] = c /\ c.at = 0
    BY <1>2, <1>4 DEF NextCheck
  <2>2. TotalUptime(g) = 0
    BY <1>3, <1>4, TotalOfEmpty DEF BothUp
  <2> QED
    BY <1>1, <2>1, <2>2 DEF SpanOK
<1>5. CASE h # <<>>
  <2>1. /\ 1 \in 1..Len(h) /\ Len(h) \in 1..Len(h)
        /\ h[1].at \in Nat /\ h[Len(h)].at \in Nat /\ c.at \in Nat /\ gap >= Unit
    <3>1. Len(h) \in 1..Len(h)
      BY <1>1, <1>5, NextCheckTime DEF History
    <3>2. 1 \in 1..Len(h)
      BY <1>2, <3>1
    <3> QED
      BY <1>1, <1>5, <3>1, <3>2, TimesOfRows, NextCheckTime DEF History
  <2>2. g[1] = h[1] /\ Len(g) # 1 /\ DOMAIN h = 1..Len(h)
    BY <1>1, <1>2, <2>1 DEF Ordered
  <2>3. AllUp(g) <=> AllUp(h) /\ c.up
    <3>1. AllUp(g) => AllUp(h) /\ c.up
      <4> SUFFICES ASSUME AllUp(g) PROVE AllUp(h) /\ c.up
        OBVIOUS
      <4>1. \A i \in 1..Len(h) : i \in DOMAIN g /\ g[i] = h[i]
        BY <1>2
      <4>2. Len(g) \in DOMAIN g
        BY <1>2
      <4> QED
        BY <1>2, <2>2, <4>1, <4>2 DEF AllUp
    <3>2. AllUp(h) /\ c.up => AllUp(g)
      <4> SUFFICES ASSUME AllUp(h), c.up, NEW i \in 1..Len(g) PROVE g[i].up
        BY <1>2 DEF AllUp
      <4>1. i = Len(g) \/ i \in 1..Len(h)
        BY <1>2
      <4> QED
        BY <1>2, <2>2, <4>1 DEF AllUp
    <3> QED
      BY <3>1, <3>2
  <2> DEFINE used == Unit * total
             x == IF BothUp(h, c) THEN Seconds(gap) ELSE 0
  <2>4. x \in Nat /\ Unit * x <= gap /\ (~BothUp(h, c) => x = 0)
    BY <1>1, <1>3, <2>1
  <2>5. used \in Nat /\ Unit * x \in Nat /\ Unit * (total + x) = used + Unit * x
    BY <1>1, <2>4
  <2>6. used + (IF AllUp(h) \/ Len(h) = 1 THEN 0 ELSE Unit) <= h[Len(h)].at - h[1].at
    BY <1>5 DEF History, SpanOK
  <2>7. Unit * TotalUptime(g) = used + Unit * x
    BY <1>3, <2>5
  <2>8. c.at - h[1].at = gap + (h[Len(h)].at - h[1].at)
    BY <2>1
  <2>9. BothUp(h, c) \/ Unit * x = 0
    BY <1>1, <2>4
  <2>10. used + Unit * x + (IF AllUp(g) THEN 0 ELSE Unit) <= c.at - h[1].at
    <3> DEFINE ux == Unit * x
               span == h[Len(h)].at - h[1].at
               d == c.at - h[Len(h)].at
    <3>1. /\ ux \in Nat /\ ux <= d /\ used \in Nat /\ d \in Int /\ span \in Int /\ d >= Unit
          /\ c.at - h[1].at = d + span
      BY <2>1, <2>4, <2>5, <2>8
    <3>2. used + (IF AllUp(h) \/ Len(h) = 1 THEN 0 ELSE Unit) <= span
      BY <2>6
    <3>3. ux = 0 \/ (h[Len(h)].up /\ c.up)
      BY <2>9 DEF BothUp
    <3>4. Len(h) = 1 /\ h[Len(h)].up => AllUp(h)
      BY <2>2 DEF AllUp
    <3> HIDE DEF ux, span, d, used, x, g
    <3>5. used + ux + (IF AllUp(g) THEN 0 ELSE Unit) <= d + span
      BY <1>1, <2>3, <3>1, <3>2, <3>3, <3>4
    <3> QED
      BY <3>1, <3>5 DEF ux
  <2> HIDE DEF used, x, gap, total
  <2>11. Unit * TotalUptime(g) + (IF AllUp(g) \/ Len(g) = 1 THEN 0 ELSE Unit)
           <= g[Len(g)].at - g[1].at
    <3> HIDE DEF g
    <3> QED
      BY <1>2, <2>2, <2>7, <2>10
  <2> QED
    BY <2>11 DEF SpanOK
<1> QED
  BY <1>4, <1>5

LEMMA CountsAppend ==
  ASSUME NEW h, History(h), NEW c, NextCheck(h, c)
  PROVE  SlaOK(Append(h, c)) /\ UptimeOK(Append(h, c))
<1> DEFINE g == Append(h, c)
           gap == c.at - h[Len(h)].at
<1>1. Ordered(h) /\ Follows(h, c) /\ c.at <= MaxGap * MaxChecks
  BY NextCheckTime DEF History
<1>2. /\ TicksOf(g) = TicksOf(h) \cup NewTicks(h, c)
      /\ UpGaps(g) = UpGaps(h) \cup (IF BothUp(h, c) THEN {Len(h) + 1} ELSE {})
      /\ StreakTicksOf(g) = IF c.up THEN StreakTicksOf(h) \cup NewTicks(h, c) ELSE {}
      /\ StreakGapsOf(g) = IF ~c.up THEN {}
           ELSE StreakGapsOf(h) \cup (IF BothUp(h, c) THEN {Len(h) + 1} ELSE {})
  BY <1>1, TicksOfAppend, GapsOfAppend, StreakOfAppend
<1>3. /\ TotalUptime(g) = TotalUptime(h) + (IF BothUp(h, c) THEN Seconds(gap) ELSE 0)
      /\ CurrentUptime(g) = IF ~c.up THEN 0
           ELSE CurrentUptime(h) + (IF BothUp(h, c) THEN Seconds(gap) ELSE 0)
      /\ BothUp(h, c) => gap \in Nat
      /\ TotalUptime(h) \in Nat /\ CurrentUptime(h) \in Nat
  BY TotalsOfAppend DEF History
<1>4. SlaOK(h) /\ UptimeOK(h)
  BY DEF History
<1>5. /\ TicksOf(h) \in SUBSET TicksOf(h) /\ StreakTicksOf(h) \in SUBSET TicksOf(h)
      /\ UpGaps(h) \in SUBSET UpGaps(h) /\ StreakGapsOf(h) \in SUBSET UpGaps(h)
  BY DEF StreakTicksOf, StreakGapsOf
<1> HIDE DEF g, gap
<1>6. CASE BothUp(h, c)
  <2>0. c.up /\ gap \in Nat
    BY <1>3, <1>6 DEF BothUp
  <2>1. /\ Cardinality(TicksOf(h)) \in Nat
        /\ Cardinality(TicksOf(g)) = Cardinality(TicksOf(h)) + gap
    BY <1>1, <1>2, <1>5, <1>6, NewTicksCount DEF gap
  <2>2. /\ Cardinality(StreakTicksOf(h)) \in Nat
        /\ Cardinality(StreakTicksOf(g)) = Cardinality(StreakTicksOf(h)) + gap
    BY <1>1, <1>2, <1>5, <1>6, <2>0, NewTicksCount DEF gap
  <2>3. /\ Cardinality(UpGaps(h)) \in Nat
        /\ Cardinality(UpGaps(g)) = Cardinality(UpGaps(h)) + 1
    BY <1>1, <1>2, <1>5, <1>6, NewGapCount
  <2>4. /\ Cardinality(StreakGapsOf(h)) \in Nat
        /\ Cardinality(StreakGapsOf(g)) = Cardinality(StreakGapsOf(h)) + 1
    BY <1>1, <1>2, <1>5, <1>6, <2>0, NewGapCount
  <2>5. SlaOK(g)
    <3>1. Truncates(TotalUptime(h) + Seconds(gap), Cardinality(TicksOf(h)) + gap,
                    Cardinality(UpGaps(h)) + 1)
      BY <1>3, <1>4, <2>0, <2>1, <2>3, TruncatesMore DEF SlaOK
    <3> QED
      BY <1>3, <1>6, <2>1, <2>3, <3>1 DEF SlaOK
  <2>6. UptimeOK(g)
    <3>1. Truncates(CurrentUptime(h) + Seconds(gap), Cardinality(StreakTicksOf(h)) + gap,
                    Cardinality(StreakGapsOf(h)) + 1)
      BY <1>3, <1>4, <2>0, <2>2, <2>4, TruncatesMore DEF UptimeOK
    <3> QED
      BY <1>3, <1>6, <2>0, <2>2, <2>4, <3>1 DEF UptimeOK
  <2> QED
    BY <2>5, <2>6 DEF g
<1>7. CASE ~BothUp(h, c)
  <2>1. TicksOf(g) = TicksOf(h) /\ UpGaps(g) = UpGaps(h) /\ NewTicks(h, c) = {}
    BY <1>2, <1>7 DEF NewTicks
  <2>2. SlaOK(g)
    BY <1>3, <1>4, <1>7, <2>1 DEF SlaOK
  <2>3. UptimeOK(g)
    <3>1. CASE c.up
      BY <1>2, <1>3, <1>4, <1>7, <2>1, <3>1 DEF UptimeOK
    <3>2. CASE ~c.up
      BY <1>2, <1>3, <3>2, FS_EmptySet, TruncatesNone DEF UptimeOK
    <3> QED
      BY <3>1, <3>2
  <2> QED
    BY <2>2, <2>3 DEF g
<1> QED
  BY <1>6, <1>7

LEMMA SpacedAppend ==
  ASSUME NEW h, Ordered(h), SpacedOK(h), NEW c, Follows(h, c), NextCheck(h, c)
  PROVE  SpacedOK(Append(h, c))
<1> DEFINE g == Append(h, c)
<1>1. /\ Len(h) \in Nat /\ Len(g) = Len(h) + 1 /\ g[Len(h) + 1] = c
      /\ \A i \in 1..Len(h) : g[i] = h[i]
  BY OrderedAppend
<1>2. h # <<>> => c.at - h[Len(h)].at \in MinGap..MaxGap
  BY DEF NextCheck
<1> SUFFICES ASSUME NEW i \in 1..Len(g), i + 1 <= Len(g)
             PROVE  g[i + 1].at - g[i].at >= MinGap
  BY DEF SpacedOK
<1> HIDE DEF g
<1>3. i \in 1..Len(h) /\ g[i] = h[i]
  BY <1>1
<1>4. CASE i = Len(h)
  <2>1. h # <<>> /\ g[i + 1] = c /\ g[i] = h[Len(h)]
    BY <1>1, <1>3, <1>4
  <2>2. c.at - h[Len(h)].at \in MinGap..MaxGap
    BY <1>2, <2>1
  <2> QED
    BY <2>1, <2>2, GapAssumption
<1>5. CASE i # Len(h)
  <2>1. i + 1 \in 1..Len(h) /\ g[i + 1] = h[i + 1]
    BY <1>1, <1>3, <1>5
  <2> QED
    BY <1>3, <2>1 DEF SpacedOK
<1> QED
  BY <1>4, <1>5

LEMMA HistoryAppend ==
  ASSUME NEW h, History(h), NEW c, NextCheck(h, c)
  PROVE  History(Append(h, c))
<1> DEFINE g == Append(h, c)
<1>1. Ordered(h) /\ Follows(h, c) /\ c.at <= MaxGap * (Len(h) + 1)
  BY NextCheckTime DEF History
<1>2. Ordered(g) /\ Len(h) \in Nat /\ Len(g) = Len(h) + 1 /\ g[Len(h) + 1] = c
  BY <1>1, OrderedAppend
<1>3. Len(g) <= MaxChecks /\ g[Len(g)].at <= MaxGap * Len(g)
  BY <1>1, <1>2, GapAssumption DEF NextCheck
<1>4. TotalUptime(g) \in Nat /\ CurrentUptime(g) \in Nat
  BY TotalsOfAppend
<1>5. SpanOK(g) /\ SlaOK(g) /\ UptimeOK(g) /\ SpacedOK(g)
  BY <1>1, SpanAppend, CountsAppend, SpacedAppend DEF History
<1> HIDE DEF g
<1> QED
  BY <1>2, <1>3, <1>4, <1>5 DEF History, g

-----------------------------------------------------------------------------
(* What the metrics say of such a history.                                 *)

LEMMA HistoryType == History(checks) => TypeOK
<1> SUFFICES ASSUME History(checks) PROVE TypeOK
  OBVIOUS
<1>1. checks \in Seq(Row) /\ DOMAIN checks = 1..Len(checks)
  BY DEF History, Ordered
<1> QED
  BY <1>1 DEF History, Ordered, TypeOK, Row

LEMMA FirstAndLast ==
  ASSUME NEW h, Ordered(h), h # <<>>
  PROVE  /\ Last(h) = h[Len(h)] /\ Head(h) = h[1] /\ Len(h) \in Nat /\ Len(h) >= 1
         /\ h[Len(h)].at \in Nat /\ h[1].at \in Nat /\ h[1].at <= h[Len(h)].at
<1>1. h \in Seq(Row) /\ Len(h) \in Nat /\ 1 \in 1..Len(h) /\ Len(h) \in 1..Len(h)
  BY DEF Ordered
<1>2. h[Len(h)].at \in Nat /\ h[1].at \in Nat
  BY <1>1, TimesOfRows
<1>3. h[1].at <= h[Len(h)].at
  <2>1. Len(h) = 1 \/ 1 < Len(h)
    BY <1>1
  <2> QED
    BY <1>1, <1>2, <2>1 DEF Ordered
<1> QED
  BY <1>1, <1>2, <1>3 DEF Last

\* The divisor is never 0, and the parts of an SLA are natural numbers.
LEMMA SlaType ==
  ASSUME NEW h, History(h)
  PROVE  Sla(h).num \in Nat /\ Sla(h).den \in Nat \ {0}
<1>1. Ordered(h) /\ TotalUptime(h) \in Nat
  BY DEF History
<1>2. CASE h = <<>> \/ Len(h) = 1 \/ MonitoringTime(h) = 0
  BY <1>2 DEF Sla
<1>3. CASE ~(h = <<>> \/ Len(h) = 1 \/ MonitoringTime(h) = 0)
  <2> DEFINE d == h[Len(h)].at - h[1].at
  <2>1. MonitoringTime(h) = Seconds(d) /\ d \in Int /\ d >= 0
    BY <1>1, <1>3, FirstAndLast DEF MonitoringTime
  <2> HIDE DEF d
  <2>2. MonitoringTime(h) \in Nat \ {0}
    BY <1>3, <2>1, SecondsType
  <2> QED
    BY <1>1, <1>3, <2>2 DEF Sla
<1> QED
  BY <1>2, <1>3

LEMMA HistoryFullSla == History(checks) => FullSlaMeansNoFailure
<1> DEFINE h == checks
           d == h[Len(h)].at - h[1].at
           total == TotalUptime(h)
<1> SUFFICES ASSUME History(h), h # <<>>, Sla(h).num >= Sla(h).den
             PROVE  AllUp(h)
  BY DEF FullSlaMeansNoFailure
<1>1. Ordered(h) /\ total \in Nat /\ Unit \in Nat \ {0}
  BY UnitAssumption DEF History
<1>2. MonitoringTime(h) = Seconds(d) /\ d \in Int /\ d >= 0
  BY <1>1, FirstAndLast DEF MonitoringTime
<1>3. CASE Len(h) = 1 \/ MonitoringTime(h) = 0
  BY <1>3 DEF Sla
<1>4. CASE ~(Len(h) = 1 \/ MonitoringTime(h) = 0)
  <2>1. total >= MonitoringTime(h)
    BY <1>4 DEF Sla
  <2>2. Unit * total + (IF AllUp(h) THEN 0 ELSE Unit) <= d
    BY <1>4 DEF History, SpanOK
  <2> HIDE DEF d, total, h
  <2>3. MonitoringTime(h) \in Nat /\ d - Unit * MonitoringTime(h) <= Unit - 1
    BY <1>2, SecondsType
  <2>4. Unit * MonitoringTime(h) <= Unit * total
    BY <1>1, <2>1, <2>3
  <2> DEFINE um == Unit * MonitoringTime(h)
             ut == Unit * total
  <2>5. um \in Nat /\ ut \in Nat /\ um <= ut /\ d - um <= Unit - 1
    BY <1>1, <2>3, <2>4
  <2>6. ut + (IF AllUp(h) THEN 0 ELSE Unit) <= d
    BY <2>2
  <2> HIDE DEF um, ut
  <2> QED
    BY <1>1, <1>2, <2>5, <2>6
<1> QED
  BY <1>3, <1>4

\* All the ticks of the streak are after its first success.
LEMMA StreakFromFirstSuccess ==
  ASSUME NEW h, Ordered(h), NEW k, k = LastFailOf(h), k \in 1..(Len(h) - 1)
  PROVE  /\ h[k].at \in Nat /\ h[k + 1].at \in Nat /\ h[Len(h)].at \in Nat
         /\ Cardinality(StreakTicksOf(h)) \in Nat
         /\ Cardinality(StreakTicksOf(h)) <= h[Len(h)].at - h[k + 1].at
<1>1. /\ Len(h) \in Nat /\ k + 1 \in 1..Len(h) /\ Len(h) \in 1..Len(h) /\ k \in 1..Len(h)
      /\ ~h[k].up
  BY LastFailExists DEF LastFailIs, Ordered
<1>2. \A i \in 1..Len(h) : h[i].at \in Nat
  BY TimesOfRows
<1>3. ASSUME NEW i \in 1..Len(h), NEW j \in 1..Len(h), i <= j
      PROVE  h[i].at <= h[j].at
  BY <1>2, <1>3 DEF Ordered
<1> DEFINE first == h[k + 1].at
           last == h[Len(h)].at
<1>4. first \in Nat /\ last \in Nat /\ first <= last
  BY <1>1, <1>2, <1>3
<1>5. ASSUME NEW t \in StreakTicksOf(h)
      PROVE  t \in first..(last - 1)
  <2>1. t \in Nat /\ t > h[k].at
    BY <1>1, GapAssumption DEF StreakTicksOf, TicksOf
  <2>2. PICK i \in 2..Len(h) : h[i - 1].up /\ h[i].up /\ h[i - 1].at <= t /\ t < h[i].at
    BY DEF StreakTicksOf, TicksOf
  <2>3. i \in 1..Len(h) /\ i - 1 \in 1..Len(h)
    BY <1>1, <2>2
  <2>4. ~(i <= k)
    <3> SUFFICES ASSUME i <= k PROVE FALSE
      OBVIOUS
    <3>1. h[i].at <= h[k].at
      BY <1>1, <1>3, <2>3
    <3> QED
      BY <1>1, <1>2, <2>1, <2>2, <2>3, <3>1
  <2>5. i - 1 # k
    BY <1>1, <2>2
  <2>6. k + 1 <= i - 1
    BY <1>1, <2>3, <2>4, <2>5
  <2>7. first <= h[i - 1].at
    BY <1>1, <1>3, <2>3, <2>6
  <2>8. h[i].at <= last
    BY <1>1, <1>3, <2>3
  <2>9. h[i].at \in Nat /\ h[i - 1].at \in Nat
    BY <1>2, <2>3
  <2> HIDE DEF first, last
  <2> QED
    BY <1>4, <2>1, <2>2, <2>7, <2>8, <2>9
<1> HIDE DEF first, last
<1>6. StreakTicksOf(h) \in SUBSET (first..(last - 1))
  BY <1>5
<1>7. /\ IsFiniteSet(first..(last - 1))
      /\ Cardinality(first..(last - 1)) = IF first > last - 1 THEN 0 ELSE (last - 1) - first + 1
  <2> DEFINE end == last - 1
  <2>1. first \in Int /\ end \in Int
    BY <1>4
  <2> HIDE DEF end
  <2>2. /\ IsFiniteSet(first..end)
        /\ Cardinality(first..end) = IF first > end THEN 0 ELSE end - first + 1
    BY <2>1, FS_Interval, Zenon
  <2> QED
    BY <2>2 DEF end
<1>8. /\ IsFiniteSet(StreakTicksOf(h))
      /\ Cardinality(StreakTicksOf(h)) <= Cardinality(first..(last - 1))
  BY <1>6, <1>7, FS_Subset
<1>9. Cardinality(StreakTicksOf(h)) \in Nat
  BY <1>8, FS_CardinalityType
<1>10. Cardinality(first..(last - 1)) = last - first
  BY <1>4, <1>7
<1> QED
  BY <1>1, <1>2, <1>8, <1>9, <1>10 DEF first, last

LEMMA HistoryCounts == History(checks) => SlaCountsUptime /\ CurrentUptimeIsStreak
<1>1. UpTicks = TicksOf(checks) /\ LastFail = LastFailOf(checks)
  BY DEF UpTicks, TicksOf, LastFail, LastFailOf
<1>2. StreakTicks = StreakTicksOf(checks) /\ StreakGaps = StreakGapsOf(checks)
  BY <1>1 DEF StreakTicks, StreakTicksOf, StreakGaps, StreakGapsOf
<1>3. ASSUME History(checks), LastFail \in 1..(Len(checks) - 1)
      PROVE  /\ GapAfterFail >= MinGap
             /\ Unit * CurrentUptime(checks) <= SinceLastFail - GapAfterFail
  <2> DEFINE k == LastFail
  <2>1. Ordered(checks) /\ k = LastFailOf(checks) /\ k \in 1..(Len(checks) - 1)
    BY <1>1, <1>3 DEF History
  <2>2. /\ checks[k].at \in Nat /\ checks[k + 1].at \in Nat /\ checks[Len(checks)].at \in Nat
        /\ Cardinality(StreakTicksOf(checks)) \in Nat
        /\ Cardinality(StreakTicksOf(checks)) <= checks[Len(checks)].at - checks[k + 1].at
    <3> HIDE DEF k
    <3> QED
      BY <2>1, StreakFromFirstSuccess
  <2>3. Len(checks) \in Nat /\ k \in 1..Len(checks) /\ k + 1 <= Len(checks)
    BY <2>1 DEF Ordered
  <2>4. GapAfterFail >= MinGap
    BY <1>3, <2>3 DEF GapAfterFail, History, SpacedOK
  <2>5. Unit * CurrentUptime(checks) <= Cardinality(StreakTicksOf(checks))
    BY <1>3 DEF History, UptimeOK, Truncates
  <2>6. /\ SinceLastFail = checks[Len(checks)].at - checks[k].at
        /\ GapAfterFail = checks[k + 1].at - checks[k].at
    BY DEF SinceLastFail, GapAfterFail, Last
  <2>7. Unit * CurrentUptime(checks) \in Nat
    BY <1>3, UnitAssumption DEF History
  <2> HIDE DEF k
  <2> QED
    BY <2>2, <2>4, <2>5, <2>6, <2>7
<1> QED
  BY <1>1, <1>2, <1>3 DEF History, SlaOK, UptimeOK, SlaCountsUptime, CurrentUptimeIsStreak

LEMMA HistoryInit == Init => History(checks)
BY HistoryOfEmpty DEF Init

\* What a worker saves is the next check.
LEMMA SavedCheck ==
  ASSUME checks \in Seq(Row), Next
  PROVE  \E c : NextCheck(checks, c) /\ checks' = Append(checks, c)
<1>1. PICK gap \in MinGap..MaxGap, up \in BOOLEAN : SaveCheck(gap, up)
  BY DEF Next
<1> DEFINE c == [at |-> IF checks = <<>> THEN 0 ELSE Last(checks).at + gap, up |-> up]
<1>2. gap \in Nat /\ gap \in MinGap..MaxGap
  BY GapAssumption
<1>3. Len(checks) < MaxChecks /\ checks' = Append(checks, c)
  BY <1>1 DEF SaveCheck
<1>4. CASE checks = <<>>
  <2>1. c.at = 0 /\ c \in Row
    BY <1>4 DEF Row
  <2> HIDE DEF c
  <2> QED
    BY <1>3, <1>4, <2>1 DEF NextCheck
<1>5. CASE checks # <<>>
  <2> DEFINE l == checks[Len(checks)]
  <2>1. l \in Row /\ Last(checks) = l
    BY <1>5 DEF Last
  <2>2. l.at \in Nat
    BY <2>1 DEF Row
  <2>3. c.at = l.at + gap /\ c.up = up /\ c = [at |-> l.at + gap, up |-> up]
    BY <1>5, <2>1
  <2> HIDE DEF c, l
  <2>4. c \in Row
    BY <1>2, <2>2, <2>3 DEF Row
  <2>5. c.at - l.at \in MinGap..MaxGap
    <3>1. c.at - l.at = gap
      BY <1>2, <2>2, <2>3
    <3> QED
      BY <1>2, <3>1
  <2> QED
    BY <1>3, <1>5, <2>4, <2>5 DEF NextCheck, l
<1> QED
  BY <1>4, <1>5

LEMMA HistoryStep == History(checks) /\ [Next]_checks => History(checks)'
<1> SUFFICES ASSUME History(checks), [Next]_checks PROVE History(checks')
  BY DEF History, Ordered, SpanOK, SlaOK, UptimeOK
<1>1. CASE Next
  <2>1. checks \in Seq(Row)
    BY DEF History, Ordered
  <2>2. PICK c : NextCheck(checks, c) /\ checks' = Append(checks, c)
    BY <1>1, <2>1, SavedCheck
  <2> QED
    BY <2>2, HistoryAppend
<1>2. CASE checks' = checks
  BY <1>2
<1> QED
  BY <1>1, <1>2

\* Whatever a worker saves, and however long the history gets, the sums that
\* services/metrics.py computes of it stay within the errors of truncation.
THEOREM HistoryConsistent == Spec => []History(checks)
<1> QED
  BY HistoryInit, HistoryStep, PTL DEF Spec
================================================================================
