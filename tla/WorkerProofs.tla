----------------------------- MODULE WorkerProofs -----------------------------
(***************************************************************************)
(* Theorems about module Worker, for any number of services, requests and  *)
(* connections, and any failures.                                          *)
(***************************************************************************)
EXTENDS Worker, TLAPS, FiniteSetTheorems

(***************************************************************************)
(* Type correctness.                                                       *)
(***************************************************************************)

\* The checks still to be saved are finitely many.
LEMMA UnsavedFinite ==
  /\ IsFiniteSet(UnsavedDowns) /\ Cardinality(UnsavedDowns) \in Nat
  /\ IsFiniteSet(UnsavedUps) /\ Cardinality(UnsavedUps) \in Nat
BY WorkerAssumption, FS_Subset, FS_CardinalityType DEF Storing, Unsaved, UnsavedDowns, UnsavedUps

\* What a stop does to the rows: of the checks still to be saved, some of the
\* failed and some of the others.
LEMMA StopStores ==
  ASSUME TypeOK, Stop
  PROVE  \E bad, good \in Nat : /\ rows' = rows + (bad + good) /\ downs' = downs + bad
                                /\ bad <= Cardinality(UnsavedDowns)
                                /\ good <= Cardinality(UnsavedUps)
<1> PICK W \in SUBSET {w \in Workers : pc[w] = "insert"} :
       /\ rows' = rows + Cardinality(W)
       /\ downs' = downs + Cardinality({w \in W : ~up[w]})
  BY DEF Stop
<1> DEFINE D == {w \in W : ~up[w]}
<1>1. IsFiniteSet(W) /\ IsFiniteSet(D) /\ IsFiniteSet(W \ D)
  BY WorkerAssumption, FS_Subset
<1>2. Cardinality(W) \in Nat /\ Cardinality(D) \in Nat /\ Cardinality(W \ D) \in Nat
  BY <1>1, FS_CardinalityType
<1>3. W \cap D = D
  OBVIOUS
<1>4. Cardinality(W \ D) = Cardinality(W) - Cardinality(D)
  BY <1>1, <1>3, FS_Difference
<1>5. D \subseteq UnsavedDowns /\ W \ D \subseteq UnsavedUps
  BY DEF Storing, Unsaved, UnsavedDowns, UnsavedUps, TypeOK
<1>6. /\ Cardinality(D) <= Cardinality(UnsavedDowns)
      /\ Cardinality(W \ D) <= Cardinality(UnsavedUps)
  BY <1>5, UnsavedFinite, FS_Subset
<1>7. rows' = rows + Cardinality(W) /\ downs' = downs + Cardinality(D)
  OBVIOUS
<1> HIDE DEF D
<1>8. \A w, d, u \in Nat : u = w - d => w = d + u
  OBVIOUS
<1>9. Cardinality(W) = Cardinality(D) + Cardinality(W \ D)
  BY <1>2, <1>4, <1>8
<1> QED
  BY <1>2, <1>6, <1>7, <1>9

LEMMA TypeStep == TypeOK /\ [Next]_vars => TypeOK'
<1> SUFFICES ASSUME TypeOK, [Next]_vars PROVE TypeOK'
  OBVIOUS
<1> USE DEF TypeOK, counters, Goto, Return, Storing, Refetching, Saving, Handling, Ending, Places, Waits, Grant, Sessions
<1>1. CASE \E w \in Workers : Wake(w) \/ Answer(w) \/ Refetched(w) \/ CloseRaises(w)
  BY <1>1 DEF Wake, Answer, Refetched, CloseRaises, Fire
<1>2. CASE \E w \in Workers : Connect(w) \/ Commit(w) \/ Raises(w)
  BY <1>2 DEF Connect, Commit, Raises, Stored, Fire
<1>3. CASE \E w \in Workers : Decide(w) \/ Mailed(w) \/ Logged(w) \/ Unwind(w) \/ Respawn(w)
  BY <1>3 DEF Decide, Mailed, Logged, Unwind, Respawn
<1>4. CASE \E w \in Workers : Refresh(w)
  BY <1>4 DEF Refresh, Interrupt, Stored
<1>5. CASE \E c \in Clients : Arrive(c) \/ Serve(c) \/ Continue(c) \/ Leave(c)
  BY <1>5 DEF Arrive, Serve, Continue, Leave
<1>6. CASE Register \/ Stopped
  BY <1>6 DEF Register, Stopped
<1>7. CASE Stop
  <2> PICK bad \in Nat, good \in Nat : rows' = rows + (bad + good) /\ downs' = downs + bad
    BY <1>7, StopStores
  <2>1. rows' \in Nat /\ downs' \in Nat
    OBVIOUS
  <2> QED
    BY <1>7, <2>1 DEF Stop, Interrupt
<1>8. CASE UNCHANGED vars
  BY <1>8 DEF vars
<1> QED
  BY <1>1, <1>2, <1>3, <1>4, <1>5, <1>6, <1>7, <1>8 DEF Next, Step

\* Every variable keeps to the values the code can give it.
THEOREM TypeCorrect == Spec => []TypeOK
<1>1. Init => TypeOK
  BY DEF Init, TypeOK, Places, Handling, Ending
<1> QED
  BY <1>1, TypeStep, PTL DEF Spec

(***************************************************************************)
(* Connections.                                                            *)
(***************************************************************************)

LEMMA ConnectionsStep == TypeOK /\ ConnectionsReturned /\ [Next]_vars => ConnectionsReturned'
<1> SUFFICES ASSUME TypeOK, ConnectionsReturned, [Next]_vars PROVE ConnectionsReturned'
  OBVIOUS
<1> USE WorkerAssumption
<1> USE DEF TypeOK, counters, Goto, Return, Waits, Grant, Sessions, ConnectionsReturned, InUse
<1>1. CASE \E w \in Workers : Wake(w) \/ Answer(w) \/ Refetched(w) \/ CloseRaises(w)
  BY <1>1 DEF Wake, Answer, Refetched, CloseRaises, Fire
<1>2. CASE \E w \in Workers : Connect(w)
  BY <1>2 DEF Connect
<1>3. CASE \E w \in Workers : Commit(w) \/ Raises(w)
  BY <1>3 DEF Commit, Raises, Fire
<1>4. CASE \E w \in Workers : Decide(w) \/ Mailed(w) \/ Logged(w) \/ Unwind(w) \/ Respawn(w)
  BY <1>4 DEF Decide, Mailed, Logged, Unwind, Respawn
<1>5. CASE \E w \in Workers : Refresh(w)
  BY <1>5 DEF Refresh, Interrupt
<1>6. CASE \E c \in Clients : Arrive(c) \/ Serve(c) \/ Continue(c) \/ Leave(c)
  BY <1>6 DEF Arrive, Serve, Continue, Leave
<1>7. CASE Register \/ Stopped
  BY <1>7 DEF Register, Stopped
<1>8. CASE Stop
  BY <1>8 DEF Stop, Interrupt
<1>9. CASE UNCHANGED vars
  BY <1>9 DEF vars
<1> QED
  BY <1>1, <1>2, <1>3, <1>4, <1>5, <1>6, <1>7, <1>8, <1>9 DEF Next, Step

\* Every connection in use belongs to a statement its user is at, so nobody
\* waits for a connection while it holds another, and a session that is over
\* holds none (session_scope).
THEOREM ConnectionsReturnedHolds == Spec => []ConnectionsReturned
<1>1. Init => ConnectionsReturned
  BY DEF Init, ConnectionsReturned
<1> QED
  BY <1>1, ConnectionsStep, TypeCorrect, PTL DEF Spec

(***************************************************************************)
(* Verdicts.                                                               *)
(***************************************************************************)

\* Once the callback is registered a verdict that could not be saved is told to
\* the incidents service, unless a cancellation keeps it away; one that is lost to
\* it is in the history.
THEOREM VerdictToldOrStoredHolds == Spec => VerdictToldOrStored
<1> DEFINE Told(w) == \/ pc'[w] \in {"loading", "cancelled"}
                      \/ pc[w] \in Refetching /\ pc'[w] = "pause"
                      \/ phase = "starting"
<1>1. ASSUME TypeOK, [Next]_vars, NEW w \in Workers, pc[w] \in Saving, pc'[w] \notin Saving
      PROVE  Told(w)
  <2> USE <1>1 DEF TypeOK, Goto, Storing, Refetching, Saving, Handling, Ending, Waits, Grant
  <2>1. CASE \E v \in Workers : Step(v)
    BY <2>1 DEF Step, Wake, Answer, Connect, Commit, Refetched, Decide, Mailed, Logged,
                Unwind, Respawn, Fire
  <2>2. CASE \E v \in Workers : Raises(v) \/ CloseRaises(v)
    BY <2>2 DEF Raises, CloseRaises, Fire
  <2>3. CASE (\E v \in Workers : Refresh(v)) \/ Stop
    BY <2>3 DEF Refresh, Stop, Interrupt
  <2>4. CASE UNCHANGED pc
    BY <2>4
  <2> QED
    BY <2>1, <2>2, <2>3, <2>4 DEF Next, Arrive, Serve, Continue, Leave, Register, Stopped, vars
<1>2. TypeOK /\ [Next]_vars =>
        [\A w \in Workers : pc[w] \in Saving /\ pc'[w] \notin Saving =>
           \/ pc'[w] \in {"loading", "cancelled"}
           \/ pc[w] \in Refetching /\ pc'[w] = "pause"
           \/ phase = "starting"]_vars
  BY <1>1
<1> QED
  BY <1>2, TypeCorrect, PTL DEF Spec, VerdictToldOrStored

(***************************************************************************)
(* Counters.                                                               *)
(***************************************************************************)

\* Steps that leave the checks to be saved, and the counters, as they are.
LEMMA CoverStays ==
  ASSUME CountersCoverHistory, UNCHANGED counters,
         UnsavedDowns' = UnsavedDowns, UnsavedUps' = UnsavedUps
  PROVE  CountersCoverHistory'
BY DEF CountersCoverHistory, counters

\* A check that is no longer to be saved has been stored, or is lost.
LEMMA CoverLeaves ==
  ASSUME TypeOK, CountersCoverHistory, NEW w \in Workers,
         pc[w] \in {"saving", "insert"}, pc'[w] \notin {"saving", "insert"},
         \A v \in Workers \ {w} : pc'[v] = pc[v], up' = up,
         UNCHANGED counters \/ Stored(w)
  PROVE  CountersCoverHistory'
<1> DEFINE bad == Cardinality(UnsavedDowns)
           good == Cardinality(UnsavedUps)
<1>1. bad \in Nat /\ good \in Nat
  BY UnsavedFinite
<1>2. up[w] \in BOOLEAN /\ total \in Nat /\ failed \in Nat /\ rows \in Nat /\ downs \in Nat
  BY DEF TypeOK
<1>3. CASE up[w]
  <2>1. UnsavedUps' = UnsavedUps \ {w} /\ w \in UnsavedUps /\ UnsavedDowns' = UnsavedDowns
    BY <1>3 DEF Storing, Unsaved, UnsavedDowns, UnsavedUps, TypeOK
  <2>2. Cardinality(UnsavedUps') = good - 1
    BY <2>1, UnsavedFinite, FS_RemoveElement
  <2>3. Cardinality(UnsavedDowns') = bad
    BY <2>1
  <2> HIDE DEF bad, good
  <2>4. /\ downs' = downs /\ total' = total /\ failed' = failed
        /\ rows' = rows \/ rows' = rows + 1
    BY <1>3 DEF Stored, counters
  <2>5. downs + bad <= failed /\ (rows - downs) + good <= total - failed
    BY DEF CountersCoverHistory, bad, good
  <2> QED
    BY <1>1, <1>2, <2>2, <2>3, <2>4, <2>5 DEF CountersCoverHistory
<1>4. CASE ~up[w]
  <2>1. UnsavedDowns' = UnsavedDowns \ {w} /\ w \in UnsavedDowns /\ UnsavedUps' = UnsavedUps
    BY <1>4 DEF Storing, Unsaved, UnsavedDowns, UnsavedUps, TypeOK
  <2>2. Cardinality(UnsavedDowns') = bad - 1
    BY <2>1, UnsavedFinite, FS_RemoveElement
  <2>3. Cardinality(UnsavedUps') = good
    BY <2>1
  <2> HIDE DEF bad, good
  <2>4. /\ total' = total /\ failed' = failed
        /\ \/ rows' = rows /\ downs' = downs
           \/ rows' = rows + 1 /\ downs' = downs + 1
    BY <1>4 DEF Stored, counters
  <2>5. downs + bad <= failed /\ (rows - downs) + good <= total - failed
    BY DEF CountersCoverHistory, bad, good
  <2> QED
    BY <1>1, <1>2, <2>2, <2>3, <2>4, <2>5 DEF CountersCoverHistory
<1> QED
  BY <1>2, <1>3, <1>4

\* A new check is counted in the step in which it becomes one to be saved.
LEMMA CoverAnswer ==
  ASSUME TypeOK, CountersCoverHistory, NEW w \in Workers, Answer(w)
  PROVE  CountersCoverHistory'
<1> DEFINE bad == Cardinality(UnsavedDowns)
           good == Cardinality(UnsavedUps)
<1> PICK verdict \in BOOLEAN : /\ up' = [up EXCEPT ![w] = verdict]
                               /\ failed' = IF verdict THEN failed ELSE failed + 1
  BY DEF Answer
<1>1. bad \in Nat /\ good \in Nat
  BY UnsavedFinite
<1>2. total \in Nat /\ failed \in Nat /\ rows \in Nat /\ downs \in Nat
  BY DEF TypeOK
<1>3. total' = total + 1 /\ rows' = rows /\ downs' = downs
  BY DEF Answer
<1>4. w \notin UnsavedUps /\ w \notin UnsavedDowns
  BY DEF Answer, Storing, Unsaved, UnsavedDowns, UnsavedUps
<1>5. downs + bad <= failed /\ (rows - downs) + good <= total - failed
  BY DEF CountersCoverHistory
<1>6. CASE verdict
  <2>1. UnsavedUps' = UnsavedUps \cup {w} /\ UnsavedDowns' = UnsavedDowns
    BY <1>6 DEF Answer, Storing, Unsaved, UnsavedUps, UnsavedDowns, Goto, TypeOK
  <2>2. Cardinality(UnsavedUps') = good + 1 /\ Cardinality(UnsavedDowns') = bad /\ failed' = failed
    BY <1>4, <1>6, <2>1, UnsavedFinite, FS_AddElement
  <2> HIDE DEF bad, good
  <2> QED
    BY <1>1, <1>2, <1>3, <1>5, <2>2 DEF CountersCoverHistory
<1>7. CASE ~verdict
  <2>1. UnsavedDowns' = UnsavedDowns \cup {w} /\ UnsavedUps' = UnsavedUps
    BY <1>7 DEF Answer, Storing, Unsaved, UnsavedUps, UnsavedDowns, Goto, TypeOK
  <2>2. Cardinality(UnsavedDowns') = bad + 1 /\ Cardinality(UnsavedUps') = good /\ failed' = failed + 1
    BY <1>4, <1>7, <2>1, UnsavedFinite, FS_AddElement
  <2> HIDE DEF bad, good
  <2> QED
    BY <1>1, <1>2, <1>3, <1>5, <2>2 DEF CountersCoverHistory
<1> QED
  BY <1>6, <1>7

\* A stop leaves nothing to be saved.
LEMMA CoverStop ==
  ASSUME TypeOK, CountersCoverHistory, Stop
  PROVE  CountersCoverHistory'
<1> DEFINE bad == Cardinality(UnsavedDowns)
           good == Cardinality(UnsavedUps)
<1>1. bad \in Nat /\ good \in Nat
  BY UnsavedFinite
<1>2. total \in Nat /\ failed \in Nat /\ rows \in Nat /\ downs \in Nat
  BY DEF TypeOK
<1>3. PICK b \in Nat, g \in Nat : rows' = rows + (b + g) /\ downs' = downs + b /\ b <= bad /\ g <= good
  BY StopStores
<1>4. UnsavedDowns' = {} /\ UnsavedUps' = {}
  BY DEF Stop, Interrupt, Storing, Unsaved, UnsavedDowns, UnsavedUps, TypeOK
<1>5. Cardinality(UnsavedDowns') = 0 /\ Cardinality(UnsavedUps') = 0
  BY <1>4, FS_EmptySet
<1>6. total' = total /\ failed' = failed
  BY DEF Stop
<1>7. downs + bad <= failed /\ (rows - downs) + good <= total - failed
  BY DEF CountersCoverHistory
<1> HIDE DEF bad, good
<1> QED
  BY <1>1, <1>2, <1>3, <1>5, <1>6, <1>7 DEF CountersCoverHistory

LEMMA CountersStep == TypeOK /\ CountersCoverHistory /\ [Next]_vars => CountersCoverHistory'
<1> SUFFICES ASSUME TypeOK, CountersCoverHistory, [Next]_vars PROVE CountersCoverHistory'
  OBVIOUS
<1> USE DEF TypeOK, Goto
<1>1. CASE \E w \in Workers : Answer(w)
  BY <1>1, CoverAnswer
<1>2. CASE \E w \in Workers : Commit(w)
  BY <1>2, CoverLeaves DEF Commit
<1>3. ASSUME NEW w \in Workers, Raises(w) PROVE CountersCoverHistory'
  <2>1. CASE pc[w] \in {"saving", "insert"}
    BY <1>3, <2>1, CoverLeaves DEF Raises, Fire, Storing, Refetching, Handling
  <2>2. CASE pc[w] \notin {"saving", "insert"}
    BY <1>3, <2>2, CoverStays DEF Raises, Fire, Storing, Unsaved, UnsavedDowns, UnsavedUps
  <2> QED
    BY <2>1, <2>2
<1>4. ASSUME NEW w \in Workers, Refresh(w) PROVE CountersCoverHistory'
  <2>1. CASE pc[w] \in {"saving", "insert"}
    BY <1>4, <2>1, CoverLeaves DEF Refresh, Interrupt, Ending
  <2>2. CASE pc[w] \notin {"saving", "insert"}
    BY <1>4, <2>2, CoverStays DEF Refresh, Interrupt, Storing, Unsaved, UnsavedDowns, UnsavedUps, Ending
  <2> QED
    BY <2>1, <2>2
<1>5. CASE \E w \in Workers : Connect(w)
  BY <1>5, CoverStays DEF Connect, Grant, Waits, Storing, Unsaved, UnsavedDowns, UnsavedUps
<1>6. CASE \E w \in Workers : Wake(w) \/ Refetched(w) \/ CloseRaises(w) \/ Respawn(w)
  BY <1>6, CoverStays DEF Wake, Refetched, CloseRaises, Respawn, Fire, Storing, Unsaved, UnsavedDowns, UnsavedUps
<1>7. CASE \E w \in Workers : Decide(w) \/ Mailed(w) \/ Logged(w) \/ Unwind(w)
  BY <1>7, CoverStays DEF Decide, Mailed, Logged, Unwind, Storing, Unsaved, UnsavedDowns, UnsavedUps
<1>8. CASE \E c \in Clients : Arrive(c) \/ Serve(c) \/ Continue(c) \/ Leave(c)
  BY <1>8, CoverStays DEF Arrive, Serve, Continue, Leave, Storing, Unsaved, UnsavedDowns, UnsavedUps
<1>9. CASE Register \/ Stopped \/ UNCHANGED vars
  BY <1>9, CoverStays DEF Register, Stopped, vars, counters, Storing, Unsaved, UnsavedDowns, UnsavedUps
<1>10. CASE Stop
  BY <1>10, CoverStop
<1> QED
  BY <1>1, <1>2, <1>3, <1>4, <1>5, <1>6, <1>7, <1>8, <1>9, <1>10 DEF Next, Step

\* What the process reports covers the history: every row and every check still
\* to be saved is counted, whatever is lost between counting and commit.
THEOREM CountersCoverHistoryHolds == Spec => []CountersCoverHistory
<1>1. Init => CountersCoverHistory
  <2> SUFFICES ASSUME Init PROVE CountersCoverHistory
    OBVIOUS
  <2>1. UnsavedDowns = {} /\ UnsavedUps = {}
    BY DEF Init, Storing, Unsaved, UnsavedDowns, UnsavedUps
  <2>2. Cardinality(UnsavedDowns) = 0 /\ Cardinality(UnsavedUps) = 0
    BY <2>1, FS_EmptySet
  <2> QED
    BY <2>2 DEF Init, CountersCoverHistory
<1> QED
  BY <1>1, CountersStep, TypeCorrect, PTL DEF Spec
=============================================================================
