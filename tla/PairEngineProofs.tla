-------------------------- MODULE PairEngineProofs --------------------------
(***************************************************************************)
(* Theorems about PairEngine, for every number of pairs, exchanges, workers *)
(* and goroutines, every API call and every failure the module models.      *)
(***************************************************************************)
EXTENDS PairEngine, FiniteSetTheorems, TLAPS
-----------------------------------------------------------------------------
(* What the operators return.                                               *)

\* A round of orders leaves an integer holding on every exchange.
LEMMA FilledType ==
  ASSUME NEW h \in [Exchanges -> Int], NEW D, NEW fills \in [D -> Int]
  PROVE  Filled(h, fills) \in [Exchanges -> Int]
<1>1. \A x \in Exchanges : Amount(fills, x, "long") \in Int
  BY DEF Amount
<1>2. \A x \in Exchanges : Amount(fills, x, "short") \in Int
  BY DEF Amount
<1> QED
  BY <1>1, <1>2 DEF Filled

\* The executor reports one of three results and how often each leg filled.
LEMMA EntryOutcomeType ==
  ASSUME NEW ls, NEW o \in EntryOutcomes(ls)
  PROVE  o.fills \in [ls -> Int] /\ o.result \in {"ok", "pause", "fail"}
<1> DEFINE most == IF "lost" \in Faults THEN Tries ELSE 1
<1>1. o \in [fills : [ls -> 0..most], result : {"ok", "pause", "fail"}]
  BY DEF EntryOutcomes
<1>2. o.fills \in [ls -> 0..most]
  BY <1>1
<1> HIDE DEF most
<1>3. o.fills \in [ls -> Int]
  BY <1>2
<1> QED
  BY <1>1, <1>3

\* A close shuts some of the legs it was given.
LEMMA CloseOutcomeType ==
  ASSUME NEW ls, NEW o \in CloseOutcomes(ls)
  PROVE  o.shut \subseteq ls /\ o.ok \in BOOLEAN
<1>1. CASE o = [shut |-> ls, ok |-> TRUE]
  BY <1>1
<1>2. CASE o \in [shut : SUBSET ls, ok : {FALSE}]
  BY <1>2
<1>3. o = [shut |-> ls, ok |-> TRUE] \/ o \in [shut : SUBSET ls, ok : {FALSE}]
  BY DEF CloseOutcomes
<1> QED
  BY <1>1, <1>2, <1>3

\* The same number of orders for every leg.
LEMMA EachType ==
  ASSUME NEW ls, NEW n \in Int
  PROVE  Each(ls, n) \in [ls -> Int]
BY DEF Each

\* An emergency close fills a whole number of orders.
LEMMA EmergencyOutcomeType ==
  ASSUME NEW p, NEW l, NEW d, NEW o \in EmergencyOutcomes(p, l, d)
  PROVE  o.fills \in Int /\ o.ok \in BOOLEAN
BY DEF EmergencyOutcomes
-----------------------------------------------------------------------------
(* An actor that is not at rest works on a pair of the engine.              *)

\* A goroutine that is not free executes an entry or a close.
LEMMA TaskRuns ==
  ASSUME TypeOK, NEW s \in Slots, tasks[s].kind # "free"
  PROVE  tasks[s] \in Running
BY DEF TypeOK, Task, Free

\* A RiskMonitor that is not at rest works on a pair.
LEMMA MonitorRuns ==
  ASSUME TypeOK, monitor.pc # "idle"
  PROVE  monitor \in RiskTask
BY DEF TypeOK, MonitorState, Idle

\* An event loop that is not at rest works on a pair.
LEMMA LoopRuns ==
  ASSUME TypeOK, loop.pc # "idle"
  PROVE  loop \in LoopTask
BY DEF TypeOK, LoopState, LoopIdle

\* An API thread that is not at rest works on a pair.
LEMMA UserRuns ==
  ASSUME TypeOK, NEW u \in Users, user[u].pc # "idle"
  PROVE  user[u] \in [pc : {"storeReady", "pauseLock"}, pair : Pairs]
BY DEF TypeOK, UserState, Idle
-----------------------------------------------------------------------------
(* Type correctness.                                                        *)

\* The initial states have the types.
LEMMA InitType == Init => TypeOK
BY EnvironmentAssumption
DEF Init, TypeOK, States, Statuses, Idle, WorkerState, UserState, MonitorState,
    LoopIdle, LoopState, Free, Task

\* The steps of one round of orders: holdings change, and the goroutine's pc.
LEMMA SendType ==
  ASSUME TypeOK, NEW s \in Slots, SendEntry(s) \/ SendClose(s)
  PROVE  TypeOK'
<1> DEFINE p == tasks[s].pair
<1>1. CASE SendEntry(s)
  <2>1. tasks[s] \in Running
    BY <1>1, TaskRuns DEF SendEntry
  <2>2. PICK o \in EntryOutcomes(tasks[s].legs) :
          /\ net' = [net EXCEPT ![p] = Filled(@, o.fills)]
          /\ tasks' = [tasks EXCEPT ![s].result = o.result]
    BY <1>1 DEF SendEntry
  <2>3. Filled(net[p], o.fills) \in [Exchanges -> Int]
    BY <2>1, FilledType, EntryOutcomeType DEF TypeOK, Running
  <2>4. net' \in [Pairs -> [Exchanges -> Int]]
    BY <2>2, <2>3 DEF TypeOK
  <2>5. [tasks[s] EXCEPT !.result = o.result] \in Running
    BY <2>1, EntryOutcomeType DEF Running
  <2>6. tasks' \in [Slots -> Task]
    BY <2>2, <2>5 DEF TypeOK, Task
  <2> QED
    BY <1>1, <2>4, <2>6 DEF SendEntry, TypeOK, pairVars
<1>2. CASE SendClose(s)
  <2>1. tasks[s] \in Running
    BY <1>2, TaskRuns DEF SendClose, Closers
  <2>2. PICK o \in CloseOutcomes(legs[p]) :
          /\ net' = [net EXCEPT ![p] = Filled(@, Each(o.shut, -1))]
          /\ tasks' = [tasks EXCEPT ![s].result = IF o.ok THEN "ok" ELSE "fail"]
    BY <1>2 DEF SendClose
  <2>3. Filled(net[p], Each(o.shut, -1)) \in [Exchanges -> Int]
    <3>1. Each(o.shut, -1) \in [o.shut -> Int]
      BY EachType
    <3>2. net[p] \in [Exchanges -> Int]
      BY <2>1 DEF TypeOK, Running
    <3> QED
      BY <3>1, <3>2, FilledType
  <2>4. net' \in [Pairs -> [Exchanges -> Int]]
    BY <2>2, <2>3 DEF TypeOK
  <2>5. [tasks[s] EXCEPT !.result = IF o.ok THEN "ok" ELSE "fail"] \in Running
    BY <2>1 DEF Running
  <2>6. tasks' \in [Slots -> Task]
    BY <2>2, <2>5 DEF TypeOK, Task
  <2> QED
    BY <1>2, <2>4, <2>6 DEF SendClose, TypeOK, pairVars
<1> QED
  BY <1>1, <1>2

\* The steps of a goroutine that records the result of its orders.
LEMMA FinishType ==
  ASSUME TypeOK, NEW s \in Slots, FinishEntry(s) \/ FinishExit(s) \/ FinishForce(s)
  PROVE  TypeOK'
<1> DEFINE p == tasks[s].pair
<1>1. tasks[s] \in Running
  BY TaskRuns DEF FinishEntry, FinishExit, FinishForce
<1>2. p \in Pairs /\ tasks[s].legs \in SUBSET Leg
  BY <1>1 DEF Running
<1>3. tasks' \in [Slots -> Task]
  BY DEF TypeOK, Task, FinishEntry, FinishExit, FinishForce
<1>4. index' \subseteq Exchanges \X Pairs
  BY <1>2 DEF TypeOK, FinishEntry, FinishExit, FinishForce, WithPosition,
              WithoutPosition, Leg
<1>5. legs' \in [Pairs -> SUBSET Leg]
  BY <1>2 DEF TypeOK, FinishEntry, FinishExit, FinishForce
<1>6. state' \in [Pairs -> States]
  BY DEF TypeOK, FinishEntry, FinishExit, FinishForce, States
<1>7. status' \in [Pairs -> Statuses]
  BY DEF TypeOK, FinishEntry, FinishExit, FinishForce, Statuses
<1>8. ready' \in [Pairs -> BOOLEAN]
  BY DEF TypeOK, FinishEntry, FinishExit, FinishForce
<1>9. activeArbs' \in Int
  BY DEF TypeOK, FinishEntry, FinishExit, FinishForce
<1> QED
  BY <1>3, <1>4, <1>5, <1>6, <1>7, <1>8, <1>9
  DEF TypeOK, FinishEntry, FinishExit, FinishForce, externalVars

\* A step of a price worker keeps the types.
LEMMA WorkerType ==
  ASSUME TypeOK, NEW w \in Workers, NEW p \in Pairs, WorkerNext(w, p)
  PROVE  TypeOK'
<1> USE DEF TypeOK, WorkerState, Idle
<1>1. CASE SeeOpportunity(w, p) \/ Admit(w, p) \/ TurnAway(w, p) \/ Decline(w, p)
  <2>1. {[pc |-> "seen", pair |-> p], [pc |-> "locked", pair |-> p], Idle}
          \subseteq WorkerState
    OBVIOUS
  <2>2. \E v \in WorkerState : worker' = [worker EXCEPT ![w] = v]
    BY <1>1, <2>1 DEF SeeOpportunity, Admit, TurnAway, Decline
  <2>3. worker' \in [Workers -> WorkerState]
    BY <2>2
  <2> QED
    BY <1>1, <2>3
    DEF SeeOpportunity, Admit, TurnAway, Decline, pairVars, externalVars
<1>2. ASSUME NEW s \in Slots, NEW a \in Exchanges, NEW b \in Exchanges,
             Enter(w, p, s, a, b)
      PROVE  TypeOK'
  <2>1. [kind |-> "entry", pair |-> p, legs |-> Hedge(a, b), result |-> "none"]
          \in Running
    BY DEF Hedge, Leg, Running
  <2> QED
    BY <1>2, <2>1 DEF Enter, Spawn, MarkEntering, Task, States, externalVars
<1> QED
  BY <1>1, <1>2 DEF WorkerNext

\* A step of the exit checker keeps the types.
LEMMA CheckerType ==
  ASSUME TypeOK, CheckerNext
  PROVE  TypeOK'
<1> USE DEF TypeOK, pairVars, externalVars
<1>1. CASE Collect
  BY <1>1 DEF Collect
<1>2. ASSUME NEW p \in Pairs, Stay(p) PROVE TypeOK'
  BY <1>2 DEF Stay
<1>3. ASSUME NEW p \in Pairs, NEW s \in Slots, NEW kind \in {"exit", "stop"},
             Leave(p, s, kind)
      PROVE  TypeOK'
  <2>1. [kind |-> kind, pair |-> p, legs |-> {}, result |-> "none"] \in Running
    BY DEF Running, Closers
  <2> QED
    BY <1>3, <2>1 DEF Leave, Spawn, Task, States
<1> QED
  BY <1>1, <1>2, <1>3 DEF CheckerNext

\* A step of the RiskMonitor keeps the types.
LEMMA MonitorType ==
  ASSUME TypeOK, MonitorNext
  PROVE  TypeOK'
<1> DEFINE p == monitor.pair
<1>1. ASSUME NEW q \in Pairs, SeeStopLoss(q) PROVE TypeOK'
  BY <1>1 DEF SeeStopLoss, TypeOK, MonitorState, RiskTask, RiskSteps, pairVars,
              externalVars
<1>2. CASE RiskClose
  <2>1. monitor \in RiskTask
    BY <1>2, MonitorRuns DEF RiskClose
  <2>2. PICK o \in CloseOutcomes(legs[p]) :
          /\ net' = [net EXCEPT ![p] = Filled(@, Each(o.shut, -1))]
          /\ monitor' = [monitor EXCEPT !.pc = IF o.ok THEN "closed" ELSE "failed"]
    BY <1>2 DEF RiskClose
  <2>3. Filled(net[p], Each(o.shut, -1)) \in [Exchanges -> Int]
    <3>1. Each(o.shut, -1) \in [o.shut -> Int]
      BY EachType
    <3>2. net[p] \in [Exchanges -> Int]
      BY <2>1 DEF TypeOK, RiskTask
    <3> QED
      BY <3>1, <3>2, FilledType
  <2>4. monitor' \in MonitorState
    BY <2>1, <2>2 DEF MonitorState, RiskTask, RiskSteps
  <2>5. net' \in [Pairs -> [Exchanges -> Int]]
    BY <2>2, <2>3 DEF TypeOK
  <2> QED
    BY <1>2, <2>4, <2>5 DEF RiskClose, TypeOK, pairVars
<1>3. CASE RiskFailed
  BY <1>3 DEF RiskFailed, TypeOK, MonitorState, States, externalVars
<1>4. CASE RiskClosed \/ RiskPauseFlag
  <2>1. monitor \in RiskTask
    BY <1>4, MonitorRuns DEF RiskClosed, RiskPauseFlag
  <2>2. monitor' \in MonitorState
    BY <1>4, <2>1 DEF RiskClosed, RiskPauseFlag, MonitorState, RiskTask, RiskSteps
  <2>3. CASE RiskClosed
    <3>1. index' \subseteq Exchanges \X Pairs
      BY <2>3 DEF RiskClosed, WithoutPosition, TypeOK
    <3> QED
      BY <2>1, <2>2, <2>3, <3>1
      DEF RiskClosed, RiskTask, TypeOK, States, Statuses, externalVars
  <2>4. CASE RiskPauseFlag
    BY <2>2, <2>4 DEF RiskPauseFlag, PauseFlag, TypeOK, externalVars
  <2> QED
    BY <1>4, <2>3, <2>4
<1>5. CASE RiskPauseWrite
  BY <1>5 DEF RiskPauseWrite, PauseWrite, TypeOK, MonitorState, States, Statuses,
              externalVars
<1> QED
  BY <1>1, <1>2, <1>3, <1>4, <1>5 DEF MonitorNext

\* A step of the position event loop keeps the types.
LEMMA LoopType ==
  ASSUME TypeOK, LoopNext
  PROVE  TypeOK'
<1> DEFINE p == loop.pair
<1>1. CASE HandleLiquidation
  <2>1. Head(posQueue) \in Update /\ Tail(posQueue) \in Seq(Update)
    BY <1>1 DEF HandleLiquidation, TypeOK
  <2>2. Rest(Head(posQueue)) \in SUBSET Leg
    BY <2>1 DEF Rest, TypeOK, Update
  <2>3. loop' \in LoopState
    BY <1>1, <2>1, <2>2
    DEF HandleLiquidation, LoopState, LoopTask, RiskSteps, Update
  <2> QED
    BY <1>1, <2>1, <2>3 DEF HandleLiquidation, TypeOK, States
<1>2. CASE IgnoreLiquidation
  <2>1. Tail(posQueue) \in Seq(Update)
    BY <1>2 DEF IgnoreLiquidation, TypeOK
  <2> QED
    BY <1>2, <2>1 DEF IgnoreLiquidation, TypeOK, pairVars, actorVars
<1>3. ASSUME NEW l \in loop.rest, EmergencyClose(l) PROVE TypeOK'
  <2> DEFINE d == CloseTrade(l.ex, EmergencySide(l))
  <2>1. loop \in LoopTask
    BY <1>3, LoopRuns DEF EmergencyClose
  <2>2. PICK o \in EmergencyOutcomes(p, l, d) :
          /\ net' = [net EXCEPT ![p][l.ex] = @ + d * o.fills]
          /\ loop' = [loop EXCEPT !.pc = IF o.ok THEN "closed" ELSE "failed",
                                  !.rest = {}]
    BY <1>3 DEF EmergencyClose
  <2>3. d * o.fills \in Int
    BY EmergencyOutcomeType DEF CloseTrade
  <2>4. net' \in [Pairs -> [Exchanges -> Int]]
    <3>1. p \in Pairs /\ l.ex \in Exchanges
      BY <1>3, <2>1 DEF LoopTask, Leg
    <3>2. net[p][l.ex] + d * o.fills \in Int
      BY <2>3, <3>1 DEF TypeOK
    <3> QED
      BY <2>2, <3>1, <3>2 DEF TypeOK
  <2>5. loop' \in LoopState
    BY <2>1, <2>2 DEF LoopState, LoopTask, RiskSteps
  <2> QED
    BY <1>3, <2>4, <2>5 DEF EmergencyClose, TypeOK, pairVars
<1>4. CASE LiquidationFailed
  BY <1>4 DEF LiquidationFailed, TypeOK, LoopState, States, externalVars
<1>5. CASE LiquidationClosed \/ LiquidationPauseFlag
  <2>1. loop \in LoopTask
    BY <1>5, LoopRuns DEF LiquidationClosed, LiquidationPauseFlag
  <2>2. loop' \in LoopState
    BY <1>5, <2>1 DEF LiquidationClosed, LiquidationPauseFlag, LoopState, LoopTask,
                      RiskSteps
  <2>3. CASE LiquidationClosed
    BY <2>2, <2>3 DEF LiquidationClosed, TypeOK, States, Statuses, externalVars
  <2>4. CASE LiquidationPauseFlag
    BY <2>2, <2>4 DEF LiquidationPauseFlag, PauseFlag, TypeOK, externalVars
  <2> QED
    BY <1>5, <2>3, <2>4
<1>6. CASE LiquidationPauseWrite
  BY <1>6 DEF LiquidationPauseWrite, PauseWrite, TypeOK, LoopState, States,
              Statuses, externalVars
<1> QED
  BY <1>1, <1>2, <1>3, <1>4, <1>5, <1>6 DEF LoopNext

\* A step of an API thread keeps the types.
LEMMA UserType ==
  ASSUME TypeOK, NEW u \in Users, UserNext(u)
  PROVE  TypeOK'
<1> USE DEF TypeOK, UserState, States, Statuses, externalVars
<1>1. ASSUME NEW p \in Pairs, StartPair(u, p) \/ PausePair(u, p) PROVE TypeOK'
  <2>1. CASE StartPair(u, p)
    BY <1>1, <2>1 DEF StartPair
  <2>2. CASE PausePair(u, p)
    BY <1>1, <2>2 DEF PausePair, PauseFlag
  <2> QED
    BY <1>1, <2>1, <2>2
<1>2. ASSUME NEW p \in Pairs, NEW s \in Slots, ForceClosePair(u, p, s)
      PROVE  TypeOK'
  <2>1. [kind |-> "force", pair |-> p, legs |-> {}, result |-> "none"] \in Running
    BY DEF Running, Closers
  <2> QED
    BY <1>2, <2>1 DEF ForceClosePair, Spawn, Task
<1>3. CASE StoreReady(u)
  BY <1>3 DEF StoreReady
<1>4. CASE PauseLocked(u)
  BY <1>4 DEF PauseLocked, PauseWrite
<1> QED
  BY <1>1, <1>2, <1>3, <1>4 DEF UserNext

\* A liquidation by the exchange keeps the types.
LEMMA LiquidateType ==
  ASSUME TypeOK, NEW p \in Pairs, NEW x \in Exchanges, Liquidate(p, x)
  PROVE  TypeOK'
<1> DEFINE u == [pair |-> p, ex |-> x,
                 side |-> IF net[p][x] > 0 THEN "long" ELSE "short"]
<1>1. u \in Update
  BY DEF Update
<1>2. posQueue' \in Seq(Update)
  <2>1. Append(posQueue, u) \in Seq(Update)
    BY <1>1 DEF TypeOK
  <2> QED
    BY <2>1 DEF Liquidate, TypeOK
<1>3. net' \in [Pairs -> [Exchanges -> Int]]
  BY DEF Liquidate, TypeOK
<1> QED
  BY <1>2, <1>3 DEF Liquidate, TypeOK, pairVars, actorVars

\* Every step keeps the types.
LEMMA NextType == TypeOK /\ [Next]_vars => TypeOK'
<1> SUFFICES ASSUME TypeOK, [Next]_vars PROVE TypeOK'
  OBVIOUS
<1>1. CASE Next
  BY <1>1, WorkerType, SendType, FinishType, CheckerType, MonitorType, LoopType,
     UserType, LiquidateType
  DEF Next, TaskNext
<1>2. CASE UNCHANGED vars
  BY <1>2 DEF vars, pairVars, actorVars, externalVars, TypeOK
<1> QED
  BY <1>1, <1>2

\* Every variable keeps its type, and every actor that is not at rest works on
\* a pair of the engine with the legs of real positions.
THEOREM TypeCorrect == Spec => []TypeOK
BY InitType, NextType, PTL DEF Spec
-----------------------------------------------------------------------------
(* The limit of arbitrages.                                                 *)

\* The workers that may still count an arbitrage are finitely many.
LEMMA AdmittedFinite ==
  /\ IsFiniteSet(Admitted)
  /\ Cardinality(Admitted) \in Nat
  /\ Cardinality(Workers) \in Nat
  /\ Cardinality(Admitted) <= Cardinality(Workers)
BY WorkersAssumption, FS_Subset, FS_CardinalityType DEF Admitted

\* A step that neither counts an arbitrage nor admits a worker.
LEMMA OvershootKept ==
  ASSUME TypeOK, TypeOK', OvershootBounded,
         activeArbs' = activeArbs \/ activeArbs' <= activeArbs,
         Admitted' \subseteq Admitted
  PROVE  OvershootBounded'
<1>1. Cardinality(Admitted') \in Nat /\ Cardinality(Admitted') <= Cardinality(Admitted)
  BY AdmittedFinite, FS_Subset, FS_CardinalityType
<1> QED
  BY <1>1, AdmittedFinite, MaxArbsAssumption DEF OvershootBounded, TypeOK

\* A worker that is admitted sees a counter below the limit, and one that
\* counts its arbitrage is admitted no longer.
LEMMA OvershootWorker ==
  ASSUME TypeOK, TypeOK', OvershootBounded,
         NEW w \in Workers, NEW p \in Pairs, WorkerNext(w, p)
  PROVE  OvershootBounded'
<1>1. CASE SeeOpportunity(w, p) \/ TurnAway(w, p) \/ Decline(w, p)
  <2>1. \/ worker' = [worker EXCEPT ![w] = [pc |-> "seen", pair |-> p]]
        \/ worker' = [worker EXCEPT ![w] = Idle]
    BY <1>1 DEF SeeOpportunity, TurnAway, Decline
  <2>2. \A v \in Workers : worker'[v].pc = "locked" => worker'[v] = worker[v]
    BY <2>1 DEF TypeOK, Idle
  <2>3. Admitted' \subseteq Admitted
    BY <2>2 DEF Admitted
  <2>4. activeArbs' = activeArbs
    BY <1>1 DEF SeeOpportunity, TurnAway, Decline, pairVars
  <2> QED
    BY <2>3, <2>4, OvershootKept
<1>2. CASE Admit(w, p)
  <2>1. MaxArbs > 0 => activeArbs' < MaxArbs
    BY <1>2, MaxArbsAssumption DEF Admit, BelowLimit, pairVars
  <2>2. Admitted' \subseteq Workers
    BY DEF Admitted
  <2>3. /\ Cardinality(Admitted') \in Nat
        /\ Cardinality(Admitted') <= Cardinality(Workers)
    BY <2>2, WorkersAssumption, FS_Subset, FS_CardinalityType
  <2> QED
    BY <2>1, <2>3, AdmittedFinite, MaxArbsAssumption DEF OvershootBounded, TypeOK
<1>3. ASSUME NEW s \in Slots, NEW a \in Exchanges, NEW b \in Exchanges,
             Enter(w, p, s, a, b)
      PROVE  OvershootBounded'
  <2>1. w \in Admitted /\ Admitted' = Admitted \ {w}
    BY <1>3 DEF Enter, Admitted, Idle, TypeOK
  <2>2. Cardinality(Admitted') = Cardinality(Admitted) - 1
    BY <2>1, AdmittedFinite, FS_RemoveElement
  <2>3. activeArbs' = activeArbs + 1
    BY <1>3 DEF Enter, MarkEntering
  <2> QED
    BY <2>2, <2>3, AdmittedFinite, MaxArbsAssumption DEF OvershootBounded, TypeOK
<1> QED
  BY <1>1, <1>2, <1>3 DEF WorkerNext

\* Every step keeps the bound on the overshoot.
LEMMA OvershootStep ==
  TypeOK /\ TypeOK' /\ OvershootBounded /\ [Next]_vars => OvershootBounded'
<1> SUFFICES ASSUME TypeOK, TypeOK', OvershootBounded, [Next]_vars
             PROVE  OvershootBounded'
  OBVIOUS
<1>1. CASE \E w \in Workers : \E p \in Pairs : WorkerNext(w, p)
  BY <1>1, OvershootWorker
<1>2. CASE \E s \in Slots : TaskNext(s)
  <2>1. worker' = worker /\ activeArbs' <= activeArbs
    BY <1>2 DEF TaskNext, SendEntry, FinishEntry, SendClose, FinishExit,
                FinishForce, pairVars, TypeOK
  <2> QED
    BY <2>1, OvershootKept DEF Admitted
<1>3. CASE CheckerNext
  <2>1. worker' = worker /\ activeArbs' = activeArbs
    BY <1>3 DEF CheckerNext, Collect, Stay, Leave, pairVars
  <2> QED
    BY <2>1, OvershootKept DEF Admitted
<1>4. CASE MonitorNext
  <2>1. worker' = worker /\ activeArbs' <= activeArbs
    BY <1>4 DEF MonitorNext, SeeStopLoss, RiskClose, RiskFailed, RiskClosed,
                RiskPauseFlag, RiskPauseWrite, pairVars, TypeOK
  <2> QED
    BY <2>1, OvershootKept DEF Admitted
<1>5. CASE LoopNext
  <2>1. worker' = worker /\ activeArbs' = activeArbs
    BY <1>5 DEF LoopNext, HandleLiquidation, IgnoreLiquidation, EmergencyClose,
                LiquidationFailed, LiquidationClosed, LiquidationPauseFlag,
                LiquidationPauseWrite, pairVars, actorVars
  <2> QED
    BY <2>1, OvershootKept DEF Admitted
<1>6. CASE \E u \in Users : UserNext(u)
  <2>1. worker' = worker /\ activeArbs' = activeArbs
    BY <1>6 DEF UserNext, StartPair, PausePair, ForceClosePair, StoreReady,
                PauseLocked
  <2> QED
    BY <2>1, OvershootKept DEF Admitted
<1>7. CASE \E p \in Pairs : \E x \in Exchanges : Liquidate(p, x)
  <2>1. worker' = worker /\ activeArbs' = activeArbs
    BY <1>7 DEF Liquidate, pairVars, actorVars
  <2> QED
    BY <2>1, OvershootKept DEF Admitted
<1>8. CASE UNCHANGED vars
  <2>1. worker' = worker /\ activeArbs' = activeArbs
    BY <1>8 DEF vars, pairVars, actorVars
  <2> QED
    BY <2>1, OvershootKept DEF Admitted
<1> QED
  BY <1>1, <1>2, <1>3, <1>4, <1>5, <1>6, <1>7, <1>8 DEF Next

\* Initially nothing is counted and nobody is admitted.
LEMMA OvershootInit == Init => OvershootBounded
<1> SUFFICES ASSUME Init PROVE OvershootBounded
  OBVIOUS
<1>1. Admitted = {}
  BY DEF Init, Admitted, Idle
<1>2. Cardinality(Admitted) = 0
  BY <1>1, FS_EmptySet
<1>3. activeArbs = 0
  BY DEF Init
<1> QED
  BY <1>2, <1>3, AdmittedFinite, MaxArbsAssumption DEF OvershootBounded

\* However many pairs, workers and API threads there are, the limit is exceeded
\* by fewer arbitrages than there are price workers.
THEOREM OvershootIsBounded == Spec => []OvershootBounded
BY TypeCorrect, OvershootInit, OvershootStep, PTL DEF Spec
-----------------------------------------------------------------------------
(* Transient states are owned.                                              *)

\* A new goroutine works on the pair it was started for, and takes no other's
\* place.
LEMMA Spawned ==
  ASSUME TypeOK, NEW s \in Slots, NEW kind \in {"entry"} \cup Closers, NEW p, NEW ls,
         Spawn(s, kind, p, ls)
  PROVE  /\ tasks'[s].kind = kind /\ tasks'[s].pair = p /\ tasks'[s].legs = ls
         /\ tasks[s].kind = "free"
         /\ \A t \in Slots : tasks[t].kind # "free" => tasks'[t] = tasks[t]
BY DEF Spawn, TypeOK, Free

\* No owner is lost and no pair becomes transient.
LEMMA OwnedKept ==
  ASSUME TransientOwned,
         \A p \in Pairs : state'[p] \in {"ENTERING", "EXITING"} => state'[p] = state[p],
         \A s \in Slots : /\ tasks[s].kind # "free"
                          /\ state'[tasks[s].pair] \in {"ENTERING", "EXITING"}
                          => /\ tasks'[s].kind = tasks[s].kind
                             /\ tasks'[s].pair = tasks[s].pair,
         \A p \in Pairs : state'[p] = "EXITING" /\ LoopCloses(p) => LoopCloses(p)'
  PROVE  TransientOwned'
BY DEF TransientOwned, Entering, Closing, Closers

\* A pair becomes transient together with its new owner, the goroutine s.
LEMMA OwnedSpawn ==
  ASSUME TypeOK, TransientOwned, NEW s \in Slots, NEW kind \in {"entry"} \cup Closers,
         NEW p \in Pairs, NEW ls, Spawn(s, kind, p, ls), UNCHANGED loop,
         state' = [state EXCEPT ![p] = IF kind = "entry" THEN "ENTERING" ELSE "EXITING"]
  PROVE  TransientOwned'
<1>1. \A q \in Pairs \ {p} : state'[q] = state[q]
  BY DEF TypeOK
<1>2. state'[p] = IF kind = "entry" THEN "ENTERING" ELSE "EXITING"
  BY DEF TypeOK
<1>3. \A q : LoopCloses(q)' <=> LoopCloses(q)
  BY DEF LoopCloses
<1> QED
  BY <1>1, <1>2, <1>3, Spawned DEF TransientOwned, Entering, Closing, Closers

\* A goroutine that ends takes its pair out of the transient state.
LEMMA OwnedTask ==
  ASSUME TypeOK, TransientOwned, NEW s \in Slots, TaskNext(s)
  PROVE  TransientOwned'
<1>1. tasks[s] \in Running
  BY TaskRuns DEF TaskNext, SendEntry, SendClose, FinishEntry, FinishExit,
                  FinishForce, Closers
<1>2. CASE SendEntry(s) \/ SendClose(s)
  <2>1. UNCHANGED <<state, loop>>
    BY <1>2 DEF SendEntry, SendClose, pairVars
  <2>2. \A t \in Slots : /\ tasks'[t].kind = tasks[t].kind
                         /\ tasks'[t].pair = tasks[t].pair
    <3>1. PICK r : tasks' = [tasks EXCEPT ![s].result = r]
      BY <1>2 DEF SendEntry, SendClose
    <3> QED
      BY <1>1, <3>1 DEF TypeOK, Running
  <2> QED
    BY <2>1, <2>2, OwnedKept DEF LoopCloses
<1>3. CASE FinishEntry(s) \/ FinishExit(s) \/ FinishForce(s)
  <2>1. PICK st \in {"HOLDING", "PAUSED", "READY", "ERROR"} :
          state' = [state EXCEPT ![tasks[s].pair] = st]
    BY <1>3 DEF FinishEntry, FinishExit, FinishForce
  <2>2. tasks' = [tasks EXCEPT ![s] = Free] /\ UNCHANGED loop
    BY <1>3 DEF FinishEntry, FinishExit, FinishForce
  <2>3. tasks[s].pair \in Pairs
    BY <1>1 DEF Running
  <2>4. \A t \in Slots \ {s} : tasks'[t] = tasks[t]
    BY <2>2 DEF TypeOK
  <2>5. state'[tasks[s].pair] = st
    BY <2>1, <2>3 DEF TypeOK
  <2>6. \A q \in Pairs : state'[q] \in {"ENTERING", "EXITING"} => state'[q] = state[q]
    BY <2>1, <2>5 DEF TypeOK
  <2> QED
    BY <2>2, <2>4, <2>5, <2>6, OwnedKept DEF LoopCloses
<1> QED
  BY <1>2, <1>3 DEF TaskNext

\* The event loop owns the pairs it made EXITING until it has closed the leg.
LEMMA OwnedLoop ==
  ASSUME TypeOK, TransientOwned, LoopNext
  PROVE  TransientOwned'
<1>1. CASE HandleLiquidation
  <2> DEFINE q == Head(posQueue).pair
  <2>1. q \in Pairs
    BY <1>1 DEF HandleLiquidation, TypeOK, Update
  <2>2. loop'.pc = "close" /\ loop'.pair = q /\ loop.pc = "idle" /\ tasks' = tasks
    BY <1>1 DEF HandleLiquidation
  <2>3. state'[q] = "EXITING" /\ \A p \in Pairs \ {q} : state'[p] = state[p]
    BY <1>1, <2>1 DEF HandleLiquidation, TypeOK
  <2> QED
    BY <2>1, <2>2, <2>3 DEF TransientOwned, Entering, Closing, LoopCloses
<1>2. CASE IgnoreLiquidation
  BY <1>2, OwnedKept DEF IgnoreLiquidation, pairVars, actorVars, LoopCloses
<1>3. ASSUME NEW l \in loop.rest, EmergencyClose(l) PROVE TransientOwned'
  <2>1. loop \in LoopTask
    BY <1>3, LoopRuns DEF EmergencyClose
  <2>2. PICK pc \in {"closed", "failed"} : loop' = [loop EXCEPT !.pc = pc, !.rest = {}]
    BY <1>3 DEF EmergencyClose
  <2>3. loop'.pc \in {"closed", "failed"} /\ loop'.pair = loop.pair
    BY <2>1, <2>2 DEF LoopTask
  <2> QED
    BY <1>3, <2>3, OwnedKept DEF EmergencyClose, pairVars, LoopCloses
<1>4. CASE LiquidationFailed \/ LiquidationClosed \/ LiquidationPauseFlag
             \/ LiquidationPauseWrite
  <2>1. loop \in LoopTask
    BY <1>4, LoopRuns DEF LiquidationFailed, LiquidationClosed,
                          LiquidationPauseFlag, LiquidationPauseWrite
  <2>2. loop.pair \in Pairs /\ tasks' = tasks
    BY <1>4, <2>1 DEF LoopTask, LiquidationFailed, LiquidationClosed,
                      LiquidationPauseFlag, LiquidationPauseWrite
  <2>3. CASE LiquidationPauseFlag
    BY <2>3, OwnedKept DEF LiquidationPauseFlag, LoopCloses
  <2>4. CASE LiquidationFailed \/ LiquidationClosed \/ LiquidationPauseWrite
    <3>1. PICK st \in {"ERROR", "PAUSED"} : state' = [state EXCEPT ![loop.pair] = st]
      BY <2>4 DEF LiquidationFailed, LiquidationClosed, LiquidationPauseWrite,
                  PauseWrite
    <3>2. \A q \in Pairs : state'[q] \in {"ENTERING", "EXITING"} =>
            state'[q] = state[q] /\ q # loop.pair
      BY <2>2, <3>1 DEF TypeOK
    <3> QED
      BY <2>2, <3>2, OwnedKept DEF LoopCloses
  <2> QED
    BY <1>4, <2>3, <2>4
<1> QED
  BY <1>1, <1>2, <1>3, <1>4 DEF LoopNext

\* A step that starts no goroutine, ends none and leaves the event loop alone.
LEMMA OwnedQuiet ==
  ASSUME TransientOwned, UNCHANGED <<tasks, loop>>,
         \A p \in Pairs : state'[p] \in {"ENTERING", "EXITING"} => state'[p] = state[p]
  PROVE  TransientOwned'
BY OwnedKept DEF LoopCloses

\* Every step keeps an owner for every transient pair.
LEMMA OwnedStep == TypeOK /\ TransientOwned /\ [Next]_vars => TransientOwned'
<1> SUFFICES ASSUME TypeOK, TransientOwned, [Next]_vars PROVE TransientOwned'
  OBVIOUS
<1>1. ASSUME NEW w \in Workers, NEW p \in Pairs, WorkerNext(w, p)
      PROVE  TransientOwned'
  <2>1. CASE SeeOpportunity(w, p) \/ Admit(w, p) \/ TurnAway(w, p) \/ Decline(w, p)
    BY <2>1, OwnedQuiet DEF SeeOpportunity, Admit, TurnAway, Decline, pairVars
  <2>2. ASSUME NEW s \in Slots, NEW a \in Exchanges, NEW b \in Exchanges,
               Enter(w, p, s, a, b)
        PROVE  TransientOwned'
    <3>1. Spawn(s, "entry", p, Hedge(a, b)) /\ UNCHANGED loop
      BY <2>2 DEF Enter
    <3>2. state' = [state EXCEPT ![p] = "ENTERING"]
      BY <2>2 DEF Enter, MarkEntering
    <3> QED
      BY <3>1, <3>2, OwnedSpawn
  <2> QED
    BY <1>1, <2>1, <2>2 DEF WorkerNext
<1>2. ASSUME NEW s \in Slots, TaskNext(s) PROVE TransientOwned'
  BY <1>2, OwnedTask
<1>3. CASE CheckerNext
  <2>1. ASSUME NEW p \in Pairs, NEW s \in Slots, NEW kind \in {"exit", "stop"},
               Leave(p, s, kind)
        PROVE  TransientOwned'
    <3>1. Spawn(s, kind, p, {}) /\ UNCHANGED loop
      BY <2>1 DEF Leave
    <3>2. state' = [state EXCEPT ![p] = "EXITING"]
      BY <2>1 DEF Leave
    <3>3. kind \in {"entry"} \cup Closers /\ kind # "entry"
      BY DEF Closers
    <3> QED
      BY <3>1, <3>2, <3>3, OwnedSpawn
  <2>2. CASE Collect \/ \E p \in Pairs : Stay(p)
    BY <2>2, OwnedQuiet DEF Collect, Stay, pairVars
  <2> QED
    BY <1>3, <2>1, <2>2 DEF CheckerNext
<1>4. CASE MonitorNext
  <2>1. CASE RiskFailed \/ RiskClosed \/ RiskPauseWrite
    <3>1. PICK st \in {"ERROR", "PAUSED"} :
            state' = [state EXCEPT ![monitor.pair] = st]
      BY <2>1 DEF RiskFailed, RiskClosed, RiskPauseWrite, PauseWrite
    <3>2. \A p \in Pairs : state'[p] \in {"ENTERING", "EXITING"} => state'[p] = state[p]
      BY <3>1 DEF TypeOK
    <3>3. UNCHANGED <<tasks, loop>>
      BY <2>1 DEF RiskFailed, RiskClosed, RiskPauseWrite
    <3> QED
      BY <3>2, <3>3, OwnedQuiet
  <2>2. CASE (\E p \in Pairs : SeeStopLoss(p)) \/ RiskClose \/ RiskPauseFlag
    BY <2>2, OwnedQuiet DEF SeeStopLoss, RiskClose, RiskPauseFlag, pairVars
  <2> QED
    BY <1>4, <2>1, <2>2 DEF MonitorNext
<1>5. CASE LoopNext
  BY <1>5, OwnedLoop
<1>6. ASSUME NEW u \in Users, UserNext(u) PROVE TransientOwned'
  <2>1. ASSUME NEW p \in Pairs, NEW s \in Slots, ForceClosePair(u, p, s)
        PROVE  TransientOwned'
    <3>1. Spawn(s, "force", p, {}) /\ UNCHANGED loop
      BY <2>1 DEF ForceClosePair
    <3>2. state' = [state EXCEPT ![p] = "EXITING"]
      BY <2>1 DEF ForceClosePair
    <3> QED
      BY <3>1, <3>2, OwnedSpawn DEF Closers
  <2>2. CASE PauseLocked(u) \/ \E p \in Pairs : StartPair(u, p)
    <3>1. \/ state' = [state EXCEPT ![user[u].pair] = "PAUSED"]
          \/ \E q \in Pairs : state' = [state EXCEPT ![q] = "READY"]
      BY <2>2 DEF StartPair, PauseLocked, PauseWrite
    <3>2. \A p \in Pairs : state'[p] \in {"ENTERING", "EXITING"} => state'[p] = state[p]
      BY <3>1 DEF TypeOK
    <3>3. UNCHANGED <<tasks, loop>>
      BY <2>2 DEF StartPair, PauseLocked
    <3> QED
      BY <3>2, <3>3, OwnedQuiet
  <2>3. CASE StoreReady(u) \/ \E p \in Pairs : PausePair(u, p)
    BY <2>3, OwnedQuiet DEF StoreReady, PausePair
  <2> QED
    BY <1>6, <2>1, <2>2, <2>3 DEF UserNext
<1>7. CASE \E p \in Pairs : \E x \in Exchanges : Liquidate(p, x)
  BY <1>7, OwnedQuiet DEF Liquidate, pairVars, actorVars
<1>8. CASE UNCHANGED vars
  BY <1>8, OwnedQuiet DEF vars, pairVars, actorVars
<1> QED
  BY <1>1, <1>2, <1>3, <1>4, <1>5, <1>6, <1>7, <1>8 DEF Next

\* Initially no pair is transient.
LEMMA OwnedInit == Init => TransientOwned
<1> SUFFICES ASSUME Init, NEW p \in Pairs
             PROVE  state[p] \notin {"ENTERING", "EXITING"}
  BY DEF TransientOwned
<1> QED
  BY DEF Init

\* Whatever the API calls, the RiskMonitor and failures do, a pair that is
\* ENTERING or EXITING has a goroutine that will take it out.
THEOREM TransientIsOwned == Spec => []TransientOwned
BY TypeCorrect, OwnedInit, OwnedStep, PTL DEF Spec
-----------------------------------------------------------------------------
(* Open positions are indexed.                                              *)

\* The strengthening: the legs an entry is about to record are a hedge.
EntriesHedge ==
  \A s \in Slots : tasks[s].kind = "entry" => IsHedge(tasks[s].legs)

\* A step that opens no position, keeps the legs of every pair that stays
\* HOLDING, and removes only other pairs from the index.
LEMMA IndexedKept ==
  ASSUME HoldingIndexed,
         \A p \in Pairs : state'[p] = "HOLDING" =>
           /\ state[p] = "HOLDING" /\ legs'[p] = legs[p]
           /\ \A x : <<x, p>> \in index => <<x, p>> \in index'
  PROVE  HoldingIndexed'
<1> SUFFICES ASSUME NEW p \in Pairs, state'[p] = "HOLDING"
             PROVE  IsHedge(legs'[p]) /\ Keys(p)' \subseteq index'
  BY DEF HoldingIndexed, IsHedge
<1>1. legs'[p] = legs[p] /\ state[p] = "HOLDING"
  OBVIOUS
<1>2. IsHedge(legs[p]) /\ Keys(p) \subseteq index
  BY <1>1 DEF HoldingIndexed
<1>3. Keys(p)' = Keys(p)
  BY <1>1 DEF Keys
<1>4. \A k \in Keys(p) : \E x : k = <<x, p>>
  BY DEF Keys
<1> QED
  BY <1>1, <1>2, <1>3, <1>4

\* A step that changes no goroutine keeps the legs of entries.
LEMMA HedgesKept ==
  ASSUME EntriesHedge,
         \A s \in Slots : tasks'[s].kind = "entry" =>
           tasks[s].kind = "entry" /\ tasks'[s].legs = tasks[s].legs
  PROVE  EntriesHedge'
BY DEF EntriesHedge, IsHedge

\* Every step keeps the legs of entries those of one arbitrage.
LEMMA HedgesStep == TypeOK /\ EntriesHedge /\ [Next]_vars => EntriesHedge'
<1> SUFFICES ASSUME TypeOK, EntriesHedge, [Next]_vars PROVE EntriesHedge'
  OBVIOUS
<1>1. ASSUME NEW s \in Slots, NEW kind \in Closers, NEW p \in Pairs,
             Spawn(s, kind, p, {})
      PROVE  EntriesHedge'
  <2>1. \A t \in Slots : tasks'[t].kind = "entry" => tasks'[t] = tasks[t]
    BY <1>1 DEF Spawn, TypeOK, Closers
  <2> QED
    BY <2>1, HedgesKept
<1>2. ASSUME NEW w \in Workers, NEW p \in Pairs, NEW s \in Slots,
             NEW a \in Exchanges, NEW b \in Exchanges, Enter(w, p, s, a, b)
      PROVE  EntriesHedge'
  <2>1. IsHedge(Hedge(a, b))
    BY <1>2 DEF Enter, IsHedge
  <2>2. /\ tasks'[s].legs = Hedge(a, b)
        /\ \A t \in Slots \ {s} : tasks'[t] = tasks[t]
    BY <1>2 DEF Enter, Spawn, TypeOK
  <2> QED
    BY <2>1, <2>2 DEF EntriesHedge, IsHedge
<1>3. ASSUME NEW s \in Slots, TaskNext(s) PROVE EntriesHedge'
  <2>1. tasks[s] \in Running
    BY <1>3, TaskRuns DEF TaskNext, SendEntry, SendClose, FinishEntry, FinishExit,
                          FinishForce, Closers
  <2>2. CASE tasks' = [tasks EXCEPT ![s] = Free]
    <3>1. \A t \in Slots : tasks'[t].kind = "entry" => tasks'[t] = tasks[t]
      BY <2>2 DEF TypeOK, Free
    <3> QED
      BY <3>1, HedgesKept
  <2>3. ASSUME NEW r, tasks' = [tasks EXCEPT ![s].result = r] PROVE EntriesHedge'
    <3>1. \A t \in Slots : /\ tasks'[t].kind = tasks[t].kind
                           /\ tasks'[t].legs = tasks[t].legs
      BY <2>1, <2>3 DEF TypeOK, Running
    <3> QED
      BY <3>1, HedgesKept
  <2> QED
    BY <1>3, <2>2, <2>3 DEF TaskNext, SendEntry, SendClose, FinishEntry, FinishExit,
                            FinishForce
<1>4. CASE UNCHANGED tasks
  BY <1>4, HedgesKept
<1> QED
  <2>1. ASSUME NEW w \in Workers, NEW p \in Pairs, WorkerNext(w, p)
        PROVE  EntriesHedge'
    BY <2>1, <1>2, <1>4 DEF WorkerNext, SeeOpportunity, Admit, TurnAway, Decline
  <2>2. CASE CheckerNext
    BY <2>2, <1>1, <1>4 DEF CheckerNext, Collect, Stay, Leave, Closers
  <2>3. CASE MonitorNext
    BY <2>3, <1>4 DEF MonitorNext, SeeStopLoss, RiskClose, RiskFailed, RiskClosed,
                      RiskPauseFlag, RiskPauseWrite
  <2>4. CASE LoopNext
    BY <2>4, <1>4 DEF LoopNext, HandleLiquidation, IgnoreLiquidation,
                      EmergencyClose, LiquidationFailed, LiquidationClosed,
                      LiquidationPauseFlag, LiquidationPauseWrite, actorVars
  <2>5. ASSUME NEW u \in Users, UserNext(u) PROVE EntriesHedge'
    BY <2>5, <1>1, <1>4 DEF UserNext, StartPair, PausePair, ForceClosePair,
                            StoreReady, PauseLocked, Closers
  <2>6. CASE \E p \in Pairs : \E x \in Exchanges : Liquidate(p, x)
    BY <2>6, <1>4 DEF Liquidate, actorVars
  <2>7. CASE UNCHANGED vars
    BY <2>7, <1>4 DEF vars, actorVars
  <2> QED
    BY <1>3, <2>1, <2>2, <2>3, <2>4, <2>5, <2>6, <2>7 DEF Next

\* A successful entry opens a position and indexes both of its legs.
LEMMA IndexedOpen ==
  ASSUME TypeOK, EntriesHedge, HoldingIndexed, NEW s \in Slots, FinishEntry(s)
  PROVE  HoldingIndexed'
<1>1. PICK p \in Pairs : p = tasks[s].pair
  BY TaskRuns DEF FinishEntry, Running
<1>2. CASE tasks[s].result = "ok"
  <2>1. /\ legs' = [legs EXCEPT ![p] = tasks[s].legs]
        /\ state' = [state EXCEPT ![p] = "HOLDING"]
        /\ index' = WithPosition(p, tasks[s].legs)
    BY <1>1, <1>2 DEF FinishEntry
  <2>2. legs'[p] = tasks[s].legs /\ IsHedge(legs'[p])
    BY <1>1, <2>1 DEF TypeOK, FinishEntry, EntriesHedge
  <2>3. Keys(p)' \subseteq index'
    BY <2>1, <2>2 DEF Keys, WithPosition
  <2>4. ASSUME NEW q \in Pairs, q # p, state'[q] = "HOLDING"
        PROVE  IsHedge(legs'[q]) /\ Keys(q)' \subseteq index'
    <3>1. state[q] = "HOLDING" /\ legs'[q] = legs[q]
      BY <2>1, <2>4 DEF TypeOK
    <3>2. index \subseteq index'
      BY <2>1 DEF WithPosition
    <3> QED
      BY <3>1, <3>2 DEF HoldingIndexed, Keys
  <2> QED
    BY <2>2, <2>3, <2>4 DEF HoldingIndexed, IsHedge
<1>3. CASE tasks[s].result # "ok"
  <2>1. PICK st \in {"PAUSED", "READY"} :
          /\ state' = [state EXCEPT ![p] = st]
          /\ UNCHANGED <<legs, index>>
    BY <1>1, <1>3 DEF FinishEntry
  <2>2. \A q \in Pairs : state'[q] = "HOLDING" => state[q] = "HOLDING"
    BY <2>1 DEF TypeOK
  <2> QED
    BY <2>1, <2>2, IndexedKept
<1> QED
  BY <1>2, <1>3

\* A pair that leaves HOLDING clears its own legs and index entries only.
LEMMA IndexedClosed ==
  ASSUME TypeOK, HoldingIndexed, NEW p \in Pairs, NEW st \in States \ {"HOLDING"},
         state' = [state EXCEPT ![p] = st],
         legs' = legs \/ legs' = [legs EXCEPT ![p] = {}],
         index' = index \/ index' = WithoutPosition(p)
  PROVE  HoldingIndexed'
<1>1. ASSUME NEW q \in Pairs, state'[q] = "HOLDING"
      PROVE  q # p /\ state[q] = "HOLDING" /\ legs'[q] = legs[q]
  BY <1>1 DEF TypeOK
<1>2. ASSUME NEW q \in Pairs, q # p, NEW x, <<x, q>> \in index
      PROVE  <<x, q>> \in index'
  BY <1>2 DEF WithoutPosition, Keys
<1> QED
  BY <1>1, <1>2, IndexedKept

\* A step that touches neither legs nor index and lets no pair enter HOLDING.
LEMMA IndexedQuiet ==
  ASSUME HoldingIndexed, UNCHANGED <<legs, index>>,
         \A p \in Pairs : state'[p] = "HOLDING" => state[p] = "HOLDING"
  PROVE  HoldingIndexed'
BY IndexedKept

\* The results of entries and closes keep HOLDING pairs indexed.
LEMMA IndexedTask ==
  ASSUME TypeOK, EntriesHedge, HoldingIndexed, NEW s \in Slots, TaskNext(s)
  PROVE  HoldingIndexed'
<1>1. CASE SendEntry(s) \/ SendClose(s)
  BY <1>1, IndexedQuiet DEF SendEntry, SendClose, pairVars
<1>2. CASE FinishEntry(s)
  BY <1>2, IndexedOpen
<1>3. CASE FinishExit(s) \/ FinishForce(s)
  <2>1. PICK p \in Pairs : p = tasks[s].pair
    BY <1>3, TaskRuns DEF FinishExit, FinishForce, Running
  <2>2. PICK st \in {"PAUSED", "READY", "ERROR"} : state' = [state EXCEPT ![p] = st]
    BY <1>3, <2>1 DEF FinishExit, FinishForce
  <2>3. /\ legs' = legs \/ legs' = [legs EXCEPT ![p] = {}]
        /\ index' = index \/ index' = WithoutPosition(p)
    BY <1>3, <2>1 DEF FinishExit, FinishForce
  <2> QED
    BY <2>2, <2>3, IndexedClosed DEF States
<1> QED
  BY <1>1, <1>2, <1>3 DEF TaskNext

\* So do the steps of the RiskMonitor.
LEMMA IndexedMonitor ==
  ASSUME TypeOK, HoldingIndexed, MonitorNext
  PROVE  HoldingIndexed'
<1>1. CASE (\E p \in Pairs : SeeStopLoss(p)) \/ RiskClose \/ RiskPauseFlag
  BY <1>1, IndexedQuiet DEF SeeStopLoss, RiskClose, RiskPauseFlag, pairVars
<1>2. CASE RiskFailed \/ RiskClosed \/ RiskPauseWrite
  <2>1. PICK p \in Pairs : p = monitor.pair
    BY <1>2, MonitorRuns DEF RiskFailed, RiskClosed, RiskPauseWrite, RiskTask
  <2>2. PICK st \in {"ERROR", "PAUSED"} : state' = [state EXCEPT ![p] = st]
    BY <1>2, <2>1 DEF RiskFailed, RiskClosed, RiskPauseWrite, PauseWrite
  <2>3. /\ legs' = legs \/ legs' = [legs EXCEPT ![p] = {}]
        /\ index' = index \/ index' = WithoutPosition(p)
    BY <1>2, <2>1 DEF RiskFailed, RiskClosed, RiskPauseWrite
  <2> QED
    BY <2>2, <2>3, IndexedClosed DEF States
<1> QED
  BY <1>1, <1>2 DEF MonitorNext

\* So do the steps of the event loop.
LEMMA IndexedLoop ==
  ASSUME TypeOK, HoldingIndexed, LoopNext
  PROVE  HoldingIndexed'
<1>1. CASE IgnoreLiquidation \/ LiquidationPauseFlag \/ \E l \in loop.rest : EmergencyClose(l)
  BY <1>1, IndexedQuiet
  DEF IgnoreLiquidation, LiquidationPauseFlag, EmergencyClose, pairVars
<1>2. CASE HandleLiquidation
  <2>1. Head(posQueue).pair \in Pairs
    BY <1>2 DEF HandleLiquidation, TypeOK, Update
  <2> QED
    BY <1>2, <2>1, IndexedClosed DEF HandleLiquidation, States
<1>3. CASE LiquidationFailed \/ LiquidationClosed \/ LiquidationPauseWrite
  <2>1. PICK p \in Pairs : p = loop.pair
    BY <1>3, LoopRuns
    DEF LiquidationFailed, LiquidationClosed, LiquidationPauseWrite, LoopTask
  <2>2. PICK st \in {"ERROR", "PAUSED"} : state' = [state EXCEPT ![p] = st]
    BY <1>3, <2>1
    DEF LiquidationFailed, LiquidationClosed, LiquidationPauseWrite, PauseWrite
  <2>3. index' = index /\ (legs' = legs \/ legs' = [legs EXCEPT ![p] = {}])
    BY <1>3, <2>1
    DEF LiquidationFailed, LiquidationClosed, LiquidationPauseWrite
  <2> QED
    BY <2>2, <2>3, IndexedClosed DEF States
<1> QED
  BY <1>1, <1>2, <1>3 DEF LoopNext

\* So do the calls of the API.
LEMMA IndexedUser ==
  ASSUME TypeOK, HoldingIndexed, NEW u \in Users, UserNext(u)
  PROVE  HoldingIndexed'
<1>1. CASE StoreReady(u) \/ \E p \in Pairs : PausePair(u, p)
  BY <1>1, IndexedQuiet DEF StoreReady, PausePair
<1>2. ASSUME NEW p \in Pairs, StartPair(u, p) \/ \E s \in Slots : ForceClosePair(u, p, s)
      PROVE  HoldingIndexed'
  <2>1. PICK st \in {"READY", "EXITING"} : state' = [state EXCEPT ![p] = st]
    BY <1>2 DEF StartPair, ForceClosePair
  <2>2. UNCHANGED <<legs, index>>
    BY <1>2 DEF StartPair, ForceClosePair
  <2> QED
    BY <2>1, <2>2, IndexedClosed DEF States
<1>3. CASE PauseLocked(u)
  <2>1. user[u].pair \in Pairs
    BY <1>3, UserRuns DEF PauseLocked
  <2> QED
    BY <1>3, <2>1, IndexedClosed DEF PauseLocked, PauseWrite, States
<1> QED
  BY <1>1, <1>2, <1>3 DEF UserNext

\* Every step keeps HOLDING pairs indexed.
LEMMA IndexedStep ==
  TypeOK /\ EntriesHedge /\ HoldingIndexed /\ [Next]_vars => HoldingIndexed'
<1> SUFFICES ASSUME TypeOK, EntriesHedge, HoldingIndexed, [Next]_vars
             PROVE  HoldingIndexed'
  OBVIOUS
<1>1. ASSUME NEW w \in Workers, NEW p \in Pairs, WorkerNext(w, p)
      PROVE  HoldingIndexed'
  <2>1. CASE SeeOpportunity(w, p) \/ Admit(w, p) \/ TurnAway(w, p) \/ Decline(w, p)
    BY <2>1, IndexedQuiet DEF SeeOpportunity, Admit, TurnAway, Decline, pairVars
  <2>2. ASSUME NEW s \in Slots, NEW a \in Exchanges, NEW b \in Exchanges,
               Enter(w, p, s, a, b)
        PROVE  HoldingIndexed'
    BY <2>2, IndexedClosed DEF Enter, MarkEntering, States
  <2> QED
    BY <1>1, <2>1, <2>2 DEF WorkerNext
<1>2. CASE CheckerNext
  <2>1. CASE Collect \/ \E p \in Pairs : Stay(p)
    BY <2>1, IndexedQuiet DEF Collect, Stay, pairVars
  <2>2. ASSUME NEW p \in Pairs, NEW s \in Slots, NEW kind \in {"exit", "stop"},
               Leave(p, s, kind)
        PROVE  HoldingIndexed'
    BY <2>2, IndexedClosed DEF Leave, States
  <2> QED
    BY <1>2, <2>1, <2>2 DEF CheckerNext
<1>3. CASE \E p \in Pairs : \E x \in Exchanges : Liquidate(p, x)
  BY <1>3, IndexedQuiet DEF Liquidate, pairVars, actorVars
<1>4. CASE UNCHANGED vars
  BY <1>4, IndexedQuiet DEF vars, pairVars
<1> QED
  BY <1>1, <1>2, <1>3, <1>4, IndexedTask, IndexedMonitor, IndexedLoop, IndexedUser
  DEF Next

\* Initially no pair has a position or an entry.
LEMMA IndexedInit == Init => EntriesHedge /\ HoldingIndexed
<1> SUFFICES ASSUME Init PROVE EntriesHedge /\ HoldingIndexed
  OBVIOUS
<1>1. EntriesHedge
  BY DEF Init, EntriesHedge, Free
<1>2. \A p \in Pairs : state[p] # "HOLDING"
  BY DEF Init
<1> QED
  BY <1>1, <1>2 DEF HoldingIndexed

\* A HOLDING pair always has two legs on different exchanges, and both are in
\* the index that liquidations are looked up in, whatever happens to other pairs.
THEOREM HoldingIsIndexed == Spec => []HoldingIndexed
BY TypeCorrect, IndexedInit, HedgesStep, IndexedStep, PTL DEF Spec
-----------------------------------------------------------------------------
(* A pair that nobody restarts has one arbitrage at a time.                 *)

LoopBusy == loop.pc \in {"close", "closed", "failed"}

\* While StartPair is not called, a pair that is READY or HOLDING has neither a
\* goroutine nor the event loop at work, and one that has either has only that.
\* The worker that has the mutex keeps the pair READY, and isReady stays 0 from an
\* entry to the end of its arbitrage.
Alone ==
  /\ \A u \in Users : user[u].pc # "storeReady"
  /\ \A v, w \in Workers :
       worker[v].pc = "locked" =>
         /\ state[worker[v].pair] = "READY"
         /\ worker[w] = worker[v] => w = v
  /\ \A s, t \in Slots :
       tasks[s].kind # "free" /\ tasks[t].pair = tasks[s].pair => t = s
  /\ \A s \in Slots :
       tasks[s].kind # "free" =>
         /\ state[tasks[s].pair] \notin {"READY", "HOLDING"}
         /\ LoopBusy => loop.pair # tasks[s].pair
         /\ tasks[s].kind = "entry" => ~ready[tasks[s].pair]
  /\ LoopBusy => state[loop.pair] \notin {"READY", "HOLDING"}
  /\ \A p \in Pairs : state[p] = "HOLDING" => ~ready[p]

\* A locked worker has a pair of the engine, whose state others leave alone.
LEMMA LockedPair ==
  ASSUME TypeOK, NEW w \in Workers, worker[w].pc = "locked"
  PROVE  /\ worker[w].pair \in Pairs
         /\ worker[w] = [pc |-> "locked", pair |-> worker[w].pair]
         /\ ~Unlocked(worker[w].pair)
<1>1. worker[w] \in [pc : {"seen", "locked"}, pair : Pairs]
  BY DEF TypeOK, WorkerState, Idle
<1> QED
  BY <1>1 DEF Unlocked

\* A goroutine has a pair of the engine unless it is free.
LEMMA TaskPair ==
  ASSUME NEW t \in Task
  PROVE  IF t.kind = "free" THEN t.pair = NoPair ELSE t.pair \in Pairs
<1>1. CASE t = Free
  BY <1>1 DEF Free
<1>2. CASE t \in Running
  <2>1. t.kind \in {"entry", "exit", "stop", "force"} /\ t.pair \in Pairs
    BY <1>2 DEF Running, Closers
  <2> QED
    BY <2>1
<1> QED
  BY <1>1, <1>2 DEF Task

\* A step that opens nothing, starts nothing and admits nobody.
LEMMA AloneKept ==
  ASSUME TypeOK, TypeOK', Alone,
         \A p \in Pairs : state'[p] # state[p] =>
           Unlocked(p) /\ state'[p] \notin {"READY", "HOLDING"},
         \A t \in Slots : tasks'[t].kind # "free" =>
           tasks'[t].kind = tasks[t].kind /\ tasks'[t].pair = tasks[t].pair,
         \A p \in Pairs : ready'[p] => ready[p],
         LoopBusy' => LoopBusy /\ loop'.pair = loop.pair,
         \A w \in Workers : worker'[w].pc = "locked" => worker'[w] = worker[w],
         \A u \in Users : user'[u].pc = "storeReady" => user[u].pc = "storeReady"
  PROVE  Alone'
<1>1. \A s \in Slots : tasks'[s].kind # "free" => tasks'[s].pair \in Pairs
  BY DEF TypeOK, Task, Running, Free
<1>2. LoopBusy' => loop'.pair \in Pairs
  BY DEF TypeOK, LoopState, LoopTask, LoopIdle, LoopBusy
<1>3. \A p \in Pairs : state'[p] \in {"READY", "HOLDING"} => state'[p] = state[p]
  OBVIOUS
<1>4. ASSUME NEW v \in Workers, worker'[v].pc = "locked"
      PROVE  /\ state'[worker'[v].pair] = "READY"
             /\ \A w \in Workers : worker'[w] = worker'[v] => w = v
  <2>1. worker'[v] = worker[v] /\ worker[v].pc = "locked"
    BY <1>4
  <2>2. worker[v].pair \in Pairs /\ ~Unlocked(worker[v].pair)
    BY <2>1, LockedPair
  <2>3. state'[worker[v].pair] = state[worker[v].pair]
    BY <2>2
  <2>4. ASSUME NEW w \in Workers, worker'[w] = worker'[v] PROVE w = v
    BY <1>4, <2>1, <2>4 DEF Alone
  <2> QED
    BY <2>1, <2>3, <2>4 DEF Alone
<1>5. \A s, t \in Slots :
        tasks'[s].kind # "free" /\ tasks'[t].pair = tasks'[s].pair => t = s
  <2> SUFFICES ASSUME NEW s \in Slots, NEW t \in Slots, tasks'[s].kind # "free",
                      tasks'[t].pair = tasks'[s].pair
               PROVE  t = s
    OBVIOUS
  <2>1. tasks'[t].pair # NoPair
    BY <1>1, PairsAssumption
  <2>2. tasks'[t].kind # "free"
    BY <2>1, TaskPair DEF TypeOK
  <2> QED
    BY <2>2 DEF Alone
<1>6. \A s \in Slots :
        tasks'[s].kind # "free" =>
          /\ state'[tasks'[s].pair] \notin {"READY", "HOLDING"}
          /\ LoopBusy' => loop'.pair # tasks'[s].pair
          /\ tasks'[s].kind = "entry" => ~ready'[tasks'[s].pair]
  BY <1>1, <1>3 DEF Alone
<1>7. LoopBusy' => state'[loop'.pair] \notin {"READY", "HOLDING"}
  BY <1>2, <1>3 DEF Alone
<1>8. \A p \in Pairs : state'[p] = "HOLDING" => ~ready'[p]
  BY <1>3 DEF Alone
<1>9. \A u \in Users : user'[u].pc # "storeReady"
  BY DEF Alone
<1> QED
  BY <1>4, <1>5, <1>6, <1>7, <1>8, <1>9 DEF Alone

\* Neither workers, goroutines, the event loop nor threads move.
LEMMA AloneQuiet ==
  ASSUME TypeOK, TypeOK', Alone, UNCHANGED <<worker, tasks, loop, user>>,
         \A p \in Pairs : ready'[p] => ready[p],
         state' = state \/ \E p \in Pairs : /\ Unlocked(p)
                                            /\ \E st \in {"PAUSED", "ERROR", "EXITING"} :
                                                 state' = [state EXCEPT ![p] = st]
  PROVE  Alone'
<1>1. \A p \in Pairs : state'[p] # state[p] =>
        Unlocked(p) /\ state'[p] \notin {"READY", "HOLDING"}
  BY DEF TypeOK
<1> QED
  BY <1>1, AloneKept DEF LoopBusy

\* A pair leaves READY or HOLDING together with the start of a goroutine.
LEMMA AloneSpawn ==
  ASSUME TypeOK, TypeOK', Alone, NEW s \in Slots, NEW kind \in {"entry"} \cup Closers,
         NEW p \in Pairs, NEW ls, Spawn(s, kind, p, ls),
         state[p] \in {"READY", "HOLDING"},
         state' = [state EXCEPT ![p] = IF kind = "entry" THEN "ENTERING" ELSE "EXITING"],
         \A q \in Pairs : ready'[q] => ready[q],
         kind = "entry" => ~ready'[p],
         UNCHANGED <<loop, user>>,
         \A w \in Workers : worker'[w].pc = "locked" =>
           worker'[w] = worker[w] /\ worker[w].pair # p
  PROVE  Alone'
<1>1. /\ state'[p] \notin {"READY", "HOLDING"}
      /\ \A q \in Pairs \ {p} : state'[q] = state[q]
  BY DEF TypeOK
<1>2. /\ tasks'[s].kind = kind /\ tasks'[s].pair = p /\ kind # "free"
      /\ \A t \in Slots \ {s} : tasks'[t] = tasks[t]
  BY DEF Spawn, TypeOK, Closers
<1>3. \A t \in Slots : tasks[t].kind # "free" => tasks[t].pair # p /\ tasks[t].pair \in Pairs
  BY DEF Alone, TypeOK, Task, Running, Free
<1>4. \A t \in Slots : tasks[t].kind = "free" => tasks[t].pair = NoPair
  BY TaskPair DEF TypeOK
<1>5. LoopBusy => loop.pair # p /\ loop.pair \in Pairs
  BY DEF Alone, LoopBusy, TypeOK, LoopState, LoopTask, LoopIdle
<1>6. LoopBusy' <=> LoopBusy
  BY DEF LoopBusy
<1>7. ASSUME NEW v \in Workers, worker'[v].pc = "locked"
      PROVE  /\ state'[worker'[v].pair] = "READY"
             /\ \A w \in Workers : worker'[w] = worker'[v] => w = v
  <2>1. worker'[v] = worker[v] /\ worker[v].pc = "locked" /\ worker[v].pair # p
    BY <1>7
  <2>2. worker[v].pair \in Pairs
    BY <2>1, LockedPair
  <2>3. ASSUME NEW w \in Workers, worker'[w] = worker'[v] PROVE w = v
    BY <1>7, <2>1, <2>3 DEF Alone
  <2> QED
    BY <1>1, <2>1, <2>2, <2>3 DEF Alone
<1>8. ASSUME NEW t \in Slots, NEW u \in Slots, tasks'[t].kind # "free",
             tasks'[u].pair = tasks'[t].pair
      PROVE  u = t
  <2>1. p # NoPair
    BY PairsAssumption
  <2>2. CASE t = s
    BY <1>2, <1>3, <1>4, <1>8, <2>1, <2>2
  <2>3. CASE t # s
    <3>1. u # s
      BY <1>2, <1>3, <1>8, <2>3
    <3> QED
      BY <1>2, <1>8, <2>3, <3>1 DEF Alone
  <2> QED
    BY <2>2, <2>3
<1>9. \A t \in Slots :
        tasks'[t].kind # "free" =>
          /\ state'[tasks'[t].pair] \notin {"READY", "HOLDING"}
          /\ LoopBusy' => loop'.pair # tasks'[t].pair
          /\ tasks'[t].kind = "entry" => ~ready'[tasks'[t].pair]
  BY <1>1, <1>2, <1>3, <1>5, <1>6 DEF Alone
<1>10. LoopBusy' => state'[loop'.pair] \notin {"READY", "HOLDING"}
  BY <1>1, <1>5, <1>6 DEF Alone
<1>11. \A q \in Pairs : state'[q] = "HOLDING" => ~ready'[q]
  BY <1>1 DEF Alone
<1>12. \A u \in Users : user'[u].pc # "storeReady"
  BY DEF Alone
<1> QED
  BY <1>7, <1>8, <1>9, <1>10, <1>11, <1>12 DEF Alone

\* A goroutine that ends may leave its pair READY, or HOLDING with isReady 0,
\* since nothing else works on it.
LEMMA AloneFinish ==
  ASSUME TypeOK, TypeOK', Alone, NEW s \in Slots,
         FinishEntry(s) \/ FinishExit(s) \/ FinishForce(s)
  PROVE  Alone'
<1> DEFINE p == tasks[s].pair
<1>1. /\ tasks[s].kind # "free" /\ p \in Pairs /\ Unlocked(p)
      /\ tasks[s].kind \in {"entry"} \cup Closers
  <2>1. tasks[s] \in Running
    BY TaskRuns DEF FinishEntry, FinishExit, FinishForce
  <2> QED
    BY <2>1 DEF FinishEntry, FinishExit, FinishForce, Running, Closers
<1>2. /\ UNCHANGED <<worker, loop, user>>
      /\ tasks' = [tasks EXCEPT ![s] = Free]
  BY DEF FinishEntry, FinishExit, FinishForce
<1>3. PICK st \in {"HOLDING", "PAUSED", "READY", "ERROR"} :
        /\ state' = [state EXCEPT ![p] = st]
        /\ ready' = ready \/ \E b \in BOOLEAN : ready' = [ready EXCEPT ![p] = b]
        /\ st = "HOLDING" => tasks[s].kind = "entry" /\ ready' = ready
  BY DEF FinishEntry, FinishExit, FinishForce
<1>4. state'[p] = st /\ \A q \in Pairs \ {p} : state'[q] = state[q] /\ ready'[q] = ready[q]
  BY <1>1, <1>3 DEF TypeOK
<1>5. /\ tasks'[s] = Free
      /\ \A t \in Slots \ {s} : tasks'[t] = tasks[t]
  BY <1>2 DEF TypeOK
<1>6. \A t \in Slots : tasks[t].pair = p => t = s
  BY <1>1 DEF Alone
<1>7. \A t \in Slots : tasks[t].kind # "free" => tasks[t].pair \in Pairs
  BY DEF TypeOK, Task, Running, Free
<1>8. LoopBusy => loop.pair # p /\ loop.pair \in Pairs
  BY <1>1 DEF Alone, LoopBusy, TypeOK, LoopState, LoopTask, LoopIdle
<1>9. LoopBusy' <=> LoopBusy
  BY <1>2 DEF LoopBusy
<1>10. ASSUME NEW v \in Workers, worker'[v].pc = "locked"
       PROVE  /\ state'[worker'[v].pair] = "READY"
              /\ \A w \in Workers : worker'[w] = worker'[v] => w = v
  <2>1. worker[v].pc = "locked"
    BY <1>2, <1>10
  <2>2. worker[v].pair \in Pairs /\ worker[v].pair # p
    BY <1>1, <2>1, LockedPair
  <2> QED
    BY <1>2, <1>4, <2>1, <2>2 DEF Alone
<1>11. ASSUME NEW t \in Slots, NEW u \in Slots, tasks'[t].kind # "free",
              tasks'[u].pair = tasks'[t].pair
       PROVE  u = t
  <2>1. t # s /\ tasks'[t] = tasks[t] /\ tasks[t].pair # NoPair
    BY <1>5, <1>7, <1>11, PairsAssumption DEF Free
  <2>2. u # s
    BY <1>5, <1>11, <2>1 DEF Free
  <2> QED
    BY <1>5, <1>11, <2>1, <2>2 DEF Alone
<1>12. \A t \in Slots :
         tasks'[t].kind # "free" =>
           /\ state'[tasks'[t].pair] \notin {"READY", "HOLDING"}
           /\ LoopBusy' => loop'.pair # tasks'[t].pair
           /\ tasks'[t].kind = "entry" => ~ready'[tasks'[t].pair]
  <2> SUFFICES ASSUME NEW t \in Slots, tasks'[t].kind # "free"
               PROVE  /\ state'[tasks'[t].pair] \notin {"READY", "HOLDING"}
                      /\ LoopBusy' => loop'.pair # tasks'[t].pair
                      /\ tasks'[t].kind = "entry" => ~ready'[tasks'[t].pair]
    OBVIOUS
  <2>1. t # s /\ tasks'[t] = tasks[t]
    BY <1>5 DEF Free
  <2>2. tasks[t].pair \in Pairs \ {p}
    BY <1>6, <1>7, <2>1
  <2> QED
    BY <1>2, <1>4, <1>9, <2>1, <2>2 DEF Alone
<1>13. LoopBusy' => state'[loop'.pair] \notin {"READY", "HOLDING"}
  BY <1>2, <1>4, <1>8, <1>9 DEF Alone
<1>14. \A q \in Pairs : state'[q] = "HOLDING" => ~ready'[q]
  <2>1. st = "HOLDING" => ~ready[p]
    BY <1>1, <1>3 DEF Alone
  <2> QED
    BY <1>3, <1>4, <2>1 DEF Alone
<1>15. \A u \in Users : user'[u].pc # "storeReady"
  BY <1>2 DEF Alone
<1> QED
  BY <1>10, <1>11, <1>12, <1>13, <1>14, <1>15 DEF Alone

\* A worker that takes the mutex of a READY pair is the only one to have it.
LEMMA AloneAdmit ==
  ASSUME TypeOK, Alone, NEW w \in Workers, NEW p \in Pairs, Admit(w, p)
  PROVE  Alone'
<1> DEFINE locked == [pc |-> "locked", pair |-> p]
<1>1. /\ UNCHANGED <<state, ready, tasks, loop, user>>
      /\ state[p] = "READY" /\ Unlocked(p)
  BY DEF Admit, pairVars
<1>2. /\ worker'[w] = locked
      /\ \A v \in Workers \ {w} : worker'[v] = worker[v] /\ worker[v] # locked
  BY <1>1 DEF Admit, TypeOK, Unlocked
<1>3. ASSUME NEW v \in Workers, worker'[v].pc = "locked"
      PROVE  /\ state'[worker'[v].pair] = "READY"
             /\ \A u \in Workers : worker'[u] = worker'[v] => u = v
  BY <1>1, <1>2, <1>3 DEF Alone
<1>4. LoopBusy' <=> LoopBusy
  BY <1>1 DEF LoopBusy
<1> QED
  BY <1>1, <1>3, <1>4 DEF Alone

\* Every step of a price worker.
LEMMA AloneWorker ==
  ASSUME TypeOK, TypeOK', Alone, NEW w \in Workers, NEW p \in Pairs, WorkerNext(w, p)
  PROVE  Alone'
<1>1. CASE SeeOpportunity(w, p) \/ TurnAway(w, p) \/ Decline(w, p)
  <2>1. UNCHANGED <<state, ready, tasks, loop, user>>
    BY <1>1 DEF SeeOpportunity, TurnAway, Decline, pairVars
  <2>2. \A v \in Workers : worker'[v].pc = "locked" => worker'[v] = worker[v]
    <3>1. \/ worker' = [worker EXCEPT ![w] = [pc |-> "seen", pair |-> p]]
          \/ worker' = [worker EXCEPT ![w] = Idle]
      BY <1>1 DEF SeeOpportunity, TurnAway, Decline
    <3> QED
      BY <3>1 DEF TypeOK, Idle
  <2> QED
    BY <2>1, <2>2, AloneKept DEF LoopBusy
<1>2. CASE Admit(w, p)
  BY <1>2, AloneAdmit
<1>3. ASSUME NEW s \in Slots, NEW a \in Exchanges, NEW b \in Exchanges,
             Enter(w, p, s, a, b)
      PROVE  Alone'
  <2>1. /\ worker[w] = [pc |-> "locked", pair |-> p]
        /\ Spawn(s, "entry", p, Hedge(a, b))
        /\ state' = [state EXCEPT ![p] = "ENTERING"]
        /\ ready' = [ready EXCEPT ![p] = FALSE]
        /\ worker' = [worker EXCEPT ![w] = Idle]
        /\ UNCHANGED <<loop, user>>
    BY <1>3 DEF Enter, MarkEntering
  <2>2. worker[w].pc = "locked" /\ worker[w].pair = p
    BY <2>1
  <2>3. state[p] = "READY"
    BY <2>2 DEF Alone
  <2>4. ~ready'[p] /\ \A q \in Pairs : ready'[q] => ready[q]
    BY <2>1 DEF TypeOK
  <2>5. ASSUME NEW v \in Workers, worker'[v].pc = "locked"
        PROVE  worker'[v] = worker[v] /\ worker[v].pair # p
    <3>1. v # w /\ worker'[v] = worker[v]
      BY <2>1, <2>5 DEF TypeOK, Idle
    <3>2. worker[v] # worker[w]
      BY <2>2, <3>1 DEF Alone
    <3>3. worker[v] = [pc |-> "locked", pair |-> worker[v].pair]
      BY <2>5, <3>1, LockedPair
    <3> QED
      BY <2>1, <3>1, <3>2, <3>3
  <2> QED
    BY <2>1, <2>3, <2>4, <2>5, AloneSpawn
<1> QED
  BY <1>1, <1>2, <1>3 DEF WorkerNext

\* A close is started for a pair that is HOLDING and whose mutex is free.
LEMMA AloneClose ==
  ASSUME TypeOK, TypeOK', Alone, NEW s \in Slots, NEW kind \in Closers, NEW p \in Pairs,
         Spawn(s, kind, p, {}), state[p] = "HOLDING", Unlocked(p),
         state' = [state EXCEPT ![p] = "EXITING"],
         UNCHANGED <<ready, worker, loop, user>>
  PROVE  Alone'
<1>1. kind # "entry"
  BY DEF Closers
<1>2. ASSUME NEW v \in Workers, worker'[v].pc = "locked"
      PROVE  worker'[v] = worker[v] /\ worker[v].pair # p
  BY <1>2, LockedPair
<1> QED
  BY <1>1, <1>2, AloneSpawn

\* Every step of a goroutine.
LEMMA AloneTask ==
  ASSUME TypeOK, TypeOK', Alone, NEW s \in Slots, TaskNext(s)
  PROVE  Alone'
<1>1. CASE SendEntry(s) \/ SendClose(s)
  <2>1. UNCHANGED <<state, ready, worker, loop, user>>
    BY <1>1 DEF SendEntry, SendClose, pairVars
  <2>2. tasks[s] \in Running
    BY <1>1, TaskRuns DEF SendEntry, SendClose, Closers
  <2>3. \A t \in Slots : tasks'[t].kind = tasks[t].kind /\ tasks'[t].pair = tasks[t].pair
    <3>1. PICK r : tasks' = [tasks EXCEPT ![s].result = r]
      BY <1>1 DEF SendEntry, SendClose
    <3> QED
      BY <2>2, <3>1 DEF TypeOK, Running
  <2> QED
    BY <2>1, <2>3, AloneKept DEF LoopBusy
<1> QED
  BY <1>1, AloneFinish DEF TaskNext

\* Every step of the RiskMonitor.
LEMMA AloneMonitor ==
  ASSUME TypeOK, TypeOK', Alone, MonitorNext
  PROVE  Alone'
<1>1. UNCHANGED <<worker, tasks, loop, user>>
  BY DEF MonitorNext, SeeStopLoss, RiskClose, RiskFailed, RiskClosed, RiskPauseFlag,
         RiskPauseWrite
<1>2. \A q \in Pairs : ready'[q] => ready[q]
  <2>1. ready' = ready \/ ready' = [ready EXCEPT ![monitor.pair] = FALSE]
    BY DEF MonitorNext, SeeStopLoss, RiskClose, RiskFailed, RiskClosed, RiskPauseFlag,
           RiskPauseWrite, PauseFlag, pairVars
  <2> QED
    BY <2>1 DEF TypeOK
<1>3. CASE UNCHANGED state
  BY <1>1, <1>2, <1>3, AloneQuiet
<1>4. CASE RiskFailed \/ RiskClosed \/ RiskPauseWrite
  <2>1. PICK p \in Pairs : p = monitor.pair
    BY <1>4, MonitorRuns DEF RiskFailed, RiskClosed, RiskPauseWrite, RiskTask
  <2>2. Unlocked(p) /\ \E st \in {"PAUSED", "ERROR", "EXITING"} : state' = [state EXCEPT ![p] = st]
    BY <1>4, <2>1 DEF RiskFailed, RiskClosed, RiskPauseWrite, PauseWrite
  <2> QED
    BY <1>1, <1>2, <2>2, AloneQuiet
<1> QED
  BY <1>3, <1>4 DEF MonitorNext, SeeStopLoss, RiskClose, RiskPauseFlag, pairVars

\* Every step of the event loop.  It takes a pair out of HOLDING before it
\* closes the other leg.
LEMMA AloneLoop ==
  ASSUME TypeOK, TypeOK', Alone, LoopNext
  PROVE  Alone'
<1>1. UNCHANGED <<worker, tasks, user>>
  BY DEF LoopNext, HandleLiquidation, IgnoreLiquidation, EmergencyClose,
         LiquidationFailed, LiquidationClosed, LiquidationPauseFlag,
         LiquidationPauseWrite, actorVars
<1>2. \A q \in Pairs : ready'[q] => ready[q]
  <2>1. ready' = ready \/ ready' = [ready EXCEPT ![loop.pair] = FALSE]
    BY DEF LoopNext, HandleLiquidation, IgnoreLiquidation, EmergencyClose,
           LiquidationFailed, LiquidationClosed, LiquidationPauseFlag,
           LiquidationPauseWrite, PauseFlag, pairVars
  <2> QED
    BY <2>1 DEF TypeOK
<1>3. CASE HandleLiquidation
  <2> DEFINE p == Head(posQueue).pair
  <2>1. p \in Pairs
    BY <1>3 DEF HandleLiquidation, TypeOK, Update
  <2>2. /\ state[p] = "HOLDING" /\ Unlocked(p) /\ ready' = ready
        /\ loop' = [pc |-> "close", pair |-> p, rest |-> Rest(Head(posQueue))]
        /\ state' = [state EXCEPT ![p] = "EXITING"]
    BY <1>3 DEF HandleLiquidation
  <2>3. state'[p] = "EXITING" /\ \A q \in Pairs \ {p} : state'[q] = state[q]
    BY <2>1, <2>2 DEF TypeOK
  <2>4. \A s \in Slots : tasks[s].kind # "free" => tasks[s].pair \in Pairs \ {p}
    BY <2>2, TaskPair DEF Alone, TypeOK
  <2>5. \A v \in Workers : worker[v].pc = "locked" => worker[v].pair \in Pairs \ {p}
    BY <2>2, LockedPair
  <2>6. LoopBusy' /\ loop'.pair = p
    BY <2>2 DEF LoopBusy
  <2>7. \A v, w \in Workers :
          worker'[v].pc = "locked" =>
            /\ state'[worker'[v].pair] = "READY"
            /\ worker'[w] = worker'[v] => w = v
    BY <1>1, <2>3, <2>5 DEF Alone
  <2>8. \A s \in Slots :
          tasks'[s].kind # "free" =>
            /\ state'[tasks'[s].pair] \notin {"READY", "HOLDING"}
            /\ LoopBusy' => loop'.pair # tasks'[s].pair
            /\ tasks'[s].kind = "entry" => ~ready'[tasks'[s].pair]
    BY <1>1, <2>2, <2>3, <2>4, <2>6 DEF Alone
  <2>9. \A q \in Pairs : state'[q] = "HOLDING" => ~ready'[q]
    BY <2>2, <2>3 DEF Alone
  <2>10. /\ \A u \in Users : user'[u].pc # "storeReady"
         /\ \A s, t \in Slots :
              tasks'[s].kind # "free" /\ tasks'[t].pair = tasks'[s].pair => t = s
    BY <1>1 DEF Alone
  <2>11. LoopBusy' => state'[loop'.pair] \notin {"READY", "HOLDING"}
    BY <2>3, <2>6
  <2> QED
    BY <2>7, <2>8, <2>9, <2>10, <2>11 DEF Alone
<1>4. CASE IgnoreLiquidation
  BY <1>1, <1>2, <1>4, AloneKept DEF IgnoreLiquidation, pairVars, actorVars, LoopBusy
<1>5. ASSUME NEW l \in loop.rest, EmergencyClose(l) PROVE Alone'
  <2>1. loop.pc = "close" /\ loop'.pair = loop.pair /\ state' = state
    BY <1>5, LoopRuns DEF EmergencyClose, LoopTask, pairVars
  <2> QED
    BY <1>1, <1>2, <2>1, AloneKept DEF LoopBusy
<1>6. CASE LiquidationFailed \/ LiquidationClosed \/ LiquidationPauseFlag
             \/ LiquidationPauseWrite
  <2>1. PICK p \in Pairs : p = loop.pair
    BY <1>6, LoopRuns DEF LiquidationFailed, LiquidationClosed, LiquidationPauseFlag,
                          LiquidationPauseWrite, LoopTask
  <2>2. ~LoopBusy'
    <3>1. loop \in LoopTask
      BY <1>6, LoopRuns DEF LiquidationFailed, LiquidationClosed,
                            LiquidationPauseFlag, LiquidationPauseWrite
    <3>2. \/ loop' = LoopIdle
          \/ \E pc \in {"flag", "pause"} : loop' = [loop EXCEPT !.pc = pc]
      BY <1>6 DEF LiquidationFailed, LiquidationClosed, LiquidationPauseFlag,
                  LiquidationPauseWrite
    <3> QED
      BY <3>1, <3>2 DEF LoopBusy, LoopIdle, LoopTask
  <2>3. \A q \in Pairs : state'[q] # state[q] =>
          Unlocked(q) /\ state'[q] \notin {"READY", "HOLDING"}
    <3>1. \/ state' = state
          \/ /\ Unlocked(p)
             /\ \E st \in {"ERROR", "PAUSED"} : state' = [state EXCEPT ![p] = st]
      BY <1>6, <2>1 DEF LiquidationFailed, LiquidationClosed, LiquidationPauseFlag,
                        LiquidationPauseWrite, PauseWrite
    <3> QED
      BY <3>1 DEF TypeOK
  <2> QED
    BY <1>1, <1>2, <2>2, <2>3, AloneKept
<1> QED
  BY <1>3, <1>4, <1>5, <1>6 DEF LoopNext

\* Every call of the API except StartPair.
LEMMA AloneUser ==
  ASSUME TypeOK, TypeOK', Alone, "start" \notin Commands, NEW u \in Users, UserNext(u)
  PROVE  Alone'
<1>1. ASSUME NEW p \in Pairs, NEW s \in Slots, ForceClosePair(u, p, s) PROVE Alone'
  <2>1. "force" \in Closers
    BY DEF Closers
  <2> QED
    BY <1>1, <2>1, AloneClose DEF ForceClosePair
<1>2. ASSUME NEW p \in Pairs, PausePair(u, p) \/ PauseLocked(u) PROVE Alone'
  <2>1. UNCHANGED <<worker, tasks, loop>>
    BY <1>2 DEF PausePair, PauseLocked
  <2>2. \A q \in Pairs : ready'[q] => ready[q]
    BY <1>2 DEF PausePair, PauseLocked, PauseFlag, TypeOK
  <2>3. \A q \in Pairs : state'[q] # state[q] =>
          Unlocked(q) /\ state'[q] \notin {"READY", "HOLDING"}
    BY <1>2 DEF PausePair, PauseLocked, PauseWrite, TypeOK
  <2>4. \A v \in Users : user'[v].pc = "storeReady" => user[v].pc = "storeReady"
    <3>1. \/ user' = [user EXCEPT ![u] = [pc |-> "pauseLock", pair |-> p]]
          \/ user' = [user EXCEPT ![u] = Idle]
      BY <1>2 DEF PausePair, PauseLocked
    <3>2. \A v \in Users \ {u} : user'[v] = user[v]
      BY <3>1 DEF TypeOK
    <3>3. user'[u].pc # "storeReady"
      BY <3>1 DEF TypeOK, Idle
    <3> QED
      BY <3>2, <3>3
  <2> QED
    BY <2>1, <2>2, <2>3, <2>4, AloneKept DEF LoopBusy
<1>3. CASE PauseLocked(u)
  <2>1. user[u].pair \in Pairs
    BY <1>3, UserRuns DEF PauseLocked
  <2> QED
    BY <1>2, <1>3, <2>1
<1>4. ~StoreReady(u)
  BY DEF StoreReady, Alone
<1> QED
  BY <1>1, <1>2, <1>3, <1>4 DEF UserNext, StartPair

\* Every step that is not a StartPair leaves a pair one arbitrage at a time.
LEMMA AloneStep ==
  "start" \notin Commands =>
    (TypeOK /\ TypeOK' /\ Alone /\ [Next]_vars => Alone')
<1> SUFFICES ASSUME "start" \notin Commands, TypeOK, TypeOK', Alone, [Next]_vars
             PROVE  Alone'
  OBVIOUS
<1>1. CASE CheckerNext
  <2>1. CASE Collect \/ \E p \in Pairs : Stay(p)
    BY <2>1, AloneQuiet DEF Collect, Stay, pairVars
  <2>2. ASSUME NEW p \in Pairs, NEW s \in Slots, NEW kind \in {"exit", "stop"},
               Leave(p, s, kind)
        PROVE  Alone'
    <3>1. kind \in Closers
      BY DEF Closers
    <3> QED
      BY <2>2, <3>1, AloneClose DEF Leave
  <2> QED
    BY <1>1, <2>1, <2>2 DEF CheckerNext
<1>2. CASE \E p \in Pairs : \E x \in Exchanges : Liquidate(p, x)
  BY <1>2, AloneQuiet DEF Liquidate, pairVars, actorVars
<1>3. CASE UNCHANGED vars
  BY <1>3, AloneQuiet DEF vars, pairVars, actorVars
<1> QED
  BY <1>1, <1>2, <1>3, AloneWorker, AloneTask, AloneMonitor, AloneLoop, AloneUser
  DEF Next

\* Initially nothing works on any pair.
LEMMA AloneInit == Init => Alone
<1> SUFFICES ASSUME Init PROVE Alone
  OBVIOUS
<1>1. /\ \A s \in Slots : tasks[s].kind = "free"
      /\ \A w \in Workers : worker[w].pc = "idle"
      /\ \A u \in Users : user[u].pc = "idle"
      /\ ~LoopBusy
  BY DEF Init, Free, Idle, LoopBusy, LoopIdle
<1>2. \A p \in Pairs : state[p] # "HOLDING"
  BY DEF Init
<1> QED
  BY <1>1, <1>2 DEF Alone

\* While StartPair is not called, every pair has one arbitrage at a time.
LEMMA OneAtATime == "start" \notin Commands /\ Spec => []Alone
<1>1. "start" \notin Commands /\ TypeOK /\ TypeOK' /\ Alone /\ [Next]_vars => Alone'
  BY AloneStep
<1> SUFFICES ASSUME "start" \notin Commands PROVE Spec => []Alone
  OBVIOUS
<1>2. TypeOK /\ TypeOK' /\ Alone /\ [Next]_vars => Alone'
  BY <1>1
<1> QED
  BY <1>2, TypeCorrect, AloneInit, PTL DEF Spec

\* Unless StartPair is called again, the exit checker's filter on isReady hides no
\* pair that is HOLDING, whatever the pauses, closes and liquidations.
THEOREM HoldingIsWatched == Spec => []HoldingWatched
<1>1. CASE "start" \in Commands
  <2>1. HoldingWatched
    BY <1>1 DEF HoldingWatched
  <2> QED
    BY <2>1, PTL
<1>2. CASE "start" \notin Commands
  <2>1. Alone => HoldingWatched
    BY DEF Alone, HoldingWatched
  <2>2. Spec => []Alone
    BY <1>2, OneAtATime
  <2> QED
    BY <2>1, <2>2, PTL
<1> QED
  BY <1>1, <1>2
-----------------------------------------------------------------------------
(* The counter covers the work.                                             *)

\* Without stop-losses the RiskMonitor rests, and activeArbs counts the
\* finitely many goroutines and open positions.
Covered ==
  /\ monitor = Idle
  /\ IsFiniteSet(Busy) /\ IsFiniteSet(Holding)
  /\ activeArbs >= Cardinality(Busy) + Cardinality(Holding)

\* A finite set grows by at most the element added to it.
LEMMA Grown ==
  ASSUME NEW S, IsFiniteSet(S), NEW x, NEW T, T \subseteq S \cup {x}
  PROVE  /\ IsFiniteSet(T) /\ Cardinality(S) \in Nat /\ Cardinality(T) \in Nat
         /\ Cardinality(T) <= Cardinality(S) + 1
<1>1. /\ IsFiniteSet(S \cup {x}) /\ Cardinality(S) \in Nat
      /\ Cardinality(S \cup {x}) \in Nat
      /\ Cardinality(S \cup {x}) <= Cardinality(S) + 1
  BY FS_AddElement, FS_CardinalityType
<1>2. IsFiniteSet(T) /\ Cardinality(T) <= Cardinality(S \cup {x}) /\ Cardinality(T) \in Nat
  BY <1>1, FS_Subset, FS_CardinalityType
<1> QED
  BY <1>1, <1>2

\* A subset of a finite set that lacks one of its elements is smaller.
LEMMA Shrunk ==
  ASSUME NEW S, IsFiniteSet(S), NEW x \in S, NEW T, T \subseteq S \ {x}
  PROVE  /\ IsFiniteSet(T) /\ Cardinality(S) \in Nat /\ Cardinality(T) \in Nat
         /\ Cardinality(T) <= Cardinality(S) - 1
<1>1. /\ IsFiniteSet(S \ {x}) /\ Cardinality(S) \in Nat
      /\ Cardinality(S \ {x}) = Cardinality(S) - 1
  BY FS_RemoveElement, FS_CardinalityType
<1>2. IsFiniteSet(T) /\ Cardinality(T) <= Cardinality(S \ {x}) /\ Cardinality(T) \in Nat
  BY <1>1, FS_Subset, FS_CardinalityType
<1> QED
  BY <1>1, <1>2

\* A subset of a finite set is not larger.
LEMMA NotGrown ==
  ASSUME NEW S, IsFiniteSet(S), NEW T, T \subseteq S
  PROVE  /\ IsFiniteSet(T) /\ Cardinality(S) \in Nat /\ Cardinality(T) \in Nat
         /\ Cardinality(T) <= Cardinality(S)
BY FS_Subset, FS_CardinalityType

\* A step that starts no goroutine, opens no position and counts none less.
LEMMA CoveredKept ==
  ASSUME TypeOK, Covered, monitor' = monitor, activeArbs' = activeArbs,
         \A s \in Slots : tasks'[s].kind # "free" => tasks[s].kind # "free",
         \A p \in Pairs : state'[p] = "HOLDING" => state[p] = "HOLDING"
  PROVE  Covered'
<1>1. Busy' \subseteq Busy /\ Holding' \subseteq Holding
  BY DEF Busy, Holding
<1>2. /\ IsFiniteSet(Busy') /\ Cardinality(Busy) \in Nat /\ Cardinality(Busy') \in Nat
      /\ Cardinality(Busy') <= Cardinality(Busy)
  BY <1>1, NotGrown DEF Covered
<1>3. /\ IsFiniteSet(Holding') /\ Cardinality(Holding) \in Nat
      /\ Cardinality(Holding') \in Nat
      /\ Cardinality(Holding') <= Cardinality(Holding)
  BY <1>1, NotGrown DEF Covered
<1> QED
  BY <1>2, <1>3 DEF Covered, TypeOK, Idle

\* An entry is counted when its goroutine starts.
LEMMA CoveredEnter ==
  ASSUME TypeOK, Covered, NEW w \in Workers, NEW p \in Pairs, NEW s \in Slots,
         NEW a \in Exchanges, NEW b \in Exchanges, Enter(w, p, s, a, b)
  PROVE  Covered'
<1>1. Busy' \subseteq Busy \cup {s}
  BY DEF Busy, Enter, Spawn, TypeOK
<1>2. Holding' \subseteq Holding
  BY DEF Holding, Enter, MarkEntering, TypeOK
<1>3. /\ IsFiniteSet(Busy') /\ Cardinality(Busy) \in Nat /\ Cardinality(Busy') \in Nat
      /\ Cardinality(Busy') <= Cardinality(Busy) + 1
  BY <1>1, Grown DEF Covered
<1>4. /\ IsFiniteSet(Holding') /\ Cardinality(Holding) \in Nat
      /\ Cardinality(Holding') \in Nat
      /\ Cardinality(Holding') <= Cardinality(Holding)
  BY <1>2, NotGrown DEF Covered
<1>5. activeArbs' = activeArbs + 1 /\ monitor' = monitor
  BY DEF Enter, MarkEntering
<1> QED
  BY <1>3, <1>4, <1>5 DEF Covered, TypeOK, Idle

\* A close takes over the place of the position it closes.
LEMMA CoveredClose ==
  ASSUME TypeOK, Covered, NEW p \in Pairs, NEW s \in Slots, NEW kind,
         Spawn(s, kind, p, {}), state[p] = "HOLDING",
         state' = [state EXCEPT ![p] = "EXITING"],
         UNCHANGED <<activeArbs, monitor>>
  PROVE  Covered'
<1>1. Busy' \subseteq Busy \cup {s}
  BY DEF Busy, Spawn, TypeOK
<1>2. p \in Holding /\ Holding' \subseteq Holding \ {p}
  BY DEF Holding, TypeOK
<1>3. /\ IsFiniteSet(Busy') /\ Cardinality(Busy) \in Nat /\ Cardinality(Busy') \in Nat
      /\ Cardinality(Busy') <= Cardinality(Busy) + 1
  BY <1>1, Grown DEF Covered
<1>4. /\ IsFiniteSet(Holding') /\ Cardinality(Holding) \in Nat
      /\ Cardinality(Holding') \in Nat
      /\ Cardinality(Holding') <= Cardinality(Holding) - 1
  BY <1>2, Shrunk DEF Covered
<1> QED
  BY <1>3, <1>4 DEF Covered, TypeOK, Idle

\* A goroutine that ends leaves at most one position, and then counts on, or
\* none, and counts at most its own place less.
LEMMA CoveredFinish ==
  ASSUME TypeOK, Covered, NEW s \in Slots,
         FinishEntry(s) \/ FinishExit(s) \/ FinishForce(s)
  PROVE  Covered'
<1> DEFINE p == tasks[s].pair
<1>1. s \in Busy /\ p \in Pairs
  BY TaskRuns DEF Busy, FinishEntry, FinishExit, FinishForce, Running
<1>2. Busy' \subseteq Busy \ {s}
  BY DEF Busy, FinishEntry, FinishExit, FinishForce, TypeOK, Free
<1>3. /\ IsFiniteSet(Busy') /\ Cardinality(Busy) \in Nat /\ Cardinality(Busy') \in Nat
      /\ Cardinality(Busy') <= Cardinality(Busy) - 1
  BY <1>1, <1>2, Shrunk DEF Covered
<1>4. PICK st \in {"HOLDING", "PAUSED", "READY", "ERROR"} :
        /\ state' = [state EXCEPT ![p] = st]
        /\ st = "HOLDING" => activeArbs' = activeArbs
        /\ activeArbs' \in {activeArbs, activeArbs - 1}
        /\ monitor' = monitor
  BY DEF FinishEntry, FinishExit, FinishForce
<1>5. CASE st = "HOLDING"
  <2>1. Holding' \subseteq Holding \cup {p}
    BY <1>4 DEF Holding, TypeOK
  <2>2. /\ IsFiniteSet(Holding') /\ Cardinality(Holding) \in Nat
        /\ Cardinality(Holding') \in Nat
        /\ Cardinality(Holding') <= Cardinality(Holding) + 1
    BY <2>1, Grown DEF Covered
  <2> QED
    BY <1>3, <1>4, <1>5, <2>2 DEF Covered, TypeOK, Idle
<1>6. CASE st # "HOLDING"
  <2>1. Holding' \subseteq Holding
    BY <1>1, <1>4, <1>6 DEF Holding, TypeOK
  <2>2. /\ IsFiniteSet(Holding') /\ Cardinality(Holding) \in Nat
        /\ Cardinality(Holding') \in Nat
        /\ Cardinality(Holding') <= Cardinality(Holding)
    BY <2>1, NotGrown DEF Covered
  <2> QED
    BY <1>3, <1>4, <2>2 DEF Covered, TypeOK, Idle
<1> QED
  BY <1>5, <1>6

\* Every step keeps the work covered.
LEMMA CoveredStep ==
  StopLossPairs = {} => (TypeOK /\ Covered /\ [Next]_vars => Covered')
<1> SUFFICES ASSUME StopLossPairs = {}, TypeOK, Covered, [Next]_vars PROVE Covered'
  OBVIOUS
<1>1. ASSUME NEW w \in Workers, NEW p \in Pairs, WorkerNext(w, p) PROVE Covered'
  <2>1. CASE SeeOpportunity(w, p) \/ Admit(w, p) \/ TurnAway(w, p) \/ Decline(w, p)
    BY <2>1, CoveredKept DEF SeeOpportunity, Admit, TurnAway, Decline, pairVars
  <2> QED
    BY <1>1, <2>1, CoveredEnter DEF WorkerNext
<1>2. ASSUME NEW s \in Slots, TaskNext(s) PROVE Covered'
  <2>1. CASE SendEntry(s) \/ SendClose(s)
    <3>1. UNCHANGED <<state, activeArbs, monitor>>
      BY <2>1 DEF SendEntry, SendClose, pairVars
    <3>2. \A t \in Slots : tasks'[t].kind # "free" => tasks[t].kind # "free"
      <4>1. tasks[s].kind # "free"
        BY <2>1 DEF SendEntry, SendClose, Closers
      <4>2. \A t \in Slots \ {s} : tasks'[t] = tasks[t]
        BY <2>1 DEF SendEntry, SendClose, TypeOK
      <4> QED
        BY <4>1, <4>2
    <3> QED
      BY <3>1, <3>2, CoveredKept
  <2> QED
    BY <1>2, <2>1, CoveredFinish DEF TaskNext
<1>3. CASE CheckerNext
  <2>1. CASE Collect \/ \E p \in Pairs : Stay(p)
    BY <2>1, CoveredKept DEF Collect, Stay, pairVars
  <2> QED
    BY <1>3, <2>1, CoveredClose DEF CheckerNext, Leave
<1>4. ~MonitorNext
  BY DEF MonitorNext, SeeStopLoss, RiskClose, RiskFailed, RiskClosed, RiskPauseFlag,
         RiskPauseWrite, Covered, Idle
<1>5. CASE LoopNext
  <2>1. UNCHANGED <<tasks, monitor, activeArbs>>
    BY <1>5 DEF LoopNext, HandleLiquidation, IgnoreLiquidation, EmergencyClose,
                LiquidationFailed, LiquidationClosed, LiquidationPauseFlag,
                LiquidationPauseWrite, actorVars, pairVars
  <2>2. state' = state \/ \E q, st : /\ st \in {"EXITING", "ERROR", "PAUSED"}
                                     /\ state' = [state EXCEPT ![q] = st]
    BY <1>5 DEF LoopNext, HandleLiquidation, IgnoreLiquidation, EmergencyClose,
                LiquidationFailed, LiquidationClosed, LiquidationPauseFlag,
                LiquidationPauseWrite, PauseWrite, pairVars
  <2>3. \A p \in Pairs : state'[p] = "HOLDING" => state[p] = "HOLDING"
    BY <2>2 DEF TypeOK
  <2> QED
    BY <2>1, <2>3, CoveredKept
<1>6. ASSUME NEW u \in Users, UserNext(u) PROVE Covered'
  <2>1. CASE StoreReady(u) \/ \E p \in Pairs : PausePair(u, p)
    BY <2>1, CoveredKept DEF StoreReady, PausePair
  <2>2. CASE PauseLocked(u) \/ \E p \in Pairs : StartPair(u, p)
    <3>1. UNCHANGED <<tasks, monitor, activeArbs>>
      BY <2>2 DEF PauseLocked, StartPair
    <3>2. \E q, st : st \in {"READY", "PAUSED"} /\ state' = [state EXCEPT ![q] = st]
      BY <2>2 DEF PauseLocked, StartPair, PauseWrite
    <3>3. \A p \in Pairs : state'[p] = "HOLDING" => state[p] = "HOLDING"
      BY <3>2 DEF TypeOK
    <3> QED
      BY <3>1, <3>3, CoveredKept
  <2> QED
    BY <1>6, <2>1, <2>2, CoveredClose DEF UserNext, ForceClosePair
<1>7. CASE \E p \in Pairs : \E x \in Exchanges : Liquidate(p, x)
  BY <1>7, CoveredKept DEF Liquidate, pairVars, actorVars
<1>8. CASE UNCHANGED vars
  BY <1>8, CoveredKept DEF vars, pairVars, actorVars
<1> QED
  BY <1>1, <1>2, <1>3, <1>4, <1>5, <1>6, <1>7, <1>8 DEF Next

\* Initially there is no work.
LEMMA CoveredInit == Init => Covered
<1> SUFFICES ASSUME Init PROVE Covered
  OBVIOUS
<1>1. Busy = {} /\ Holding = {}
  BY DEF Init, Busy, Holding, Free
<1>2. /\ IsFiniteSet(Busy) /\ Cardinality(Busy) = 0
      /\ IsFiniteSet(Holding) /\ Cardinality(Holding) = 0
  BY <1>1, FS_EmptySet
<1> QED
  BY <1>2 DEF Init, Covered

\* Unless a stop-loss lets the RiskMonitor close a position a second time, the
\* counter that enforces the limit never falls behind the arbitrages in flight and
\* the open positions, restarts and liquidations included.
THEOREM ArbsCoverTheWork == Spec => []ArbsCoverWork
<1>1. CASE StopLossPairs # {}
  <2>1. ArbsCoverWork
    BY <1>1 DEF ArbsCoverWork
  <2> QED
    BY <2>1, PTL
<1>2. CASE StopLossPairs = {}
  <2>1. TypeOK /\ Covered /\ [Next]_vars => Covered'
    BY <1>2, CoveredStep
  <2>2. Covered => ArbsCoverWork
    BY DEF Covered, ArbsCoverWork
  <2> QED
    BY <2>1, <2>2, TypeCorrect, CoveredInit, PTL DEF Spec
<1> QED
  BY <1>1, <1>2
-----------------------------------------------------------------------------
(* What the engine records is what the exchanges hold.                      *)

\* The holdings of a pair that has the legs ls and nothing else.
Value(ls) == Filled([x \in Exchanges |-> 0], Each(ls, 1))

\* The same number of orders on every leg amounts to that number.
LEMMA EachAmount ==
  ASSUME NEW ls, NEW n \in Int, NEW x, NEW side
  PROVE  Amount(Each(ls, n), x, side) =
           IF [ex |-> x, side |-> side] \in ls THEN n ELSE 0
BY DEF Amount, Each

\* What a round of orders adds to an exchange's holding.
LEMMA EachFilled ==
  ASSUME NEW h, NEW ls, NEW n \in Int
  PROVE  Filled(h, Each(ls, n)) =
           [x \in Exchanges |->
              h[x] + (IF [ex |-> x, side |-> "long"] \in ls THEN n ELSE 0)
                   - (IF [ex |-> x, side |-> "short"] \in ls THEN n ELSE 0)]
BY EachAmount DEF Filled

\* What each exchange holds of a pair with the legs ls.
LEMMA ValueOf ==
  ASSUME NEW ls
  PROVE  Value(ls) = [x \in Exchanges |->
                        (IF [ex |-> x, side |-> "long"] \in ls THEN 1 ELSE 0)
                      - (IF [ex |-> x, side |-> "short"] \in ls THEN 1 ELSE 0)]
<1> DEFINE zero == [x \in Exchanges |-> 0]
<1>1. \A x \in Exchanges : zero[x] = 0
  OBVIOUS
<1>2. Value(ls) = Filled(zero, Each(ls, 1))
  BY DEF Value
<1> HIDE DEF zero
<1>3. Filled(zero, Each(ls, 1)) =
        [x \in Exchanges |->
           zero[x] + (IF [ex |-> x, side |-> "long"] \in ls THEN 1 ELSE 0)
                   - (IF [ex |-> x, side |-> "short"] \in ls THEN 1 ELSE 0)]
  BY EachFilled
<1> QED
  BY <1>1, <1>2, <1>3

\* One order on each leg opens it, and one more closes it again.
LEMMA OpenAndClose ==
  ASSUME NEW ls
  PROVE  /\ Filled(Value({}), Each(ls, 1)) = Value(ls)
         /\ Filled(Value({}), Each(ls, 0)) = Value({})
         /\ Filled(Value(ls), Each(ls, -1)) = Value({})
<1> DEFINE L(x) == [ex |-> x, side |-> "long"] \in ls
           S(x) == [ex |-> x, side |-> "short"] \in ls
           none == Value({})
           all == Value(ls)
<1>1. none = [x \in Exchanges |-> 0]
  <2>1. none = [x \in Exchanges |->
                  (IF [ex |-> x, side |-> "long"] \in {} THEN 1 ELSE 0)
                - (IF [ex |-> x, side |-> "short"] \in {} THEN 1 ELSE 0)]
    BY ValueOf
  <2> QED
    BY <2>1
<1>2. all = [x \in Exchanges |-> (IF L(x) THEN 1 ELSE 0) - (IF S(x) THEN 1 ELSE 0)]
  BY ValueOf
<1> HIDE DEF none, all
<1>3. Filled(none, Each(ls, 1)) =
        [x \in Exchanges |-> none[x] + (IF L(x) THEN 1 ELSE 0) - (IF S(x) THEN 1 ELSE 0)]
  BY EachFilled
<1>4. \A n \in Int :
        Filled(none, Each(ls, n)) =
          [x \in Exchanges |-> none[x] + (IF L(x) THEN n ELSE 0) - (IF S(x) THEN n ELSE 0)]
  BY EachFilled
<1>5. Filled(all, Each(ls, -1)) =
        [x \in Exchanges |-> all[x] + (IF L(x) THEN -1 ELSE 0) - (IF S(x) THEN -1 ELSE 0)]
  <2>1. -1 \in Int
    OBVIOUS
  <2> QED
    BY <2>1, EachFilled
<1> HIDE DEF L, S
<1>6. Filled(none, Each(ls, 1)) = all
  BY <1>1, <1>2, <1>3
<1>7. Filled(none, Each(ls, 0)) = none
  <2>1. PICK n \in Int : n = 0
    OBVIOUS
  <2> DEFINE sum(x) == none[x] + (IF L(x) THEN n ELSE 0) - (IF S(x) THEN n ELSE 0)
  <2>2. Filled(none, Each(ls, n)) = [x \in Exchanges |-> sum(x)]
    BY <1>4
  <2>3. ASSUME NEW x \in Exchanges PROVE sum(x) = 0
    <3>1. none[x] = 0 /\ (IF L(x) THEN n ELSE 0) = 0 /\ (IF S(x) THEN n ELSE 0) = 0
      BY <1>1, <2>1
    <3> QED
      BY <3>1
  <2> HIDE DEF sum
  <2>4. Filled(none, Each(ls, n)) = none
    BY <1>1, <2>2, <2>3
  <2> QED
    BY <2>1, <2>4
<1>8. Filled(all, Each(ls, -1)) = none
  BY <1>1, <1>2, <1>5
<1> QED
  BY <1>6, <1>7, <1>8 DEF none, all

\* When only closes fail, an entry fills both legs once or none.
LEMMA CleanEntry ==
  ASSUME Faults \subseteq {"close"}, NEW ls, NEW o \in EntryOutcomes(ls)
  PROVE  o.fills = Each(ls, IF o.result = "ok" THEN 1 ELSE 0)
<1>1. /\ "lost" \notin Faults /\ "timeout" \notin Faults
      /\ {"rollback", "unseen"} \cap Faults = {}
  OBVIOUS
<1>2. o \in [fills : [ls -> 0..1], result : {"ok", "pause", "fail"}]
  BY <1>1 DEF EntryOutcomes
<1>3. o.fills \in [ls -> 0..1]
  BY <1>2
<1>4. ASSUME o.result = "ok", NEW l \in ls PROVE o.fills[l] = 1
  <2>1. o.fills[l] > 0
    BY <1>4 DEF EntryOutcomes
  <2> QED
    BY <1>3, <2>1
<1>5. ASSUME o.result = "pause", NEW m \in ls PROVE o.fills[m] = 0
  <2>1. PICK l \in ls : /\ o.fills[l] # 1
                        /\ \A k \in ls \ {l} : o.fills[k] <= 0
    BY <1>1, <1>5 DEF EntryOutcomes
  <2>2. o.fills[l] \in 0..1 /\ o.fills[m] \in 0..1
    BY <1>3
  <2> QED
    BY <2>1, <2>2
<1>6. ASSUME o.result = "fail", NEW m \in ls PROVE o.fills[m] = 0
  BY <1>1, <1>6 DEF EntryOutcomes
<1>7. o.result \in {"ok", "pause", "fail"}
  BY <1>2
<1> QED
  BY <1>3, <1>4, <1>5, <1>6, <1>7 DEF Each

\* The event loop rests when nothing is liquidated.
AtRest == posQueue = <<>> /\ loop = LoopIdle

LEMMA NoLiquidation ==
  ASSUME MaxLiquidations = 0, TypeOK, AtRest
  PROVE  ~LoopNext /\ \A p \in Pairs, x \in Exchanges : ~Liquidate(p, x)
<1>1. \A p \in Pairs, x \in Exchanges : ~Liquidate(p, x)
  BY DEF TypeOK, Liquidate
<1>2. ~LoopNext
  BY DEF LoopNext, AtRest, LoopIdle, HandleLiquidation, IgnoreLiquidation,
         LiquidationFailed, LiquidationClosed, LiquidationPauseFlag,
         LiquidationPauseWrite
<1> QED
  BY <1>1, <1>2

\* Every other step leaves the event loop and its queue alone.
LEMMA RestStep ==
  MaxLiquidations = 0 => (TypeOK /\ AtRest /\ [Next]_vars => AtRest')
<1> SUFFICES ASSUME MaxLiquidations = 0, TypeOK, AtRest, [Next]_vars PROVE AtRest'
  OBVIOUS
<1>1. ~LoopNext /\ ~\E p \in Pairs : \E x \in Exchanges : Liquidate(p, x)
  BY NoLiquidation
<1>2. ASSUME NEW w \in Workers, NEW p \in Pairs, WorkerNext(w, p)
      PROVE  UNCHANGED <<posQueue, loop>>
  BY <1>2 DEF WorkerNext, SeeOpportunity, Admit, TurnAway, Decline, Enter, externalVars
<1>3. ASSUME NEW s \in Slots, TaskNext(s) PROVE UNCHANGED <<posQueue, loop>>
  BY <1>3 DEF TaskNext, SendEntry, SendClose, FinishEntry, FinishExit, FinishForce,
              externalVars
<1>4. CASE CheckerNext
  BY <1>4 DEF CheckerNext, Collect, Stay, Leave, externalVars, AtRest
<1>5. CASE MonitorNext
  BY <1>5 DEF MonitorNext, SeeStopLoss, RiskClose, RiskFailed, RiskClosed,
              RiskPauseFlag, RiskPauseWrite, externalVars, AtRest
<1>6. ASSUME NEW u \in Users, UserNext(u) PROVE UNCHANGED <<posQueue, loop>>
  BY <1>6 DEF UserNext, StartPair, PausePair, ForceClosePair, StoreReady, PauseLocked,
              externalVars
<1>7. CASE UNCHANGED vars
  BY <1>7 DEF vars, actorVars, externalVars, AtRest
<1> QED
  BY <1>1, <1>2, <1>3, <1>4, <1>5, <1>6, <1>7 DEF Next, AtRest

\* What is recorded of a pair and what the exchanges hold for it.  A READY pair has
\* no legs; while an entry runs the pair has none and the exchanges hold what its
\* orders filled; while a close runs they hold both legs until it succeeds.
BookOf(p) ==
  /\ state[p] = "READY" => legs[p] = {}
  /\ (\A s \in Slots : tasks[s].pair # p) /\ (legs[p] = {} \/ state[p] = "HOLDING") =>
       net[p] = Value(legs[p])
  /\ \A s \in Slots : Entering(s, p) =>
       /\ legs[p] = {}
       /\ net[p] = IF tasks[s].result = "ok" THEN Value(tasks[s].legs) ELSE Value({})
  /\ \A s \in Slots : Closing(s, p) =>
       /\ legs[p] # {}
       /\ tasks[s].result = "none" => net[p] = Value(legs[p])
       /\ tasks[s].result = "ok" => net[p] = Value({})

\* The RiskMonitor has no business with a pair that has no stop-loss.
Books ==
  /\ monitor = Idle \/ monitor.pair \in StopLossPairs
  /\ \A p \in Pairs \ StopLossPairs : BookOf(p)

\* A step that does not concern the pair, or only takes it out of HOLDING.
LEMMA BookKept ==
  ASSUME NEW p \in Pairs, BookOf(p), legs'[p] = legs[p], net'[p] = net[p],
         state'[p] = state[p] \/ state'[p] \notin {"READY", "HOLDING"},
         \A s \in Slots : tasks'[s].pair = p \/ tasks[s].pair = p => tasks'[s] = tasks[s]
  PROVE  BookOf(p)'
<1> USE DEF BookOf, Entering, Closing
<1>1. (state[p] = "READY" => legs[p] = {})'
  OBVIOUS
<1>2. ASSUME \A s \in Slots : tasks'[s].pair # p, legs'[p] = {} \/ state'[p] = "HOLDING"
      PROVE  net'[p] = Value(legs'[p])
  <2>1. \A s \in Slots : tasks[s].pair # p
    BY <1>2
  <2>2. legs[p] = {} \/ state[p] = "HOLDING"
    BY <1>2
  <2> QED
    BY <2>1, <2>2
<1>3. ASSUME NEW s \in Slots, tasks'[s].pair = p PROVE tasks'[s] = tasks[s]
  BY <1>3
<1>4. ASSUME NEW s \in Slots, Entering(s, p)'
      PROVE  (/\ legs[p] = {}
              /\ net[p] = IF tasks[s].result = "ok" THEN Value(tasks[s].legs)
                                                    ELSE Value({}))'
  BY <1>3, <1>4 DEF Value
<1>5. ASSUME NEW s \in Slots, Closing(s, p)'
      PROVE  (/\ legs[p] # {}
              /\ tasks[s].result = "none" => net[p] = Value(legs[p])
              /\ tasks[s].result = "ok" => net[p] = Value({}))'
  BY <1>3, <1>5 DEF Value
<1> QED
  BY <1>1, <1>2, <1>4, <1>5 DEF Value

\* One goroutine works on the pair, and the book says what it has done.
LEMMA BookOfOne ==
  ASSUME NEW p \in Pairs, NEW s \in Slots, tasks[s].pair = p,
         \A t \in Slots : tasks[t].pair = p => t = s,
         state[p] # "READY",
         tasks[s].kind = "entry" =>
           /\ legs[p] = {}
           /\ net[p] = IF tasks[s].result = "ok" THEN Value(tasks[s].legs) ELSE Value({}),
         tasks[s].kind \in Closers =>
           /\ legs[p] # {}
           /\ tasks[s].result = "none" => net[p] = Value(legs[p])
           /\ tasks[s].result = "ok" => net[p] = Value({})
  PROVE  BookOf(p)
BY DEF BookOf, Entering, Closing

\* Nothing works on the pair.
LEMMA BookOfNone ==
  ASSUME NEW p \in Pairs, \A t \in Slots : tasks[t].pair # p,
         state[p] = "READY" => legs[p] = {},
         legs[p] = {} \/ state[p] = "HOLDING" => net[p] = Value(legs[p])
  PROVE  BookOf(p)
BY DEF BookOf, Entering, Closing

\* A pair that is READY or HOLDING has no goroutine.
LEMMA NoTask ==
  ASSUME TypeOK, Alone, NEW p \in Pairs, state[p] \in {"READY", "HOLDING"}
  PROVE  \A s \in Slots : tasks[s].pair # p
<1> SUFFICES ASSUME NEW s \in Slots, tasks[s].pair = p PROVE FALSE
  OBVIOUS
<1>1. tasks[s].kind # "free"
  BY TaskPair, PairsAssumption DEF TypeOK
<1> QED
  BY <1>1 DEF Alone

\* Only one goroutine works on a pair.
LEMMA OneTask ==
  ASSUME Alone, NEW s \in Slots, tasks[s].kind # "free"
  PROVE  \A t \in Slots : tasks[t].pair = tasks[s].pair => t = s
BY DEF Alone

\* An entry starts with empty books.
LEMMA BookEnter ==
  ASSUME TypeOK, Alone, Books, NEW w \in Workers, NEW p \in Pairs, NEW s \in Slots,
         NEW a \in Exchanges, NEW b \in Exchanges, Enter(w, p, s, a, b),
         NEW q \in Pairs \ StopLossPairs
  PROVE  BookOf(q)'
<1>1. /\ UNCHANGED <<legs, net>>
      /\ Spawn(s, "entry", p, Hedge(a, b))
      /\ state' = [state EXCEPT ![p] = "ENTERING"]
  BY DEF Enter, MarkEntering, externalVars
<1>2. /\ tasks[s].pair = NoPair /\ tasks'[s].pair = p
      /\ tasks'[s].kind = "entry" /\ tasks'[s].result = "none"
      /\ \A t \in Slots \ {s} : tasks'[t] = tasks[t]
  BY <1>1 DEF Spawn, Free, TypeOK
<1>3. BookOf(q)
  BY DEF Books
<1>4. CASE q # p
  <2>1. \A t \in Slots : tasks'[t].pair = q \/ tasks[t].pair = q => tasks'[t] = tasks[t]
    BY <1>2, <1>4, PairsAssumption
  <2>2. state'[q] = state[q]
    BY <1>1, <1>4 DEF TypeOK
  <2> QED
    BY <1>1, <1>3, <2>1, <2>2, BookKept
<1>5. CASE q = p
  <2>1. worker[w].pc = "locked" /\ worker[w].pair = p
    BY DEF Enter
  <2>2. state[p] = "READY"
    BY <2>1 DEF Alone
  <2>3. \A t \in Slots : tasks[t].pair # p
    BY <2>2, NoTask
  <2>4. legs[p] = {} /\ net[p] = Value({})
    BY <1>3, <1>5, <2>2, <2>3 DEF BookOf
  <2>5. /\ \A t \in Slots : tasks'[t].pair = p => t = s
        /\ state'[p] = "ENTERING"
    BY <1>1, <1>2, <2>3 DEF TypeOK
  <2>6. BookOf(p)'
    BY <1>1, <1>2, <2>4, <2>5 DEF BookOf, Entering, Closing, Closers, Value
  <2> QED
    BY <1>5, <2>6
<1> QED
  BY <1>4, <1>5

\* A close starts from the position's books.
LEMMA BookClose ==
  ASSUME TypeOK, Alone, HoldingIndexed, Books, NEW p \in Pairs, NEW s \in Slots,
         NEW kind \in Closers, Spawn(s, kind, p, {}), state[p] = "HOLDING",
         state' = [state EXCEPT ![p] = "EXITING"], UNCHANGED <<legs, net>>,
         NEW q \in Pairs \ StopLossPairs
  PROVE  BookOf(q)'
<1>1. /\ tasks[s].pair = NoPair /\ tasks'[s].pair = p
      /\ tasks'[s].kind = kind /\ tasks'[s].result = "none"
      /\ \A t \in Slots \ {s} : tasks'[t] = tasks[t]
  BY DEF Spawn, Free, TypeOK
<1>2. BookOf(q)
  BY DEF Books
<1>3. CASE q # p
  <2>1. \A t \in Slots : tasks'[t].pair = q \/ tasks[t].pair = q => tasks'[t] = tasks[t]
    BY <1>1, <1>3, PairsAssumption
  <2>2. state'[q] = state[q]
    BY <1>3 DEF TypeOK
  <2> QED
    BY <1>2, <2>1, <2>2, BookKept
<1>4. CASE q = p
  <2>1. \A t \in Slots : tasks[t].pair # p
    BY NoTask
  <2>2. net[p] = Value(legs[p])
    BY <1>2, <1>4, <2>1 DEF BookOf
  <2>3. legs[p] # {}
    BY DEF HoldingIndexed, IsHedge, Hedge
  <2>4. /\ \A t \in Slots : tasks'[t].pair = p => t = s
        /\ state'[p] = "EXITING"
    BY <1>1, <2>1 DEF TypeOK
  <2>5. BookOf(p)'
    BY <1>1, <2>2, <2>3, <2>4 DEF BookOf, Entering, Closing, Closers, Value
  <2> QED
    BY <1>4, <2>5
<1> QED
  BY <1>3, <1>4

\* The orders of an entry or a close change the holdings of their pair as they say.
LEMMA BookSend ==
  ASSUME Faults \subseteq {"close"}, TypeOK, Alone, Books, NEW s \in Slots,
         SendEntry(s) \/ SendClose(s), NEW q \in Pairs \ StopLossPairs
  PROVE  BookOf(q)'
<1>1. tasks[s] \in Running /\ UNCHANGED <<state, legs>>
  BY TaskRuns DEF SendEntry, SendClose, Closers, pairVars
<1>2. PICK p \in Pairs : p = tasks[s].pair /\ tasks[s].kind # "free"
  BY <1>1 DEF Running, Closers
<1>3. BookOf(q)
  BY DEF Books
<1>4. PICK r, h : /\ tasks' = [tasks EXCEPT ![s].result = r]
                  /\ net' = [net EXCEPT ![p] = h]
  BY <1>2 DEF SendEntry, SendClose
<1>5. \A t \in Slots \ {s} : tasks'[t] = tasks[t]
  BY <1>4 DEF TypeOK
<1>6. /\ tasks'[s].kind = tasks[s].kind /\ tasks'[s].pair = p
      /\ tasks'[s].legs = tasks[s].legs
  BY <1>1, <1>2, <1>4 DEF TypeOK, Running
<1>7. CASE q # p
  <2>1. \A t \in Slots : tasks'[t].pair = q \/ tasks[t].pair = q => tasks'[t] = tasks[t]
    BY <1>2, <1>5, <1>6, <1>7
  <2>2. net'[q] = net[q]
    BY <1>4, <1>7 DEF TypeOK
  <2> QED
    BY <1>1, <1>3, <2>1, <2>2, BookKept
<1>8. CASE q = p
  <2>1. \A t \in Slots : tasks'[t].pair = p => t = s
    BY <1>2, <1>5, OneTask
  <2>2. state[p] # "READY"
    BY <1>2 DEF Alone
  <2>3. CASE SendEntry(s)
    <3>1. PICK o \in EntryOutcomes(tasks[s].legs) :
            /\ net' = [net EXCEPT ![p] = Filled(@, o.fills)]
            /\ tasks' = [tasks EXCEPT ![s].result = o.result]
      BY <1>2, <2>3 DEF SendEntry
    <3>2. tasks[s].kind = "entry" /\ legs[p] = {} /\ net[p] = Value({})
      BY <1>2, <1>3, <1>8, <2>3 DEF BookOf, Entering, SendEntry
    <3>3. o.fills = Each(tasks[s].legs, IF o.result = "ok" THEN 1 ELSE 0)
      BY CleanEntry
    <3>4. net'[p] = IF o.result = "ok" THEN Value(tasks[s].legs) ELSE Value({})
      BY <1>2, <3>1, <3>2, <3>3, OpenAndClose DEF TypeOK
    <3>5. tasks'[s].result = o.result
      BY <1>1, <3>1 DEF TypeOK, Running
    <3>6. BookOf(p)'
      BY <1>1, <1>6, <2>1, <2>2, <3>2, <3>4, <3>5
      DEF BookOf, Entering, Closing, Closers, Value
    <3> QED
      BY <1>8, <3>6
  <2>4. CASE SendClose(s)
    <3>1. PICK o \in CloseOutcomes(legs[p]) :
            /\ net' = [net EXCEPT ![p] = Filled(@, Each(o.shut, -1))]
            /\ tasks' = [tasks EXCEPT ![s].result = IF o.ok THEN "ok" ELSE "fail"]
      BY <1>2, <2>4 DEF SendClose
    <3>2. tasks[s].kind \in Closers /\ legs[p] # {} /\ net[p] = Value(legs[p])
      BY <1>2, <1>3, <1>8, <2>4 DEF BookOf, Closing, SendClose
    <3>3. tasks'[s].result = IF o.ok THEN "ok" ELSE "fail"
      BY <1>1, <3>1 DEF TypeOK, Running
    <3>4. o.ok => o.shut = legs[p]
      <4>1. o = [shut |-> legs[p], ok |-> TRUE] \/ o \in [shut : SUBSET legs[p], ok : {FALSE}]
        BY DEF CloseOutcomes
      <4>2. CASE o = [shut |-> legs[p], ok |-> TRUE]
        BY <4>2
      <4>3. CASE o \in [shut : SUBSET legs[p], ok : {FALSE}]
        BY <4>3
      <4> QED
        BY <4>1, <4>2, <4>3
    <3>5. o.ok => net'[p] = Value({})
      BY <1>2, <3>1, <3>2, <3>4, OpenAndClose DEF TypeOK
    <3>6. tasks'[s].result # "none" /\ (tasks'[s].result = "ok" => o.ok)
      BY <3>3
    <3>7. BookOf(p)'
      BY <1>1, <1>6, <2>1, <2>2, <3>2, <3>5, <3>6
      DEF BookOf, Entering, Closing, Closers, Value
    <3> QED
      BY <1>8, <3>7
  <2> QED
    BY <2>3, <2>4
<1> QED
  BY <1>7, <1>8

\* A goroutine that ends records what its orders did.
LEMMA BookFinish ==
  ASSUME TypeOK, Alone, Books, NEW s \in Slots,
         FinishEntry(s) \/ FinishExit(s) \/ FinishForce(s),
         NEW q \in Pairs \ StopLossPairs
  PROVE  BookOf(q)'
<1>1. tasks[s] \in Running /\ net' = net
  BY TaskRuns DEF FinishEntry, FinishExit, FinishForce, externalVars
<1>2. PICK p \in Pairs : p = tasks[s].pair /\ tasks[s].kind # "free"
  BY <1>1 DEF Running, Closers
<1>3. BookOf(q)
  BY DEF Books
<1>4. tasks' = [tasks EXCEPT ![s] = Free]
  BY DEF FinishEntry, FinishExit, FinishForce
<1>5. /\ \A t \in Slots \ {s} : tasks'[t] = tasks[t]
      /\ tasks'[s].pair = NoPair
  BY <1>4 DEF TypeOK, Free
<1>6. PICK st \in {"HOLDING", "PAUSED", "READY", "ERROR"} : state' = [state EXCEPT ![p] = st]
  BY <1>2 DEF FinishEntry, FinishExit, FinishForce
<1>7. PICK ls : legs' = [legs EXCEPT ![p] = ls]
  <2>1. legs' = legs \/ \E ls : legs' = [legs EXCEPT ![p] = ls]
    BY <1>2 DEF FinishEntry, FinishExit, FinishForce
  <2> QED
    BY <2>1 DEF TypeOK
<1>8. CASE q # p
  <2>1. \A t \in Slots : tasks'[t].pair = q \/ tasks[t].pair = q => tasks'[t] = tasks[t]
    BY <1>2, <1>5, <1>8, PairsAssumption
  <2>2. state'[q] = state[q] /\ legs'[q] = legs[q]
    BY <1>6, <1>7, <1>8 DEF TypeOK
  <2> QED
    BY <1>1, <1>3, <2>1, <2>2, BookKept
<1>9. CASE q = p
  <2>1. \A t \in Slots : tasks'[t].pair # p
    BY <1>2, <1>5, OneTask, PairsAssumption
  <2>2. /\ state'[p] = "READY" => legs'[p] = {}
        /\ legs'[p] = {} \/ state'[p] = "HOLDING" => net[p] = Value(legs'[p])
    <3>1. CASE FinishEntry(s)
      <4>1. /\ legs[p] = {}
            /\ net[p] = IF tasks[s].result = "ok" THEN Value(tasks[s].legs) ELSE Value({})
        BY <1>2, <1>3, <1>9, <3>1 DEF BookOf, Entering, FinishEntry
      <4>2. CASE tasks[s].result = "ok"
        BY <1>2, <3>1, <4>1, <4>2 DEF FinishEntry, TypeOK
      <4>3. CASE tasks[s].result # "ok"
        BY <1>2, <3>1, <4>1, <4>3 DEF FinishEntry, TypeOK
      <4> QED
        BY <4>2, <4>3
    <3>2. CASE FinishExit(s) \/ FinishForce(s)
      <4>1. /\ legs[p] # {}
            /\ tasks[s].result = "ok" => net[p] = Value({})
        BY <1>2, <1>3, <1>9, <3>2 DEF BookOf, Closing, FinishExit, FinishForce, Closers
      <4>2. CASE tasks[s].result = "ok"
        <5>1. legs'[p] = {}
          BY <1>2, <3>2, <4>2 DEF FinishExit, FinishForce, TypeOK
        <5> QED
          BY <4>1, <4>2, <5>1
      <4>3. CASE tasks[s].result # "ok"
        <5>1. state'[p] = "ERROR" /\ legs'[p] = legs[p]
          BY <1>2, <3>2, <4>3 DEF FinishExit, FinishForce, TypeOK
        <5> QED
          BY <4>1, <5>1
      <4> QED
        BY <4>2, <4>3
    <3> QED
      BY <3>1, <3>2
  <2>3. BookOf(p)'
    BY <1>1, <2>1, <2>2 DEF BookOf, Entering, Closing, Value
  <2> QED
    BY <1>9, <2>3
<1> QED
  BY <1>8, <1>9

\* No step disturbs the book of a pair without a stop-loss.
LEMMA BooksStep ==
  Faults \subseteq {"close"} /\ MaxLiquidations = 0 /\ "start" \notin Commands =>
    (TypeOK /\ AtRest /\ Alone /\ HoldingIndexed /\ Books /\ [Next]_vars => Books')
<1> SUFFICES ASSUME Faults \subseteq {"close"}, MaxLiquidations = 0, "start" \notin Commands,
                    TypeOK, AtRest, Alone, HoldingIndexed, Books, [Next]_vars
             PROVE  Books'
  OBVIOUS
<1>1. ~LoopNext /\ ~\E p \in Pairs : \E x \in Exchanges : Liquidate(p, x)
  BY NoLiquidation
<1>2. CASE MonitorNext
  <2>1. /\ UNCHANGED tasks
        /\ \/ \E p \in StopLossPairs : /\ monitor' = [pc |-> "close", pair |-> p]
                                        /\ UNCHANGED <<state, legs, net>>
           \/ /\ monitor.pc # "idle"
              /\ monitor' = Idle \/ \E pc : monitor' = [monitor EXCEPT !.pc = pc]
              /\ net' = net \/ \E h : net' = [net EXCEPT ![monitor.pair] = h]
              /\ legs' = legs \/ \E ls : legs' = [legs EXCEPT ![monitor.pair] = ls]
              /\ state' = state \/ \E st : state' = [state EXCEPT ![monitor.pair] = st]
    BY <1>2 DEF MonitorNext, SeeStopLoss, RiskClose, RiskFailed, RiskClosed,
                RiskPauseFlag, RiskPauseWrite, PauseWrite, pairVars, externalVars
  <2>2. monitor' = Idle \/ monitor'.pair \in StopLossPairs
    BY <2>1, MonitorRuns DEF Books, Idle, RiskTask
  <2>3. ASSUME NEW q \in Pairs \ StopLossPairs PROVE BookOf(q)'
    <3>1. monitor.pc # "idle" => monitor.pair # q
      BY DEF Books, Idle
    <3>2. state'[q] = state[q] /\ legs'[q] = legs[q] /\ net'[q] = net[q]
      BY <2>1, <3>1 DEF TypeOK
    <3> QED
      BY <2>1, <3>2, BookKept DEF Books
  <2> QED
    BY <2>2, <2>3 DEF Books
<1>3. CASE ~MonitorNext
  <2>1. monitor' = monitor
    BY <1>1, <1>3 DEF Next, WorkerNext, SeeOpportunity, Admit, TurnAway, Decline, Enter,
         TaskNext, SendEntry, SendClose, FinishEntry, FinishExit, FinishForce,
         CheckerNext, Collect, Stay, Leave, UserNext, StartPair, PausePair,
         ForceClosePair, StoreReady, PauseLocked, vars, actorVars
  <2> SUFFICES ASSUME NEW q \in Pairs \ StopLossPairs PROVE BookOf(q)'
    BY <2>1 DEF Books
  <2>2. ASSUME UNCHANGED <<legs, net, tasks>>,
               state' = state \/ \E p : state' = [state EXCEPT ![p] = "PAUSED"]
        PROVE  BookOf(q)'
    <3>1. state'[q] = state[q] \/ state'[q] \notin {"READY", "HOLDING"}
      BY <2>2 DEF TypeOK
    <3> QED
      BY <2>2, <3>1, BookKept DEF Books
  <2>3. ASSUME NEW w \in Workers, NEW p \in Pairs, WorkerNext(w, p) PROVE BookOf(q)'
    BY <2>2, <2>3, BookEnter DEF WorkerNext, SeeOpportunity, Admit, TurnAway, Decline,
                                 pairVars, externalVars
  <2>4. ASSUME NEW s \in Slots, TaskNext(s) PROVE BookOf(q)'
    BY <2>4, BookSend, BookFinish DEF TaskNext
  <2>5. CASE CheckerNext
    <3>1. CASE Collect \/ \E p \in Pairs : Stay(p)
      BY <2>2, <3>1 DEF Collect, Stay, pairVars, externalVars
    <3>2. ASSUME NEW p \in Pairs, NEW s \in Slots, NEW kind \in {"exit", "stop"},
                 Leave(p, s, kind)
          PROVE  BookOf(q)'
      <4>1. kind \in Closers
        BY DEF Closers
      <4> QED
        BY <3>2, <4>1, BookClose DEF Leave, externalVars
    <3> QED
      BY <2>5, <3>1, <3>2 DEF CheckerNext
  <2>6. ASSUME NEW u \in Users, UserNext(u) PROVE BookOf(q)'
    <3>1. CASE PauseLocked(u) \/ StoreReady(u) \/ \E p \in Pairs : PausePair(u, p)
      BY <2>2, <3>1 DEF PauseLocked, PauseWrite, StoreReady, PausePair, externalVars
    <3>2. ASSUME NEW p \in Pairs, NEW s \in Slots, ForceClosePair(u, p, s)
          PROVE  BookOf(q)'
      <4>1. "force" \in Closers
        BY DEF Closers
      <4> QED
        BY <3>2, <4>1, BookClose DEF ForceClosePair, externalVars
    <3> QED
      BY <2>6, <3>1, <3>2 DEF UserNext, StartPair
  <2>7. CASE UNCHANGED vars
    BY <2>2, <2>7 DEF vars, pairVars, actorVars, externalVars
  <2> QED
    BY <1>1, <1>3, <2>3, <2>4, <2>5, <2>6, <2>7 DEF Next
<1> QED
  BY <1>2, <1>3

\* Initially the books are empty and nothing is at work.
LEMMA BooksInit == Init => AtRest /\ Books
<1> SUFFICES ASSUME Init PROVE AtRest /\ Books
  OBVIOUS
<1>1. AtRest /\ monitor = Idle
  BY DEF Init, AtRest
<1>2. ASSUME NEW p \in Pairs PROVE BookOf(p)
  <2>1. legs[p] = {} /\ net[p] = [x \in Exchanges |-> 0]
    BY DEF Init
  <2>2. Value({}) = [x \in Exchanges |-> 0]
    <3>1. Value({}) = [x \in Exchanges |->
                         (IF [ex |-> x, side |-> "long"] \in {} THEN 1 ELSE 0)
                       - (IF [ex |-> x, side |-> "short"] \in {} THEN 1 ELSE 0)]
      BY ValueOf
    <3> QED
      BY <3>1
  <2>3. \A s \in Slots : tasks[s].kind = "free"
    BY DEF Init, Free
  <2> QED
    BY <2>1, <2>2, <2>3 DEF BookOf, Entering, Closing, Closers
<1> QED
  BY <1>1, <1>2 DEF Books

\* Where an entry's orders neither time out, fill unseen nor escape their rollback, no
\* position is liquidated and no pair restarted, what a pair at rest records is what the
\* exchanges hold for it, for any number of pairs, workers and API calls.  The pairs with
\* a stop-loss are excepted.
THEOREM BooksMatchHoldings == Spec => []BooksMatch
<1> DEFINE H == Faults \subseteq {"close"} /\ MaxLiquidations = 0 /\ "start" \notin Commands
<1>1. CASE ~H
  <2>1. BooksMatch
    BY <1>1 DEF BooksMatch
  <2> QED
    BY <2>1, PTL
<1>2. CASE H
  <2>1. TypeOK /\ AtRest /\ [Next]_vars => AtRest'
    BY <1>2, RestStep
  <2>2. TypeOK /\ AtRest /\ Alone /\ HoldingIndexed /\ Books /\ [Next]_vars => Books'
    BY <1>2, BooksStep
  <2>3. Spec => []Alone
    BY <1>2, OneAtATime
  <2>4. Books => BooksMatch
    BY DEF Books, BookOf, BooksMatch, Quiet, Value
  <2> QED
    BY <2>1, <2>2, <2>3, <2>4, TypeCorrect, HoldingIsIndexed, BooksInit, PTL DEF Spec
<1> QED
  BY <1>1, <1>2
-----------------------------------------------------------------------------
(* The life cycle of arbitrages.                                            *)

\* Only the exit checker and ForceClosePair close, and nobody pauses or restarts.
Undisturbed ==
  Commands \subseteq {"force"} /\ StopLossPairs = {} /\ MaxLiquidations = 0

\* Then the RiskMonitor, the event loop and the API's threads rest, and a pair stays
\* ENTERING or EXITING as long as its goroutine runs.
Lived ==
  /\ AtRest /\ monitor = Idle
  /\ \A u \in Users : user[u] = Idle
  /\ \A s \in Slots :
       /\ tasks[s].kind = "entry" => state[tasks[s].pair] = "ENTERING"
       /\ tasks[s].kind \in Closers => state[tasks[s].pair] = "EXITING"

\* The phase of one pair changes, and the counter with it.
LEMMA LifeMoves ==
  ASSUME TypeOK, NEW p \in Pairs, NEW st, state' = [state EXCEPT ![p] = st],
         NEW change, activeArbs' = activeArbs + change
  PROVE  Lifecycle!Step(p, Phase(state[p]), Phase(st), change)
<1>1. [q \in Pairs |-> Phase(state'[q])] =
        [[q \in Pairs |-> Phase(state[q])] EXCEPT ![p] = Phase(st)]
  BY DEF TypeOK
<1> QED
  BY <1>1 DEF Lifecycle!Step

\* A step that moves no pair and counts nothing is a stutter.
LEMMA LifeStutters ==
  ASSUME UNCHANGED <<state, activeArbs>>
  PROVE  UNCHANGED <<[p \in Pairs |-> Phase(state[p])], activeArbs>>
OBVIOUS

\* A new goroutine moves its pair, and with no other task there the rest keeps.
LEMMA LivedSpawn ==
  ASSUME TypeOK, Alone, Lived, NEW s \in Slots, NEW kind \in {"entry"} \cup Closers,
         NEW p \in Pairs, NEW ls, Spawn(s, kind, p, ls), state[p] \in {"READY", "HOLDING"},
         state' = [state EXCEPT ![p] = IF kind = "entry" THEN "ENTERING" ELSE "EXITING"],
         UNCHANGED <<posQueue, loop, monitor, user>>
  PROVE  Lived'
<1>1. /\ tasks'[s].kind = kind /\ tasks'[s].pair = p
      /\ \A t \in Slots \ {s} : tasks'[t] = tasks[t]
  BY DEF Spawn, TypeOK
<1>2. /\ state'[p] = IF kind = "entry" THEN "ENTERING" ELSE "EXITING"
      /\ \A q \in Pairs \ {p} : state'[q] = state[q]
  BY DEF TypeOK
<1>3. \A t \in Slots : tasks[t].pair # p
  BY NoTask
<1>4. \A t \in Slots : tasks[t].kind \in {"entry"} \cup Closers => tasks[t].pair \in Pairs
  BY TaskPair DEF TypeOK, Closers
<1>5. \A t \in Slots :
        /\ tasks'[t].kind = "entry" => state'[tasks'[t].pair] = "ENTERING"
        /\ tasks'[t].kind \in Closers => state'[tasks'[t].pair] = "EXITING"
  BY <1>1, <1>2, <1>3, <1>4 DEF Lived, Closers
<1> QED
  BY <1>5 DEF Lived, AtRest, Idle

\* A step that neither starts nor ends a goroutine nor moves a pair.
LEMMA LivedKept ==
  ASSUME Lived, UNCHANGED <<state, posQueue, loop, monitor, user>>,
         \A t \in Slots : tasks'[t].kind = tasks[t].kind /\ tasks'[t].pair = tasks[t].pair
  PROVE  Lived'
BY DEF Lived, AtRest, Idle

\* A worker either stays outside or begins an arbitrage.
LEMMA LifeWorker ==
  ASSUME TypeOK, Alone, Lived, NEW w \in Workers, NEW p \in Pairs, WorkerNext(w, p)
  PROVE  /\ Lived'
         /\ \/ Lifecycle!Begin(p)
            \/ UNCHANGED <<state, activeArbs>>
<1>1. CASE SeeOpportunity(w, p) \/ Admit(w, p) \/ TurnAway(w, p) \/ Decline(w, p)
  <2>1. UNCHANGED <<state, activeArbs, posQueue, loop, monitor, user, tasks>>
    BY <1>1 DEF SeeOpportunity, Admit, TurnAway, Decline, pairVars, externalVars
  <2> QED
    BY <2>1, LivedKept
<1>2. ASSUME NEW s \in Slots, NEW a \in Exchanges, NEW b \in Exchanges,
             Enter(w, p, s, a, b)
      PROVE  Lived' /\ Lifecycle!Begin(p)
  <2>1. /\ Spawn(s, "entry", p, Hedge(a, b))
        /\ state' = [state EXCEPT ![p] = "ENTERING"]
        /\ activeArbs' = activeArbs + 1
        /\ UNCHANGED <<posQueue, loop, monitor, user>>
        /\ worker[w].pc = "locked" /\ worker[w].pair = p
    BY <1>2 DEF Enter, MarkEntering, externalVars
  <2>2. state[p] = "READY"
    BY <2>1 DEF Alone
  <2>3. Lived'
    BY <2>1, <2>2, LivedSpawn
  <2>4. Phase(state[p]) = "none" /\ Phase("ENTERING") = "opening"
    BY <2>2 DEF Phase
  <2>5. Lifecycle!Step(p, Phase(state[p]), Phase("ENTERING"), 1)
    BY <2>1, LifeMoves
  <2> QED
    BY <2>3, <2>4, <2>5 DEF Lifecycle!Begin
<1> QED
  BY <1>1, <1>2 DEF WorkerNext

\* A close begins from a pair that is HOLDING.
LEMMA LifeClose ==
  ASSUME TypeOK, Alone, Lived, NEW p \in Pairs, NEW s \in Slots, NEW kind \in Closers,
         Spawn(s, kind, p, {}), state[p] = "HOLDING",
         state' = [state EXCEPT ![p] = "EXITING"],
         UNCHANGED <<activeArbs, posQueue, loop, monitor, user>>
  PROVE  Lived' /\ Lifecycle!Close(p)
<1>1. kind # "entry"
  BY DEF Closers
<1>2. Lived'
  BY <1>1, LivedSpawn
<1>3. Phase(state[p]) = "open" /\ Phase("EXITING") = "closing"
  BY DEF Phase
<1>4. activeArbs' = activeArbs + 0
  BY DEF TypeOK
<1>5. Lifecycle!Step(p, Phase(state[p]), Phase("EXITING"), 0)
  BY <1>4, LifeMoves
<1> QED
  BY <1>2, <1>3, <1>5 DEF Lifecycle!Close

\* A goroutine that ends opens, abandons, closes or blocks its arbitrage.
LEMMA LifeTask ==
  ASSUME TypeOK, Alone, Lived, NEW s \in Slots, TaskNext(s)
  PROVE  /\ Lived'
         /\ \/ \E p \in Pairs : \/ Lifecycle!Opened(p) \/ Lifecycle!Abandoned(p)
                                \/ Lifecycle!Closed(p) \/ Lifecycle!Stuck(p)
            \/ UNCHANGED <<state, activeArbs>>
<1>1. CASE SendEntry(s) \/ SendClose(s)
  <2>1. UNCHANGED <<state, activeArbs, posQueue, loop, monitor, user>>
    BY <1>1 DEF SendEntry, SendClose, pairVars
  <2>2. tasks[s] \in Running
    BY <1>1, TaskRuns DEF SendEntry, SendClose, Closers
  <2>3. PICK r : tasks' = [tasks EXCEPT ![s].result = r]
    BY <1>1 DEF SendEntry, SendClose
  <2>4. \A t \in Slots : tasks'[t].kind = tasks[t].kind /\ tasks'[t].pair = tasks[t].pair
    BY <2>2, <2>3 DEF TypeOK, Running
  <2> QED
    BY <2>1, <2>4, LivedKept
<1>2. CASE FinishEntry(s) \/ FinishExit(s) \/ FinishForce(s)
  <2>1. tasks[s] \in Running
    BY <1>2, TaskRuns DEF FinishEntry, FinishExit, FinishForce
  <2>2. PICK p \in Pairs : p = tasks[s].pair /\ tasks[s].kind # "free"
    BY <2>1 DEF Running, Closers
  <2>3. PICK st : state' = [state EXCEPT ![p] = st]
    BY <1>2, <2>2 DEF FinishEntry, FinishExit, FinishForce
  <2>4. Lived'
    <3>1. \A t \in Slots \ {s} : tasks'[t] = tasks[t] /\ tasks[t].pair # p
      BY <1>2, <2>2, OneTask DEF FinishEntry, FinishExit, FinishForce, TypeOK
    <3>2. tasks'[s].kind = "free"
      BY <1>2 DEF FinishEntry, FinishExit, FinishForce, TypeOK, Free
    <3>3. \A q \in Pairs \ {p} : state'[q] = state[q]
      BY <2>3 DEF TypeOK
    <3>4. \A t \in Slots : tasks[t].kind # "free" => tasks[t].pair \in Pairs
      BY TaskPair DEF TypeOK
    <3>5. \A t \in Slots :
            /\ tasks'[t].kind = "entry" => state'[tasks'[t].pair] = "ENTERING"
            /\ tasks'[t].kind \in Closers => state'[tasks'[t].pair] = "EXITING"
      BY <3>1, <3>2, <3>3, <3>4 DEF Lived, Closers
    <3>6. UNCHANGED <<posQueue, loop, monitor, user>>
      BY <1>2 DEF FinishEntry, FinishExit, FinishForce, externalVars
    <3> QED
      BY <3>5, <3>6 DEF Lived, AtRest, Idle
  <2>5. CASE FinishEntry(s)
    <3>1. Phase(state[p]) = "opening"
      BY <2>2, <2>5 DEF FinishEntry, Lived, Phase
    <3>2. CASE tasks[s].result = "ok"
      <4>1. state' = [state EXCEPT ![p] = "HOLDING"] /\ activeArbs' = activeArbs + 0
        BY <2>2, <2>5, <3>2 DEF FinishEntry, TypeOK
      <4>2. Lifecycle!Step(p, "opening", Phase("HOLDING"), 0)
        BY <3>1, <4>1, LifeMoves
      <4>3. Phase("HOLDING") = "open"
        BY DEF Phase
      <4> QED
        BY <2>4, <4>2, <4>3 DEF Lifecycle!Opened
    <3>3. CASE tasks[s].result # "ok"
      <4>1. PICK rest \in {"PAUSED", "READY"} :
              state' = [state EXCEPT ![p] = rest] /\ activeArbs' = activeArbs + (-1)
        BY <2>2, <2>5, <3>3 DEF FinishEntry, TypeOK
      <4>2. Lifecycle!Step(p, "opening", Phase(rest), -1)
        BY <3>1, <4>1, LifeMoves
      <4>3. Phase(rest) = "none"
        BY DEF Phase
      <4> QED
        BY <2>4, <4>2, <4>3 DEF Lifecycle!Abandoned
    <3> QED
      BY <3>2, <3>3
  <2>6. CASE FinishExit(s) \/ FinishForce(s)
    <3>1. Phase(state[p]) = "closing"
      BY <2>2, <2>6 DEF FinishExit, FinishForce, Lived, Phase, Closers
    <3>2. CASE tasks[s].result = "ok"
      <4>1. PICK rest \in {"PAUSED", "READY"} :
              state' = [state EXCEPT ![p] = rest] /\ activeArbs' = activeArbs + (-1)
        BY <2>2, <2>6, <3>2 DEF FinishExit, FinishForce, TypeOK
      <4>2. Lifecycle!Step(p, "closing", Phase(rest), -1)
        BY <3>1, <4>1, LifeMoves
      <4>3. Phase(rest) = "none"
        BY DEF Phase
      <4> QED
        BY <2>4, <4>2, <4>3 DEF Lifecycle!Closed
    <3>3. CASE tasks[s].result # "ok"
      <4>1. state' = [state EXCEPT ![p] = "ERROR"] /\ activeArbs' = activeArbs + 0
        BY <2>2, <2>6, <3>3 DEF FinishExit, FinishForce, TypeOK
      <4>2. Lifecycle!Step(p, "closing", Phase("ERROR"), 0)
        BY <3>1, <4>1, LifeMoves
      <4>3. Phase("ERROR") = "stuck"
        BY DEF Phase
      <4> QED
        BY <2>4, <4>2, <4>3 DEF Lifecycle!Stuck
    <3> QED
      BY <3>2, <3>3
  <2> QED
    BY <1>2, <2>5, <2>6
<1> QED
  BY <1>1, <1>2 DEF TaskNext

\* Every step is a step of the life cycle or a stutter.
LEMMA LifeStep ==
  Undisturbed =>
    (TypeOK /\ Alone /\ Lived /\ [Next]_vars =>
       Lived' /\ [Lifecycle!Next]_<<[p \in Pairs |-> Phase(state[p])], activeArbs>>)
<1> SUFFICES ASSUME Undisturbed, TypeOK, Alone, Lived, [Next]_vars
             PROVE  Lived' /\ (Lifecycle!Next \/ UNCHANGED <<state, activeArbs>>)
  BY LifeStutters
<1>1. ~LoopNext /\ ~\E p \in Pairs : \E x \in Exchanges : Liquidate(p, x)
  BY NoLiquidation DEF Undisturbed, Lived
<1>2. ~MonitorNext
  BY DEF MonitorNext, SeeStopLoss, RiskClose, RiskFailed, RiskClosed, RiskPauseFlag,
         RiskPauseWrite, Lived, Idle, Undisturbed
<1>3. CASE CheckerNext
  <2>1. CASE Collect \/ \E p \in Pairs : Stay(p)
    BY <2>1, LivedKept DEF Collect, Stay, pairVars, externalVars
  <2>2. ASSUME NEW p \in Pairs, NEW s \in Slots, NEW kind \in {"exit", "stop"},
               Leave(p, s, kind)
        PROVE  Lived' /\ Lifecycle!Close(p)
    <3>1. kind \in Closers
      BY DEF Closers
    <3> QED
      BY <2>2, <3>1, LifeClose DEF Leave, externalVars
  <2> QED
    BY <1>3, <2>1, <2>2 DEF CheckerNext, Lifecycle!Next
<1>4. ASSUME NEW u \in Users, UserNext(u)
      PROVE  Lived' /\ Lifecycle!Next
  <2>1. PICK p \in Pairs, s \in Slots : ForceClosePair(u, p, s)
    BY <1>4 DEF UserNext, StartPair, PausePair, StoreReady, PauseLocked, Lived, Idle,
                Undisturbed
  <2>2. "force" \in Closers
    BY DEF Closers
  <2>3. Lived' /\ Lifecycle!Close(p)
    BY <2>1, <2>2, LifeClose DEF ForceClosePair, externalVars
  <2> QED
    BY <2>3 DEF Lifecycle!Next
<1>5. CASE UNCHANGED vars
  BY <1>5, LivedKept DEF vars, pairVars, actorVars, externalVars
<1> QED
  BY <1>1, <1>2, <1>3, <1>4, <1>5, LifeWorker, LifeTask DEF Next, Lifecycle!Next

\* Initially no pair has an arbitrage and everything rests.
LEMMA LifeInit == Init => Lived /\ Lifecycle!Init
<1> SUFFICES ASSUME Init PROVE Lived /\ Lifecycle!Init
  OBVIOUS
<1>1. Lived
  BY DEF Init, Lived, AtRest, Free, Closers
<1>2. \A p \in Pairs : Phase(state[p]) = "none"
  BY DEF Init, Phase
<1> QED
  BY <1>1, <1>2 DEF Lifecycle!Init, Init

\* When nobody pauses or restarts a pair and nothing but the exit checker and
\* ForceClosePair closes one, the engine implements the life cycle of ArbLifecycle for
\* any number of pairs, workers and goroutines: one arbitrage at a time per pair, and a
\* counter that counts each from its entry to its close.
THEOREM EngineImplementsLifecycle ==
  ASSUME Undisturbed
  PROVE  Spec => ImplementsLifecycle
<1>1. TypeOK /\ Alone /\ Lived /\ [Next]_vars =>
        Lived' /\ [Lifecycle!Next]_<<[p \in Pairs |-> Phase(state[p])], activeArbs>>
  BY LifeStep
<1>2. "start" \notin Commands
  BY DEF Undisturbed
<1>3. Spec => []Alone
  BY <1>2, OneAtATime
<1> QED
  BY <1>1, <1>3, TypeCorrect, LifeInit, PTL DEF Spec, ImplementsLifecycle, Lifecycle!Spec
=============================================================================
