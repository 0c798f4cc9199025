------------------------------ MODULE PairEngine ------------------------------
(***************************************************************************)
(* The trading engine's life cycle of a pair (internal/bot/engine.go and    *)
(* risk.go): the goroutines that read and write one PairState, the shared   *)
(* counter of active arbitrages, the index of open positions, and what the  *)
(* exchanges really hold.                                                   *)
(*                                                                          *)
(* The actors are the price workers, one goroutine per entry and per close, *)
(* the exit checker, the RiskMonitor, the position event loop and the API   *)
(* threads that call StartPair, PausePair and ForceClosePair.  A step is    *)
(* one critical section of PairState.mu, one atomic access, or one round of *)
(* orders; between two steps of an actor any other actor may run.           *)
(*                                                                          *)
(* Prices, volumes and profit are not modelled: whether a spread, a         *)
(* stop-loss or an order limit allows an operation is a choice.  A position *)
(* is counted in units of the pair's volume, +1 for long, -1 for short; what *)
(* a round of orders may do to it is in Orders.                             *)
(* Symbols of pairs are distinct (PairService.CreatePair refuses a second   *)
(* pair with a symbol), so a pair stands for its symbol.                    *)
(***************************************************************************)
EXTENDS Orders, Sequences, FiniteSets

CONSTANTS
  Pairs,            \* the pairs added to the engine
  BuyMeansLong,     \* exchanges whose ClosePosition reads "buy" as "the long"
  Workers,          \* the goroutines running priceEventWorker
  Users,            \* the threads that call the engine's API
  Slots,            \* room for goroutines that execute entries and closes
  MaxArbs,          \* cfg.Bot.MaxConcurrentArbs, 0 for no limit
  StopLossPairs,    \* the pairs whose StopLoss is positive
  Commands,         \* the API calls the environment makes
  QueueCap,         \* capacity of positionUpdates
  MaxEntries,       \* bound: entries in one behaviour
  MaxLiquidations,  \* bound: liquidations in one behaviour
  NoPair            \* the pair of an actor at rest

ASSUME PairsAssumption == NoPair \notin Pairs

ASSUME WorkersAssumption == IsFiniteSet(Workers)

ASSUME MaxArbsAssumption == MaxArbs \in Nat

ASSUME EnvironmentAssumption ==
  /\ BuyMeansLong \subseteq Exchanges
  /\ StopLossPairs \subseteq Pairs
  /\ Commands \subseteq {"start", "pause", "force"}
  /\ {QueueCap, MaxEntries, MaxLiquidations} \subseteq Nat

VARIABLES
  state,        \* Runtime.State of each pair
  status,       \* Config.Status of each pair
  ready,        \* the atomic flag isReady of each pair
  legs,         \* Runtime.Legs of each pair
  index,        \* positionIndex, as pairs <<exchange, pair>>
  activeArbs,   \* the atomic counter of active arbitrages
  net,          \* what each exchange holds for each pair
  worker,       \* where each price worker is
  tasks,        \* the goroutines that execute an entry or a close
  watched,      \* pairs the exit checker collected and has yet to check
  monitor,      \* where the RiskMonitor is
  loop,         \* where the position event loop is
  posQueue,     \* the channel positionUpdates
  user,         \* where each API thread is
  entries,      \* history: entries so far
  liquidations  \* history: liquidations so far

pairVars == <<state, status, ready, legs, index, activeArbs>>
actorVars == <<worker, tasks, watched, monitor, loop, user>>
externalVars == <<net, posQueue, liquidations>>
vars == <<pairVars, actorVars, externalVars, entries>>
-----------------------------------------------------------------------------
(* Pairs, and what ClosePosition does to a position.                        *)

States == {"PAUSED", "READY", "ENTERING", "HOLDING", "EXITING", "ERROR"}
Statuses == {"active", "paused"}

\* What ClosePosition(side) of x trades: Bybit, Bitget and Gate sell for
\* "long" and "buy" and buy otherwise, the others buy for "short" only.
CloseTrade(x, side) ==
  IF side = "short" \/ (side = "sell" /\ x \in BuyMeansLong) THEN 1 ELSE -1

\* The side with which emergencyCloseLeg closes a leg.
EmergencySide(leg) == IF leg.side = "short" THEN "buy" ELSE "sell"

\* The index entries of the legs of a pair.
Keys(p) == {<<l.ex, p>> : l \in legs[p]}

\* Mutants: the new position is not indexed, or by its long leg only.
NotIndexed(p, ls) == index
HalfIndexed(p, ls) == index \cup {<<l.ex, p>> : l \in {m \in ls : m.side = "long"}}

\* addToPositionIndex and removeFromPositionIndex.
WithPosition(p, ls) == index \cup {<<l.ex, p>> : l \in ls}
WithoutPosition(p) == index \ Keys(p)
-----------------------------------------------------------------------------
(* Actors.                                                                  *)

Idle == [pc |-> "idle", pair |-> NoPair]
WorkerState == {Idle} \cup [pc : {"seen", "locked"}, pair : Pairs]
UserState == {Idle} \cup [pc : {"storeReady", "pauseLock"}, pair : Pairs]

RiskSteps == {"close", "closed", "failed", "flag", "pause"}
RiskTask == [pc : RiskSteps, pair : Pairs]
MonitorState == {Idle} \cup RiskTask
LoopIdle == [pc |-> "idle", pair |-> NoPair, rest |-> {}]
LoopTask == [pc : RiskSteps, pair : Pairs, rest : SUBSET Leg]
LoopState == {LoopIdle} \cup LoopTask

Closers == {"exit", "stop", "force"}
Free == [kind |-> "free", pair |-> NoPair, legs |-> {}, result |-> "none"]
Running == [kind : {"entry"} \cup Closers, pair : Pairs, legs : SUBSET Leg,
            result : {"none", "ok", "fail", "pause"}]
Task == {Free} \cup Running

Update == [pair : Pairs, ex : Exchanges, side : {"long", "short"}]

\* A worker holds PairState.mu from its second check until it has entered or
\* declined; every other critical section is one step.
Unlocked(p) == \A w \in Workers : worker[w] # [pc |-> "locked", pair |-> p]

\* Mutant: the goroutine is not started.
UnstartedSpawn(s, kind, p, ls) == tasks[s] = Free /\ tasks' = tasks

\* go executeX(ps, ...): slot s runs the new goroutine.
Spawn(s, kind, p, ls) ==
  /\ tasks[s] = Free
  /\ tasks' = [tasks EXCEPT ![s] =
                [kind |-> kind, pair |-> p, legs |-> ls, result |-> "none"]]

\* The two steps of Engine.PausePair, shared by all its callers.
PauseFlag(p) == ready' = [ready EXCEPT ![p] = FALSE]

\* Mutant: the status is written to the state.
ConfusedPauseWrite(p) ==
  /\ Unlocked(p)
  /\ status' = [status EXCEPT ![p] = "paused"]
  /\ state' = [state EXCEPT ![p] = "paused"]

PauseWrite(p) ==
  /\ Unlocked(p)
  /\ status' = [status EXCEPT ![p] = "paused"]
  /\ state' = [state EXCEPT ![p] = "PAUSED"]

\* Recovery has called StartPair for the pairs stored as active.
Init ==
  \E active \in SUBSET Pairs :
    /\ state = [p \in Pairs |-> IF p \in active THEN "READY" ELSE "PAUSED"]
    /\ status = [p \in Pairs |-> IF p \in active THEN "active" ELSE "paused"]
    /\ ready = [p \in Pairs |-> p \in active]
    /\ legs = [p \in Pairs |-> {}]
    /\ index = {}
    /\ activeArbs = 0
    /\ net = [p \in Pairs |-> [x \in Exchanges |-> 0]]
    /\ worker = [w \in Workers |-> Idle]
    /\ tasks = [s \in Slots |-> Free]
    /\ watched = {}
    /\ monitor = Idle
    /\ loop = LoopIdle
    /\ posQueue = <<>>
    /\ user = [u \in Users |-> Idle]
    /\ entries = 0
    /\ liquidations = 0
-----------------------------------------------------------------------------
(* Price workers: handlePriceUpdate runs checkArbitrageOpportunity on each  *)
(* pair of the symbol.  Any worker may check any pair, as the workers of    *)
(* one shard do.                                                            *)

\* Mutant: the limit is off by one.
LooseLimit == MaxArbs = 0 \/ activeArbs <= MaxArbs

\* canOpenNewArbitrage, and the same test in CheckEntryConditions.
BelowLimit == MaxArbs = 0 \/ activeArbs < MaxArbs

\* The checks made before PairState.mu is taken: isReady, limit, quick spread.
SeeOpportunity(w, p) ==
  /\ worker[w] = Idle
  /\ ready[p]
  /\ BelowLimit
  /\ worker' = [worker EXCEPT ![w] = [pc |-> "seen", pair |-> p]]
  /\ UNCHANGED <<pairVars, tasks, watched, monitor, loop, user, externalVars,
                 entries>>

\* The worker has the mutex, repeats the checks and loads activeArbs.
Admit(w, p) ==
  /\ worker[w] = [pc |-> "seen", pair |-> p]
  /\ Unlocked(p)
  /\ status[p] = "active" /\ state[p] = "READY"
  /\ BelowLimit
  /\ worker' = [worker EXCEPT ![w] = [pc |-> "locked", pair |-> p]]
  /\ UNCHANGED <<pairVars, tasks, watched, monitor, loop, user, externalVars,
                 entries>>

\* The pair changed while the worker waited for the mutex.
TurnAway(w, p) ==
  /\ worker[w] = [pc |-> "seen", pair |-> p]
  /\ Unlocked(p)
  /\ status[p] # "active" \/ state[p] # "READY" \/ ~BelowLimit
  /\ worker' = [worker EXCEPT ![w] = Idle]
  /\ UNCHANGED <<pairVars, tasks, watched, monitor, loop, user, externalVars,
                 entries>>

\* Some other condition fails: liquidity, spread, order limits or margin.
Decline(w, p) ==
  /\ worker[w] = [pc |-> "locked", pair |-> p]
  /\ worker' = [worker EXCEPT ![w] = Idle]
  /\ UNCHANGED <<pairVars, tasks, watched, monitor, loop, user, externalVars,
                 entries>>

\* Mutants: isReady stays set, or the arbitrage is not counted.
KeepsReady(p) ==
  /\ state' = [state EXCEPT ![p] = "ENTERING"]
  /\ activeArbs' = activeArbs + 1
  /\ UNCHANGED ready
Uncounted(p) ==
  /\ state' = [state EXCEPT ![p] = "ENTERING"]
  /\ ready' = [ready EXCEPT ![p] = FALSE]
  /\ UNCHANGED activeArbs

MarkEntering(p) ==
  /\ state' = [state EXCEPT ![p] = "ENTERING"]
  /\ ready' = [ready EXCEPT ![p] = FALSE]
  /\ activeArbs' = activeArbs + 1

\* All conditions hold: the pair enters, and a goroutine sends the orders.
Enter(w, p, s, a, b) ==
  /\ worker[w] = [pc |-> "locked", pair |-> p]
  /\ entries < MaxEntries
  /\ a # b
  /\ Spawn(s, "entry", p, Hedge(a, b))
  /\ MarkEntering(p)
  /\ worker' = [worker EXCEPT ![w] = Idle]
  /\ entries' = entries + 1
  /\ UNCHANGED <<status, legs, index, watched, monitor, loop, user,
                 externalVars>>
-----------------------------------------------------------------------------
(* executeEntryWithConditions: the orders, then the result under the mutex. *)

SendEntry(s) ==
  /\ tasks[s].kind = "entry" /\ tasks[s].result = "none"
  /\ \E o \in EntryOutcomes(tasks[s].legs) :
       /\ net' = [net EXCEPT ![tasks[s].pair] = Filled(@, o.fills)]
       /\ tasks' = [tasks EXCEPT ![s].result = o.result]
  /\ UNCHANGED <<pairVars, worker, watched, monitor, loop, posQueue, user,
                 entries, liquidations>>

FinishEntry(s) ==
  LET p == tasks[s].pair
      r == tasks[s].result
  IN /\ tasks[s].kind = "entry" /\ r # "none"
     /\ Unlocked(p)
     /\ \/ /\ r = "ok"
           /\ state' = [state EXCEPT ![p] = "HOLDING"]
           /\ legs' = [legs EXCEPT ![p] = tasks[s].legs]
           /\ index' = WithPosition(p, tasks[s].legs)
           /\ UNCHANGED <<status, ready, activeArbs>>
        \/ /\ r = "pause"
           /\ state' = [state EXCEPT ![p] = "PAUSED"]
           /\ status' = [status EXCEPT ![p] = "paused"]
           /\ ready' = [ready EXCEPT ![p] = FALSE]
           /\ activeArbs' = activeArbs - 1
           /\ UNCHANGED <<legs, index>>
        \/ /\ r = "fail"
           /\ state' = [state EXCEPT ![p] = "READY"]
           /\ ready' = [ready EXCEPT ![p] = TRUE]
           /\ activeArbs' = activeArbs - 1
           /\ UNCHANGED <<status, legs, index>>
     /\ tasks' = [tasks EXCEPT ![s] = Free]
     /\ UNCHANGED <<worker, watched, monitor, loop, user, externalVars, entries>>
-----------------------------------------------------------------------------
(* exitConditionChecker: every 500ms it collects the pairs in HOLDING whose *)
(* isReady is 0, then checks each one.                                      *)

Collect ==
  /\ watched = {}
  /\ watched' = {p \in Pairs : ~ready[p] /\ state[p] = "HOLDING"}
  /\ watched' # {}
  /\ UNCHANGED <<pairVars, worker, tasks, monitor, loop, user, externalVars,
                 entries>>

\* No longer HOLDING, or neither the exit spread nor the stop-loss is reached.
Stay(p) ==
  /\ p \in watched
  /\ Unlocked(p)
  /\ watched' = watched \ {p}
  /\ UNCHANGED <<pairVars, worker, tasks, monitor, loop, user, externalVars,
                 entries>>

\* CheckExitConditions asks for a close: "stop" if by stop-loss.
Leave(p, s, kind) ==
  /\ p \in watched
  /\ Unlocked(p)
  /\ state[p] = "HOLDING"
  /\ kind = "stop" => p \in StopLossPairs
  /\ Spawn(s, kind, p, {})
  /\ state' = [state EXCEPT ![p] = "EXITING"]
  /\ watched' = watched \ {p}
  /\ UNCHANGED <<status, ready, legs, index, activeArbs, worker, monitor, loop,
                 user, externalVars, entries>>
-----------------------------------------------------------------------------
(* executeExit and executeForceClose: the orders, then the result.          *)

\* ps.Runtime.Legs is read without the mutex.
SendClose(s) ==
  LET p == tasks[s].pair
  IN /\ tasks[s].kind \in Closers /\ tasks[s].result = "none"
     /\ \E o \in CloseOutcomes(legs[p]) :
          /\ net' = [net EXCEPT ![p] = Filled(@, Each(o.shut, -1))]
          /\ tasks' = [tasks EXCEPT ![s].result = IF o.ok THEN "ok" ELSE "fail"]
     /\ UNCHANGED <<pairVars, worker, watched, monitor, loop, posQueue, user,
                    entries, liquidations>>

\* executeExit after CloseParallel.
FinishExit(s) ==
  LET p == tasks[s].pair
  IN /\ tasks[s].kind \in {"exit", "stop"} /\ tasks[s].result # "none"
     /\ Unlocked(p)
     /\ \/ /\ tasks[s].result = "ok"
           /\ index' = WithoutPosition(p)
           /\ legs' = [legs EXCEPT ![p] = {}]
           /\ activeArbs' = activeArbs - 1
           /\ \/ /\ tasks[s].kind = "stop"
                 /\ state' = [state EXCEPT ![p] = "PAUSED"]
                 /\ status' = [status EXCEPT ![p] = "paused"]
                 /\ ready' = [ready EXCEPT ![p] = FALSE]
              \/ /\ tasks[s].kind = "exit"
                 /\ state' = [state EXCEPT ![p] = "READY"]
                 /\ ready' = [ready EXCEPT ![p] = TRUE]
                 /\ UNCHANGED status
        \/ /\ tasks[s].result = "fail"
           /\ state' = [state EXCEPT ![p] = "ERROR"]
           /\ UNCHANGED <<status, ready, legs, index, activeArbs>>
     /\ tasks' = [tasks EXCEPT ![s] = Free]
     /\ UNCHANGED <<worker, watched, monitor, loop, user, externalVars, entries>>

\* executeForceClose after CloseParallel: index, status and isReady stay.
FinishForce(s) ==
  LET p == tasks[s].pair
  IN /\ tasks[s].kind = "force" /\ tasks[s].result # "none"
     /\ Unlocked(p)
     /\ \/ /\ tasks[s].result = "ok"
           /\ legs' = [legs EXCEPT ![p] = {}]
           /\ state' = [state EXCEPT ![p] = "PAUSED"]
           /\ activeArbs' = activeArbs - 1
        \/ /\ tasks[s].result = "fail"
           /\ state' = [state EXCEPT ![p] = "ERROR"]
           /\ UNCHANGED <<legs, activeArbs>>
     /\ tasks' = [tasks EXCEPT ![s] = Free]
     /\ UNCHANGED <<status, ready, index, worker, watched, monitor, loop, user,
                    externalVars, entries>>
-----------------------------------------------------------------------------
(* RiskMonitor.checkAllRisks: one goroutine, one pair at a time.  The close  *)
(* (closePositionForRisk) does not take the pair out of HOLDING first.       *)

SeeStopLoss(p) ==
  /\ monitor = Idle
  /\ Unlocked(p)
  /\ p \in StopLossPairs /\ state[p] = "HOLDING"
  /\ monitor' = [pc |-> "close", pair |-> p]
  /\ UNCHANGED <<pairVars, worker, tasks, watched, loop, user, externalVars,
                 entries>>

RiskClose ==
  LET p == monitor.pair
  IN /\ monitor.pc = "close"
     /\ Unlocked(p)
     /\ \E o \in CloseOutcomes(legs[p]) :
          /\ net' = [net EXCEPT ![p] = Filled(@, Each(o.shut, -1))]
          /\ monitor' = [monitor EXCEPT !.pc = IF o.ok THEN "closed" ELSE "failed"]
     /\ UNCHANGED <<pairVars, worker, tasks, watched, loop, posQueue, user,
                    entries, liquidations>>

RiskFailed ==
  /\ monitor.pc = "failed"
  /\ Unlocked(monitor.pair)
  /\ state' = [state EXCEPT ![monitor.pair] = "ERROR"]
  /\ monitor' = Idle
  /\ UNCHANGED <<status, ready, legs, index, activeArbs, worker, tasks, watched,
                 loop, user, externalVars, entries>>

RiskClosed ==
  LET p == monitor.pair
  IN /\ monitor.pc = "closed"
     /\ Unlocked(p)
     /\ index' = WithoutPosition(p)
     /\ legs' = [legs EXCEPT ![p] = {}]
     /\ activeArbs' = activeArbs - 1
     /\ state' = [state EXCEPT ![p] = "PAUSED"]
     /\ status' = [status EXCEPT ![p] = "paused"]
     /\ ready' = [ready EXCEPT ![p] = FALSE]
     /\ monitor' = [monitor EXCEPT !.pc = "flag"]
     /\ UNCHANGED <<worker, tasks, watched, loop, user, externalVars, entries>>

\* HandleStopLoss then calls PausePair.
RiskPauseFlag ==
  /\ monitor.pc = "flag"
  /\ PauseFlag(monitor.pair)
  /\ monitor' = [monitor EXCEPT !.pc = "pause"]
  /\ UNCHANGED <<state, status, legs, index, activeArbs, worker, tasks, watched,
                 loop, user, externalVars, entries>>

RiskPauseWrite ==
  /\ monitor.pc = "pause"
  /\ PauseWrite(monitor.pair)
  /\ monitor' = Idle
  /\ UNCHANGED <<ready, legs, index, activeArbs, worker, tasks, watched, loop,
                 user, externalVars, entries>>
-----------------------------------------------------------------------------
(* Liquidations: the exchange closes a position and reports it; the event    *)
(* loop handles one report at a time (handleLiquidation, HandleLiquidation). *)

\* The exchange liquidates what it holds.  enqueuePositionUpdate drops the
\* report when the channel is full.
Liquidate(p, x) ==
  LET side == IF net[p][x] > 0 THEN "long" ELSE "short"
  IN /\ liquidations < MaxLiquidations
     /\ net[p][x] # 0
     /\ net' = [net EXCEPT ![p][x] = 0]
     /\ posQueue' = IF Len(posQueue) < QueueCap
                    THEN Append(posQueue, [pair |-> p, ex |-> x, side |-> side])
                    ELSE posQueue
     /\ liquidations' = liquidations + 1
     /\ UNCHANGED <<pairVars, actorVars, entries>>

\* The leg an update names, and the others.
Hit(u) == {l \in legs[u.pair] : l.ex = u.ex /\ l.side = u.side}
Rest(u) == legs[u.pair] \ Hit(u)

\* The update concerns a HOLDING pair found in the index, both of whose legs
\* can be told apart: the pair leaves HOLDING before the other leg is closed.
HandleLiquidation ==
  LET u == Head(posQueue)
  IN /\ loop.pc = "idle" /\ posQueue # <<>>
     /\ <<u.ex, u.pair>> \in index
     /\ Unlocked(u.pair)
     /\ state[u.pair] = "HOLDING" /\ Hit(u) # {} /\ Rest(u) # {}
     /\ state' = [state EXCEPT ![u.pair] = "EXITING"]
     /\ loop' = [pc |-> "close", pair |-> u.pair, rest |-> Rest(u)]
     /\ posQueue' = Tail(posQueue)
     /\ UNCHANGED <<status, ready, legs, index, activeArbs, worker, tasks,
                    watched, monitor, user, net, entries, liquidations>>

\* Any other update is dropped.
IgnoreLiquidation ==
  LET u == Head(posQueue)
  IN /\ loop.pc = "idle" /\ posQueue # <<>>
     /\ \/ <<u.ex, u.pair>> \notin index
        \/ /\ Unlocked(u.pair)
           /\ state[u.pair] # "HOLDING" \/ Hit(u) = {} \/ Rest(u) = {}
     /\ posQueue' = Tail(posQueue)
     /\ UNCHANGED <<pairVars, actorVars, net, entries, liquidations>>

\* How often the orders of emergencyCloseLeg fill, and whether the last one is
\* confirmed.  The exchange does what its ClosePosition asks; outside
\* BuyMeansLong an order names the position it closes, and is refused when
\* there is none left.  An order whose answer is lost is sent again.
EmergencyOutcomes(p, l, d) ==
  LET canFill(n) == l.ex \in BuyMeansLong \/ n <= -d * net[p][l.ex]
  IN {o \in [fills : {n \in 0..Tries : n = 0 \/ canFill(n)}, ok : BOOLEAN] :
       IF o.ok THEN o.fills > 0 /\ (o.fills > 1 => "close" \in Faults)
               ELSE "close" \in Faults \/ (o.fills = 0 /\ ~canFill(1))}

EmergencyClose(l) ==
  LET p == loop.pair
      d == CloseTrade(l.ex, EmergencySide(l))
  IN /\ loop.pc = "close" /\ l \in loop.rest
     /\ \E o \in EmergencyOutcomes(p, l, d) :
          /\ net' = [net EXCEPT ![p][l.ex] = @ + d * o.fills]
          /\ loop' = [loop EXCEPT !.pc = IF o.ok THEN "closed" ELSE "failed",
                                  !.rest = {}]
     /\ UNCHANGED <<pairVars, worker, tasks, watched, monitor, posQueue, user,
                    entries, liquidations>>

\* Mutant: the failure is only reported.
LiquidationForgotten ==
  /\ loop.pc = "failed"
  /\ Unlocked(loop.pair)
  /\ loop' = LoopIdle
  /\ UNCHANGED <<pairVars, worker, tasks, watched, monitor, user, externalVars,
                 entries>>

LiquidationFailed ==
  /\ loop.pc = "failed"
  /\ Unlocked(loop.pair)
  /\ state' = [state EXCEPT ![loop.pair] = "ERROR"]
  /\ loop' = LoopIdle
  /\ UNCHANGED <<status, ready, legs, index, activeArbs, worker, tasks, watched,
                 monitor, user, externalVars, entries>>

\* Neither the index nor activeArbs is touched.
LiquidationClosed ==
  LET p == loop.pair
  IN /\ loop.pc = "closed"
     /\ Unlocked(p)
     /\ legs' = [legs EXCEPT ![p] = {}]
     /\ state' = [state EXCEPT ![p] = "PAUSED"]
     /\ status' = [status EXCEPT ![p] = "paused"]
     /\ loop' = [loop EXCEPT !.pc = "flag"]
     /\ UNCHANGED <<ready, index, activeArbs, worker, tasks, watched, monitor,
                    user, externalVars, entries>>

\* HandleLiquidation then calls PausePair.
LiquidationPauseFlag ==
  /\ loop.pc = "flag"
  /\ PauseFlag(loop.pair)
  /\ loop' = [loop EXCEPT !.pc = "pause"]
  /\ UNCHANGED <<state, status, legs, index, activeArbs, worker, tasks, watched,
                 monitor, user, externalVars, entries>>

LiquidationPauseWrite ==
  /\ loop.pc = "pause"
  /\ PauseWrite(loop.pair)
  /\ loop' = LoopIdle
  /\ UNCHANGED <<ready, legs, index, activeArbs, worker, tasks, watched,
                 monitor, user, externalVars, entries>>
-----------------------------------------------------------------------------
(* The engine's API.                                                        *)

StartPair(u, p) ==
  /\ "start" \in Commands
  /\ user[u] = Idle
  /\ Unlocked(p)
  /\ status' = [status EXCEPT ![p] = "active"]
  /\ state' = [state EXCEPT ![p] = "READY"]
  /\ user' = [user EXCEPT ![u] = [pc |-> "storeReady", pair |-> p]]
  /\ UNCHANGED <<ready, legs, index, activeArbs, worker, tasks, watched,
                 monitor, loop, externalVars, entries>>

\* isReady is set after the mutex is released.
StoreReady(u) ==
  /\ user[u].pc = "storeReady"
  /\ ready' = [ready EXCEPT ![user[u].pair] = TRUE]
  /\ user' = [user EXCEPT ![u] = Idle]
  /\ UNCHANGED <<state, status, legs, index, activeArbs, worker, tasks, watched,
                 monitor, loop, externalVars, entries>>

PausePair(u, p) ==
  /\ "pause" \in Commands
  /\ user[u] = Idle
  /\ PauseFlag(p)
  /\ user' = [user EXCEPT ![u] = [pc |-> "pauseLock", pair |-> p]]
  /\ UNCHANGED <<state, status, legs, index, activeArbs, worker, tasks, watched,
                 monitor, loop, externalVars, entries>>

PauseLocked(u) ==
  /\ user[u].pc = "pauseLock"
  /\ PauseWrite(user[u].pair)
  /\ user' = [user EXCEPT ![u] = Idle]
  /\ UNCHANGED <<ready, legs, index, activeArbs, worker, tasks, watched,
                 monitor, loop, externalVars, entries>>

\* A pair that is not HOLDING has nothing to close.
ForceClosePair(u, p, s) ==
  /\ "force" \in Commands
  /\ user[u] = Idle
  /\ Unlocked(p)
  /\ state[p] = "HOLDING"
  /\ Spawn(s, "force", p, {})
  /\ state' = [state EXCEPT ![p] = "EXITING"]
  /\ UNCHANGED <<status, ready, legs, index, activeArbs, worker, watched,
                 monitor, loop, user, externalVars, entries>>
-----------------------------------------------------------------------------
WorkerNext(w, p) ==
  \/ SeeOpportunity(w, p)
  \/ Admit(w, p)
  \/ TurnAway(w, p)
  \/ Decline(w, p)
  \/ \E s \in Slots : \E a, b \in Exchanges : Enter(w, p, s, a, b)

TaskNext(s) ==
  \/ SendEntry(s)
  \/ FinishEntry(s)
  \/ SendClose(s)
  \/ FinishExit(s)
  \/ FinishForce(s)

CheckerNext ==
  \/ Collect
  \/ \E p \in Pairs :
       \/ Stay(p)
       \/ \E s \in Slots : \E kind \in {"exit", "stop"} : Leave(p, s, kind)

MonitorNext ==
  \/ \E p \in Pairs : SeeStopLoss(p)
  \/ RiskClose
  \/ RiskFailed
  \/ RiskClosed
  \/ RiskPauseFlag
  \/ RiskPauseWrite

LoopNext ==
  \/ HandleLiquidation
  \/ IgnoreLiquidation
  \/ \E l \in loop.rest : EmergencyClose(l)
  \/ LiquidationFailed
  \/ LiquidationClosed
  \/ LiquidationPauseFlag
  \/ LiquidationPauseWrite

UserNext(u) ==
  \/ \E p \in Pairs :
       \/ StartPair(u, p)
       \/ PausePair(u, p)
       \/ \E s \in Slots : ForceClosePair(u, p, s)
  \/ StoreReady(u)
  \/ PauseLocked(u)

Next ==
  \/ \E w \in Workers : \E p \in Pairs : WorkerNext(w, p)
  \/ \E s \in Slots : TaskNext(s)
  \/ CheckerNext
  \/ MonitorNext
  \/ LoopNext
  \/ \E u \in Users : UserNext(u)
  \/ \E p \in Pairs : \E x \in Exchanges : Liquidate(p, x)

Spec == Init /\ [][Next]_vars

\* Fairness.  A worker in the critical section leaves it; a round of orders
\* ends, at the latest by its context's timeout; sync.RWMutex starves no
\* waiter, so a goroutine that keeps asking for it gets it.
TaskFairness ==
  \A s \in Slots :
    /\ WF_vars(SendEntry(s) \/ SendClose(s))
    /\ SF_vars(FinishEntry(s) \/ FinishExit(s) \/ FinishForce(s))

WorkerFairness ==
  \A w \in Workers :
    WF_vars(\E p \in Pairs :
              \/ Decline(w, p)
              \/ \E s \in Slots : \E a, b \in Exchanges : Enter(w, p, s, a, b))

LoopFairness ==
  /\ SF_vars(HandleLiquidation \/ IgnoreLiquidation)
  /\ WF_vars(\E l \in loop.rest : EmergencyClose(l))
  /\ SF_vars(LiquidationFailed \/ LiquidationClosed)
  /\ WF_vars(LiquidationPauseFlag)
  /\ SF_vars(LiquidationPauseWrite)

FairSpec == Spec /\ TaskFairness /\ WorkerFairness /\ LoopFairness
-----------------------------------------------------------------------------
(* Properties.                                                              *)

\* Every actor that is not at rest works on a pair of the engine, in a known state.
TypeOK ==
  /\ state \in [Pairs -> States]
  /\ status \in [Pairs -> Statuses]
  /\ ready \in [Pairs -> BOOLEAN]
  /\ legs \in [Pairs -> SUBSET Leg]
  /\ index \subseteq Exchanges \X Pairs
  /\ activeArbs \in Int
  /\ net \in [Pairs -> [Exchanges -> Int]]
  /\ worker \in [Workers -> WorkerState]
  /\ tasks \in [Slots -> Task]
  /\ watched \subseteq Pairs
  /\ monitor \in MonitorState
  /\ loop \in LoopState
  /\ posQueue \in Seq(Update)
  /\ user \in [Users -> UserState]
  /\ entries \in Nat
  /\ liquidations \in Nat

\* L is the two legs of one arbitrage: long on one exchange, short on another.
IsHedge(L) == \E a, b \in Exchanges : a # b /\ L = Hedge(a, b)

\* A HOLDING pair has the two legs of one arbitrage, and the index finds the
\* pair for each: a liquidation of either leg reaches it (engine.go:851-859,
\* handleLiquidation's lookup at 982-987).
HoldingIndexed ==
  \A p \in Pairs :
    state[p] = "HOLDING" => IsHedge(legs[p]) /\ Keys(p) \subseteq index

Entering(s, p) == tasks[s].pair = p /\ tasks[s].kind = "entry"
Closing(s, p) == tasks[s].pair = p /\ tasks[s].kind \in Closers
LoopCloses(p) == loop.pair = p /\ loop.pc \in {"close", "closed", "failed"}

\* A pair is never left in a transient state: while it is ENTERING a goroutine
\* executes its entry, while it is EXITING a goroutine or the event loop closes
\* it, whatever StartPair, PausePair and the RiskMonitor did in between.
TransientOwned ==
  \A p \in Pairs :
    /\ state[p] = "ENTERING" => \E s \in Slots : Entering(s, p)
    /\ state[p] = "EXITING" =>
         (\E s \in Slots : Closing(s, p)) \/ LoopCloses(p)

\* Workers that have passed the limit check and may still increment activeArbs.
Admitted == {w \in Workers : worker[w].pc = "locked"}

\* The check of the limit and the increment are two accesses to activeArbs
\* under the mutex of one pair only, so the limit can be exceeded, but by less
\* than the number of price workers (engine.go:781-800).
OvershootBounded ==
  MaxArbs > 0 =>
    activeArbs + Cardinality(Admitted) <= MaxArbs + Cardinality(Workers) - 1

Busy == {s \in Slots : tasks[s].kind # "free"}
Holding == {p \in Pairs : state[p] = "HOLDING"}

\* Unless a stop-loss lets the RiskMonitor close a position a second time,
\* activeArbs never counts fewer arbitrages than there are entries and closes
\* in flight and pairs HOLDING, so the limit check cannot be fooled into
\* admitting more (engine.go:1286-1301).
ArbsCoverWork ==
  StopLossPairs = {} => activeArbs >= Cardinality(Busy) + Cardinality(Holding)

\* The exit checker only collects pairs whose isReady is 0.  Unless StartPair
\* is called again, a HOLDING pair is one of them: no exit is missed
\* (engine.go:523, 798).
HoldingWatched ==
  "start" \notin Commands => \A p \in Pairs : state[p] = "HOLDING" => ~ready[p]

Quiet(p) ==
  /\ \A s \in Slots : tasks[s].pair # p
  /\ monitor.pair # p /\ loop.pair # p

\* When nothing is in flight for a pair, what it records is what the exchanges
\* hold: nothing if it records no legs, and both legs if it is HOLDING.  Not
\* claimed when an entry's order fills unseen, when an exchange liquidates a
\* position, when StartPair may restart a pair that has one, or of a pair with a
\* stop-loss, whose legs the RiskMonitor may close a second time.
BooksMatch ==
  Faults \subseteq {"close"} /\ MaxLiquidations = 0 /\ "start" \notin Commands =>
    \A p \in Pairs \ StopLossPairs :
      Quiet(p) /\ (legs[p] = {} \/ state[p] = "HOLDING") =>
        net[p] = Filled([x \in Exchanges |-> 0], Each(legs[p], 1))

\* The life cycle the engine implements when nobody pauses or restarts a pair
\* that has an arbitrage and nothing but the exit checker and ForceClosePair
\* closes one.
Phase(st) ==
  CASE st = "ENTERING" -> "opening"
    [] st = "HOLDING" -> "open"
    [] st = "EXITING" -> "closing"
    [] st = "ERROR" -> "stuck"
    [] OTHER -> "none"

Lifecycle == INSTANCE ArbLifecycle
               WITH phase <- [p \in Pairs |-> Phase(state[p])],
                    count <- activeArbs

\* Every behaviour is one of ArbLifecycle: each pair's arbitrage goes through
\* its phases one at a time and activeArbs counts it from entry to close
\* (engine.go:798-800, 851-883, 596-624, 1717-1742).
ImplementsLifecycle == Lifecycle!Spec

\* An entry or a close that began comes to an end: no pair stays ENTERING or
\* EXITING.
TransientEnds ==
  \A p \in Pairs :
    /\ (state[p] = "ENTERING") ~> (state[p] # "ENTERING")
    /\ (state[p] = "EXITING") ~> (state[p] # "EXITING")

Reported(p) ==
  \E i \in 1..Len(posQueue) : posQueue[i].pair = p /\ Hit(posQueue[i]) # {}

\* A HOLDING pair does not ignore the reported liquidation of one of its legs:
\* it leaves HOLDING (Тз.md:856-859).
LiquidationAnswered ==
  \A p \in Pairs :
    (Reported(p) /\ state[p] = "HOLDING") ~> (state[p] # "HOLDING")
=============================================================================
