------------------------------- MODULE OrderExec -------------------------------
(***************************************************************************)
(* The order executor (internal/bot/order.go): calls of ExecuteParallel,     *)
(* each with two goroutines that place the orders of its legs and send the   *)
(* answers on channels taken from a shared pool, and calls of CloseParallel. *)
(* An order is one unit, counted in fills; what reads the exchange is the    *)
(* rest of the world, so an order that fills after its answer was given up   *)
(* is counted when it is given up.                                           *)
(***************************************************************************)
EXTENDS Orders, FiniteSets

CONSTANTS
  Entries,     \* calls of ExecuteParallel
  Closes,      \* calls of CloseParallel
  Chans,       \* the channels of legResultChanPool
  MaxRetries,  \* cfg.Bot.MaxRetries; 0 would retry until the context ends
  NoChan,      \* the channel of a leg that has none
  Empty        \* no answer

ASSUME MaxRetriesAssumption == MaxRetries \in Nat /\ MaxRetries > 0

ASSUME ExecutorAssumption ==
  /\ Tries = MaxRetries + 1
  /\ NoChan \notin Chans
  /\ Entries \cap Closes = {}

VARIABLES
  pc,       \* where each call is
  expired,  \* whether its context has ended
  chan,     \* the channels of its legs, which their goroutines keep
  held,     \* whether it has yet to return them to the pool
  buffer,   \* what each channel holds, at most one answer
  pool,     \* the channels in the pool
  order,    \* the goroutine of each leg
  answer,   \* the answer each call received for each leg
  undo,     \* the legs it has to roll back
  tries,    \* the retries of its second leg
  fills,    \* how often the order of each leg filled, less its rollbacks
  result    \* what each call returned

callVars == <<pc, expired, undo, tries, result>>
chanVars == <<chan, held, buffer, pool>>
legVars == <<order, answer, fills>>
vars == <<callVars, chanVars, legVars>>

Sides == {"long", "short"}
Calls == Entries \cup Closes

\* A LegResult, with the order it answers: no error, and FilledQty above zero.
Answer == [call : Calls, side : Sides, ok : BOOLEAN, seen : BOOLEAN]

MayFail(c) == c \in Entries \/ "close" \in Faults
MayExpire(c) == (IF c \in Entries THEN "timeout" ELSE "close") \in Faults

\* What PlaceMarketOrder may do: fill and say so, refuse, or fill although it
\* answers with an error.
Placements(c) ==
  {o \in [fill : {0, 1}, ok : BOOLEAN, seen : BOOLEAN] :
     IF o.ok
     THEN o.fill = 1 /\ (o.seen \/ "unseen" \in Faults)
     ELSE /\ ~o.seen /\ MayFail(c)
          /\ o.fill = 1 => "lost" \in Faults \/ c \notin Entries \/ expired[c]}

Init ==
  /\ pc = [c \in Calls |-> "idle"]
  /\ expired = [c \in Calls |-> FALSE]
  /\ chan = [c \in Calls |-> [s \in Sides |-> NoChan]]
  /\ held = [c \in Calls |-> FALSE]
  /\ buffer = [ch \in Chans |-> Empty]
  /\ pool = Chans
  /\ order = [c \in Calls |-> [s \in Sides |-> "none"]]
  /\ answer = [c \in Calls |-> [s \in Sides |-> Empty]]
  /\ undo = [c \in Calls |-> {}]
  /\ tries = [c \in Calls |-> 0]
  /\ fills = [c \in Calls |-> [s \in Sides |-> 0]]
  /\ result = [c \in Calls |-> "none"]
-----------------------------------------------------------------------------
(* Starting a call.                                                         *)

Return(c, r) ==
  /\ pc' = [pc EXCEPT ![c] = "done"]
  /\ result' = [result EXCEPT ![c] = r]

\* Two channels are acquired and both orders are sent.
Start(c) ==
  /\ pc[c] = "idle"
  /\ \E f \in [Sides -> pool] :
       /\ f["long"] # f["short"]
       /\ chan' = [chan EXCEPT ![c] = f]
       /\ pool' = pool \ {f[s] : s \in Sides}
  /\ held' = [held EXCEPT ![c] = TRUE]
  /\ order' = [order EXCEPT ![c] = [s \in Sides |-> "sent"]]
  /\ pc' = [pc EXCEPT ![c] = "wait"]
  /\ UNCHANGED <<expired, undo, tries, result, buffer, answer, fills>>

\* An exchange of the call is no longer connected.
NoExchange(c) ==
  /\ pc[c] = "idle" /\ MayFail(c)
  /\ Return(c, "fail")
  /\ UNCHANGED <<expired, undo, tries, chanVars, legVars>>

\* closeSingleLeg, for a close of one leg: one order, no channel.
CloseSingle(c) ==
  /\ pc[c] = "idle" /\ c \in Closes
  /\ \E o \in Placements(c) :
       /\ fills' = [fills EXCEPT ![c]["long"] = o.fill]
       /\ Return(c, IF o.ok THEN "ok" ELSE "fail")
  /\ UNCHANGED <<expired, undo, tries, chanVars, order, answer>>

\* The timeout of the call's context, or the engine's shutdown.
Expire(c) ==
  /\ pc[c] \in {"wait", "retry"} /\ ~expired[c] /\ MayExpire(c)
  /\ expired' = [expired EXCEPT ![c] = TRUE]
  /\ UNCHANGED <<pc, undo, tries, result, chanVars, legVars>>
-----------------------------------------------------------------------------
(* The goroutines of the orders, and the channels.                          *)

\* The order ends, and its answer is sent unless the channel holds another.
Place(c, s) ==
  /\ order[c][s] = "sent"
  /\ \E o \in Placements(c) :
       /\ fills' = [fills EXCEPT ![c][s] = @ + o.fill]
       /\ order' = [order EXCEPT ![c][s] = IF o.ok THEN "accepted" ELSE "failed"]
       /\ buffer' = [buffer EXCEPT ![chan[c][s]] =
                      IF @ = Empty
                      THEN [call |-> c, side |-> s, ok |-> o.ok, seen |-> o.seen]
                      ELSE @]
  /\ UNCHANGED <<callVars, chan, held, pool, answer>>

Waiting(c) == \E s \in Sides : answer[c][s] = Empty

Receive(c, s) ==
  /\ pc[c] = "wait" /\ answer[c][s] = Empty
  /\ buffer[chan[c][s]] # Empty
  /\ answer' = [answer EXCEPT ![c][s] = buffer[chan[c][s]]]
  /\ buffer' = [buffer EXCEPT ![chan[c][s]] = Empty]
  /\ UNCHANGED <<callVars, chan, held, pool, order, fills>>

Channels(c) == {chan[c][s] : s \in Sides}

\* releaseLegResultChan on both channels: they are emptied first.
Release(c) ==
  /\ buffer' = [ch \in Chans |-> IF ch \in Channels(c) THEN Empty ELSE buffer[ch]]
  /\ pool' = pool \cup Channels(c)
  /\ held' = [held EXCEPT ![c] = FALSE]
  /\ UNCHANGED chan

\* The goroutines of a call both of whose orders have ended are done.
Finished(c) == \A s \in Sides : order[c][s] # "sent"

\* Mutants: the channels go back at once, or never do.
EarlyReleaseLater(c) ==
  /\ pc[c] # "wait" /\ held[c]
  /\ Release(c)
  /\ UNCHANGED <<callVars, legVars>>
NeverReleaseLater(c) == FALSE /\ UNCHANGED vars

\* The goroutine left behind by a call that gave up waiting.
ReleaseLater(c) ==
  /\ pc[c] # "wait" /\ held[c]
  /\ Finished(c)
  /\ Release(c)
  /\ UNCHANGED <<callVars, legVars>>
-----------------------------------------------------------------------------
(* Both answers have come: handleResults, and the end of closeTwoLegs.      *)

Good(c) == {s \in Sides : answer[c][s] # Empty /\ answer[c][s].ok}

\* Mutant: one order is enough.
AnyGood(c) == Good(c) # {}

BothGood(c) == Good(c) = Sides

\* Both legs open or both closed, both failed, or a close that failed.
Conclude(c) ==
  /\ pc[c] = "wait" /\ ~Waiting(c)
  /\ BothGood(c) \/ Good(c) = {} \/ c \in Closes
  /\ Release(c)
  /\ Return(c, IF BothGood(c) THEN "ok" ELSE "fail")
  /\ UNCHANGED <<expired, undo, tries, legVars>>

\* One leg of an entry opened: the other is tried again.
SecondLeg(c) ==
  /\ pc[c] = "wait" /\ ~Waiting(c)
  /\ c \in Entries /\ Cardinality(Good(c)) = 1
  /\ Release(c)
  /\ undo' = [undo EXCEPT ![c] = Good(c)]
  /\ pc' = [pc EXCEPT ![c] = "retry"]
  /\ UNCHANGED <<expired, tries, result, legVars>>

\* Mutant: one attempt too many.
LooseExhausted(n) == n > MaxRetries

Exhausted(n) == n = MaxRetries

\* retrySecondLeg: one attempt.
Retry(c) ==
  /\ pc[c] = "retry" /\ ~expired[c]
  /\ \E s \in Sides \ undo[c] : \E o \in Placements(c) :
       /\ fills' = [fills EXCEPT ![c][s] = @ + o.fill]
       /\ IF o.ok
          THEN Return(c, "ok") /\ UNCHANGED tries
          ELSE /\ tries' = [tries EXCEPT ![c] = @ + 1]
               /\ pc' = [pc EXCEPT ![c] = IF Exhausted(tries[c] + 1)
                                          THEN "rollback" ELSE "retry"]
               /\ UNCHANGED result
  /\ UNCHANGED <<expired, undo, chanVars, order, answer>>

\* The context ends during an attempt; its order may have filled.
RetryExpires(c) ==
  /\ pc[c] = "retry" /\ ~expired[c] /\ MayExpire(c)
  /\ \E s \in Sides \ undo[c] : \E n \in {0, 1} :
       fills' = [fills EXCEPT ![c][s] = @ + n]
  /\ expired' = [expired EXCEPT ![c] = TRUE]
  /\ pc' = [pc EXCEPT ![c] = "rollback"]
  /\ UNCHANGED <<undo, tries, result, chanVars, order, answer>>

\* Mutant: the end of the context is not noticed between attempts.
DeafRetryStops(c) == FALSE /\ UNCHANGED vars

\* The context has ended before an attempt or while waiting for the next.
RetryStops(c) ==
  /\ pc[c] = "retry" /\ expired[c]
  /\ pc' = [pc EXCEPT ![c] = "rollback"]
  /\ UNCHANGED <<expired, undo, tries, result, chanVars, legVars>>

\* rollbackLong and rollbackShort do nothing when FilledQty is 0; their order
\* has a context of its own, and may fail.
Rollbacks(c, s) ==
  IF answer[c][s].seen
  THEN {1} \cup (IF "rollback" \in Faults THEN {0} ELSE {})
  ELSE {0}

Rollback(c) ==
  /\ pc[c] = "rollback"
  /\ \E s \in undo[c] : \E n \in Rollbacks(c, s) :
       fills' = [fills EXCEPT ![c][s] = @ - n]
  /\ Return(c, "pause")
  /\ UNCHANGED <<expired, undo, tries, chanVars, order, answer>>
-----------------------------------------------------------------------------
(* The context ends while an answer is missing.                             *)

Abandon(c) ==
  /\ pc[c] = "wait" /\ expired[c] /\ Waiting(c)
  /\ undo' = [undo EXCEPT ![c] = IF c \in Entries THEN Good(c) ELSE {}]
  /\ IF undo'[c] = {}
     THEN Return(c, "fail")
     ELSE pc' = [pc EXCEPT ![c] = "undo"] /\ UNCHANGED result
  /\ UNCHANGED <<expired, tries, chanVars, legVars>>

\* The leg whose answer had come is rolled back; the pair is not paused.
UndoLeg(c) ==
  /\ pc[c] = "undo"
  /\ \E s \in undo[c] : \E n \in Rollbacks(c, s) :
       fills' = [fills EXCEPT ![c][s] = @ - n]
  /\ Return(c, "fail")
  /\ UNCHANGED <<expired, undo, tries, chanVars, order, answer>>
-----------------------------------------------------------------------------
CallNext(c) ==
  \/ Start(c)
  \/ NoExchange(c)
  \/ CloseSingle(c)
  \/ Expire(c)
  \/ \E s \in Sides : Receive(c, s) \/ Place(c, s)
  \/ Conclude(c)
  \/ SecondLeg(c)
  \/ Retry(c)
  \/ RetryExpires(c)
  \/ RetryStops(c)
  \/ Rollback(c)
  \/ Abandon(c)
  \/ UndoLeg(c)
  \/ ReleaseLater(c)

Next == \E c \in Calls : CallNext(c)

Spec == Init /\ [][Next]_vars

\* Fairness.  An order ends, at the latest by the timeout of the HTTP client,
\* and a goroutine that can take its next step takes it.  Whether a context
\* ends is left open.
FairSpec ==
  /\ Spec
  /\ \A c \in Calls :
       /\ \A s \in Sides : WF_vars(Place(c, s)) /\ WF_vars(Receive(c, s))
       /\ WF_vars(Conclude(c) \/ SecondLeg(c) \/ Abandon(c))
       /\ WF_vars(Retry(c) \/ RetryStops(c))
       /\ WF_vars(Rollback(c) \/ UndoLeg(c))
       /\ WF_vars(ReleaseLater(c))
-----------------------------------------------------------------------------
(* Properties.                                                              *)

Results == {"none", "ok", "fail", "pause"}

\* Every call is at a step of its function, with at most MaxRetries retries.
TypeOK ==
  /\ pc \in [Calls -> {"idle", "wait", "retry", "rollback", "undo", "done"}]
  /\ expired \in [Calls -> BOOLEAN]
  /\ chan \in [Calls -> [Sides -> Chans \cup {NoChan}]]
  /\ held \in [Calls -> BOOLEAN]
  /\ buffer \in [Chans -> Answer \cup {Empty}]
  /\ pool \subseteq Chans
  /\ order \in [Calls -> [Sides -> {"none", "sent", "accepted", "failed"}]]
  /\ answer \in [Calls -> [Sides -> Answer \cup {Empty}]]
  /\ undo \in [Calls -> SUBSET Sides]
  /\ tries \in [Calls -> 0..MaxRetries]
  /\ fills \in [Calls -> [Sides -> Int]]
  /\ result \in [Calls -> Results]

\* A call only ever reads the answers to its own orders, although the channels
\* are shared with calls that gave up before theirs came (order.go:171-177,
\* 538-545).
OwnAnswer ==
  \A c \in Calls : \A s \in Sides :
    answer[c][s] # Empty => answer[c][s].call = c /\ answer[c][s].side = s

\* All orders of the call have ended.
Settled(c) == pc[c] = "done" /\ Finished(c)

\* Whatever fails and in whatever order the answers come, a call of
\* ExecuteParallel ends as the engine's model assumes (order.go:112-418).
EntryPromise ==
  \A c \in Entries :
    Settled(c) =>
      [fills |-> fills[c], result |-> result[c]] \in EntryOutcomes(Sides)

\* A close without orders of its goroutines closed one leg.
Legs(c) == IF order[c]["short"] = "none" THEN {"long"} ELSE Sides

\* A call of CloseParallel ends as the engine's model assumes: it reports
\* success only when every leg is closed, once (order.go:424-596).
ClosePromise ==
  \A c \in Closes :
    Settled(c) =>
      /\ \A s \in Sides : fills[c][s] \in {0, 1}
      /\ [shut |-> {s \in Sides : fills[c][s] = 1}, ok |-> result[c] = "ok"]
           \in CloseOutcomes(Legs(c))

\* Every call returns, whether or not its context ends.
CallReturns == \A c \in Calls : (pc[c] # "idle") ~> (pc[c] = "done")

\* No channel is lost, even to a call that gave up (order.go:171-177, 538-545).
ChannelsReturn == \A ch \in Chans : (ch \notin pool) ~> (ch \in pool)
=============================================================================
