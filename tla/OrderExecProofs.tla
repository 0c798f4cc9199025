--------------------------- MODULE OrderExecProofs ---------------------------
(***************************************************************************)
(* Theorems about OrderExec, for any number of calls and channels and every *)
(* failure the module models.                                               *)
(***************************************************************************)
EXTENDS OrderExec, FiniteSetTheorems, TLAPS
-----------------------------------------------------------------------------
(* The inductive invariant.                                                 *)

\* A retry is only begun while attempts are left.
TriesLeft ==
  \A c \in Calls :
    /\ pc[c] \in {"idle", "wait"} => tries[c] = 0
    /\ pc[c] = "retry" => tries[c] < MaxRetries

\* The channels of calls that hold some are out of the pool and differ.
ChansApart ==
  /\ \A c \in Calls : held[c] => \A s \in Sides : chan[c][s] \in Chans \ pool
  /\ \A c, d \in Calls : \A s, t \in Sides :
       held[c] /\ held[d] /\ chan[c][s] = chan[d][t] => c = d /\ s = t

\* A call holds its channels while it waits or one of its orders is out.
HeldLongEnough ==
  \A c \in Calls : pc[c] = "wait" \/ ~Finished(c) => held[c]

\* An answer that is sent or received ends the order it answers.
AnsweredOnce ==
  \A c \in Calls : \A s \in Sides :
    /\ answer[c][s] # Empty => order[c][s] # "sent"
    /\ held[c] /\ buffer[chan[c][s]] # Empty => order[c][s] # "sent"
    /\ pc[c] = "idle" => answer[c][s] = Empty

\* A channel in the pool is empty, and one that is held has its owner's answer.
OwnBuffer ==
  /\ \A ch \in pool : buffer[ch] = Empty
  /\ \A c \in Calls : \A s \in Sides :
       held[c] /\ buffer[chan[c][s]] # Empty =>
         buffer[chan[c][s]].call = c /\ buffer[chan[c][s]].side = s

IInv ==
  /\ TypeOK
  /\ TriesLeft
  /\ ChansApart
  /\ HeldLongEnough
  /\ AnsweredOnce
  /\ OwnBuffer
  /\ OwnAnswer
-----------------------------------------------------------------------------
\* The invariant holds initially.
LEMMA InitInvariant == Init => IInv
BY MaxRetriesAssumption
DEF Init, IInv, TypeOK, TriesLeft, ChansApart, HeldLongEnough, AnsweredOnce,
    OwnBuffer, OwnAnswer, Finished, Sides, Results

\* Two fresh channels are taken from the pool.
LEMMA StartInvariant ==
  ASSUME IInv, NEW c \in Calls, Start(c)
  PROVE  IInv'
<1> USE DEF IInv
<1>1. PICK f \in [Sides -> pool] :
        /\ f["long"] # f["short"]
        /\ chan' = [chan EXCEPT ![c] = f]
        /\ pool' = pool \ {f[s] : s \in Sides}
  BY DEF Start
<1>2. \A s \in Sides : chan'[c][s] = f[s] /\ f[s] \in pool /\ f[s] \notin pool'
  BY <1>1 DEF TypeOK
<1>3. \A d \in Calls \ {c} : chan'[d] = chan[d] /\ held'[d] = held[d]
                               /\ order'[d] = order[d] /\ pc'[d] = pc[d]
  BY <1>1 DEF Start, TypeOK
<1>4. /\ held'[c] /\ pc'[c] = "wait" /\ pc[c] = "idle"
      /\ \A s \in Sides : order'[c][s] = "sent"
  BY DEF Start, TypeOK
<1>5. TypeOK'
  BY <1>1 DEF Start, TypeOK, Sides
<1>6. TriesLeft'
  BY <1>3, <1>4 DEF Start, TriesLeft
<1>7. ChansApart'
  <2>1. \A s, t \in Sides : f[s] = f[t] => s = t
    BY <1>1 DEF Sides
  <2> QED
    BY <1>1, <1>2, <1>3, <2>1 DEF ChansApart, TypeOK
<1>8. HeldLongEnough'
  BY <1>3, <1>4 DEF HeldLongEnough, Finished
<1>9. AnsweredOnce' /\ OwnBuffer'
  BY <1>1, <1>2, <1>3, <1>4 DEF Start, AnsweredOnce, OwnBuffer, TypeOK
<1>10. OwnAnswer'
  BY DEF Start, OwnAnswer
<1> QED
  BY <1>5, <1>6, <1>7, <1>8, <1>9, <1>10

\* The answer of an order goes to its own channel, which is empty.
LEMMA PlaceInvariant ==
  ASSUME IInv, NEW c \in Calls, NEW s \in Sides, Place(c, s)
  PROVE  IInv'
<1> USE DEF IInv
<1>1. order[c][s] = "sent" /\ held[c] /\ chan[c][s] \in Chans \ pool
  BY DEF Place, HeldLongEnough, Finished, ChansApart
<1>2. PICK o \in Placements(c) :
        /\ fills' = [fills EXCEPT ![c][s] = @ + o.fill]
        /\ order' = [order EXCEPT ![c][s] = IF o.ok THEN "accepted" ELSE "failed"]
        /\ buffer' = [buffer EXCEPT ![chan[c][s]] =
                       IF @ = Empty
                       THEN [call |-> c, side |-> s, ok |-> o.ok, seen |-> o.seen]
                       ELSE @]
  BY DEF Place
<1>3. o.fill \in Int /\ o.ok \in BOOLEAN /\ o.seen \in BOOLEAN
  BY DEF Placements
<1>4. buffer[chan[c][s]] = Empty
  BY <1>1 DEF AnsweredOnce
<1>5. buffer' = [buffer EXCEPT ![chan[c][s]] =
                   [call |-> c, side |-> s, ok |-> o.ok, seen |-> o.seen]]
  BY <1>2, <1>4
<1>6. /\ order'[c][s] # "sent"
      /\ \A d \in Calls : \A t \in Sides :
           <<d, t>> # <<c, s>> => order'[d][t] = order[d][t]
  BY <1>2 DEF TypeOK
<1>7. TypeOK'
  <2>1. [call |-> c, side |-> s, ok |-> o.ok, seen |-> o.seen] \in Answer
    BY <1>3 DEF Answer
  <2>2. buffer' \in [Chans -> Answer \cup {Empty}]
    BY <1>5, <2>1 DEF TypeOK
  <2>3. fills' \in [Calls -> [Sides -> Int]]
    BY <1>2, <1>3 DEF TypeOK
  <2>4. order' \in [Calls -> [Sides -> {"none", "sent", "accepted", "failed"}]]
    BY <1>2 DEF TypeOK
  <2> QED
    BY <2>2, <2>3, <2>4 DEF Place, callVars, TypeOK
<1>8. TriesLeft' /\ ChansApart' /\ OwnAnswer'
  BY DEF Place, callVars, TriesLeft, ChansApart, OwnAnswer
<1>9. HeldLongEnough'
  BY <1>1, <1>6 DEF Place, callVars, HeldLongEnough, Finished
<1>10. \A d \in Calls : \A t \in Sides :
         held[d] /\ <<d, t>> # <<c, s>> => buffer'[chan[d][t]] = buffer[chan[d][t]]
  BY <1>1, <1>5 DEF ChansApart, TypeOK
<1>11. AnsweredOnce'
  BY <1>6, <1>10 DEF Place, callVars, AnsweredOnce
<1>12. OwnBuffer'
  <2>1. /\ buffer'[chan[c][s]].call = c
        /\ buffer'[chan[c][s]].side = s
    BY <1>1, <1>5 DEF TypeOK
  <2>2. \A ch \in pool : buffer'[ch] = buffer[ch]
    BY <1>1, <1>5 DEF TypeOK
  <2> QED
    BY <1>10, <2>1, <2>2 DEF Place, OwnBuffer
<1> QED
  BY <1>7, <1>8, <1>9, <1>11, <1>12

\* A call reads a channel it holds.
LEMMA ReceiveInvariant ==
  ASSUME IInv, NEW c \in Calls, NEW s \in Sides, Receive(c, s)
  PROVE  IInv'
<1> USE DEF IInv
<1>1. held[c] /\ chan[c][s] \in Chans \ pool
  BY DEF Receive, HeldLongEnough, ChansApart
<1>2. /\ answer' = [answer EXCEPT ![c][s] = buffer[chan[c][s]]]
      /\ buffer' = [buffer EXCEPT ![chan[c][s]] = Empty]
      /\ buffer[chan[c][s]] # Empty
      /\ UNCHANGED <<callVars, chan, held, pool, order, fills>>
  BY DEF Receive
<1>3. \A d \in Calls : \A t \in Sides :
        answer'[d][t] = IF d = c /\ t = s THEN buffer[chan[c][s]] ELSE answer[d][t]
  BY <1>2 DEF TypeOK
<1>4. \A ch \in Chans : buffer'[ch] = Empty \/ buffer'[ch] = buffer[ch]
  BY <1>2 DEF TypeOK
<1>5. TypeOK'
  <2>1. buffer[chan[c][s]] \in Answer \cup {Empty}
    BY <1>1 DEF TypeOK
  <2>2. answer' \in [Calls -> [Sides -> Answer \cup {Empty}]]
    BY <1>2, <2>1 DEF TypeOK
  <2>3. buffer' \in [Chans -> Answer \cup {Empty}]
    BY <1>2 DEF TypeOK
  <2> QED
    BY <1>2, <2>2, <2>3 DEF TypeOK, callVars
<1>6. TriesLeft' /\ ChansApart' /\ HeldLongEnough'
  BY <1>2 DEF callVars, TriesLeft, ChansApart, HeldLongEnough, Finished
<1>7. AnsweredOnce'
  <2>1. order[c][s] # "sent" /\ pc[c] = "wait"
    BY <1>1, <1>2 DEF Receive, AnsweredOnce
  <2> QED
    BY <1>2, <1>3, <1>4, <2>1 DEF callVars, AnsweredOnce, ChansApart
<1>8. OwnBuffer'
  BY <1>2, <1>4 DEF OwnBuffer, ChansApart, TypeOK
<1>9. OwnAnswer'
  BY <1>1, <1>2, <1>3 DEF OwnAnswer, OwnBuffer
<1> QED
  BY <1>5, <1>6, <1>7, <1>8, <1>9

\* Channels go back when no order of the call is out.
LEMMA ReleaseInvariant ==
  ASSUME IInv, NEW c \in Calls, held[c], Finished(c), Release(c)
  PROVE  /\ ChansApart' /\ OwnBuffer'
         /\ held' \in [Calls -> BOOLEAN] /\ chan' = chan
         /\ buffer' \in [Chans -> Answer \cup {Empty}] /\ pool' \subseteq Chans
         /\ \A d \in Calls : held'[d] = (held[d] /\ d # c)
         /\ \A ch \in Chans : buffer'[ch] = Empty \/ buffer'[ch] = buffer[ch]
<1> USE DEF IInv
<1>1. \A d \in Calls : held'[d] = (held[d] /\ d # c)
  BY DEF Release, TypeOK
<1>2. Channels(c) \subseteq Chans
  BY DEF Channels, ChansApart
<1>3. \A ch \in Chans : buffer'[ch] = Empty \/ buffer'[ch] = buffer[ch]
  BY DEF Release
<1>4. \A ch \in Channels(c) : buffer'[ch] = Empty
  BY <1>2 DEF Release
<1>5. ASSUME NEW d \in Calls, NEW t \in Sides, held'[d]
      PROVE  chan[d][t] \notin Channels(c)
  <2>1. held[d] /\ d # c
    BY <1>1, <1>5
  <2>2. \A s \in Sides : chan[d][t] # chan[c][s]
    BY <2>1 DEF ChansApart
  <2> QED
    BY <2>2 DEF Channels
<1>6. ChansApart'
  BY <1>1, <1>5 DEF Release, ChansApart
<1>7. OwnBuffer'
  <2>1. \A ch \in pool' : buffer'[ch] = Empty
    BY <1>2, <1>3, <1>4 DEF Release, OwnBuffer, TypeOK
  <2>2. \A d \in Calls : \A t \in Sides :
          held'[d] /\ buffer'[chan[d][t]] # Empty =>
            held[d] /\ buffer'[chan[d][t]] = buffer[chan[d][t]]
    BY <1>1, <1>3 DEF ChansApart
  <2> QED
    BY <2>1, <2>2 DEF Release, OwnBuffer
<1>8. /\ held' \in [Calls -> BOOLEAN] /\ chan' = chan
      /\ buffer' \in [Chans -> Answer \cup {Empty}] /\ pool' \subseteq Chans
  BY <1>2 DEF Release, TypeOK
<1> QED
  BY <1>1, <1>3, <1>6, <1>7, <1>8

\* The steps that return the channels.
LEMMA ReleasingInvariant ==
  ASSUME IInv, NEW c \in Calls, Conclude(c) \/ SecondLeg(c) \/ ReleaseLater(c)
  PROVE  IInv'
<1> USE DEF IInv
<1>1. held[c] /\ Finished(c) /\ Release(c) /\ UNCHANGED legVars
  BY DEF Conclude, SecondLeg, ReleaseLater, HeldLongEnough, AnsweredOnce, Waiting,
         Finished
<1>2. /\ ChansApart' /\ OwnBuffer'
      /\ held' \in [Calls -> BOOLEAN] /\ chan' = chan
      /\ buffer' \in [Chans -> Answer \cup {Empty}] /\ pool' \subseteq Chans
      /\ \A d \in Calls : held'[d] = (held[d] /\ d # c)
      /\ \A ch \in Chans : buffer'[ch] = Empty \/ buffer'[ch] = buffer[ch]
  BY <1>1, ReleaseInvariant
<1>3. /\ pc'[c] # "wait"
      /\ \A d \in Calls : pc'[d] = "idle" => pc[d] = "idle"
      /\ \A d \in Calls \ {c} : pc'[d] = pc[d]
  BY DEF Conclude, SecondLeg, ReleaseLater, Return, callVars, TypeOK
<1>4. TypeOK'
  <2>1. Good(c) \subseteq Sides
    BY DEF Good
  <2>2. pc' \in [Calls -> {"idle", "wait", "retry", "rollback", "undo", "done"}]
    BY DEF Conclude, SecondLeg, ReleaseLater, Return, callVars, TypeOK
  <2>3. result' \in [Calls -> Results]
    BY DEF Conclude, SecondLeg, ReleaseLater, Return, callVars, TypeOK, Results
  <2>4. undo' \in [Calls -> SUBSET Sides]
    <3>1. undo' = undo \/ undo' = [undo EXCEPT ![c] = Good(c)]
      BY DEF Conclude, SecondLeg, ReleaseLater, callVars
    <3> QED
      BY <2>1, <3>1 DEF TypeOK
  <2>5. expired' = expired /\ tries' = tries
    BY DEF Conclude, SecondLeg, ReleaseLater, callVars
  <2> QED
    BY <1>1, <1>2, <2>2, <2>3, <2>4, <2>5 DEF TypeOK, legVars
<1>5. TriesLeft'
  BY MaxRetriesAssumption
  DEF Conclude, SecondLeg, ReleaseLater, Return, callVars, TriesLeft, TypeOK
<1>6. HeldLongEnough'
  BY <1>1, <1>2, <1>3 DEF HeldLongEnough, Finished, legVars
<1>7. AnsweredOnce'
  BY <1>1, <1>2, <1>3 DEF AnsweredOnce, ChansApart, legVars
<1>8. OwnAnswer'
  BY <1>1 DEF OwnAnswer, legVars
<1> QED
  BY <1>2, <1>4, <1>5, <1>6, <1>7, <1>8

\* The steps that touch neither channels nor answers.
LEMMA OtherInvariant ==
  ASSUME IInv, NEW c \in Calls,
         \/ NoExchange(c) \/ CloseSingle(c) \/ Expire(c) \/ Retry(c)
         \/ RetryExpires(c) \/ RetryStops(c) \/ Rollback(c) \/ Abandon(c)
         \/ UndoLeg(c)
  PROVE  IInv'
<1> USE DEF IInv
<1>1. UNCHANGED <<chanVars, order, answer>>
  BY DEF NoExchange, CloseSingle, Expire, Retry, RetryExpires, RetryStops, Rollback,
         Abandon, UndoLeg, legVars
<1>2. \A d \in Calls : /\ pc'[d] = "wait" => pc[d] = "wait"
                       /\ pc'[d] = "idle" => pc[d] = "idle"
  BY DEF NoExchange, CloseSingle, Expire, Retry, RetryExpires, RetryStops, Rollback,
         Abandon, UndoLeg, Return, TypeOK
<1>3. ChansApart' /\ OwnBuffer' /\ OwnAnswer'
  BY <1>1 DEF ChansApart, OwnBuffer, OwnAnswer, chanVars
<1>4. HeldLongEnough' /\ AnsweredOnce'
  BY <1>1, <1>2 DEF HeldLongEnough, AnsweredOnce, Finished, chanVars
<1>5. TriesLeft' /\ tries' \in [Calls -> 0..MaxRetries]
  <2>1. CASE Retry(c)
    <3>1. pc[c] = "retry" /\ tries[c] \in 0..MaxRetries /\ tries[c] < MaxRetries
      BY <2>1 DEF Retry, TriesLeft, TypeOK
    <3>2. \/ /\ pc' = [pc EXCEPT ![c] = "done"]
             /\ tries' = tries
          \/ /\ tries' = [tries EXCEPT ![c] = @ + 1]
             /\ pc' = [pc EXCEPT ![c] = IF Exhausted(tries[c] + 1)
                                        THEN "rollback" ELSE "retry"]
      BY <2>1 DEF Retry, Return
    <3>3. \A d \in Calls \ {c} : tries'[d] = tries[d] /\ pc'[d] = pc[d]
      BY <3>2 DEF TypeOK
    <3>4. /\ tries'[c] \in 0..MaxRetries
          /\ pc'[c] \notin {"idle", "wait"}
          /\ pc'[c] = "retry" => tries'[c] < MaxRetries
      <4>1. CASE pc' = [pc EXCEPT ![c] = "done"] /\ tries' = tries
        BY <3>1, <4>1 DEF TypeOK
      <4>2. CASE /\ tries' = [tries EXCEPT ![c] = @ + 1]
                 /\ pc' = [pc EXCEPT ![c] = IF Exhausted(tries[c] + 1)
                                            THEN "rollback" ELSE "retry"]
        <5>1. /\ tries'[c] = tries[c] + 1
              /\ pc'[c] = IF tries[c] + 1 = MaxRetries THEN "rollback" ELSE "retry"
          BY <4>2 DEF Exhausted, TypeOK
        <5> HIDE DEF IInv
        <5> QED
          BY <3>1, <5>1, MaxRetriesAssumption
      <4> QED
        BY <3>2, <4>1, <4>2
    <3>5. tries' = [d \in Calls |-> tries'[d]]
      BY <3>2 DEF TypeOK
    <3> QED
      BY <3>3, <3>4, <3>5 DEF TriesLeft, TypeOK
  <2>2. CASE ~Retry(c)
    <3>1. tries' = tries
      BY <2>2 DEF NoExchange, CloseSingle, Expire, RetryExpires, RetryStops,
                  Rollback, Abandon, UndoLeg
    <3>2. pc' = pc \/ \E l \in {"rollback", "undo", "done"} :
                        pc' = [pc EXCEPT ![c] = l]
      <4>1. CASE Abandon(c)
        BY <4>1 DEF Abandon, Return
      <4>2. CASE ~Abandon(c)
        BY <2>2, <4>2 DEF NoExchange, CloseSingle, Expire, RetryExpires,
                          RetryStops, Rollback, UndoLeg, Return
      <4> QED
        BY <4>1, <4>2
    <3>3. \A d \in Calls : pc'[d] \in {"idle", "wait", "retry"} => pc'[d] = pc[d]
      BY <3>2 DEF TypeOK
    <3> QED
      BY <3>1, <3>3 DEF TriesLeft, TypeOK
  <2> QED
    BY <2>1, <2>2
<1>6. fills' \in [Calls -> [Sides -> Int]]
  <2>1. \A o \in Placements(c) : o.fill \in Int
    BY DEF Placements
  <2>2. \A s \in Sides : \A n \in Rollbacks(c, s) : n \in Int
    BY DEF Rollbacks
  <2>3. \A s \in undo[c] : s \in Sides
    BY DEF TypeOK
  <2>4. "long" \in Sides
    BY DEF Sides
  <2>5. CASE CloseSingle(c)
    BY <2>1, <2>4, <2>5 DEF CloseSingle, TypeOK
  <2>6. CASE Retry(c)
    BY <2>1, <2>6 DEF Retry, TypeOK
  <2>7. CASE RetryExpires(c)
    BY <2>7 DEF RetryExpires, TypeOK
  <2>8. CASE Rollback(c) \/ UndoLeg(c)
    <3>1. PICK s \in undo[c] : \E n \in Rollbacks(c, s) :
            fills' = [fills EXCEPT ![c][s] = @ - n]
      BY <2>8 DEF Rollback, UndoLeg
    <3>2. PICK n \in Rollbacks(c, s) : fills' = [fills EXCEPT ![c][s] = @ - n]
      BY <3>1
    <3> QED
      BY <2>2, <2>3, <3>1, <3>2 DEF TypeOK
  <2>9. CASE NoExchange(c) \/ Expire(c) \/ RetryStops(c) \/ Abandon(c)
    BY <2>9 DEF NoExchange, Expire, RetryStops, Abandon, legVars, TypeOK
  <2> QED
    BY <2>5, <2>6, <2>7, <2>8, <2>9
<1>7. pc' \in [Calls -> {"idle", "wait", "retry", "rollback", "undo", "done"}]
  <2>1. CASE Retry(c)
    <3>1. \E l \in {"done", "rollback", "retry"} : pc' = [pc EXCEPT ![c] = l]
      BY <2>1 DEF Retry, Return
    <3> QED
      BY <3>1 DEF TypeOK
  <2>2. CASE Abandon(c)
    <3>1. \E l \in {"done", "undo"} : pc' = [pc EXCEPT ![c] = l]
      BY <2>2 DEF Abandon, Return
    <3> QED
      BY <3>1 DEF TypeOK
  <2>3. CASE ~Retry(c) /\ ~Abandon(c)
    BY <2>3 DEF NoExchange, CloseSingle, Expire, RetryExpires, RetryStops, Rollback,
                UndoLeg, Return, TypeOK
  <2> QED
    BY <2>1, <2>2, <2>3
<1>8. result' \in [Calls -> Results]
  BY DEF NoExchange, CloseSingle, Expire, Retry, RetryExpires, RetryStops, Rollback,
         Abandon, UndoLeg, Return, TypeOK, Results
<1>9. undo' \in [Calls -> SUBSET Sides]
  <2>1. CASE Abandon(c)
    <3>1. PICK u \in SUBSET Sides : undo' = [undo EXCEPT ![c] = u]
      BY <2>1 DEF Abandon, Good
    <3> QED
      BY <3>1 DEF TypeOK
  <2>2. CASE ~Abandon(c)
    BY <2>2 DEF NoExchange, CloseSingle, Expire, Retry, RetryExpires, RetryStops,
                Rollback, UndoLeg, TypeOK
  <2> QED
    BY <2>1, <2>2
<1>10. expired' \in [Calls -> BOOLEAN]
  <2>1. expired' = expired \/ expired' = [expired EXCEPT ![c] = TRUE]
    BY DEF NoExchange, CloseSingle, Expire, Retry, RetryExpires, RetryStops,
           Rollback, Abandon, UndoLeg
  <2> QED
    BY <2>1 DEF TypeOK
<1>11. TypeOK'
  BY <1>1, <1>5, <1>6, <1>7, <1>8, <1>9, <1>10 DEF TypeOK, chanVars
<1> QED
  BY <1>3, <1>4, <1>5, <1>11

\* Every step keeps the invariant.
LEMMA StepInvariant == IInv /\ [Next]_vars => IInv'
<1> SUFFICES ASSUME IInv, [Next]_vars PROVE IInv'
  OBVIOUS
<1>1. CASE UNCHANGED vars
  BY <1>1
  DEF IInv, vars, callVars, chanVars, legVars, TypeOK, TriesLeft, ChansApart,
      HeldLongEnough, AnsweredOnce, OwnBuffer, OwnAnswer, Finished
<1>2. ASSUME NEW c \in Calls, CallNext(c) PROVE IInv'
  BY <1>2, StartInvariant, PlaceInvariant, ReceiveInvariant, ReleasingInvariant,
     OtherInvariant
  DEF CallNext
<1> QED
  BY <1>1, <1>2 DEF Next
-----------------------------------------------------------------------------
\* Every variable of the executor keeps its type; in particular the second leg
\* is never tried more than MaxRetries times.
THEOREM ExecTypeCorrect == Spec => []TypeOK
BY InitInvariant, StepInvariant, PTL DEF Spec, IInv

\* However many calls share the pool, and whenever their contexts end, no call
\* reads the answer to another call's order.
THEOREM AnswersAreOwn == Spec => []OwnAnswer
BY InitInvariant, StepInvariant, PTL DEF Spec, IInv
-----------------------------------------------------------------------------
(* What the answers and the fills of a call have to do with each other.      *)

Lost == "lost" \in Faults
Late == "timeout" \in Faults

\* An answer says what became of the order; a fill it does not report was
\* possible only if orders may fill after they were read.
Truthful(a, c, s) ==
  /\ a.ok <=> order[c][s] = "accepted"
  /\ a.seen => a.ok
  /\ a.ok /\ ~a.seen => "unseen" \in Faults

AnswersTruthful ==
  \A c \in Calls : \A s \in Sides :
    /\ answer[c][s] # Empty => Truthful(answer[c][s], c, s)
    /\ held[c] /\ buffer[chan[c][s]] # Empty => Truthful(buffer[chan[c][s]], c, s)

\* What fails may fail.
FailuresAllowed ==
  \A c \in Calls :
    /\ expired[c] => MayExpire(c)
    /\ \A s \in Sides : order[c][s] = "failed" => MayFail(c)

\* The fills of an order that nothing was done about since.
Placed(c, s) ==
  CASE order[c][s] = "accepted" -> fills[c][s] = 1
    [] order[c][s] = "failed" ->
         /\ fills[c][s] \in {0, 1}
         /\ fills[c][s] = 1 => c \in Closes \/ Lost \/ expired[c]
    [] OTHER -> fills[c][s] = 0

\* The fills of the leg that is tried again: one for each attempt that was
\* answered with an error although it filled.
Retried(c, s) ==
  /\ order[c][s] = "failed"
  /\ fills[c][s] \in Nat
  /\ Lost => fills[c][s] <= tries[c] + 1
  /\ ~Lost => fills[c][s] <= (IF expired[c] THEN 1 ELSE 0)

\* The leg that opened and, for a call that goes on about it, the one to undo.
Opened(c, s) ==
  /\ undo[c] = {s}
  /\ answer[c][s] # Empty /\ answer[c][s].ok
  /\ fills[c][s] = 1

\* What an entry has traded when it returned: EntryOutcomes, for one call, as
\* long as an order of it may still be out.
EntryEnded(c) ==
  \/ /\ result[c] = "fail"
     /\ \A s \in Sides : fills[c][s] \in {0, 1}
     /\ \A s \in Sides : order[c][s] = "sent" => expired[c] /\ fills[c][s] = 0
     /\ Lost \/ Late \/ \A s \in Sides : fills[c][s] = 0
  \/ /\ result[c] \in {"ok", "pause"} /\ Finished(c)
     /\ [fills |-> fills[c], result |-> result[c]] \in EntryOutcomes(Sides)

\* The same for a close.
CloseEnded(c) ==
  /\ \A s \in Sides : fills[c][s] \in {0, 1}
  /\ \A s \in Sides : order[c][s] = "sent" => fills[c][s] = 0
  /\ order[c]["short"] = "none" => fills[c]["short"] = 0
  /\ \/ result[c] = "fail" /\ "close" \in Faults
     \/ result[c] = "ok" /\ Finished(c) /\ \A s \in Legs(c) : fills[c][s] = 1

Ledger(c) ==
  /\ pc[c] = "idle" =>
       ~held[c] /\ \A s \in Sides : order[c][s] = "none" /\ fills[c][s] = 0
  /\ pc[c] = "wait" => \A s \in Sides : order[c][s] # "none" /\ Placed(c, s)
  /\ pc[c] \in {"retry", "rollback", "undo"} => c \in Entries
  /\ pc[c] = "retry" =>
       \E s \in Sides : Opened(c, s) /\ \A t \in Sides \ {s} : Retried(c, t)
  /\ pc[c] = "rollback" =>
       \E s \in Sides :
         Opened(c, s) /\ \A t \in Sides \ {s} :
           order[c][t] = "failed" /\ fills[c][t] \in 0..(IF Lost THEN Tries ELSE IF Late THEN 1 ELSE 0)
  /\ pc[c] = "undo" =>
       expired[c] /\ \E s \in Sides : Opened(c, s) /\ \A t \in Sides \ {s} : Placed(c, t)
  /\ pc[c] = "done" => IF c \in Entries THEN EntryEnded(c) ELSE CloseEnded(c)

LInv == AnswersTruthful /\ FailuresAllowed /\ \A c \in Calls : Ledger(c)
-----------------------------------------------------------------------------
(* The outcomes of an entry.                                                *)

\* One leg opened at once, and the other in the end.
LEMMA OkOutcome ==
  ASSUME NEW f \in [Sides -> Int], NEW s \in Sides, f[s] = 1,
         \A t \in Sides \ {s} : f[t] \in 1..(IF Lost THEN Tries ELSE 1)
  PROVE  [fills |-> f, result |-> "ok"] \in EntryOutcomes(Sides)
<1>1. Tries \in Nat /\ Tries > 0
  BY OrdersAssumption
<1>2. \A t \in Sides : f[t] \in 0..(IF Lost THEN Tries ELSE 1) /\ f[t] > 0
  BY <1>1
<1>3. f \in [Sides -> 0..(IF Lost THEN Tries ELSE 1)]
  BY <1>2
<1> QED
  BY <1>2, <1>3 DEF EntryOutcomes, Lost

\* One leg was rolled back, or could not be.
LEMMA PauseOutcome ==
  ASSUME NEW f \in [Sides -> Int], NEW s \in Sides, f[s] \in {0, 1},
         f[s] = 1 => {"rollback", "unseen"} \cap Faults # {},
         \A t \in Sides \ {s} :
           f[t] \in 0..(IF Lost THEN Tries ELSE IF Late THEN 1 ELSE 0)
  PROVE  [fills |-> f, result |-> "pause"] \in EntryOutcomes(Sides)
<1>1. Tries \in Nat /\ Tries > 0
  BY OrdersAssumption
<1>2. f \in [Sides -> 0..(IF Lost THEN Tries ELSE 1)]
  BY <1>1
<1>3. \A t \in Sides \ {s} : Lost \/ f[t] <= (IF Late THEN 1 ELSE 0)
  OBVIOUS
<1> QED
  BY <1>2, <1>3 DEF EntryOutcomes, Lost, Late

\* The promise of an entry that failed.
LEMMA FailOutcome ==
  ASSUME NEW f \in [Sides -> Int], \A t \in Sides : f[t] \in {0, 1},
         Lost \/ Late \/ \A t \in Sides : f[t] = 0
  PROVE  [fills |-> f, result |-> "fail"] \in EntryOutcomes(Sides)
<1>1. Tries \in Nat /\ Tries > 0
  BY OrdersAssumption
<1>2. f \in [Sides -> 0..(IF Lost THEN Tries ELSE 1)]
  BY <1>1
<1> QED
  BY <1>2 DEF EntryOutcomes, Lost, Late
-----------------------------------------------------------------------------
(* A step of one call leaves the others alone.                              *)

Alone(d) ==
  /\ pc'[d] = pc[d] /\ expired'[d] = expired[d] /\ held'[d] = held[d]
  /\ order'[d] = order[d] /\ answer'[d] = answer[d] /\ undo'[d] = undo[d]
  /\ tries'[d] = tries[d] /\ fills'[d] = fills[d] /\ result'[d] = result[d]

LEMMA OthersAlone ==
  ASSUME TypeOK, NEW c \in Calls, CallNext(c), NEW d \in Calls \ {c}
  PROVE  Alone(d)
<1> USE DEF TypeOK, callVars, chanVars, legVars, Return
<1>1. CASE Start(c)
  BY <1>1 DEF Start, Alone
<1>2. CASE NoExchange(c) \/ Expire(c) \/ RetryStops(c)
  BY <1>2 DEF NoExchange, Expire, RetryStops, Alone
<1>3. CASE CloseSingle(c)
  BY <1>3 DEF CloseSingle, Alone
<1>4. CASE \E s \in Sides : Receive(c, s) \/ Place(c, s)
  BY <1>4 DEF Receive, Place, Alone
<1>5. CASE Conclude(c) \/ SecondLeg(c) \/ ReleaseLater(c)
  BY <1>5 DEF Conclude, SecondLeg, ReleaseLater, Release, Alone
<1>6. CASE Retry(c)
  BY <1>6 DEF Retry, Alone
<1>7. CASE RetryExpires(c)
  BY <1>7 DEF RetryExpires, Alone
<1>8. CASE Rollback(c) \/ UndoLeg(c)
  BY <1>8 DEF Rollback, UndoLeg, Alone
<1>9. CASE Abandon(c)
  BY <1>9 DEF Abandon, Alone
<1> QED
  BY <1>1, <1>2, <1>3, <1>4, <1>5, <1>6, <1>7, <1>8, <1>9 DEF CallNext

LEMMA AloneKeepsLedger ==
  ASSUME NEW d \in Calls, Ledger(d), Alone(d)
  PROVE  Ledger(d)'
BY DEF Alone, Ledger, Placed, Opened, Retried, EntryEnded, CloseEnded, Finished, Legs
-----------------------------------------------------------------------------
(* The answers stay true.                                                   *)

LEMMA TruthfulStep ==
  ASSUME IInv, AnswersTruthful, NEW c \in Calls, CallNext(c), IInv'
  PROVE  AnswersTruthful'
<1> USE DEF callVars, chanVars, legVars
<1>1. CASE Start(c)
  <2>1. /\ \A d \in Calls \ {c} : chan'[d] = chan[d] /\ held'[d] = held[d] /\ order'[d] = order[d]
        /\ answer' = answer /\ buffer' = buffer /\ pc[c] = "idle"
    BY <1>1 DEF Start, IInv, TypeOK
  <2>2. \A s \in Sides : answer[c][s] = Empty /\ buffer[chan'[c][s]] = Empty
    <3>1. PICK f \in [Sides -> pool] : chan' = [chan EXCEPT ![c] = f]
      BY <1>1 DEF Start
    <3>2. \A s \in Sides : chan'[c][s] \in pool
      BY <3>1 DEF IInv, TypeOK
    <3> QED
      BY <2>1, <3>2 DEF IInv, OwnBuffer, AnsweredOnce
  <2> QED
    BY <2>1, <2>2 DEF AnswersTruthful, Truthful
<1>2. ASSUME NEW s \in Sides, Place(c, s) PROVE AnswersTruthful'
  <2>1. order[c][s] = "sent" /\ held[c] /\ chan[c][s] \in Chans \ pool
    BY <1>2 DEF Place, IInv, HeldLongEnough, Finished, ChansApart
  <2>2. buffer[chan[c][s]] = Empty /\ answer[c][s] = Empty
    BY <2>1 DEF IInv, AnsweredOnce
  <2>3. PICK o \in Placements(c) :
          /\ order' = [order EXCEPT ![c][s] = IF o.ok THEN "accepted" ELSE "failed"]
          /\ buffer' = [buffer EXCEPT ![chan[c][s]] =
                         [call |-> c, side |-> s, ok |-> o.ok, seen |-> o.seen]]
    BY <1>2, <2>2 DEF Place
  <2>4. /\ o.ok \in BOOLEAN /\ o.seen \in BOOLEAN
        /\ o.seen => o.ok
        /\ o.ok /\ ~o.seen => "unseen" \in Faults
    BY DEF Placements
  <2>5. order'[c][s] = IF o.ok THEN "accepted" ELSE "failed"
    BY <2>3 DEF IInv, TypeOK
  <2>6. Truthful(buffer[chan[c][s]], c, s)'
    <3>1. buffer'[chan'[c][s]] = [call |-> c, side |-> s, ok |-> o.ok, seen |-> o.seen]
      BY <1>2, <2>1, <2>3 DEF Place, IInv, TypeOK
    <3> QED
      BY <2>4, <2>5, <3>1 DEF Truthful
  <2>7. \A d \in Calls : \A t \in Sides :
          <<d, t>> # <<c, s>> =>
            /\ order'[d][t] = order[d][t]
            /\ held[d] => buffer'[chan[d][t]] = buffer[chan[d][t]]
    BY <2>1, <2>3 DEF IInv, TypeOK, ChansApart
  <2>8. answer' = answer /\ held' = held /\ chan' = chan
    BY <1>2 DEF Place
  <2> QED
    BY <2>2, <2>6, <2>7, <2>8 DEF AnswersTruthful, Truthful
<1>3. ASSUME NEW s \in Sides, Receive(c, s) PROVE AnswersTruthful'
  <2>1. held[c] /\ chan[c][s] \in Chans
    BY <1>3 DEF Receive, IInv, HeldLongEnough, ChansApart
  <2>2. \A d \in Calls : \A t \in Sides :
          answer'[d][t] = IF d = c /\ t = s THEN buffer[chan[c][s]] ELSE answer[d][t]
    BY <1>3 DEF Receive, IInv, TypeOK
  <2>3. \A ch \in Chans : buffer'[ch] = Empty \/ buffer'[ch] = buffer[ch]
    BY <1>3 DEF Receive, IInv, TypeOK
  <2>4. \A d \in Calls : \A t \in Sides :
          held[d] => buffer'[chan[d][t]] = Empty \/ buffer'[chan[d][t]] = buffer[chan[d][t]]
    BY <2>3 DEF IInv, ChansApart
  <2>5. order' = order /\ held' = held /\ chan' = chan /\ buffer[chan[c][s]] # Empty
    BY <1>3 DEF Receive
  <2> QED
    BY <2>1, <2>2, <2>4, <2>5 DEF AnswersTruthful, Truthful
<1>4. CASE Conclude(c) \/ SecondLeg(c) \/ ReleaseLater(c)
  <2>1. /\ \A ch \in Chans : buffer'[ch] = Empty \/ buffer'[ch] = buffer[ch]
        /\ \A d \in Calls : held'[d] => held[d]
        /\ answer' = answer /\ order' = order /\ chan' = chan
    BY <1>4 DEF Conclude, SecondLeg, ReleaseLater, Release, IInv, TypeOK
  <2>2. \A d \in Calls : \A t \in Sides :
          held[d] => buffer'[chan[d][t]] = Empty \/ buffer'[chan[d][t]] = buffer[chan[d][t]]
    BY <2>1 DEF IInv, ChansApart
  <2> QED
    BY <2>1, <2>2 DEF AnswersTruthful, Truthful
<1>5. CASE \/ NoExchange(c) \/ CloseSingle(c) \/ Expire(c) \/ Retry(c)
           \/ RetryExpires(c) \/ RetryStops(c) \/ Rollback(c) \/ Abandon(c)
           \/ UndoLeg(c)
  <2>1. UNCHANGED <<answer, order, buffer, held, chan>>
    BY <1>5 DEF NoExchange, CloseSingle, Expire, Retry, RetryExpires, RetryStops,
                Rollback, Abandon, UndoLeg
  <2> QED
    BY <2>1 DEF AnswersTruthful, Truthful
<1> QED
  BY <1>1, <1>2, <1>3, <1>4, <1>5 DEF CallNext

LEMMA FailuresStep ==
  ASSUME IInv, FailuresAllowed, NEW c \in Calls, CallNext(c)
  PROVE  FailuresAllowed'
<1> USE DEF callVars, chanVars, legVars
<1>1. \A d \in Calls : expired'[d] => expired[d] \/ (d = c /\ MayExpire(c))
  <2>1. CASE Expire(c) \/ RetryExpires(c)
    BY <2>1 DEF Expire, RetryExpires, IInv, TypeOK
  <2>2. CASE ~Expire(c) /\ ~RetryExpires(c)
    <3>1. expired' = expired
      BY <2>2 DEF CallNext, Start, NoExchange, CloseSingle, Receive, Place, Conclude,
                  SecondLeg, Retry, RetryStops, Rollback, Abandon, UndoLeg, ReleaseLater
    <3> QED
      BY <3>1
  <2> QED
    BY <2>1, <2>2
<1>2. \A d \in Calls : \A s \in Sides :
        order'[d][s] = "failed" => order[d][s] = "failed" \/ (d = c /\ MayFail(c))
  <2>1. CASE Start(c)
    BY <2>1 DEF Start, IInv, TypeOK
  <2>2. ASSUME NEW s \in Sides, Place(c, s)
        PROVE  \A d \in Calls : \A t \in Sides :
                 order'[d][t] = "failed" => order[d][t] = "failed" \/ (d = c /\ MayFail(c))
    <3>1. PICK o \in Placements(c) :
            order' = [order EXCEPT ![c][s] = IF o.ok THEN "accepted" ELSE "failed"]
      BY <2>2 DEF Place
    <3>2. ~o.ok => MayFail(c)
      BY DEF Placements
    <3> QED
      BY <3>1, <3>2 DEF IInv, TypeOK
  <2>3. CASE ~Start(c) /\ ~\E s \in Sides : Place(c, s)
    <3>1. order' = order
      BY <2>3 DEF CallNext, NoExchange, CloseSingle, Expire, Receive, Conclude, SecondLeg,
                  Retry, RetryExpires, RetryStops, Rollback, Abandon, UndoLeg, ReleaseLater
    <3> QED
      BY <3>1
  <2> QED
    BY <2>1, <2>2, <2>3
<1> QED
  BY <1>1, <1>2 DEF FailuresAllowed, MayExpire, MayFail
-----------------------------------------------------------------------------
(* A call keeps its ledger.                                                 *)

\* What the placement of an order may be.
LEMMA PlacementFacts ==
  ASSUME NEW c \in Calls, NEW o \in Placements(c)
  PROVE  /\ o.fill \in {0, 1} /\ o.ok \in BOOLEAN
         /\ o.ok => o.fill = 1
         /\ ~o.ok => MayFail(c)
         /\ ~o.ok /\ o.fill = 1 => Lost \/ c \notin Entries \/ expired[c]
BY DEF Placements, Lost

\* An entry or a close, never both.
LEMMA EntryOrClose ==
  ASSUME NEW c \in Calls
  PROVE  c \in Closes <=> c \notin Entries
BY ExecutorAssumption DEF Calls

LEMMA StartLedger ==
  ASSUME IInv, NEW c \in Calls, Ledger(c), Start(c)
  PROVE  Ledger(c)'
<1>1. /\ pc'[c] = "wait" /\ fills' = fills /\ pc[c] = "idle"
      /\ \A s \in Sides : order'[c][s] = "sent"
  BY DEF Start, IInv, TypeOK
<1> QED
  BY <1>1 DEF Ledger, Placed

LEMMA EndAtOnceLedger ==
  ASSUME IInv, NEW c \in Calls, Ledger(c), NoExchange(c) \/ CloseSingle(c)
  PROVE  Ledger(c)'
<1>1. /\ pc'[c] = "done" /\ order' = order /\ expired' = expired
      /\ \A s \in Sides : order[c][s] = "none" /\ fills[c][s] = 0
  BY DEF NoExchange, CloseSingle, Return, legVars, IInv, TypeOK, Ledger
<1>2. CASE NoExchange(c)
  <2>1. result'[c] = "fail" /\ fills' = fills /\ MayFail(c)
    BY <1>2 DEF NoExchange, Return, legVars, IInv, TypeOK
  <2> QED
    BY <1>1, <2>1 DEF Ledger, EntryEnded, CloseEnded, MayFail, Sides
<1>3. CASE CloseSingle(c)
  <2>1. c \notin Entries
    BY <1>3, EntryOrClose DEF CloseSingle
  <2>2. PICK o \in Placements(c) :
          /\ fills' = [fills EXCEPT ![c]["long"] = o.fill]
          /\ Return(c, IF o.ok THEN "ok" ELSE "fail")
    BY <1>3 DEF CloseSingle
  <2>3. /\ fills'[c]["long"] = o.fill /\ fills'[c]["short"] = 0
        /\ result'[c] = IF o.ok THEN "ok" ELSE "fail"
    BY <1>1, <2>2 DEF Return, IInv, TypeOK, Sides
  <2>4. Legs(c)' = {"long"} /\ Finished(c)'
    BY <1>1 DEF Legs, Finished, Sides
  <2>5. CloseEnded(c)'
    BY <1>1, <2>1, <2>3, <2>4, PlacementFacts DEF CloseEnded, MayFail, Sides
  <2> QED
    BY <1>1, <2>1, <2>5 DEF Ledger
<1> QED
  BY <1>2, <1>3

LEMMA PlaceLedger ==
  ASSUME IInv, FailuresAllowed, NEW c \in Calls, Ledger(c), NEW s \in Sides, Place(c, s)
  PROVE  Ledger(c)'
<1>1. order[c][s] = "sent" /\ UNCHANGED <<callVars, held, answer>> /\ held[c]
  BY DEF Place, IInv, HeldLongEnough, Finished
<1>2. PICK o \in Placements(c) :
        /\ fills' = [fills EXCEPT ![c][s] = @ + o.fill]
        /\ order' = [order EXCEPT ![c][s] = IF o.ok THEN "accepted" ELSE "failed"]
  BY DEF Place
<1>3. /\ fills'[c][s] = fills[c][s] + o.fill /\ fills[c][s] \in Int
      /\ order'[c][s] = IF o.ok THEN "accepted" ELSE "failed"
      /\ \A t \in Sides \ {s} : fills'[c][t] = fills[c][t] /\ order'[c][t] = order[c][t]
  BY <1>2 DEF IInv, TypeOK
<1>4. /\ o.fill \in {0, 1} /\ o.ok \in BOOLEAN
      /\ o.ok => o.fill = 1
      /\ ~o.ok /\ o.fill = 1 => Lost \/ c \in Closes \/ expired[c]
  BY PlacementFacts, EntryOrClose
<1>5. ASSUME fills[c][s] = 0 PROVE Placed(c, s)'
  BY <1>1, <1>3, <1>4, <1>5 DEF Placed, callVars
<1>6. \A t \in Sides \ {s} : Placed(c, t) => Placed(c, t)'
  BY <1>1, <1>3 DEF Placed, callVars
<1>7. Placed(c, s) => fills[c][s] = 0
  BY <1>1 DEF Placed
<1>8. CASE pc[c] = "idle"
  BY <1>1, <1>8 DEF Ledger
<1>9. CASE pc[c] = "wait"
  <2>1. \A t \in Sides : order[c][t] # "none" /\ Placed(c, t)
    BY <1>9 DEF Ledger
  <2>2. \A t \in Sides : order'[c][t] # "none" /\ Placed(c, t)'
    BY <1>3, <1>5, <1>6, <1>7, <2>1
  <2> QED
    BY <1>1, <1>9, <2>2 DEF Ledger, callVars
<1>10. CASE pc[c] \in {"retry", "rollback"}
  <2>1. PICK u \in Sides : answer[c][u] # Empty /\ \A t \in Sides \ {u} : order[c][t] = "failed"
    BY <1>10 DEF Ledger, Opened, Retried
  <2> QED
    BY <1>1, <2>1 DEF IInv, AnsweredOnce
<1>11. CASE pc[c] = "undo"
  <2>1. PICK u \in Sides : Opened(c, u) /\ \A t \in Sides \ {u} : Placed(c, t)
    BY <1>11 DEF Ledger
  <2>2. u # s
    BY <1>1, <2>1 DEF Opened, IInv, AnsweredOnce
  <2>3. Opened(c, u)'
    BY <1>1, <1>3, <2>1, <2>2 DEF Opened, callVars
  <2>4. \A t \in Sides \ {u} : Placed(c, t)'
    BY <1>5, <1>6, <1>7, <2>1, <2>2
  <2> QED
    BY <1>1, <1>11, <2>3, <2>4 DEF Ledger, callVars
<1>12. CASE pc[c] = "done"
  <2>1. CASE c \in Entries
    <3>1. EntryEnded(c)
      BY <1>12, <2>1 DEF Ledger
    <3>2. result[c] = "fail" /\ expired[c] /\ fills[c][s] = 0 /\ Late
      BY <1>1, <2>1, <3>1 DEF EntryEnded, Finished, FailuresAllowed, MayExpire, Late
    <3>3. EntryEnded(c)'
      BY <1>1, <1>3, <1>4, <3>1, <3>2 DEF EntryEnded, callVars, Finished
    <3> QED
      BY <1>1, <1>12, <2>1, <3>3 DEF Ledger, callVars
  <2>2. CASE c \notin Entries
    <3>1. CloseEnded(c)
      BY <1>12, <2>2 DEF Ledger
    <3>2. result[c] = "fail" /\ fills[c][s] = 0
      BY <1>1, <3>1 DEF CloseEnded, Finished
    <3>3. CloseEnded(c)'
      BY <1>1, <1>3, <1>4, <3>1, <3>2 DEF CloseEnded, callVars, Sides
    <3> QED
      BY <1>1, <1>12, <2>2, <3>3 DEF Ledger, callVars
  <2> QED
    BY <2>1, <2>2
<1> QED
  BY <1>8, <1>9, <1>10, <1>11, <1>12 DEF IInv, TypeOK
\* A step that changes neither fills nor orders, and not where the call is.
LEMMA ReceiveLedger ==
  ASSUME IInv, NEW c \in Calls, Ledger(c), NEW s \in Sides, Receive(c, s)
  PROVE  Ledger(c)'
<1>1. /\ pc[c] = "wait" /\ pc' = pc /\ order' = order /\ fills' = fills
      /\ expired' = expired
  BY DEF Receive, callVars
<1> QED
  BY <1>1 DEF Ledger, Placed

LEMMA ExpireLedger ==
  ASSUME IInv, FailuresAllowed, NEW c \in Calls, Ledger(c), Expire(c)
  PROVE  Ledger(c)'
<1>1. /\ pc[c] \in {"wait", "retry"} /\ pc' = pc /\ UNCHANGED <<legVars, undo, tries>>
      /\ expired'[c] = TRUE /\ ~expired[c]
  BY DEF Expire, IInv, TypeOK
<1>2. \A s \in Sides : Placed(c, s) => Placed(c, s)'
  BY <1>1 DEF Placed, legVars
<1>3. \A s \in Sides : Retried(c, s) => Retried(c, s)'
  BY <1>1 DEF Retried, legVars
<1>4. \A s \in Sides : Opened(c, s) => Opened(c, s)'
  BY <1>1 DEF Opened, legVars
<1> QED
  BY <1>1, <1>2, <1>3, <1>4 DEF Ledger, legVars

\* Both answers have come: every order ended as its answer says.
LEMMA AnsweredFills ==
  ASSUME IInv, AnswersTruthful, FailuresAllowed, NEW c \in Calls, Ledger(c),
         pc[c] = "wait", ~Waiting(c)
  PROVE  /\ Finished(c)
         /\ \A s \in Sides :
              /\ fills[c][s] \in {0, 1}
              /\ s \in Good(c) => fills[c][s] = 1 /\ order[c][s] = "accepted"
              /\ s \notin Good(c) =>
                   /\ order[c][s] = "failed"
                   /\ fills[c][s] = 1 => c \in Closes \/ Lost \/ expired[c]
<1>1. \A s \in Sides : /\ answer[c][s] # Empty
                       /\ order[c][s] \in {"accepted", "failed"}
                       /\ answer[c][s].ok <=> order[c][s] = "accepted"
                       /\ Placed(c, s)
  <2> TAKE s \in Sides
  <2>1. answer[c][s] # Empty
    BY DEF Waiting
  <2>2. order[c][s] \notin {"sent", "none"} /\ Placed(c, s)
    BY <2>1 DEF Ledger, IInv, AnsweredOnce
  <2>3. answer[c][s].ok <=> order[c][s] = "accepted"
    BY <2>1 DEF AnswersTruthful, Truthful
  <2> QED
    BY <2>1, <2>2, <2>3 DEF IInv, TypeOK
<1>2. \A s \in Sides : s \in Good(c) <=> order[c][s] = "accepted"
  BY <1>1 DEF Good
<1> QED
  BY <1>1, <1>2 DEF Finished, Placed

LEMMA ConcludeLedger ==
  ASSUME IInv, AnswersTruthful, FailuresAllowed, NEW c \in Calls, Ledger(c), Conclude(c)
  PROVE  Ledger(c)'
<1>1. /\ pc[c] = "wait" /\ ~Waiting(c)
      /\ BothGood(c) \/ Good(c) = {} \/ c \in Closes
      /\ order' = order /\ fills' = fills /\ expired' = expired
  BY DEF Conclude, legVars
<1>2. pc'[c] = "done" /\ result'[c] = IF BothGood(c) THEN "ok" ELSE "fail"
  BY DEF Conclude, Return, IInv, TypeOK
<1>3. /\ Finished(c)
      /\ \A s \in Sides :
           /\ fills[c][s] \in {0, 1}
           /\ s \in Good(c) => fills[c][s] = 1 /\ order[c][s] = "accepted"
           /\ s \notin Good(c) =>
                /\ order[c][s] = "failed"
                /\ fills[c][s] = 1 => c \in Closes \/ Lost \/ expired[c]
  BY <1>1, AnsweredFills
<1>4. Finished(c)' /\ \A s \in Sides : order[c][s] # "sent"
  BY <1>1, <1>3 DEF Finished
<1>5. CASE c \in Entries /\ BothGood(c)
  <2>1. \A s \in Sides : fills[c][s] = 1
    BY <1>3, <1>5 DEF BothGood
  <2>2. "long" \in Sides /\ fills[c] \in [Sides -> Int]
    BY DEF Sides, IInv, TypeOK
  <2>3. [fills |-> fills[c], result |-> "ok"] \in EntryOutcomes(Sides)
    <3>1. \A t \in Sides \ {"long"} : fills[c][t] \in 1..(IF Lost THEN Tries ELSE 1)
      BY <2>1, OrdersAssumption
    <3> QED
      BY <2>1, <2>2, <3>1, OkOutcome
  <2>4. EntryEnded(c)'
    BY <1>1, <1>2, <1>4, <1>5, <2>3 DEF EntryEnded
  <2> QED
    BY <1>2, <1>5, <2>4 DEF Ledger
<1>6. CASE c \in Entries /\ ~BothGood(c)
  <2>1. \A s \in Sides : fills[c][s] = 1 => Lost \/ Late
    BY <1>1, <1>3, <1>6, EntryOrClose DEF FailuresAllowed, MayExpire, Late
  <2>2. EntryEnded(c)'
    BY <1>1, <1>2, <1>3, <1>4, <1>6, <2>1 DEF EntryEnded
  <2> QED
    BY <1>2, <1>6, <2>2 DEF Ledger
<1>7. CASE c \notin Entries
  <2>1. order[c]["short"] # "none"
    BY <1>3 DEF Sides
  <2>2. ~BothGood(c) => "close" \in Faults
    <3>1. ASSUME NEW s \in Sides, s \notin Good(c) PROVE "close" \in Faults
      BY <1>3, <1>7, <3>1 DEF FailuresAllowed, MayFail
    <3> QED
      BY <3>1 DEF BothGood, Good
  <2>3. BothGood(c) => \A s \in Legs(c) : fills[c][s] = 1
    BY <1>3, <2>1 DEF BothGood, Legs
  <2>4. CloseEnded(c)'
    BY <1>1, <1>2, <1>3, <1>4, <2>1, <2>2, <2>3 DEF CloseEnded, Legs
  <2> QED
    BY <1>2, <1>7, <2>4 DEF Ledger
<1> QED
  BY <1>5, <1>6, <1>7

\* A set of one leg.
LEMMA OneGood ==
  ASSUME NEW c \in Calls, Cardinality(Good(c)) = 1
  PROVE  \E s \in Sides : Good(c) = {s}
<1>1. IsFiniteSet(Sides)
  <2>1. IsFiniteSet({"long"})
    BY FS_Singleton
  <2>2. IsFiniteSet({"long"} \cup {"short"})
    BY <2>1, FS_AddElement
  <2>3. Sides = {"long"} \cup {"short"}
    BY DEF Sides
  <2> QED
    BY <2>2, <2>3
<1>2. Good(c) \subseteq Sides
  BY DEF Good
<1>3. IsFiniteSet(Good(c))
  BY <1>1, <1>2, FS_Subset
<1>4. PICK s : Good(c) = {s}
  BY <1>3, FS_Singleton
<1> QED
  BY <1>2, <1>4

LEMMA SecondLegLedger ==
  ASSUME IInv, AnswersTruthful, FailuresAllowed, NEW c \in Calls, Ledger(c), SecondLeg(c)
  PROVE  Ledger(c)'
<1>1. /\ pc[c] = "wait" /\ ~Waiting(c) /\ c \in Entries /\ Cardinality(Good(c)) = 1
      /\ UNCHANGED <<expired, tries, legVars>>
  BY DEF SecondLeg
<1>2. pc'[c] = "retry" /\ undo'[c] = Good(c)
  BY DEF SecondLeg, IInv, TypeOK
<1>3. PICK s \in Sides : Good(c) = {s}
  BY <1>1, OneGood
<1>4. \A t \in Sides :
        /\ fills[c][t] \in {0, 1}
        /\ t \in Good(c) => fills[c][t] = 1
        /\ t \notin Good(c) =>
             /\ order[c][t] = "failed"
             /\ fills[c][t] = 1 => c \in Closes \/ Lost \/ expired[c]
  BY <1>1, AnsweredFills
<1>5. Opened(c, s)'
  BY <1>1, <1>2, <1>3, <1>4 DEF Opened, Good, legVars
<1>6. \A t \in Sides \ {s} : Retried(c, t)'
  <2>1. tries[c] = 0
    BY <1>1 DEF IInv, TriesLeft
  <2> QED
    BY <1>1, <1>3, <1>4, <2>1, EntryOrClose DEF Retried, legVars
<1> QED
  BY <1>1, <1>2, <1>5, <1>6 DEF Ledger

\* The leg that opened, when it is rolled back: it stays only if the rollback
\* failed or the executor did not know the fill.
LEMMA RollbackFacts ==
  ASSUME AnswersTruthful, NEW c \in Calls, NEW s \in Sides, Opened(c, s),
         NEW n \in Rollbacks(c, s)
  PROVE  /\ n \in {0, 1}
         /\ n = 0 => {"rollback", "unseen"} \cap Faults # {}
<1>1. ~answer[c][s].seen => "unseen" \in Faults
  BY DEF AnswersTruthful, Truthful, Opened
<1> QED
  BY <1>1 DEF Rollbacks

\* The leg that is tried again, and the others: there is one other.
LEMMA TwoSides ==
  ASSUME NEW s \in Sides, NEW t \in Sides, s # t
  PROVE  Sides = {s, t}
BY DEF Sides

LEMMA RetryLedger ==
  ASSUME IInv, NEW c \in Calls, Ledger(c), Retry(c)
  PROVE  Ledger(c)'
<1>1. /\ pc[c] = "retry" /\ ~expired[c] /\ c \in Entries
      /\ UNCHANGED <<expired, undo, order, answer>>
      /\ tries[c] \in Nat /\ tries[c] < MaxRetries
  BY DEF Retry, Ledger, IInv, TriesLeft, TypeOK
<1>2. PICK u \in Sides : Opened(c, u) /\ \A t \in Sides \ {u} : Retried(c, t)
  BY <1>1 DEF Ledger
<1>3. PICK s \in Sides \ {u}, o \in Placements(c) :
        /\ fills' = [fills EXCEPT ![c][s] = @ + o.fill]
        /\ IF o.ok
           THEN Return(c, "ok") /\ UNCHANGED tries
           ELSE /\ tries' = [tries EXCEPT ![c] = @ + 1]
                /\ pc' = [pc EXCEPT ![c] = IF Exhausted(tries[c] + 1)
                                           THEN "rollback" ELSE "retry"]
                /\ UNCHANGED result
  BY <1>2 DEF Retry, Opened
<1>4. /\ o.fill \in {0, 1} /\ o.ok \in BOOLEAN
      /\ o.ok => o.fill = 1
      /\ ~o.ok /\ o.fill = 1 => Lost
  BY <1>1, PlacementFacts
<1>5. /\ fills'[c][s] = fills[c][s] + o.fill
      /\ \A t \in Sides \ {s} : fills'[c][t] = fills[c][t]
  BY <1>3 DEF IInv, TypeOK
<1>6. /\ order[c][s] = "failed" /\ fills[c][s] \in Nat
      /\ Lost => fills[c][s] <= tries[c] + 1
      /\ ~Lost => fills[c][s] = 0
  BY <1>1, <1>2, <1>3 DEF Retried
<1>7. Opened(c, u)'
  BY <1>1, <1>2, <1>3, <1>5 DEF Opened
<1>8. Sides = {u, s} /\ u # s
  BY <1>3, TwoSides
<1>9. Tries = MaxRetries + 1 /\ MaxRetries \in Nat
  BY ExecutorAssumption, MaxRetriesAssumption
<1>10. CASE o.ok
  <2>1. pc'[c] = "done" /\ result'[c] = "ok" /\ fills'[c] \in [Sides -> Int]
    <3>1. Return(c, "ok")
      BY <1>3, <1>10
    <3>2. fills'[c] \in [Sides -> Int]
      BY <1>3, <1>4 DEF IInv, TypeOK
    <3> QED
      BY <3>1, <3>2 DEF Return, IInv, TypeOK
  <2>2. fills'[c][s] \in 1..(IF Lost THEN Tries ELSE 1)
    BY <1>1, <1>4, <1>5, <1>6, <1>9, <1>10
  <2>3. [fills |-> fills'[c], result |-> "ok"] \in EntryOutcomes(Sides)
    <3>1. fills'[c][u] = 1
      BY <1>7 DEF Opened
    <3>2. \A t \in Sides \ {u} : fills'[c][t] \in 1..(IF Lost THEN Tries ELSE 1)
      BY <1>8, <2>2
    <3> QED
      BY <2>1, <3>1, <3>2, OkOutcome
  <2>4. Finished(c)'
    BY <1>1, <1>2, <1>6, <1>8 DEF Finished, Opened, IInv, AnsweredOnce
  <2> QED
    BY <1>1, <2>1, <2>3, <2>4 DEF Ledger, EntryEnded
<1>11. CASE ~o.ok
  <2>1. /\ tries'[c] = tries[c] + 1
        /\ pc'[c] = IF tries[c] + 1 = MaxRetries THEN "rollback" ELSE "retry"
    BY <1>3, <1>11 DEF IInv, TypeOK, Exhausted
  <2>2. /\ fills'[c][s] \in Nat
        /\ Lost => fills'[c][s] <= tries[c] + 2
        /\ ~Lost => fills'[c][s] = 0
    BY <1>1, <1>4, <1>5, <1>6, <1>11
  <2>3. CASE tries[c] + 1 = MaxRetries
    <3>1. fills'[c][s] \in 0..(IF Lost THEN Tries ELSE IF Late THEN 1 ELSE 0)
      BY <1>1, <1>9, <2>2, <2>3
    <3> QED
      BY <1>1, <1>6, <1>7, <1>8, <2>1, <2>3, <3>1 DEF Ledger
  <2>4. CASE tries[c] + 1 # MaxRetries
    <3>1. Retried(c, s)'
      BY <1>1, <1>6, <2>1, <2>2 DEF Retried
    <3> QED
      BY <1>1, <1>7, <1>8, <2>1, <2>4, <3>1 DEF Ledger
  <2> QED
    BY <2>3, <2>4
<1> QED
  BY <1>4, <1>10, <1>11

LEMMA RetryEndsLedger ==
  ASSUME IInv, FailuresAllowed, NEW c \in Calls, Ledger(c), RetryExpires(c) \/ RetryStops(c)
  PROVE  Ledger(c)'
<1>1. /\ pc[c] = "retry" /\ c \in Entries /\ pc'[c] = "rollback"
      /\ UNCHANGED <<undo, order, answer>>
      /\ tries[c] \in Nat /\ tries[c] < MaxRetries
  BY DEF RetryExpires, RetryStops, legVars, Ledger, IInv, TriesLeft, TypeOK
<1>2. PICK u \in Sides : Opened(c, u) /\ \A t \in Sides \ {u} : Retried(c, t)
  BY <1>1 DEF Ledger
<1>3. Late
  BY <1>1 DEF RetryExpires, RetryStops, FailuresAllowed, MayExpire, Late
<1>4. \E s \in Sides \ {u} : \E n \in {0, 1} :
        /\ fills' = [fills EXCEPT ![c][s] = @ + n]
        /\ n = 1 => ~expired[c]
  <2>1. CASE RetryExpires(c)
    BY <1>2, <2>1 DEF RetryExpires, Opened
  <2>2. CASE RetryStops(c)
    <3>1. PICK s \in Sides : s # u
      BY DEF Sides
    <3>2. fills' = [fills EXCEPT ![c][s] = @ + 0]
      BY <2>2, <3>1 DEF RetryStops, legVars, IInv, TypeOK
    <3>3. s \in Sides \ {u} /\ 0 \in {0, 1} /\ (0 = 1 => ~expired[c])
      BY <3>1
    <3> QED
      BY <3>2, <3>3
  <2> QED
    BY <2>1, <2>2
<1>5. PICK s \in Sides \ {u}, n \in {0, 1} :
        /\ fills' = [fills EXCEPT ![c][s] = @ + n]
        /\ n = 1 => ~expired[c]
  BY <1>4
<1>6. /\ fills'[c][s] = fills[c][s] + n
      /\ \A t \in Sides \ {s} : fills'[c][t] = fills[c][t]
  BY <1>5 DEF IInv, TypeOK
<1>7. /\ order[c][s] = "failed" /\ fills[c][s] \in Nat
      /\ Lost => fills[c][s] <= tries[c] + 1
      /\ ~Lost => fills[c][s] <= (IF expired[c] THEN 1 ELSE 0)
  BY <1>2, <1>5 DEF Retried
<1>8. fills'[c][s] \in 0..(IF Lost THEN Tries ELSE IF Late THEN 1 ELSE 0)
  <2>1. Tries = MaxRetries + 1 /\ MaxRetries \in Nat
    BY ExecutorAssumption, MaxRetriesAssumption
  <2> QED
    BY <1>1, <1>3, <1>5, <1>6, <1>7, <2>1
<1>9. Opened(c, u)'
  BY <1>1, <1>2, <1>5, <1>6 DEF Opened
<1>10. Sides = {u, s} /\ u # s
  BY <1>5, TwoSides
<1> QED
  BY <1>1, <1>7, <1>8, <1>9, <1>10 DEF Ledger

LEMMA RollbackLedger ==
  ASSUME IInv, AnswersTruthful, NEW c \in Calls, Ledger(c), Rollback(c)
  PROVE  Ledger(c)'
<1>1. pc[c] = "rollback" /\ c \in Entries /\ order' = order
  BY DEF Rollback, Ledger
<1>2. PICK u \in Sides :
        Opened(c, u) /\ \A t \in Sides \ {u} :
          /\ order[c][t] = "failed"
          /\ fills[c][t] \in 0..(IF Lost THEN Tries ELSE IF Late THEN 1 ELSE 0)
  BY <1>1 DEF Ledger
<1>3. PICK n \in Rollbacks(c, u) : fills' = [fills EXCEPT ![c][u] = @ - n]
  BY <1>2 DEF Rollback, Opened
<1>4. n \in {0, 1} /\ (n = 0 => {"rollback", "unseen"} \cap Faults # {})
  BY <1>2, RollbackFacts
<1>5. /\ fills'[c][u] = 1 - n
      /\ \A t \in Sides \ {u} : fills'[c][t] = fills[c][t]
      /\ fills'[c] \in [Sides -> Int]
  BY <1>2, <1>3, <1>4 DEF Opened, IInv, TypeOK
<1>6. pc'[c] = "done" /\ result'[c] = "pause"
  BY DEF Rollback, Return, IInv, TypeOK
<1>7. Finished(c)'
  BY <1>1, <1>2 DEF Finished, Opened, IInv, AnsweredOnce
<1>8. [fills |-> fills'[c], result |-> "pause"] \in EntryOutcomes(Sides)
  <2>1. fills'[c][u] \in {0, 1} /\ (fills'[c][u] = 1 => {"rollback", "unseen"} \cap Faults # {})
    BY <1>4, <1>5
  <2>2. \A t \in Sides \ {u} :
          fills'[c][t] \in 0..(IF Lost THEN Tries ELSE IF Late THEN 1 ELSE 0)
    BY <1>2, <1>5
  <2> QED
    BY <1>5, <2>1, <2>2, PauseOutcome
<1> QED
  BY <1>1, <1>6, <1>7, <1>8 DEF Ledger, EntryEnded

LEMMA AbandonLedger ==
  ASSUME IInv, FailuresAllowed, AnswersTruthful, NEW c \in Calls, Ledger(c), Abandon(c)
  PROVE  Ledger(c)'
<1>1. /\ pc[c] = "wait" /\ expired[c] /\ Waiting(c)
      /\ UNCHANGED <<expired, tries, legVars>>
  BY DEF Abandon
<1>2. \A s \in Sides : order[c][s] # "none" /\ Placed(c, s) /\ Placed(c, s)'
  BY <1>1 DEF Ledger, Placed, legVars
<1>3. undo'[c] = IF c \in Entries THEN Good(c) ELSE {}
  BY DEF Abandon, IInv, TypeOK
<1>4. CASE undo'[c] # {}
  <2>1. pc'[c] = "undo" /\ c \in Entries /\ Good(c) # {}
    BY <1>3, <1>4 DEF Abandon, IInv, TypeOK
  <2>2. PICK s \in Sides : s \in Good(c)
    BY <2>1 DEF Good
  <2>3. PICK t \in Sides : answer[c][t] = Empty
    BY <1>1 DEF Waiting
  <2>4. Sides = {s, t} /\ s # t /\ Good(c) = {s}
    BY <2>2, <2>3, TwoSides DEF Good
  <2>5. order[c][s] = "accepted"
    BY <2>2 DEF Good, AnswersTruthful, Truthful
  <2>6. fills[c][s] = 1
    BY <1>2, <2>5 DEF Placed
  <2>7. Opened(c, s)'
    BY <1>1, <1>3, <2>1, <2>2, <2>4, <2>6 DEF Opened, Good, legVars
  <2> QED
    BY <1>1, <1>2, <2>1, <2>7 DEF Ledger
<1>5. CASE undo'[c] = {}
  <2>1. pc'[c] = "done" /\ result'[c] = "fail"
    BY <1>5 DEF Abandon, Return, IInv, TypeOK
  <2>2. \A s \in Sides : /\ fills'[c][s] \in {0, 1}
                         /\ order'[c][s] = "sent" => fills'[c][s] = 0
                         /\ order'[c][s] # "none"
    BY <1>1, <1>2 DEF Placed, legVars
  <2>3. CASE c \in Entries
    <3>1. Late
      BY <1>1, <2>3 DEF FailuresAllowed, MayExpire, Late
    <3> QED
      BY <1>1, <2>1, <2>2, <2>3, <3>1 DEF Ledger, EntryEnded
  <2>4. CASE c \notin Entries
    <3>1. "close" \in Faults
      BY <1>1, <2>4 DEF FailuresAllowed, MayExpire
    <3> QED
      BY <2>1, <2>2, <2>4, <3>1 DEF Ledger, CloseEnded, Sides
  <2> QED
    BY <2>3, <2>4
<1> QED
  BY <1>4, <1>5

LEMMA UndoLegLedger ==
  ASSUME IInv, FailuresAllowed, AnswersTruthful, NEW c \in Calls, Ledger(c), UndoLeg(c)
  PROVE  Ledger(c)'
<1>1. /\ pc[c] = "undo" /\ c \in Entries /\ expired[c] /\ Late
      /\ order' = order /\ expired' = expired
  BY DEF UndoLeg, Ledger, FailuresAllowed, MayExpire, Late
<1>2. PICK u \in Sides : Opened(c, u) /\ \A t \in Sides \ {u} : Placed(c, t)
  BY <1>1 DEF Ledger
<1>3. PICK n \in Rollbacks(c, u) : fills' = [fills EXCEPT ![c][u] = @ - n]
  BY <1>2 DEF UndoLeg, Opened
<1>4. n \in {0, 1}
  BY <1>2, RollbackFacts
<1>5. /\ fills'[c][u] = 1 - n
      /\ \A t \in Sides \ {u} : fills'[c][t] = fills[c][t]
  BY <1>2, <1>3, <1>4 DEF Opened, IInv, TypeOK
<1>6. pc'[c] = "done" /\ result'[c] = "fail"
  BY DEF UndoLeg, Return, IInv, TypeOK
<1>7. order[c][u] # "sent"
  BY <1>2 DEF Opened, IInv, AnsweredOnce
<1>8. \A s \in Sides : /\ fills'[c][s] \in {0, 1}
                       /\ order'[c][s] = "sent" => fills'[c][s] = 0
  BY <1>1, <1>2, <1>4, <1>5, <1>7 DEF Placed
<1> QED
  BY <1>1, <1>6, <1>8 DEF Ledger, EntryEnded

LEMMA ReleaseLaterLedger ==
  ASSUME IInv, NEW c \in Calls, Ledger(c), ReleaseLater(c)
  PROVE  Ledger(c)'
<1>1. held[c] /\ UNCHANGED <<callVars, legVars>>
  BY DEF ReleaseLater
<1>2. pc[c] # "idle"
  BY <1>1 DEF Ledger
<1> QED
  BY <1>1, <1>2 DEF callVars, legVars, Ledger, Placed, Opened, Retried, EntryEnded,
                    CloseEnded, Finished, Legs
-----------------------------------------------------------------------------
LEMMA InitLedger == Init => LInv
BY DEF Init, LInv, AnswersTruthful, FailuresAllowed, Ledger

LEMMA StepLedger == IInv /\ IInv' /\ LInv /\ [Next]_vars => LInv'
<1> SUFFICES ASSUME IInv, IInv', LInv, [Next]_vars PROVE LInv'
  OBVIOUS
<1>1. CASE UNCHANGED vars
  BY <1>1
  DEF vars, callVars, chanVars, legVars, LInv, AnswersTruthful, Truthful, FailuresAllowed,
      Ledger, Placed, Opened, Retried, EntryEnded, CloseEnded, Finished, Legs
<1>2. ASSUME NEW c \in Calls, CallNext(c) PROVE LInv'
  <2>1. AnswersTruthful /\ FailuresAllowed /\ \A d \in Calls : Ledger(d)
    BY DEF LInv
  <2>2. AnswersTruthful' /\ FailuresAllowed'
    BY <1>2, <2>1, TruthfulStep, FailuresStep
  <2>3. Ledger(c)'
    BY <1>2, <2>1, StartLedger, EndAtOnceLedger, ExpireLedger, ReceiveLedger, PlaceLedger,
       ConcludeLedger, SecondLegLedger, RetryLedger, RetryEndsLedger, RollbackLedger,
       AbandonLedger, UndoLegLedger, ReleaseLaterLedger
    DEF CallNext
  <2>4. ASSUME NEW d \in Calls \ {c} PROVE Ledger(d)'
    <3>1. Alone(d)
      BY <1>2, OthersAlone DEF IInv
    <3> QED
      BY <2>1, <3>1, AloneKeepsLedger
  <2> QED
    BY <2>2, <2>3, <2>4 DEF LInv
<1> QED
  BY <1>1, <1>2 DEF Next

LEMMA LedgerHolds == Spec => [](IInv /\ LInv)
BY InitInvariant, StepInvariant, InitLedger, StepLedger, PTL DEF Spec

LEMMA LedgerKeepsEntries == IInv /\ LInv => EntryPromise
<1> SUFFICES ASSUME IInv, LInv, NEW c \in Entries, Settled(c)
             PROVE  [fills |-> fills[c], result |-> result[c]] \in EntryOutcomes(Sides)
  BY DEF EntryPromise
<1>1. c \in Calls /\ EntryEnded(c)
  BY DEF LInv, Ledger, Settled, Calls
<1>2. fills[c] \in [Sides -> Int]
  BY <1>1 DEF IInv, TypeOK
<1>3. CASE result[c] = "fail"
  BY <1>1, <1>2, <1>3, FailOutcome DEF EntryEnded
<1> QED
  BY <1>1, <1>3 DEF EntryEnded

LEMMA LedgerKeepsCloses == IInv /\ LInv => ClosePromise
<1> SUFFICES ASSUME IInv, LInv, NEW c \in Closes, Settled(c)
             PROVE  /\ \A s \in Sides : fills[c][s] \in {0, 1}
                    /\ [shut |-> {s \in Sides : fills[c][s] = 1}, ok |-> result[c] = "ok"]
                         \in CloseOutcomes(Legs(c))
  BY DEF ClosePromise
<1>1. c \in Calls /\ CloseEnded(c)
  BY EntryOrClose DEF LInv, Ledger, Settled, Calls
<1> DEFINE shut == {s \in Sides : fills[c][s] = 1}
<1>2. shut \subseteq Legs(c)
  BY <1>1 DEF CloseEnded, Legs, Sides
<1>3. CASE result[c] = "ok"
  <2>1. shut = Legs(c) /\ Legs(c) # {}
    BY <1>1, <1>2, <1>3 DEF CloseEnded, Legs, Sides
  <2> QED
    BY <1>1, <1>3, <2>1 DEF CloseEnded, CloseOutcomes
<1>4. CASE result[c] # "ok"
  <2>1. "close" \in Faults
    BY <1>1, <1>4 DEF CloseEnded
  <2> QED
    BY <1>1, <1>2, <1>4, <2>1 DEF CloseEnded, CloseOutcomes
<1> QED
  BY <1>3, <1>4

\* Whatever fails, whichever contexts end and in whatever order the answers come,
\* a call of ExecuteParallel whose orders have ended traded and reported one of the
\* outcomes that the engine's model assumes (order.go:112-418).
THEOREM EntriesKeepPromise == Spec => []EntryPromise
BY LedgerHolds, LedgerKeepsEntries, PTL

\* A call of CloseParallel closes each leg at most once and reports success only
\* when all are closed (order.go:424-596).
THEOREM ClosesKeepPromise == Spec => []ClosePromise
BY LedgerHolds, LedgerKeepsCloses, PTL
=============================================================================
