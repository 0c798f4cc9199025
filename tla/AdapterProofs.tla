---------------------------- MODULE AdapterProofs ----------------------------
(***************************************************************************)
(* Theorems about the two specifications that stand on Adapters: Feed, for    *)
(* any number of subscriptions, connections, goroutines and breaks, and Desk,  *)
(* for any quantities and any number of orders, crashes and liquidations.     *)
(***************************************************************************)
EXTENDS Feed, Desk, TLAPS
-----------------------------------------------------------------------------
(* Feed: type correctness.                                                  *)

LoopState ==
  [pc : {"idle"}]
  \cup [pc : {"wait", "dial"}, first : BOOLEAN, copy : SUBSET Subs]
  \cup [pc : {"opened"}, first : BOOLEAN, copy : SUBSET Subs, at : Conns]
  \cup [pc : {"copied", "store"}, first : BOOLEAN, copy : SUBSET Subs]

\* The parts of the type invariant: the manager,
ManagerTyped ==
  /\ stream \in Streams /\ closing \in {"no", "marked", "done"}
  /\ state \in {"disconnected", "connecting", "connected", "reconnecting", "closed"}
  /\ pingers \in Nat /\ acting \in Nat /\ heard \in BOOLEAN /\ retries \in Nat

\* its connections, which have no subscription but the manager's,
NetTyped ==
  /\ conn \in Conns \cup {NoConn} /\ on = [c \in Conns |-> on[c]]
  /\ \A c \in up : on[c] \subseteq subs

\* the caller, which has added what it sends,
SenderTyped ==
  /\ subs \subseteq Subs /\ told \subseteq subs
  /\ \/ sender = Idle
     \/ sender.pc = "added" /\ sender.sub \in subs
     \/ sender.pc = "write" /\ sender.sub \in subs /\ sender.at \in Conns

\* and the loops, which copy what was added.
LoopsTyped ==
  /\ loop \in [Loops -> LoopState]
  /\ \A l \in Loops : loop[l].pc = "copied" => loop[l].copy \subseteq subs

Typed == ManagerTyped /\ NetTyped /\ SenderTyped /\ LoopsTyped

LEMMA InitTyped == Init => Typed
<1> SUFFICES ASSUME Init PROVE Typed
  OBVIOUS
<1>1. ManagerTyped
  BY DEF Init, ManagerTyped
<1>2. NetTyped
  BY DEF Init, NetTyped, up
<1>3. SenderTyped
  BY DEF Init, SenderTyped
<1>4. LoopsTyped
  BY DEF Init, LoopsTyped, LoopState, Idle
<1> QED
  BY <1>1, <1>2, <1>3, <1>4 DEF Typed

\* What a loop becomes.
LEMMA LoopBecomes ==
  ASSUME LoopsTyped, NEW l \in Loops, NEW s \in LoopState, s.pc = "copied" => s.copy \subseteq subs',
         loop' = [loop EXCEPT ![l] = s], subs \subseteq subs'
  PROVE  LoopsTyped' /\ loop'[l] = s /\ \A k \in Loops \ {l} : loop'[k] = loop[k]
BY DEF LoopsTyped

\* A connection that is closed.
LEMMA WithoutTyped ==
  ASSUME NetTyped, NEW d, on' = Without(d), subs' = subs, conn' \in Conns \cup {NoConn}
  PROVE  NetTyped'
BY DEF NetTyped, Without, up

LEMMA IdleAndWaiting == Idle \in LoopState /\ Waiting \in LoopState /\ Idle.pc = "idle" /\ Waiting.pc = "wait"
BY DEF Idle, Waiting, LoopState

LEMMA EndsTyped ==
  ASSUME LoopsTyped, NEW l \in Loops, Ends(l), subs' = subs
  PROVE  LoopsTyped'
BY IdleAndWaiting, LoopBecomes DEF Ends

LEMMA AgainTyped ==
  ASSUME LoopsTyped, ManagerTyped, NEW l \in Loops, Again(l), subs' = subs
  PROVE  LoopsTyped' /\ state' \in {"disconnected", "connecting", "connected", "reconnecting", "closed"}
<1>1. CASE loop[l].first
  BY <1>1, EndsTyped DEF Again, ManagerTyped
<1>2. CASE ~loop[l].first
  BY <1>2, IdleAndWaiting, LoopBecomes DEF Again, ManagerTyped
<1> QED
  BY <1>1, <1>2

LEMMA DisconnectTyped ==
  ASSUME LoopsTyped, NetTyped, Disconnect, subs' = subs
  PROVE  LoopsTyped' /\ NetTyped' /\ state' = "reconnecting"
<1>1. PICK l \in Loops : loop' = [loop EXCEPT ![l] = Waiting]
  BY DEF Disconnect
<1>2. LoopsTyped'
  BY <1>1, IdleAndWaiting, LoopBecomes
<1>3. NetTyped'
  BY WithoutTyped DEF Disconnect
<1> QED
  BY <1>2, <1>3 DEF Disconnect

\* The steps of a loop.
LEMMA LoopTyped ==
  ASSUME Typed, NEW l \in Loops, LoopStep(l) \/ DialFails(l) \/ AuthFails(l)
  PROVE  Typed'
<1> USE DEF Typed
<1>0. loop[l] \in LoopState
  BY DEF LoopsTyped
<1>1. CASE Connect(l)
  <2> DEFINE s == [pc |-> "dial", first |-> TRUE, copy |-> {}]
  <2>1. s \in LoopState /\ s.pc = "dial"
    BY DEF LoopState
  <2>2. LoopsTyped'
    BY <1>1, <2>1, LoopBecomes DEF Connect, sending
  <2> QED
    BY <1>1, <2>2 DEF Connect, ManagerTyped, NetTyped, SenderTyped, net, sending, pumps, up
<1>2. CASE Attempt(l)
  <2>1. LoopsTyped'
    <3>1. CASE loop' = [loop EXCEPT ![l].pc = "dial"]
      <4>1. [loop[l] EXCEPT !.pc = "dial"] \in LoopState /\ [loop[l] EXCEPT !.pc = "dial"].pc = "dial"
        BY <1>0, <1>2 DEF Attempt, LoopState
      <4>2. loop' = [loop EXCEPT ![l] = [loop[l] EXCEPT !.pc = "dial"]]
        BY <3>1
      <4> QED
        BY <1>2, <4>1, <4>2, LoopBecomes DEF Attempt, sending
    <3>2. CASE Ends(l)
      BY <1>2, <3>2, EndsTyped DEF Attempt, sending
    <3> QED
      BY <1>2, <3>1, <3>2 DEF Attempt
  <2>2. ManagerTyped'
    BY <1>2 DEF Attempt, ManagerTyped, pumps
  <2> QED
    BY <1>2, <2>1, <2>2 DEF Attempt, NetTyped, SenderTyped, net, sending, up
<1>3. CASE LoopStops(l)
  <2>1. LoopsTyped'
    BY <1>3, EndsTyped DEF LoopStops, sending
  <2> QED
    BY <1>3, <2>1 DEF LoopStops, ManagerTyped, NetTyped, SenderTyped, net, sending, pumps, up
<1>4. CASE DialFails(l)
  <2>1. LoopsTyped' /\ state' \in {"disconnected", "connecting", "connected", "reconnecting", "closed"}
    BY <1>4, AgainTyped DEF DialFails, sending
  <2> QED
    BY <1>4, <2>1 DEF DialFails, ManagerTyped, NetTyped, SenderTyped, net, sending, pumps, up
<1>5. CASE Dial(l)
  <2>1. PICK c \in Conns : conn' = c
    BY <1>5 DEF Dial
  <2>2. NetTyped'
    BY <1>5, <2>1 DEF Dial, NetTyped, up, sending
  <2> DEFINE s == [pc |-> "opened", first |-> loop[l].first, copy |-> {}, at |-> conn']
  <2>3. loop[l].first \in BOOLEAN
    BY <1>0, <1>5 DEF Dial, LoopState
  <2>4. s \in LoopState /\ s.pc = "opened"
    BY <2>1, <2>3 DEF LoopState
  <2>5. loop' = [loop EXCEPT ![l] = s]
    BY <1>5 DEF Dial
  <2> HIDE DEF s
  <2>6. LoopsTyped'
    BY <1>5, <2>4, <2>5, LoopBecomes DEF Dial, sending
  <2> QED
    BY <1>5, <2>2, <2>6 DEF Dial, ManagerTyped, SenderTyped, sending, pumps
<1>6. CASE AuthFails(l)
  <2>1. LoopsTyped' /\ state' \in {"disconnected", "connecting", "connected", "reconnecting", "closed"}
    BY <1>6, AgainTyped DEF AuthFails, sending
  <2>2. NetTyped'
    BY <1>6, WithoutTyped DEF AuthFails, sending
  <2> QED
    BY <1>6, <2>1, <2>2 DEF AuthFails, ManagerTyped, SenderTyped, sending, pumps
<1>7. CASE CopySubs(l)
  <2> DEFINE s == [pc |-> "copied", first |-> loop[l].first, copy |-> subs]
  <2>1. loop[l].first \in BOOLEAN
    BY <1>0, <1>7 DEF CopySubs, LoopState
  <2>2. s \in LoopState /\ s.copy \subseteq subs
    BY <2>1 DEF LoopState, SenderTyped
  <2>3. loop' = [loop EXCEPT ![l] = s] /\ subs' = subs
    BY <1>7 DEF CopySubs, sending
  <2> HIDE DEF s
  <2>4. LoopsTyped'
    BY <2>2, <2>3, LoopBecomes
  <2> QED
    BY <1>7, <2>4 DEF CopySubs, ManagerTyped, NetTyped, SenderTyped, net, sending, pumps, up
<1>8. CASE Resubscribe(l)
  <2>1. [loop[l] EXCEPT !.pc = "store"] \in LoopState /\ [loop[l] EXCEPT !.pc = "store"].pc = "store"
    BY <1>0, <1>8 DEF Resubscribe, LoopState
  <2>2. loop' = [loop EXCEPT ![l] = [loop[l] EXCEPT !.pc = "store"]] /\ subs' = subs
    BY <1>8 DEF Resubscribe, sending
  <2>3. LoopsTyped'
    BY <2>1, <2>2, LoopBecomes
  <2>4. Sent(l) \subseteq subs
    BY <1>8 DEF Resubscribe, Sent, LoopsTyped
  <2>5. NetTyped'
    BY <1>8, <2>2, <2>4 DEF Resubscribe, NetTyped, up
  <2> QED
    BY <1>8, <2>3, <2>5 DEF Resubscribe, ManagerTyped, SenderTyped, sending, pumps
<1>9. CASE Connected(l)
  <2>1. LoopsTyped'
    BY <1>9, EndsTyped DEF Connected, sending
  <2> QED
    BY <1>9, <2>1 DEF Connected, ManagerTyped, NetTyped, SenderTyped, net, sending, up
<1> QED
  BY <1>1, <1>2, <1>3, <1>4, <1>5, <1>6, <1>7, <1>8, <1>9 DEF LoopStep

\* The steps of the pumps.
LEMMA PumpTyped ==
  ASSUME Typed, PingStep \/ \E r \in Readers : ReaderStep(r) \/ Deliver(r) \/ Skip(r)
  PROVE  Typed'
<1> USE DEF Typed
<1>1. CASE PingStops \/ PingFails
  BY <1>1 DEF PingStops, PingFails, ManagerTyped, NetTyped, SenderTyped, LoopsTyped, net, sending, up
<1>2. CASE PingActs
  <2>1. LoopsTyped' /\ NetTyped' /\ state' = "reconnecting"
    BY <1>2, DisconnectTyped DEF PingActs, sending
  <2> QED
    BY <1>2, <2>1 DEF PingActs, ManagerTyped, SenderTyped, sending
<1>3. ASSUME NEW r \in Readers, ReaderTop(r) \/ ReadError(r) \/ ReaderChecks(r) \/ Deliver(r) \/ Skip(r)
      PROVE  Typed'
  BY <1>3 DEF ReaderTop, ReadError, ReaderChecks, Deliver, Skip, ManagerTyped, NetTyped,
              SenderTyped, LoopsTyped, net, sending, up
<1>4. ASSUME NEW r \in Readers, ReaderActs(r) PROVE Typed'
  <2>1. LoopsTyped' /\ NetTyped' /\ state' = "reconnecting"
    BY <1>4, DisconnectTyped DEF ReaderActs, sending
  <2> QED
    BY <1>4, <2>1 DEF ReaderActs, ManagerTyped, SenderTyped, sending
<1> QED
  BY <1>1, <1>2, <1>3, <1>4 DEF PingStep, ReaderStep

\* The steps of the network and of the callers.
LEMMA CallerTyped ==
  ASSUME Typed, \/ \E c \in Conns : Break(c)
                \/ \E s \in Subs : Add(s)
                \/ Send \/ Write \/ Close \/ CloseConn
  PROVE  Typed'
<1> USE DEF Typed
<1>1. ASSUME NEW c \in Conns, Break(c) PROVE Typed'
  <2>1. NetTyped'
    BY <1>1, WithoutTyped DEF Break, sending, NetTyped
  <2> QED
    BY <1>1, <2>1 DEF Break, ManagerTyped, SenderTyped, LoopsTyped, sending, pumps
<1>2. ASSUME NEW s \in Subs, Add(s) PROVE Typed'
  <2>1. sender'.pc = "added" /\ sender'.sub = s /\ subs' = subs \cup {s} /\ told' = told
    BY <1>2 DEF Add
  <2>2. SenderTyped' /\ NetTyped' /\ LoopsTyped'
    BY <1>2, <2>1 DEF Add, SenderTyped, NetTyped, LoopsTyped, net, up
  <2> QED
    BY <1>2, <2>2 DEF Add, ManagerTyped, pumps
<1>3. CASE Send
  <2>1. SenderTyped'
    BY <1>3 DEF Send, SenderTyped, NetTyped, Idle
  <2> QED
    BY <1>3, <2>1 DEF Send, ManagerTyped, NetTyped, LoopsTyped, net, pumps, up
<1>4. CASE Write
  <2>1. sender.sub \in subs /\ sender' = Idle /\ subs' = subs
    BY <1>4 DEF Write, SenderTyped, Idle
  <2>2. SenderTyped' /\ NetTyped'
    BY <1>4, <2>1 DEF Write, SenderTyped, NetTyped, up
  <2> QED
    BY <1>4, <2>2 DEF Write, ManagerTyped, LoopsTyped, pumps
<1>5. CASE Close
  BY <1>5 DEF Close, ManagerTyped, NetTyped, SenderTyped, LoopsTyped, net, sending, pumps, up
<1>6. CASE CloseConn
  <2>1. NetTyped'
    BY <1>6, WithoutTyped DEF CloseConn, sending
  <2> QED
    BY <1>6, <2>1 DEF CloseConn, ManagerTyped, SenderTyped, LoopsTyped, sending, pumps
<1> QED
  BY <1>1, <1>2, <1>3, <1>4, <1>5, <1>6

\* Every step keeps the types.
LEMMA NextTyped == Typed /\ [Next]_vars => Typed'
<1> SUFFICES ASSUME Typed, [Next]_vars
             PROVE  Typed'
  OBVIOUS
<1>1. CASE Next
  BY <1>1, LoopTyped, PumpTyped, CallerTyped DEF Next
<1>2. CASE UNCHANGED vars
  BY <1>2 DEF vars, net, sending, pumps, Typed, ManagerTyped, NetTyped, SenderTyped, LoopsTyped, up
<1> QED
  BY <1>1, <1>2

\* Every variable keeps its type, and no connection has a subscription that was not added.
THEOREM FeedTypeCorrect == Spec => []TypeOK
<1>1. Typed => TypeOK
  BY DEF Typed, ManagerTyped, NetTyped, SenderTyped, TypeOK
<1> QED
  BY <1>1, InitTyped, NextTyped, PTL DEF Spec
-----------------------------------------------------------------------------
(* Subscriptions across reconnections.                                      *)

\* The connection has s, or a loop has yet to copy the subscriptions, or to send its copy.
Secured(s) ==
  \/ s \in on[conn]
  \/ \E l \in Loops : loop[l].pc = "opened" \/ (loop[l].pc = "copied" /\ s \in loop[l].copy)

\* So it is with every subscription that was sent, and with one that is being written to
\* a connection that was replaced since Send read it.
Safe ==
  conn \in up =>
    /\ \A s \in told : Secured(s)
    /\ sender.pc = "write" /\ sender.at # conn => Secured(sender.sub)

\* Before the first Connect there is neither a loop nor a connection.
Untouched ==
  /\ breaks \in Nat /\ fails \in Nat
  /\ Unused => LoopsIdle /\ conn = NoConn

LEMMA InitKept == Init => Safe /\ Untouched
BY FeedAssumption DEF Init, Safe, Untouched, Idle, LoopsIdle, up

\* A loop that has something to send keeps it.
LoopsStay ==
  \A k \in Loops : loop[k].pc \in {"opened", "copied"} => loop'[k] = loop[k]

LEMMA LoopStays ==
  ASSUME LoopsTyped, NEW l \in Loops, loop[l].pc \notin {"opened", "copied"}, NEW t,
         loop' = [loop EXCEPT ![l] = t]
  PROVE  LoopsStay
BY DEF LoopsTyped, LoopsStay

LEMMA SecuredStays ==
  ASSUME LoopsStay, conn' = conn, on[conn] \subseteq on'[conn], NEW s, Secured(s)
  PROVE  Secured(s)'
BY DEF LoopsStay, Secured

\* A step that replaces no connection.
LEMMA KeptStays ==
  ASSUME Safe, LoopsStay, conn' = conn, conn \in up' => conn \in up /\ on[conn] \subseteq on'[conn],
         UNCHANGED <<told, sender>>
  PROVE  Safe'
BY SecuredStays DEF Safe

\* A step that leaves no open connection.
LEMMA KeptByNone ==
  ASSUME conn' = NoConn
  PROVE  Safe'
BY FeedAssumption DEF Safe, up

\* The steps of a loop.
LEMMA LoopKept ==
  ASSUME Typed, Safe, Untouched, NEW l \in Loops, LoopStep(l) \/ DialFails(l) \/ AuthFails(l)
  PROVE  Safe'
<1> USE DEF Typed
<1>0. /\ told \subseteq subs /\ (sender.pc = "write" => sender.sub \in subs)
      /\ loop[l] \in LoopState /\ loop \in [Loops -> LoopState]
  BY DEF SenderTyped, LoopsTyped, Idle
<1>1. CASE Connect(l)
  <2>1. conn' = NoConn
    BY <1>1 DEF Connect, Untouched, net
  <2> QED
    BY <2>1, KeptByNone
<1>2. CASE Attempt(l)
  <2>1. LoopsStay
    BY <1>2, LoopStays DEF Attempt, Ends
  <2> QED
    BY <1>2, <2>1, KeptStays DEF Attempt, net, sending, up
<1>3. CASE LoopStops(l)
  <2>1. LoopsStay
    BY <1>3, LoopStays DEF LoopStops, Ends
  <2> QED
    BY <1>3, <2>1, KeptStays DEF LoopStops, net, sending, up
<1>4. CASE DialFails(l)
  <2>1. LoopsStay
    BY <1>4, LoopStays DEF DialFails, Again, Ends
  <2> QED
    BY <1>4, <2>1, KeptStays DEF DialFails, net, sending, up
<1>5. CASE Dial(l)
  <2>1. loop'[l].pc = "opened"
    BY <1>0, <1>5 DEF Dial
  <2> QED
    BY <2>1 DEF Safe, Secured
<1>6. CASE AuthFails(l)
  BY <1>6, KeptByNone DEF AuthFails
<1>7. CASE CopySubs(l)
  <2>1. loop'[l].pc = "copied" /\ loop'[l].copy = subs /\ UNCHANGED <<told, sender>>
    BY <1>0, <1>7 DEF CopySubs, sending
  <2>2. \A s \in subs : Secured(s)'
    BY <2>1 DEF Secured
  <2> QED
    BY <1>0, <2>1, <2>2 DEF Safe
<1>8. CASE Resubscribe(l)
  <2>1. /\ conn' = conn /\ UNCHANGED <<told, sender>> /\ loop[l].pc = "copied"
        /\ \A k \in Loops \ {l} : loop'[k] = loop[k]
    BY <1>0, <1>8 DEF Resubscribe, sending
  <2>2. conn \in up' => conn \in up
    BY <1>8 DEF Resubscribe, up, NetTyped
  <2>3. conn \in up => on'[conn] = on[conn] \cup loop[l].copy
    BY <1>8 DEF Resubscribe, Sent, up, NetTyped
  <2>4. ASSUME conn \in up, NEW s, Secured(s) PROVE Secured(s)'
    BY <2>1, <2>3, <2>4 DEF Secured
  <2> QED
    BY <2>1, <2>2, <2>4 DEF Safe
<1>9. CASE Connected(l)
  <2>1. LoopsStay
    BY <1>9, LoopStays DEF Connected, Ends
  <2> QED
    BY <1>9, <2>1, KeptStays DEF Connected, net, sending, up
<1> QED
  BY <1>1, <1>2, <1>3, <1>4, <1>5, <1>6, <1>7, <1>8, <1>9 DEF LoopStep

\* The other steps.
LEMMA OtherKept ==
  ASSUME Typed, Safe, \/ \E c \in Conns : Break(c)
                      \/ \E r \in Readers : ReaderStep(r) \/ Deliver(r) \/ Skip(r)
                      \/ \E s \in Subs : Add(s)
                      \/ PingStep \/ Send \/ Write \/ Close \/ CloseConn \/ UNCHANGED vars
  PROVE  Safe'
<1> USE DEF Typed
<1>1. ASSUME NEW c \in Conns, Break(c) PROVE Safe'
  <2>1. UNCHANGED <<conn, told, sender, loop>> /\ on' = Without(c)
    BY <1>1 DEF Break, sending
  <2>2. conn \in up' => conn \in up /\ on'[conn] = on[conn]
    BY <2>1 DEF Without, up
  <2> QED
    BY <2>1, <2>2, KeptStays DEF LoopsStay
<1>2. CASE PingActs \/ CloseConn \/ \E r \in Readers : ReaderActs(r)
  BY <1>2, KeptByNone DEF PingActs, CloseConn, ReaderActs, Disconnect
<1>3. CASE UNCHANGED <<conn, on, told, sender, loop>>
  BY <1>3, KeptStays DEF LoopsStay, up
<1>4. ASSUME NEW s \in Subs, Add(s) PROVE Safe'
  <2>1. UNCHANGED <<conn, on, told, loop>> /\ sender'.pc = "added"
    BY <1>4 DEF Add, net
  <2>2. LoopsStay /\ up' = up
    BY <2>1 DEF LoopsStay, up
  <2> QED
    BY <2>1, <2>2, SecuredStays DEF Safe
<1>5. CASE Send
  <2>1. UNCHANGED <<conn, on, told, loop>> /\ (sender'.pc = "write" => sender'.at = conn)
    BY <1>5 DEF Send, net, Idle
  <2>2. LoopsStay /\ up' = up
    BY <2>1 DEF LoopsStay, up
  <2> QED
    BY <2>1, <2>2, SecuredStays DEF Safe
<1>6. CASE Write
  <2>1. UNCHANGED <<conn, loop>> /\ sender'.pc = "idle" /\ sender.pc = "write"
    BY <1>6 DEF Write, Idle
  <2>2. LoopsStay
    BY <2>1 DEF LoopsStay
  <2>3. conn \in up' => conn \in up /\ on[conn] \subseteq on'[conn]
    BY <1>6 DEF Write, up, NetTyped
  <2>4. PICK s : s = sender.sub
    OBVIOUS
  <2>5. ASSUME conn \in up, sender.at \in up PROVE Secured(s)'
    <3>1. CASE sender.at = conn
      <4>1. s \in on'[conn]
        BY <1>6, <2>4, <2>5, <3>1 DEF Write, NetTyped, up
      <4> QED
        BY <2>1, <4>1 DEF Secured
    <3>2. CASE sender.at # conn
      <4>1. on'[conn] = on[conn] /\ Secured(s)
        BY <1>6, <2>1, <2>4, <2>5, <3>2 DEF Write, NetTyped, up, Safe
      <4> QED
        BY <2>1, <2>2, <4>1, SecuredStays
    <3> QED
      BY <3>1, <3>2
  <2>6. told' = told \/ (sender.at \in up /\ told' = told \cup {s})
    BY <1>6, <2>4 DEF Write
  <2>7. conn \in up' => \A u \in told : Secured(u)'
    BY <2>1, <2>2, <2>3, SecuredStays DEF Safe
  <2> QED
    BY <2>1, <2>3, <2>5, <2>6, <2>7 DEF Safe
<1> QED
  BY <1>1, <1>2, <1>3, <1>4, <1>5, <1>6 DEF ReaderStep, PingStep, PingStops, PingFails, ReaderTop,
     ReadError, ReaderChecks, Deliver, Skip, Close, net, sending, vars

\* The manager is used from the first Connect on.
LEMMA NextUntouched ==
  ASSUME Typed, Untouched, [Next]_vars
  PROVE  Untouched'
<1> USE DEF Typed
<1>0. breaks \in Nat /\ fails \in Nat /\ retries \in Nat
  BY DEF Untouched, ManagerTyped
<1>1. breaks' \in Nat /\ fails' \in Nat
  BY <1>0 DEF Next, Break, LoopStep, DialFails, AuthFails, ReaderStep, Deliver, Skip, PingStep, Add,
     Send, Write, Close, CloseConn, Connect, Attempt, LoopStops, Dial, CopySubs, Resubscribe,
     Connected, ReaderTop, ReadError, ReaderChecks, ReaderActs, PingStops, PingFails, PingActs,
     bounds, vars
<1>2. ASSUME Unused' PROVE Unused
  BY <1>0, <1>2 DEF Unused, Next, Break, LoopStep, DialFails, AuthFails, ReaderStep, Deliver, Skip,
     PingStep, Add, Send, Write, Close, CloseConn, Connect, Attempt, LoopStops, Dial, CopySubs,
     Resubscribe, Connected, ReaderTop, ReadError, ReaderChecks, ReaderActs, PingStops, PingFails,
     PingActs, Disconnect, Again, bounds, vars
<1>3. ASSUME Unused, LoopsIdle, Unused', conn = NoConn PROVE (LoopsIdle /\ conn = NoConn)'
  <2>1. \A l \in Loops : loop[l].pc = "idle"
    BY <1>3 DEF LoopsIdle, Idle
  <2>2. UNCHANGED <<loop, conn>> \/ (CloseConn /\ UNCHANGED loop)
    BY <1>3, <2>1 DEF Unused, Next, Break, LoopStep, DialFails, AuthFails, ReaderStep, Deliver, Skip,
     PingStep, Add, Send, Write, Close, CloseConn, Connect, Attempt, LoopStops, Dial, CopySubs,
     Resubscribe, Connected, ReaderTop, ReadError, ReaderChecks, ReaderActs, PingStops, PingFails,
     PingActs, Disconnect, net, vars
  <2> QED
    BY <1>3, <2>2 DEF LoopsIdle, CloseConn
<1> QED
  BY <1>1, <1>2, <1>3 DEF Untouched

LEMMA NextKept == Typed /\ Safe /\ Untouched /\ [Next]_vars => Safe'
BY LoopKept, OtherKept DEF Next

\* A subscription whose Send returned no error survives every reconnection: when m.conn is
\* open and no loop is replacing it, the exchange has it there.
THEOREM SubscriptionsSurvive == Spec => []ToldIsSubscribed
<1>1. Typed /\ Safe => ToldIsSubscribed
  BY DEF Safe, Secured, ToldIsSubscribed, LoopsIdle, Idle
<1> QED
  BY <1>1, InitTyped, NextTyped, InitKept, NextKept, NextUntouched, PTL DEF Spec
-----------------------------------------------------------------------------
(* Desk: what it keeps.                                                     *)

\* Uses of an order: an entry's leg by its side, the close of a leg, of an orphan.
Uses == Sides \cup {"close", "recover"}

\* The exchanges with one net position; at the others each side is held by itself.
Nets == {"bybit", "gate"}

\* Gate and HTX trade whole contracts.
Wholes == {"gate", "htx"}

Whole(n) == n % Unit = 0

OrderSet == [dir : Dirs, pos : Sides \cup {"net"}, size : Nat]

LiveSet == [order : OrderSet, left : Nat, use : Uses]

CallSet == [use : Uses, asked : Nat, order : OrderSet, taken : BOOLEAN, filled : Nat,
            acked : BOOLEAN]

ReportSet == [what : {"changed", "liquidated"}, side : Sides, at : Nat]

FoundSet == [side : Sides, size : Nat]

\* What the exchange keeps.
VenueTyped ==
  /\ venue \in Venues /\ below \in BOOLEAN
  /\ book \in [Sides -> Nat]
  /\ live = NoOrder \/ live \in LiveSet

\* What the program keeps.
ProgramTyped ==
  /\ call = NoCall \/ call \in CallSet
  /\ leg \in [side : Sides \cup {"none"}, qty : Nat, priced : BOOLEAN]
  /\ found \subseteq FoundSet
  /\ clean \in BOOLEAN
  /\ mode \in {"off", "on", "restoring", "restored"}

ReportsTyped ==
  /\ watch \in BOOLEAN /\ stale \in BOOLEAN /\ orders \in Nat
  /\ report = NoReport \/ report \in ReportSet

\* An account is one-way or hedged, and its orders with it.
AccountKind ==
  /\ venue \in Nets => book["long"] = 0 \/ book["short"] = 0
  /\ live # NoOrder => (live.order.pos = "net" <=> venue \in Nets)
  /\ venue \in Wholes => \A s \in Sides : Whole(book[s])

\* What each mode of the program leaves of a call, of a leg and of recovery.
Phases ==
  /\ mode = "off" => call = NoCall /\ report = NoReport /\ ~watch
  /\ mode # "on" => leg = NoLeg
  /\ mode # "restoring" =>
       /\ found = {}
       /\ live # NoOrder => live.use # "recover"
       /\ call # NoCall => call.use # "recover"
  /\ mode = "restoring" =>
       /\ live # NoOrder => live.use = "recover"
       /\ call # NoCall => call.use = "recover"
  /\ mode = "restored" => live = NoOrder /\ call = NoCall

\* OKX and Bitget acknowledge only an order they took.
AcksAreTrue ==
  call # NoCall /\ call.acked /\ venue \in {"okx", "bitget"} => call.taken

\* A report of a liquidation on its way was not overtaken by an order, unless one was
\* counted since.
AlarmsStand ==
  report # NoReport =>
    /\ report.at <= orders
    /\ mode = "on" /\ report.what = "liquidated" /\ report.at = orders =>
         live = NoOrder /\ book[report.side] = 0

\* The side that an order of recovery takes from.
ClosesSide(s) ==
  /\ live # NoOrder /\ live.use = "recover"
  /\ live.order.dir = (IF s = "long" THEN "sell" ELSE "buy")

\* An order of recovery reduces one side, and at a one-way account trades no more
\* than it has, unless there was a liquidation.
Reduces ==
  /\ live # NoOrder /\ live.use = "recover" /\ venue \notin Nets =>
       live.order.pos = IF live.order.dir = "sell" THEN "long" ELSE "short"
  /\ \A s \in Sides : venue \in Nets /\ ~stale /\ ClosesSide(s) => live.left <= book[s]
  /\ venue \in Nets /\ ~stale => \A p \in found : live = NoOrder /\ found = {p} /\ p.size = book[p.side]

\* Positions that recovery has read as they are.
Readable == clean /\ ~(venue = "okx" /\ ~below) /\ ~Overtaken

\* What is held on side s is still to be closed, being closed, or its close was not taken.
Pending(s) ==
  \/ \E p \in found : p.side = s /\ p.size >= book[s] /\ (venue \in Wholes => Whole(p.size))
  \/ ClosesSide(s) /\ live.left >= book[s]
  \/ call # NoCall /\ ~call.taken

\* Recovery leaves nothing out.
NothingLeft ==
  mode \in {"restoring", "restored"} /\ Readable =>
    \A s \in Sides : book[s] > 0 => Pending(s)

DeskInv ==
  /\ VenueTyped /\ ProgramTyped /\ ReportsTyped
  /\ AccountKind /\ Phases /\ AcksAreTrue /\ AlarmsStand /\ Reduces /\ NothingLeft
-----------------------------------------------------------------------------
(* Desk: what the operators of Adapters give.                               *)

\* Amounts of whole contracts are closed under sums and differences.
LEMMA WholeIs ==
  ASSUME NEW a \in Int
  PROVE  Whole(a) <=> \E k \in Int : a = Unit * k
<1>1. a = Unit * (a \div Unit) + (a % Unit) /\ a \div Unit \in Int
  BY UnitAssumption
<1>2. ASSUME NEW k \in Int, a = Unit * k PROVE Whole(a)
  BY <1>2, UnitAssumption DEF Whole
<1>3. ASSUME Whole(a) PROVE \E k \in Int : a = Unit * k
  <2>1. a \div Unit \in Int /\ a = Unit * (a \div Unit)
    BY <1>1, <1>3, UnitAssumption DEF Whole
  <2> QED
    BY <2>1
<1> QED
  BY <1>2, <1>3

LEMMA WholeAdds ==
  ASSUME NEW a \in Int, NEW b \in Int, Whole(a), Whole(b)
  PROVE  Whole(a + b) /\ Whole(a - b) /\ Whole(0)
<1>1. PICK k \in Int : a = Unit * k
  BY WholeIs
<1>2. PICK l \in Int : b = Unit * l
  BY WholeIs
<1>3. a + b = Unit * (k + l) /\ a - b = Unit * (k - l) /\ 0 = Unit * 0
  BY <1>1, <1>2, UnitAssumption
<1>4. k + l \in Int /\ k - l \in Int /\ a + b \in Int /\ a - b \in Int /\ 0 \in Int
  OBVIOUS
<1> HIDE DEF Whole
<1> QED
  BY <1>3, <1>4, WholeIs

\* int64 drops a fraction, and keeps whole contracts.
LEMMA TruncatedIs ==
  ASSUME NEW q \in Nat
  PROVE  Truncated(q) \in Nat /\ Truncated(q) <= q /\ (Whole(q) => Truncated(q) = q)
<1>1. q = Unit * (q \div Unit) + (q % Unit) /\ q \div Unit \in Nat /\ q % Unit \in Nat
  BY UnitAssumption
<1>2. (q \div Unit) * Unit = Unit * (q \div Unit) /\ Unit * (q \div Unit) \in Int
  BY <1>1, UnitAssumption
<1>3. (q \div Unit) * Unit \in Nat
  BY <1>1, UnitAssumption
<1> QED
  BY <1>1, <1>2, <1>3 DEF Truncated, Whole

\* Rounding keeps whole contracts too.
LEMMA RoundedIs ==
  ASSUME NEW q \in Nat
  PROVE  Rounded(q) \in Nat /\ (Whole(q) => Rounded(q) = q)
<1> DEFINE n == q \div Unit
<1>1. q = Unit * n + (q % Unit) /\ n \in Nat /\ q % Unit \in Nat
  BY UnitAssumption
<1>2. Unit * n \in Nat /\ Unit * (n + 1) \in Nat
  BY <1>1, UnitAssumption
<1>3. Rounded(q) = Unit * n \/ Rounded(q) = Unit * (n + 1)
  BY DEF Rounded
<1>4. q % Unit = 0 => Rounded(q) = Unit * n
  BY <1>1, UnitAssumption DEF Rounded
<1> QED
  BY <1>1, <1>2, <1>3, <1>4 DEF Whole

\* An order of PlaceMarketOrder is against the net position at a one-way exchange only.
LEMMA MarketOrderIs ==
  ASSUME NEW v \in Venues, NEW s \in Dirs, NEW q \in Nat
  PROVE  /\ MarketOrder(v, s, q) \in OrderSet
         /\ MarketOrder(v, s, q).pos = "net" <=> v \in Nets
<1>1. Truncated(q) \in Nat /\ Rounded(q) \in Nat
  BY TruncatedIs, RoundedIs
<1>2. Dir(s) = s
  BY DEF Dir, Dirs
<1> QED
  BY <1>1, <1>2 DEF MarketOrder, BybitOrder, OKXOrder, BitgetOrder, GateOrder, HTXOrder,
       BingXOrder, Opening, Order, OrderSet, Sides, Dirs, Venues, Nets

\* An order of ClosePosition takes from the side it is given, never more at a one-way
\* exchange, and all of it unless contracts are cut.
LEMMA CloseOrderIs ==
  ASSUME NEW v \in Venues, NEW s \in Sides, NEW q \in Nat, NEW o, o = CloseOrder(v, s, q)
  PROVE  /\ o \in OrderSet
         /\ o.pos = IF v \in Nets THEN "net" ELSE s
         /\ o.dir = IF s = "long" THEN "sell" ELSE "buy"
         /\ v \in Nets => o.size <= q
         /\ (v \in Wholes => Whole(q)) => o.size = q
<1>1. /\ Truncated(q) \in Nat /\ Truncated(q) <= q /\ Rounded(q) \in Nat
      /\ Whole(q) => Truncated(q) = q /\ Rounded(q) = q
  BY TruncatedIs, RoundedIs
<1>2. Dir("sell") = "sell" /\ Dir("buy") = "buy"
  BY DEF Dir
<1> HIDE DEF Whole
<1> QED
  BY <1>1, <1>2 DEF CloseOrder, BybitClose, OKXClose, BitgetClose, GateClose, HTXClose,
       BingXClose, BybitOrder, Closing, Order, OrderSet, Sides, Dirs, Venues, Nets, Wholes

\* The positions recovery keeps are what is held, and all of it where shorts can be read.
LEMMA KeptPositions ==
  ASSUME NEW v \in Venues, NEW b \in [Sides -> Nat], NEW m \in BOOLEAN,
         v \in Nets => b["long"] = 0 \/ b["short"] = 0
  PROVE  /\ \A p \in Positions(v, b, m) : Kept(p) => p \in FoundSet /\ p.size = b[p.side] /\ p.size > 0
         /\ ~(v = "okx" /\ ~m) =>
              \A s \in Sides : b[s] > 0 => \E p \in Positions(v, b, m) : Kept(p) /\ p.side = s
<1>1. b["long"] \in Nat /\ b["short"] \in Nat
  BY DEF Sides
<1>2. CASE v = "gate"
  <2>1. Positions(v, b, m) = GatePositions(b)
    BY <1>2 DEF Positions
  <2>2. CASE b["long"] - b["short"] = 0
    BY <1>1, <1>2, <2>1, <2>2 DEF GatePositions, Nets, Sides
  <2>3. CASE b["long"] - b["short"] # 0
    <3> DEFINE p == Position(IF b["short"] > 0 THEN "short" ELSE "long",
                             IF b["short"] > 0 THEN b["short"] ELSE b["long"])
    <3>1. Positions(v, b, m) = {p}
      BY <1>1, <1>2, <2>1, <2>3 DEF GatePositions, Nets, Position
    <3>2. p \in FoundSet /\ p.size = b[p.side] /\ p.size > 0
      BY <1>1, <1>2, <2>3 DEF Position, FoundSet, Sides, Nets
    <3>3. \A s \in Sides : b[s] > 0 => p.side = s
      BY <1>1, <1>2, <2>3 DEF Position, Sides, Nets
    <3> QED
      BY <3>1, <3>2, <3>3 DEF Kept
  <2> QED
    BY <2>2, <2>3
<1>3. CASE v = "okx"
  <2>1. Positions(v, b, m) = {Position(s, IF s = "short" /\ ~m THEN -b[s] ELSE b[s]) : s \in Held(b)}
    BY <1>3 DEF Positions, OKXPositions
  <2>2. ASSUME NEW p \in Positions(v, b, m), Kept(p)
        PROVE  p \in FoundSet /\ p.size = b[p.side] /\ p.size > 0
    <3>1. PICK s \in Held(b) : p = Position(s, IF s = "short" /\ ~m THEN -b[s] ELSE b[s])
      BY <2>1, <2>2
    <3>2. s \in Sides /\ b[s] \in Nat /\ p.side = s
      BY <3>1 DEF Held, Position
    <3>3. p.size = b[s] /\ p.size > 0
      BY <2>2, <3>1, <3>2 DEF Kept, Position
    <3> QED
      BY <3>1, <3>2, <3>3 DEF FoundSet, Position
  <2>3. ASSUME m, NEW s \in Sides, b[s] > 0
        PROVE  Position(s, b[s]) \in Positions(v, b, m)
    BY <2>1, <2>3 DEF Held
  <2> QED
    BY <1>3, <2>2, <2>3 DEF Position, Kept
<1>4. CASE v \in {"bybit", "bitget", "htx", "bingx"}
  <2>1. Positions(v, b, m) = {Position(s, b[s]) : s \in Held(b)}
    <3>1. CASE v = "bingx"
      <4>1. ASSUME NEW s \in Held(b)
            PROVE  LET amount == IF s = "short" /\ m THEN -b[s] ELSE b[s]
                   IN (IF amount < 0 THEN -amount ELSE amount) = b[s]
        BY <1>1 DEF Held, Sides
      <4> QED
        BY <3>1, <4>1 DEF Positions, BingXPositions
    <3> QED
      BY <1>4, <3>1 DEF Positions, BybitPositions, BitgetPositions, HTXPositions
  <2>2. ASSUME NEW p \in Positions(v, b, m), Kept(p)
        PROVE  p \in FoundSet /\ p.size = b[p.side] /\ p.size > 0
    <3>1. PICK s \in Held(b) : p = Position(s, b[s])
      BY <2>1
    <3> QED
      BY <2>2, <3>1 DEF Held, Position, FoundSet, Kept
  <2>3. ASSUME NEW s \in Sides, b[s] > 0
        PROVE  Position(s, b[s]) \in Positions(v, b, m)
    BY <2>1, <2>3 DEF Held
  <2> QED
    BY <2>2, <2>3 DEF Position, Kept
<1> QED
  BY <1>2, <1>3, <1>4 DEF Venues

LEMMA FillIs ==
  ASSUME NEW q, NEW r \in BOOLEAN
  PROVE  Fill(q, r).qty = q /\ Fill(q, r).priced = r
BY Zenon DEF Fill

\* What a call reports of an order, and that a price comes with what has traded.
LEMMA ReportedIs ==
  ASSUME NEW v \in Venues, NEW asked \in Nat, NEW o \in OrderSet, NEW n \in Nat, NEW d,
         NEW f, f = Reported(v, asked, o, n, d)
  PROVE  /\ f.qty \in Nat /\ f.priced \in BOOLEAN
         /\ f.priced /\ v # "gate" => f.qty = n
<1>1. PICK q \in Nat, r \in BOOLEAN :
        Reported(v, asked, o, n, d) = Fill(q, r) /\ (r /\ v # "gate" => q = n)
  <2>1. CASE v = "gate"
    <3> DEFINE left == (o.size - n) * (IF o.dir = "sell" THEN -1 ELSE 1)
               filled == IF asked - left < 0 THEN -(asked - left) ELSE asked - left
    <3>1. left \in Int
      BY DEF OrderSet
    <3>2. Reported(v, asked, o, n, d) = Fill(filled, n > 0)
      BY <2>1 DEF Reported, GateFill
    <3>3. filled \in Nat /\ (n > 0) \in BOOLEAN
      BY <3>1
    <3> HIDE DEF filled
    <3> QED
      BY <2>1, <3>2, <3>3
  <2>2. CASE v # "gate"
    <3>1. \E q \in {n, asked, 0}, r \in {n > 0, FALSE} :
            Reported(v, asked, o, n, d) = Fill(q, r) /\ (r => q = n)
      BY <2>2 DEF Reported, BybitDetail, OKXDetail, BitgetDetail, HTXDetail, BingXFill, Venues
    <3>2. {n, asked, 0} \subseteq Nat /\ {n > 0, FALSE} \subseteq BOOLEAN
      OBVIOUS
    <3> QED
      BY <3>1, <3>2, Zenon
  <2> QED
    BY <2>1, <2>2
<1>2. Fill(q, r).qty = q /\ Fill(q, r).priced = r
  BY FillIs
<1> QED
  BY <1>1, <1>2, Zenon

\* OKX, Bitget and Gate return an order only when it was taken.
LEMMA PlacedIsTaken ==
  ASSUME NEW a, Believable(a), Places(venue, a), venue \in {"okx", "bitget", "gate"}
  PROVE  call.taken
BY DEF Believable, Places, Accepts, OKXAccepts, BitgetAccepts, GateAccepts

\* The records of nothing are no orders, no calls and no reports.
LEMMA NothingIs ==
  /\ NoOrder \notin LiveSet /\ NoCall \notin CallSet /\ NoReport \notin ReportSet
  /\ \A u, q, o, taken : Call(u, q, o, taken) # NoCall
  /\ \A o, l, u : [order |-> o, left |-> l, use |-> u] # NoOrder
BY DEF NoOrder, NoCall, NoReport, LiveSet, CallSet, ReportSet, Uses, Sides, Call
-----------------------------------------------------------------------------
(* Desk: the trades.                                                        *)

\* The direction that takes from side s.
Against(s) == IF s = "long" THEN "sell" ELSE "buy"

\* A trade at a one-way account leaves one side; one against what is held only reduces it.
LEMMA NetTrades ==
  ASSUME NEW b \in [Sides -> Nat], b["long"] = 0 \/ b["short"] = 0,
         NEW o \in OrderSet, o.pos = "net", NEW n \in Nat, NEW c, c = Traded(b, o, n)
  PROVE  /\ c \in [Sides -> Nat]
         /\ c["long"] = 0 \/ c["short"] = 0
         /\ Whole(b["long"]) /\ Whole(b["short"]) /\ Whole(n) =>
              Whole(c["long"]) /\ Whole(c["short"])
         /\ \A s \in Sides : o.dir = Against(s) /\ n <= b[s] =>
              c[s] = b[s] - n /\ \A t \in Sides \ {s} : c[t] = b[t]
<1> DEFINE sum == b["long"] - b["short"] + (IF o.dir = "buy" THEN n ELSE -n)
<1>1. b["long"] \in Nat /\ b["short"] \in Nat /\ o.dir \in {"buy", "sell"}
  BY DEF Sides, OrderSet, Dirs
<1>2. sum \in Int
  BY <1>1
<1>3. c = [s \in Sides |-> IF s = "long" THEN (IF sum > 0 THEN sum ELSE 0)
                           ELSE IF sum < 0 THEN -sum ELSE 0]
  BY DEF Traded
<1>4. /\ c["long"] = (IF sum > 0 THEN sum ELSE 0)
      /\ c["short"] = (IF sum < 0 THEN -sum ELSE 0)
  BY <1>3 DEF Sides
<1>5. c \in [Sides -> Nat] /\ (c["long"] = 0 \/ c["short"] = 0)
  BY <1>2, <1>3, <1>4 DEF Sides
<1>6. ASSUME Whole(b["long"]), Whole(b["short"]), Whole(n)
      PROVE  Whole(c["long"]) /\ Whole(c["short"])
  <2> DEFINE held == b["long"] - b["short"]
  <2>1. b["long"] \in Int /\ b["short"] \in Int /\ n \in Int /\ held \in Int
    BY <1>1
  <2>2. Whole(held)
    BY <1>6, <2>1, WholeAdds, Zenon
  <2>3. sum = held + n \/ sum = held - n
    BY <1>1
  <2>4. Whole(sum)
    <3> HIDE DEF held, sum
    <3>1. Whole(held + n) /\ Whole(held - n)
      BY <1>6, <2>1, <2>2, WholeAdds, Zenon
    <3> QED
      BY <2>3, <3>1
  <2>5. Whole(0) /\ Whole(0 - sum)
    BY <1>2, <2>4, WholeAdds
  <2> QED
    BY <1>2, <1>4, <2>4, <2>5
<1>7. ASSUME NEW s \in Sides, o.dir = Against(s), n <= b[s]
      PROVE  c[s] = b[s] - n /\ \A t \in Sides \ {s} : c[t] = b[t]
  <2>1. CASE s = "long"
    BY <1>1, <1>4, <1>7, <2>1 DEF Against, Sides
  <2>2. CASE s = "short"
    BY <1>1, <1>4, <1>7, <2>2 DEF Against, Sides
  <2> QED
    BY <2>1, <2>2 DEF Sides
<1> QED
  BY <1>5, <1>6, <1>7

\* A trade at a hedged account changes the side of its order only.
LEMMA SideTrades ==
  ASSUME NEW b \in [Sides -> Nat], NEW o \in OrderSet, o.pos \in Sides, NEW n \in Nat,
         o.dir = Against(o.pos) => n <= b[o.pos], NEW c, c = Traded(b, o, n)
  PROVE  /\ c \in [Sides -> Nat]
         /\ (\A s \in Sides : Whole(b[s])) /\ Whole(n) => \A s \in Sides : Whole(c[s])
         /\ o.dir = Against(o.pos) => c[o.pos] = b[o.pos] - n
         /\ \A t \in Sides \ {o.pos} : c[t] = b[t]
<1>1. o.dir \in {"buy", "sell"} /\ o.pos \in {"long", "short"} /\ b[o.pos] \in Nat
  BY DEF OrderSet, Dirs, Sides
<1>2. c = [b EXCEPT ![o.pos] = IF o.dir = Against(o.pos) THEN @ - n ELSE @ + n]
  BY <1>1 DEF Traded, Against, Sides
<1>3. /\ c[o.pos] = IF o.dir = Against(o.pos) THEN b[o.pos] - n ELSE b[o.pos] + n
      /\ \A t \in Sides \ {o.pos} : c[t] = b[t]
  BY <1>2
<1>4. c \in [Sides -> Nat]
  BY <1>1, <1>2
<1>5. ASSUME \A s \in Sides : Whole(b[s]), Whole(n)
      PROVE  \A s \in Sides : Whole(c[s])
  <2>1. Whole(b[o.pos] - n) /\ Whole(b[o.pos] + n)
    <3>1. b[o.pos] \in Int /\ n \in Int /\ Whole(b[o.pos])
      BY <1>1, <1>5
    <3> QED
      BY <1>5, <3>1, WholeAdds, Zenon
  <2> QED
    BY <1>3, <1>5, <2>1
<1> QED
  BY <1>3, <1>4, <1>5

\* What the position stream makes of an event.
LEMMA ReportIs ==
  ASSUME VenueTyped, NEW e \in Events, NEW s \in Sides, Report(e, s)
  PROVE  \/ report' = report
         \/ /\ watch /\ report = NoReport
            /\ \E w \in {"changed", "liquidated"} :
                 /\ report' = [what |-> w, side |-> s, at |-> orders]
                 /\ w = "liquidated" => e = "liquidated"
<1>1. PositionReport(venue, e) \in {"changed", "liquidated", "nothing"}
      /\ (PositionReport(venue, e) = "liquidated" => e = "liquidated")
  BY DEF PositionReport, BybitReport, OKXReport, BitgetReport, GateReport, Events, Venues
<1> QED
  BY <1>1 DEF Report

\* The amount an execution trades.
LEMMA TradeIs ==
  ASSUME VenueTyped, AccountKind, live # NoOrder,
         NEW n \in 0..Tradable(book, [live.order EXCEPT !.size = live.left])
  PROVE  /\ n \in Nat /\ n <= live.left
         /\ live \in LiveSet /\ live.order \in OrderSet /\ live.left \in Nat
         /\ live.order.pos \in Sides <=> venue \notin Nets
         /\ live.order.pos \in Sides /\ live.order.dir = Against(live.order.pos)
              => n <= book[live.order.pos]
<1>1. live \in LiveSet /\ live.order \in OrderSet /\ live.left \in Nat
  BY DEF VenueTyped, LiveSet
<1> DEFINE o == [live.order EXCEPT !.size = live.left]
<1>2. o.dir = live.order.dir /\ o.pos = live.order.pos /\ o.size = live.left
  BY <1>1 DEF OrderSet
<1>3. o.pos \in Sides \cup {"net"} /\ o.dir \in {"buy", "sell"}
  BY <1>1, <1>2 DEF OrderSet, Dirs
<1>4. "net" \notin Sides
  BY DEF Sides
<1>5. o.pos \in Sides => book[o.pos] \in Nat
  BY DEF VenueTyped
<1>6. Tradable(book, o) \in Nat /\ Tradable(book, o) <= live.left
  BY <1>1, <1>2, <1>3, <1>5 DEF Tradable
<1>7. o.pos \in Sides /\ o.dir = Against(o.pos) => Tradable(book, o) <= book[o.pos]
  BY <1>1, <1>2, <1>3, <1>4, <1>5 DEF Tradable, Against, Sides
<1> HIDE DEF o
<1>8. n \in Nat /\ n <= Tradable(book, o)
  BY <1>6 DEF o
<1> QED
  BY <1>1, <1>2, <1>3, <1>4, <1>5, <1>6, <1>7, <1>8 DEF AccountKind
-----------------------------------------------------------------------------
(* Desk: the steps of the exchange.                                         *)

\* A trade of n units of the order in the book: the order keeps its kind.
LEMMA RestIs ==
  ASSUME live \in LiveSet, NEW n \in Nat, n <= live.left,
         live' = IF n = live.left \/ n = 0 THEN NoOrder ELSE [live EXCEPT !.left = @ - n]
  PROVE  \/ live' = NoOrder /\ (n = live.left \/ n = 0)
         \/ /\ live' \in LiveSet /\ live' # NoOrder
            /\ live'.order = live.order /\ live'.use = live.use /\ live'.left = live.left - n
<1>1. live.left \in Nat
  BY DEF LiveSet
<1>2. CASE n = live.left \/ n = 0
  BY <1>2
<1>3. CASE ~(n = live.left \/ n = 0)
  <2>1. live' = [live EXCEPT !.left = live.left - n] /\ live.left - n \in Nat
    BY <1>1, <1>3
  <2>2. live' \in LiveSet
    BY <2>1 DEF LiveSet
  <2> QED
    BY <2>1, <2>2, NothingIs DEF LiveSet
<1> QED
  BY <1>2, <1>3

\* The holdings after n units of the order in the book have traded.
LEMMA BookAfter ==
  ASSUME VenueTyped, AccountKind, live # NoOrder,
         NEW n \in 0..Tradable(book, [live.order EXCEPT !.size = live.left]),
         venue \in {"gate", "htx"} => n % Unit = 0,
         book' = Traded(book, live.order, n)
  PROVE  /\ book' \in [Sides -> Nat]
         /\ venue \in Wholes => \A s \in Sides : Whole(book'[s])
         /\ venue \in Nets => book'["long"] = 0 \/ book'["short"] = 0
         /\ \A s \in Sides :
              live.order.dir = Against(s)
                /\ (IF venue \in Nets THEN n <= book[s] ELSE live.order.pos = s)
              => book'[s] = book[s] - n /\ \A t \in Sides \ {s} : book'[t] = book[t]
<1>1. /\ n \in Nat /\ n <= live.left
      /\ live \in LiveSet /\ live.order \in OrderSet /\ live.left \in Nat
      /\ live.order.pos \in Sides <=> venue \notin Nets
      /\ live.order.pos \in Sides /\ live.order.dir = Against(live.order.pos)
           => n <= book[live.order.pos]
  BY TradeIs
<1>2. /\ book \in [Sides -> Nat]
      /\ venue \in Wholes => Whole(n) /\ \A s \in Sides : Whole(book[s])
      /\ venue \in Nets => live.order.pos = "net" /\ (book["long"] = 0 \/ book["short"] = 0)
  BY DEF VenueTyped, AccountKind, Wholes, Whole
<1> PICK o : o = live.order
  OBVIOUS
<1>3. book' = Traded(book, o, n) /\ o \in OrderSet /\ n \in Nat /\ book \in [Sides -> Nat]
  BY <1>1, <1>2
<1>4. CASE venue \in Nets
  <2>1. o.pos = "net" /\ (book["long"] = 0 \/ book["short"] = 0)
    BY <1>2, <1>4
  <2>2. book' \in [Sides -> Nat]
    BY <1>3, <2>1, NetTrades
  <2>3. book'["long"] = 0 \/ book'["short"] = 0
    BY <1>3, <2>1, NetTrades
  <2>4. Whole(book["long"]) /\ Whole(book["short"]) /\ Whole(n) =>
          Whole(book'["long"]) /\ Whole(book'["short"])
    BY <1>3, <2>1, NetTrades
  <2>5. \A s \in Sides : o.dir = Against(s) /\ n <= book[s] =>
           book'[s] = book[s] - n /\ \A t \in Sides \ {s} : book'[t] = book[t]
    BY <1>3, <2>1, NetTrades
  <2> QED
    BY <1>2, <1>4, <2>2, <2>3, <2>4, <2>5 DEF Sides
<1>5. CASE venue \notin Nets
  <2>1. o.pos \in Sides /\ (o.dir = Against(o.pos) => n <= book[o.pos])
    BY <1>1, <1>5
  <2>2. book' \in [Sides -> Nat]
    BY <1>3, <2>1, SideTrades
  <2>3. (\A s \in Sides : Whole(book[s])) /\ Whole(n) => \A s \in Sides : Whole(book'[s])
    BY <1>3, <2>1, SideTrades
  <2>4. /\ o.dir = Against(o.pos) => book'[o.pos] = book[o.pos] - n
        /\ \A t \in Sides \ {o.pos} : book'[t] = book[t]
    BY <1>3, <2>1, SideTrades
  <2> QED
    BY <1>2, <1>5, <2>2, <2>3, <2>4
<1> QED
  BY <1>4, <1>5

LEMMA ExecuteKeeps ==
  ASSUME DeskInv, Execute
  PROVE  DeskInv'
<1>1. PICK n \in 0..Tradable(book, [live.order EXCEPT !.size = live.left]) :
        /\ venue \in {"gate", "htx"} => n % Unit = 0
        /\ book' = Traded(book, live.order, n)
        /\ live' = IF n = live.left \/ n = 0 THEN NoOrder ELSE [live EXCEPT !.left = @ - n]
        /\ clean' = (clean /\ (live.use = "recover" => n > 0))
        /\ call' = IF call # NoCall /\ call.use = live.use
                   THEN [call EXCEPT !.filled = @ + n] ELSE call
        /\ IF n > 0 THEN Report("changed", SideOf(live.order, book')) ELSE report' = report
  BY DEF Execute
<1>2. /\ live # NoOrder
      /\ UNCHANGED <<venue, below, leg, mode, found, orders, crashes, watch, stale>>
  BY DEF Execute
<1>3. VenueTyped /\ ProgramTyped /\ ReportsTyped /\ AccountKind /\ Phases
  BY DEF DeskInv
<1>4. /\ n \in Nat /\ n <= live.left
      /\ live \in LiveSet /\ live.order \in OrderSet /\ live.left \in Nat
      /\ live.order.pos \in Sides <=> venue \notin Nets
      /\ live.order.pos \in Sides /\ live.order.dir = Against(live.order.pos)
           => n <= book[live.order.pos]
  BY <1>2, <1>3, TradeIs
<1>5. \/ live' = NoOrder /\ (n = live.left \/ n = 0)
      \/ /\ live' \in LiveSet /\ live' # NoOrder
         /\ live'.order = live.order /\ live'.use = live.use /\ live'.left = live.left - n
  BY <1>1, <1>4, RestIs
<1>6. /\ book \in [Sides -> Nat]
      /\ venue \in Wholes => Whole(n) /\ \A s \in Sides : Whole(book[s])
      /\ venue \in Nets => live.order.pos = "net" /\ (book["long"] = 0 \/ book["short"] = 0)
  BY <1>1, <1>2, <1>3 DEF VenueTyped, AccountKind, Wholes, Whole
<1>7. /\ book' \in [Sides -> Nat]
      /\ venue \in Wholes => \A s \in Sides : Whole(book'[s])
      /\ venue \in Nets => book'["long"] = 0 \/ book'["short"] = 0
      /\ \A s \in Sides :
           live.order.dir = Against(s)
             /\ (IF venue \in Nets THEN n <= book[s] ELSE live.order.pos = s)
           => book'[s] = book[s] - n /\ \A t \in Sides \ {s} : book'[t] = book[t]
  BY <1>1, <1>2, <1>3, BookAfter
<1>8. SideOf(live.order, book') \in Sides
  BY <1>4 DEF SideOf, OrderSet, Sides
<1>9. \/ report' = report
      \/ /\ watch /\ report = NoReport
         /\ report' \in ReportSet
         /\ report'.at = orders /\ report'.what = "changed"
  <2>1. CASE n = 0
    BY <1>1, <2>1
  <2>2. CASE n > 0
    <3>1. \/ report' = report
          \/ /\ watch /\ report = NoReport
             /\ report' = [what |-> "changed", side |-> SideOf(live.order, book'), at |-> orders]
      BY <1>1, <1>3, <1>8, <2>2, ReportIs DEF Events
    <3> QED
      BY <1>3, <1>8, <3>1 DEF ReportSet, ReportsTyped
  <2> QED
    BY <1>4, <2>1, <2>2
<1>10. \/ call' = call
       \/ /\ call # NoCall /\ call' # NoCall /\ call' \in CallSet
          /\ call'.use = call.use /\ call'.taken = call.taken /\ call'.acked = call.acked
  <2>1. CASE call # NoCall /\ call.use = live.use
    <3>1. call \in CallSet /\ call' = [call EXCEPT !.filled = call.filled + n]
      BY <1>1, <1>3, <2>1 DEF ProgramTyped
    <3> QED
      BY <1>4, <2>1, <3>1, NothingIs DEF CallSet
  <2> QED
    BY <1>1, <2>1
<1>11. VenueTyped' /\ ProgramTyped' /\ ReportsTyped'
  <2>1. VenueTyped'
    BY <1>2, <1>3, <1>5, <1>7 DEF VenueTyped
  <2>2. ProgramTyped'
    BY <1>1, <1>2, <1>3, <1>10 DEF ProgramTyped
  <2>3. ReportsTyped'
    BY <1>2, <1>3, <1>9 DEF ReportsTyped
  <2> QED
    BY <2>1, <2>2, <2>3
<1>12. AccountKind'
  BY <1>2, <1>3, <1>5, <1>7 DEF AccountKind
<1>13. Phases'
  BY <1>2, <1>3, <1>5, <1>9, <1>10 DEF Phases
<1>14. AcksAreTrue'
  BY <1>2, <1>10 DEF AcksAreTrue, DeskInv
<1>15. AlarmsStand'
  BY <1>2, <1>3, <1>5, <1>9 DEF AlarmsStand, DeskInv, ReportsTyped
<1>16. Reduces'
  <2>1. live' # NoOrder /\ live'.use = "recover" /\ venue \notin Nets =>
          live'.order.pos = IF live'.order.dir = "sell" THEN "long" ELSE "short"
    BY <1>2, <1>5 DEF Reduces, DeskInv
  <2>2. ASSUME NEW s \in Sides, venue \in Nets, ~stale, ClosesSide(s)'
        PROVE  live'.left <= book'[s]
    <3>1. ClosesSide(s) /\ live'.left = live.left - n
      BY <1>2, <1>5, <2>2 DEF ClosesSide
    <3>2. live.left <= book[s]
      BY <2>2, <3>1 DEF Reduces, DeskInv
    <3>3. n <= book[s] /\ book[s] \in Nat
      BY <1>4, <1>6, <3>2
    <3> QED
      BY <1>4, <1>7, <2>2, <3>1, <3>2, <3>3 DEF ClosesSide, Against
  <2>3. venue \in Nets /\ ~stale => found = {}
    BY <1>2 DEF Reduces, DeskInv
  <2> QED
    BY <1>2, <2>1, <2>2, <2>3 DEF Reduces
<1>17. NothingLeft'
  <2> SUFFICES ASSUME mode \in {"restoring", "restored"}, Readable', NEW s \in Sides, book'[s] > 0
               PROVE  Pending(s)'
    BY <1>2 DEF NothingLeft
  <2>1. mode = "restoring" /\ live.use = "recover" /\ n > 0 /\ Readable
    BY <1>1, <1>2, <1>3, <1>4 DEF Phases, Readable, Overtaken
  <2>2. PICK c \in Sides : ClosesSide(c) /\ live.order.dir = Against(c)
    BY <1>2, <1>4, <2>1 DEF ClosesSide, Against, OrderSet, Dirs, Sides
  <2>3. IF venue \in Nets THEN n <= book[c] ELSE live.order.pos = c
    <3>1. CASE venue \in Nets
      <4>1. ~stale
        BY <2>1, <3>1 DEF Readable, Overtaken, Nets
      <4>2. live.left <= book[c]
        BY <2>2, <3>1, <4>1 DEF Reduces, DeskInv
      <4> QED
        BY <1>4, <1>6, <3>1, <4>2
    <3>2. CASE venue \notin Nets
      BY <1>2, <2>1, <2>2, <3>2 DEF Reduces, DeskInv, Against, Sides
    <3> QED
      BY <3>1, <3>2
  <2>4. book'[c] = book[c] - n /\ \A t \in Sides \ {c} : book'[t] = book[t]
    BY <1>7, <2>2, <2>3
  <2>5. book[s] \in Nat /\ book[c] \in Nat /\ book'[s] <= book[s] /\ book[s] > 0
    BY <1>4, <1>6, <2>4
  <2>6. Pending(s)
    BY <2>1, <2>5 DEF NothingLeft, DeskInv
  <2>7. CASE call # NoCall /\ ~call.taken
    BY <1>10, <2>7 DEF Pending
  <2>8. CASE \E p \in found : p.side = s /\ p.size >= book[s] /\ (venue \in Wholes => Whole(p.size))
    <3>1. PICK p \in found : p.side = s /\ p.size >= book[s] /\ (venue \in Wholes => Whole(p.size))
      BY <2>8
    <3>2. p.size \in Nat
      BY <1>3 DEF ProgramTyped, FoundSet
    <3>3. p.size >= book'[s] /\ p \in found'
      BY <1>2, <1>7, <2>5, <3>1, <3>2
    <3> QED
      BY <1>2, <3>1, <3>3 DEF Pending
  <2>9. CASE ClosesSide(s) /\ live.left >= book[s]
    <3>1. c = s
      BY <2>2, <2>9 DEF ClosesSide, Against, Sides
    <3>2. book'[s] = book[s] - n
      BY <2>4, <3>1
    <3>3. live'.left >= book'[s] /\ live' # NoOrder /\ live'.order = live.order /\ live'.use = live.use
      BY <1>4, <1>5, <2>1, <2>5, <2>9, <3>2
    <3> QED
      BY <2>9, <3>3 DEF ClosesSide, Pending
  <2> QED
    BY <2>6, <2>7, <2>8, <2>9 DEF Pending
<1> QED
  BY <1>11, <1>12, <1>13, <1>14, <1>15, <1>16, <1>17 DEF DeskInv

\* A liquidation takes one side, while no order is in the book.
LEMMA LiquidateKeeps ==
  ASSUME DeskInv, NEW z \in Sides, Liquidate(z)
  PROVE  DeskInv'
<1>1. /\ book[z] > 0 /\ live = NoOrder
      /\ book' = [book EXCEPT ![z] = 0]
      /\ stale' = TRUE
      /\ Report("liquidated", z)
      /\ UNCHANGED <<venue, below, live, call, leg, mode, found, clean, watch, orders>>
  BY DEF Liquidate
<1>2. VenueTyped /\ ProgramTyped /\ ReportsTyped /\ AccountKind /\ Phases
  BY DEF DeskInv
<1>3. \/ report' = report
      \/ /\ watch /\ report = NoReport
         /\ report' \in ReportSet /\ report'.at = orders /\ report'.side = z
  <2>1. \/ report' = report
        \/ /\ watch /\ report = NoReport
           /\ \E w \in {"changed", "liquidated"} : report' = [what |-> w, side |-> z, at |-> orders]
    BY <1>1, <1>2, ReportIs DEF Events
  <2> QED
    BY <1>2, <2>1 DEF ReportSet, ReportsTyped
<1>4. /\ book \in [Sides -> Nat] /\ book' \in [Sides -> Nat] /\ book'[z] = 0
      /\ \A s \in Sides \ {z} : book'[s] = book[s]
  BY <1>1, <1>2 DEF VenueTyped
<1>5. VenueTyped' /\ ProgramTyped' /\ ReportsTyped'
  BY <1>1, <1>2, <1>3, <1>4 DEF VenueTyped, ProgramTyped, ReportsTyped
<1>6. AccountKind'
  <2>1. Whole(0)
    BY WholeAdds, UnitAssumption DEF Whole
  <2>2. book'["long"] \in {0, book["long"]} /\ book'["short"] \in {0, book["short"]}
    BY <1>4 DEF Sides
  <2> QED
    BY <1>1, <1>2, <1>4, <2>1, <2>2 DEF AccountKind
<1>7. Phases' /\ AcksAreTrue'
  BY <1>1, <1>2, <1>3 DEF Phases, AcksAreTrue, DeskInv
<1>8. AlarmsStand'
  BY <1>1, <1>2, <1>3, <1>4 DEF AlarmsStand, DeskInv, ReportsTyped, ReportSet
<1>9. Reduces'
  BY <1>1 DEF Reduces, ClosesSide, DeskInv
<1>10. NothingLeft'
  <2> SUFFICES ASSUME mode \in {"restoring", "restored"}, Readable', NEW s \in Sides, book'[s] > 0
               PROVE  Pending(s)'
    BY <1>1 DEF NothingLeft
  <2>1. s # z /\ book'[s] = book[s]
    BY <1>4
  <2>2. Pending(s)
    BY <1>1, <2>1 DEF NothingLeft, DeskInv, Readable, Overtaken
  <2> QED
    BY <1>1, <2>1, <2>2 DEF Pending, ClosesSide
<1> QED
  BY <1>5, <1>6, <1>7, <1>8, <1>9, <1>10 DEF DeskInv
-----------------------------------------------------------------------------
(* Desk: the steps of the program.                                          *)

LEMMA JoinIs == ASSUME Join PROVE watch' \in BOOLEAN
BY Zenon DEF Join

\* A request that is sent, with what is then in the book.
LEMMA RequestIs ==
  ASSUME NEW u \in Uses, NEW q \in Nat, NEW o \in OrderSet, Request(u, q, o)
  PROVE  /\ call' \in CallSet /\ call' # NoCall /\ call'.use = u /\ ~call'.acked
         /\ \/ call'.taken /\ live' \in LiveSet /\ live' # NoOrder
               /\ live'.order = o /\ live'.left = o.size /\ live'.use = u
            \/ ~call'.taken /\ live' = NoOrder
         /\ ~call'.taken \/ o.size > 0
<1>1. PICK taken \in BOOLEAN :
        /\ taken => o.size > 0
        /\ call' = Call(u, q, o, taken)
        /\ live' = IF taken THEN [order |-> o, left |-> o.size, use |-> u] ELSE NoOrder
  BY DEF Request
<1>2. Call(u, q, o, taken) \in CallSet /\ Call(u, q, o, taken) # NoCall
  BY NothingIs DEF Call, CallSet
<1>3. call'.use = u /\ call'.taken = taken /\ call'.acked = FALSE
  BY <1>1 DEF Call
<1>4. o.size \in Nat
  BY DEF OrderSet
<1>5. CASE taken
  <2>1. live' = [order |-> o, left |-> o.size, use |-> u]
    BY <1>1, <1>5
  <2>2. live' \in LiveSet /\ live' # NoOrder
    BY <1>4, <2>1, NothingIs DEF LiveSet
  <2>3. call'.taken /\ ~call'.acked
    BY <1>3, <1>5, Zenon
  <2>4. live'.order = o /\ live'.left = o.size /\ live'.use = u
    BY <2>1
  <2> QED
    BY <1>1, <1>2, <1>3, <1>5, <2>2, <2>3, <2>4
<1>6. CASE ~taken
  BY <1>1, <1>2, <1>3, <1>6
<1> QED
  BY <1>5, <1>6

\* The executor's orders, of an entry or of a close.
LEMMA OrderKeeps ==
  ASSUME DeskInv, CloseLeg \/ \E s \in Sides, q \in Quantities : Open(s, q)
  PROVE  DeskInv'
<1>1. VenueTyped /\ ProgramTyped /\ ReportsTyped /\ AccountKind /\ Phases
  BY DEF DeskInv
<1>2. PICK u \in Sides \cup {"close"}, q \in Nat, d \in Dirs :
        Request(u, q, MarketOrder(venue, d, q))
  <2>1. ASSUME CloseLeg
        PROVE  \E u \in Sides \cup {"close"}, q \in Nat, d \in Dirs :
                 Request(u, q, MarketOrder(venue, d, q))
    <3>1. leg.qty \in Nat
      BY <1>1 DEF ProgramTyped
    <3> QED
      BY <2>1, <3>1 DEF CloseLeg, Dirs
  <2>2. ASSUME NEW s \in Sides, NEW q \in Quantities, Open(s, q)
        PROVE  \E u \in Sides \cup {"close"}, m \in Nat, d \in Dirs :
                 Request(u, m, MarketOrder(venue, d, m))
    BY <2>2, QuantitiesAssumption DEF Open, Dirs
  <2> QED
    BY <2>1, <2>2
<1>3. /\ mode = "on" /\ call = NoCall /\ live = NoOrder /\ orders' = orders + 1
      /\ UNCHANGED <<venue, below, book, leg, mode, found, clean, watch, report, stale>>
  BY DEF CloseLeg, Open, streamVars
<1>4. /\ MarketOrder(venue, d, q) \in OrderSet
      /\ MarketOrder(venue, d, q).pos = "net" <=> venue \in Nets
  BY <1>1, MarketOrderIs DEF VenueTyped
<1>5. /\ call' \in CallSet /\ call' # NoCall /\ call'.use = u /\ ~call'.acked
      /\ \/ live' \in LiveSet /\ live' # NoOrder
            /\ live'.order = MarketOrder(venue, d, q) /\ live'.use = u
         \/ live' = NoOrder
  BY <1>2, <1>4, RequestIs DEF Uses
<1>6. u # "recover"
  BY DEF Sides
<1>7. VenueTyped' /\ ProgramTyped' /\ ReportsTyped'
  BY <1>1, <1>3, <1>5 DEF VenueTyped, ProgramTyped, ReportsTyped
<1>8. AccountKind' /\ Phases' /\ AcksAreTrue'
  BY <1>1, <1>3, <1>4, <1>5, <1>6 DEF AccountKind, Phases, AcksAreTrue
<1>9. AlarmsStand'
  BY <1>1, <1>3 DEF AlarmsStand, DeskInv, ReportsTyped, ReportSet
<1>10. Reduces'
  BY <1>1, <1>3, <1>5, <1>6 DEF Reduces, ClosesSide, Phases
<1>11. NothingLeft'
  BY <1>3 DEF NothingLeft
<1> QED
  BY <1>7, <1>8, <1>9, <1>10, <1>11 DEF DeskInv

\* The end of a call, and an answer between.
LEMMA CallKeeps ==
  ASSUME DeskInv, Fails \/ CloseReturns \/ Acknowledged \/ Returns
  PROVE  DeskInv'
<1>1. VenueTyped /\ ProgramTyped /\ ReportsTyped /\ AccountKind /\ Phases
  BY DEF DeskInv
<1>2. /\ call # NoCall /\ call \in CallSet
      /\ UNCHANGED <<venue, below, book, live, mode, found, orders, watch, report, stale>>
  BY <1>1 DEF Fails, CloseReturns, Acknowledged, Returns, streamVars, ProgramTyped
<1>3. \/ call' = NoCall
      \/ /\ Acknowledged /\ call' \in CallSet /\ call' # NoCall
         /\ call'.use = call.use /\ call'.taken = call.taken /\ call.use # "recover"
  <2>1. CASE Acknowledged
    BY <1>2, <2>1, NothingIs DEF Acknowledged, CallSet
  <2> QED
    BY <2>1 DEF Fails, CloseReturns, Returns
<1>4. clean' = clean \/ clean' = FALSE
  BY <1>1 DEF Fails, CloseReturns, Acknowledged, Returns, ProgramTyped
<1>5. /\ leg' \in [side : Sides \cup {"none"}, qty : Nat, priced : BOOLEAN]
      /\ leg' # leg => Returns
  <2>1. CASE Returns
    <3>1. PICK d \in Answers :
            LET f == Reported(venue, call.asked, call.order, call.filled, d)
            IN leg' = IF call.use = "close" THEN NoLeg
                      ELSE [side |-> call.use, qty |-> f.qty, priced |-> f.priced]
      BY <2>1 DEF Returns
    <3> DEFINE f == Reported(venue, call.asked, call.order, call.filled, d)
    <3>2. call.asked \in Nat /\ call.order \in OrderSet /\ call.filled \in Nat /\ venue \in Venues
      BY <1>1, <1>2 DEF CallSet, VenueTyped
    <3>3. f.qty \in Nat /\ f.priced \in BOOLEAN
      BY <3>2, ReportedIs
    <3>4. call.use # "recover" /\ call.use \in Uses
      BY <1>2, <2>1 DEF Returns, CallSet
    <3>5. NoLeg \in [side : Sides \cup {"none"}, qty : Nat, priced : BOOLEAN]
      BY DEF NoLeg
    <3>6. CASE call.use = "close"
      BY <2>1, <3>1, <3>5, <3>6
    <3>7. CASE call.use \in Sides
      <4>1. leg' = [side |-> call.use, qty |-> f.qty, priced |-> f.priced]
        BY <3>1, <3>7 DEF Sides
      <4> HIDE DEF f
      <4> QED
        BY <2>1, <3>3, <3>7, <4>1
    <3> QED
      BY <3>4, <3>6, <3>7 DEF Uses
  <2> QED
    BY <1>1, <2>1 DEF Fails, CloseReturns, Acknowledged, ProgramTyped
<1>6. VenueTyped' /\ ProgramTyped' /\ ReportsTyped'
  <2>1. ProgramTyped'
    BY <1>1, <1>2, <1>3, <1>4, <1>5 DEF ProgramTyped
  <2> QED
    BY <1>1, <1>2, <2>1 DEF VenueTyped, ReportsTyped
<1>7. AccountKind' /\ AlarmsStand' /\ Reduces'
  BY <1>1, <1>2 DEF AccountKind, AlarmsStand, Reduces, ClosesSide, DeskInv
<1>8. Phases'
  <2>1. Returns => mode = "on"
    BY <1>1, <1>2 DEF Phases, ProgramTyped, Returns
  <2> QED
    BY <1>1, <1>2, <1>3, <1>5, <2>1 DEF Phases
<1>9. AcksAreTrue'
  <2> SUFFICES ASSUME call' # NoCall, venue \in {"okx", "bitget"} PROVE call'.taken
    BY <1>2 DEF AcksAreTrue
  <2>1. PICK a \in Answers : Believable(a) /\ Places(venue, a)
    BY <1>3 DEF Acknowledged
  <2> QED
    BY <1>3, <2>1, PlacedIsTaken
<1>10. NothingLeft'
  <2> SUFFICES ASSUME mode \in {"restoring", "restored"}, Readable', NEW s \in Sides, book[s] > 0
               PROVE  Pending(s)'
    BY <1>2 DEF NothingLeft
  <2>1. mode = "restoring" /\ call.use = "recover" /\ clean'
    BY <1>1, <1>2 DEF Phases, Readable
  <2>2. CloseReturns
    BY <1>2, <2>1 DEF Fails, Acknowledged, Returns
  <2>3. call.taken /\ clean
    <3>1. PICK a \in Answers : Believable(a) /\ clean' = (clean /\ a = "ok")
      BY <2>2 DEF CloseReturns
    <3>2. a = "ok" /\ clean
      BY <2>1, <3>1
    <3> QED
      BY <3>1, <3>2 DEF Believable
  <2>4. Pending(s)
    BY <1>2, <2>1, <2>3 DEF NothingLeft, DeskInv, Readable, Overtaken
  <2> QED
    BY <1>2, <2>3, <2>4 DEF Pending, ClosesSide
<1> QED
  BY <1>6, <1>7, <1>8, <1>9, <1>10 DEF DeskInv

\* The first connection, a report that is taken, and a crash.
LEMMA FirstStartKeeps ==
  ASSUME DeskInv, FirstStart
  PROVE  DeskInv'
<1>1. /\ mode = "off" /\ mode' = "on" /\ watch' \in BOOLEAN
      /\ UNCHANGED <<venue, below, book, live, call, leg, found, clean, orders, report, stale>>
  BY JoinIs DEF FirstStart
<1>2. VenueTyped' /\ ProgramTyped' /\ ReportsTyped' /\ AccountKind' /\ AcksAreTrue' /\ Reduces'
  BY <1>1 DEF DeskInv, VenueTyped, ProgramTyped, ReportsTyped, AccountKind, AcksAreTrue,
              Reduces, ClosesSide
<1>3. Phases' /\ AlarmsStand' /\ NothingLeft'
  BY <1>1 DEF DeskInv, Phases, AlarmsStand, NothingLeft
<1> QED
  BY <1>2, <1>3 DEF DeskInv

LEMMA HearKeeps ==
  ASSUME DeskInv, Hear
  PROVE  DeskInv'
<1>1. /\ report' = NoReport /\ leg' \in {leg, NoLeg}
      /\ UNCHANGED <<venue, below, book, live, call, mode, found, clean, orders, watch, stale>>
  BY DEF Hear
<1>2. NoLeg \in [side : Sides \cup {"none"}, qty : Nat, priced : BOOLEAN]
  BY DEF NoLeg
<1>3. VenueTyped' /\ ProgramTyped' /\ ReportsTyped'
  BY <1>1, <1>2 DEF DeskInv, VenueTyped, ProgramTyped, ReportsTyped
<1>4. AccountKind' /\ Phases' /\ AcksAreTrue' /\ AlarmsStand'
  BY <1>1 DEF DeskInv, AccountKind, Phases, AcksAreTrue, AlarmsStand
<1>5. Reduces' /\ NothingLeft'
  BY <1>1 DEF DeskInv, Reduces, ClosesSide, NothingLeft, Pending, Readable, Overtaken
<1> QED
  BY <1>3, <1>4, <1>5 DEF DeskInv

LEMMA CrashKeeps ==
  ASSUME DeskInv, Crash
  PROVE  DeskInv'
<1>1. /\ mode \in {"on", "restored"} /\ mode' = "off"
      /\ call' = NoCall /\ leg' = NoLeg /\ found' = {} /\ clean' = TRUE
      /\ watch' = FALSE /\ report' = NoReport
      /\ UNCHANGED <<venue, below, book, live, orders, stale>>
  BY DEF Crash
<1>2. NoLeg \in [side : Sides \cup {"none"}, qty : Nat, priced : BOOLEAN]
  BY DEF NoLeg
<1>3. VenueTyped' /\ ProgramTyped' /\ ReportsTyped'
  BY <1>1, <1>2 DEF DeskInv, VenueTyped, ProgramTyped, ReportsTyped
<1>4. AccountKind' /\ Phases' /\ AcksAreTrue' /\ AlarmsStand'
  BY <1>1 DEF DeskInv, AccountKind, Phases, AcksAreTrue, AlarmsStand
<1>5. Reduces' /\ NothingLeft'
  BY <1>1 DEF DeskInv, Phases, Reduces, ClosesSide, NothingLeft
<1> QED
  BY <1>3, <1>4, <1>5 DEF DeskInv
-----------------------------------------------------------------------------
(* Desk: recovery.                                                          *)

\* What is read of the positions, when their answer is a success, is what is held.
LEMMA DiscoverKeeps ==
  ASSUME DeskInv, Discover
  PROVE  DeskInv'
<1>1. /\ mode = "off" /\ live = NoOrder /\ watch' \in BOOLEAN
      /\ mode' = "restoring" /\ stale' = FALSE
      /\ UNCHANGED <<venue, below, book, live, call, leg, orders, report>>
  BY JoinIs DEF Discover
<1>2. PICK a \in {"proxy", "empty", "ok"} :
        /\ a = "empty" => book = Flat
        /\ found' = IF a = "ok" THEN {p \in Positions(venue, book, below) : Kept(p)} ELSE {}
        /\ clean' = (a # "proxy")
  BY DEF Discover
<1>3. VenueTyped /\ ProgramTyped /\ ReportsTyped /\ AccountKind /\ Phases
  BY DEF DeskInv
<1>4. /\ \A p \in found' : p \in FoundSet /\ p.size = book[p.side] /\ p.size > 0
      /\ a = "ok" /\ ~(venue = "okx" /\ ~below) =>
           \A s \in Sides : book[s] > 0 => \E p \in found' : p.side = s
  BY <1>2, <1>3, KeptPositions DEF VenueTyped, AccountKind
<1>5. clean' \in BOOLEAN
  BY <1>2
<1>6. VenueTyped' /\ ProgramTyped' /\ ReportsTyped'
  BY <1>1, <1>3, <1>4, <1>5 DEF VenueTyped, ProgramTyped, ReportsTyped
<1>7. AccountKind' /\ AcksAreTrue' /\ AlarmsStand'
  BY <1>1, <1>3 DEF DeskInv, AccountKind, AcksAreTrue, AlarmsStand, Phases
<1>8. Phases'
  BY <1>1, <1>3 DEF Phases
<1>9. Reduces'
  <2> SUFFICES ASSUME venue \in Nets, NEW p \in found' PROVE found' = {p} /\ p.size = book[p.side]
    BY <1>1 DEF Reduces, ClosesSide
  <2>1. ASSUME NEW r \in found' PROVE r = p
    <3>1. /\ r \in FoundSet /\ p \in FoundSet
          /\ book[r.side] > 0 /\ book[p.side] > 0
          /\ r.size = book[r.side] /\ p.size = book[p.side]
      BY <1>4, <2>1
    <3>2. r.side = p.side
      BY <1>3, <3>1 DEF AccountKind, FoundSet, Sides, VenueTyped
    <3> QED
      BY <3>1, <3>2 DEF FoundSet
  <2> QED
    BY <1>4, <2>1
<1>10. NothingLeft'
  <2> SUFFICES ASSUME Readable', NEW s \in Sides, book[s] > 0
               PROVE  \E p \in found' : p.side = s /\ p.size >= book[s]
                                          /\ (venue \in Wholes => Whole(p.size))
    BY <1>1 DEF NothingLeft, Pending
  <2>1. a = "ok"
    <3>1. clean' /\ book # Flat
      BY DEF Readable, Flat
    <3> QED
      BY <1>2, <3>1
  <2>2. PICK p \in found' : p.side = s
    BY <1>1, <1>4, <2>1 DEF Readable
  <2>3. p.size = book[s] /\ book[s] \in Nat /\ (venue \in Wholes => Whole(book[s]))
    BY <1>3, <1>4, <2>2 DEF AccountKind, VenueTyped
  <2> QED
    BY <2>2, <2>3
<1> QED
  BY <1>6, <1>7, <1>8, <1>9, <1>10 DEF DeskInv

\* The close of an orphan is for its side, and for all of it.
LEMMA CloseOrphanKeeps ==
  ASSUME DeskInv, NEW p \in found, CloseOrphan(p)
  PROVE  DeskInv'
<1>1. /\ mode = "restoring" /\ call = NoCall /\ live = NoOrder
      /\ found' = found \ {p}
      /\ Request("recover", p.size, CloseOrder(venue, p.side, p.size))
      /\ UNCHANGED <<venue, below, book, leg, mode, clean, orders, watch, report, stale>>
  BY DEF CloseOrphan, streamVars
<1>2. VenueTyped /\ ProgramTyped /\ ReportsTyped /\ AccountKind /\ Phases
  BY DEF DeskInv
<1>3. venue \in Venues /\ p.side \in Sides /\ p.size \in Nat
  BY <1>2 DEF VenueTyped, ProgramTyped, FoundSet
<1>4. PICK o : o = CloseOrder(venue, p.side, p.size)
  OBVIOUS
<1>5. /\ o \in OrderSet
      /\ o.pos = IF venue \in Nets THEN "net" ELSE p.side
      /\ o.dir = IF p.side = "long" THEN "sell" ELSE "buy"
      /\ venue \in Nets => o.size <= p.size
      /\ (venue \in Wholes => Whole(p.size)) => o.size = p.size
  BY <1>3, <1>4, CloseOrderIs
<1>6. /\ call' \in CallSet /\ call' # NoCall /\ call'.use = "recover" /\ ~call'.acked
      /\ \/ call'.taken /\ live' \in LiveSet /\ live' # NoOrder
            /\ live'.order = o /\ live'.left = o.size /\ live'.use = "recover"
         \/ ~call'.taken /\ live' = NoOrder
  BY <1>1, <1>3, <1>4, <1>5, RequestIs DEF Uses
<1>7. VenueTyped' /\ ProgramTyped' /\ ReportsTyped'
  BY <1>1, <1>2, <1>6 DEF VenueTyped, ProgramTyped, ReportsTyped
<1>8. AccountKind'
  BY <1>1, <1>2, <1>3, <1>5, <1>6 DEF AccountKind, Sides
<1>9. Phases' /\ AcksAreTrue'
  BY <1>1, <1>2, <1>6 DEF Phases, AcksAreTrue
<1>10. AlarmsStand'
  BY <1>1 DEF AlarmsStand, DeskInv
<1>11. Reduces'
  <2>1. live' # NoOrder /\ venue \notin Nets =>
          live'.order.pos = IF live'.order.dir = "sell" THEN "long" ELSE "short"
    BY <1>3, <1>5, <1>6 DEF Sides
  <2>2. venue \in Nets /\ ~stale => found = {p} /\ p.size = book[p.side]
    BY DEF Reduces, DeskInv
  <2>3. ASSUME NEW s \in Sides, venue \in Nets, ~stale, ClosesSide(s)'
        PROVE  live'.left <= book[s]
    <3>1. s = p.side
      BY <1>3, <1>5, <1>6, <2>3 DEF ClosesSide, Sides
    <3> QED
      BY <1>5, <1>6, <2>2, <2>3, <3>1 DEF ClosesSide
  <2> QED
    BY <1>1, <2>1, <2>2, <2>3 DEF Reduces
<1>12. NothingLeft'
  <2> SUFFICES ASSUME Readable, NEW s \in Sides, book[s] > 0 PROVE Pending(s)'
    BY <1>1 DEF NothingLeft, Readable, Overtaken
  <2>1. PICK r \in found : r.side = s /\ r.size >= book[s] /\ (venue \in Wholes => Whole(r.size))
    BY <1>1 DEF NothingLeft, DeskInv, Pending, ClosesSide
  <2>2. CASE r # p
    BY <1>1, <2>1, <2>2 DEF Pending
  <2>3. CASE r = p
    <3>1. o.size >= book[s] /\ o.dir = IF s = "long" THEN "sell" ELSE "buy"
      BY <1>5, <2>1, <2>3
    <3>2. CASE live' = NoOrder
      BY <1>6, <3>2 DEF Pending
    <3>3. CASE live' # NoOrder
      <4>1. ClosesSide(s)' /\ live'.left >= book'[s]
        BY <1>1, <1>6, <3>1, <3>3 DEF ClosesSide
      <4> QED
        BY <4>1 DEF Pending
    <3> QED
      BY <3>2, <3>3
  <2> QED
    BY <2>2, <2>3
<1> QED
  BY <1>7, <1>8, <1>9, <1>10, <1>11, <1>12 DEF DeskInv

LEMMA RestoredKeeps ==
  ASSUME DeskInv, Restored
  PROVE  DeskInv'
<1>1. /\ mode = "restoring" /\ mode' = "restored"
      /\ found = {} /\ call = NoCall /\ live = NoOrder
      /\ UNCHANGED <<venue, below, book, live, call, leg, found, clean, orders,
                     watch, report, stale>>
  BY DEF Restored, streamVars
<1>2. VenueTyped' /\ ProgramTyped' /\ ReportsTyped' /\ AccountKind' /\ AcksAreTrue'
  BY <1>1 DEF DeskInv, VenueTyped, ProgramTyped, ReportsTyped, AccountKind, AcksAreTrue
<1>3. Phases' /\ AlarmsStand' /\ Reduces'
  BY <1>1 DEF DeskInv, Phases, AlarmsStand, Reduces, ClosesSide
<1>4. NothingLeft'
  BY <1>1 DEF DeskInv, NothingLeft, Pending, ClosesSide, Readable, Overtaken
<1> QED
  BY <1>2, <1>3, <1>4 DEF DeskInv
-----------------------------------------------------------------------------
(* Desk: the theorems.                                                      *)

LEMMA DeskStarts == DeskInit => DeskInv
<1> SUFFICES ASSUME DeskInit PROVE DeskInv
  OBVIOUS
<1>1. Whole(0)
  BY UnitAssumption DEF Whole
<1>2. Flat \in [Sides -> Nat] /\ \A s \in Sides : Flat[s] = 0
  BY DEF Flat
<1>3. NoLeg \in [side : Sides \cup {"none"}, qty : Nat, priced : BOOLEAN]
  BY DEF NoLeg
<1>4. VenueTyped /\ ProgramTyped /\ ReportsTyped
  BY <1>2, <1>3 DEF DeskInit, VenueTyped, ProgramTyped, ReportsTyped
<1>5. AccountKind /\ Phases /\ AcksAreTrue /\ AlarmsStand /\ Reduces /\ NothingLeft
  BY <1>1, <1>2 DEF DeskInit, AccountKind, Phases, AcksAreTrue, AlarmsStand, Reduces,
                    ClosesSide, NothingLeft, Sides
<1> QED
  BY <1>4, <1>5 DEF DeskInv

LEMMA DeskSteps == DeskInv /\ [DeskNext]_deskVars => DeskInv'
<1> SUFFICES ASSUME DeskInv, [DeskNext]_deskVars PROVE DeskInv'
  OBVIOUS
<1>1. CASE UNCHANGED deskVars
  BY <1>1 DEF deskVars, streamVars, DeskInv, VenueTyped, ProgramTyped, ReportsTyped,
              AccountKind, Phases, AcksAreTrue, AlarmsStand, Reduces, ClosesSide,
              NothingLeft, Pending, Readable, Overtaken
<1>2. CASE DeskNext
  BY <1>2, ExecuteKeeps, LiquidateKeeps, OrderKeeps, CallKeeps, FirstStartKeeps, HearKeeps,
     CrashKeeps, DiscoverKeeps, CloseOrphanKeeps, RestoredKeeps DEF DeskNext
<1> QED
  BY <1>1, <1>2

\* What the rest rests on: the types of the account and of the program, and what holds
\* between them, at any of the six exchanges, for any quantities, orders and crashes.
THEOREM DeskKeepsInv == DeskSpec => []DeskInv
BY DeskStarts, DeskSteps, PTL DEF DeskSpec

\* Recovery that has read the positions and closed each of them leaves the account flat,
\* whatever was lost or refused before: internal/bot/recovery.go closeOrphanedPositions.
THEOREM OrphansAreClosed == DeskSpec => []OrphansClosed
<1>1. DeskInv => OrphansClosed
  <2> SUFFICES ASSUME DeskInv, mode = "restored", Readable PROVE book = Flat
    BY DEF OrphansClosed, Readable
  <2>1. \A s \in Sides : ~Pending(s)
    BY DEF DeskInv, Phases, Pending, ClosesSide
  <2>2. book \in [Sides -> Nat] /\ \A s \in Sides : book[s] = 0
    BY <2>1 DEF DeskInv, NothingLeft, VenueTyped
  <2> QED
    BY <2>2 DEF Flat
<1> QED
  BY <1>1, DeskKeepsInv, PTL

\* A close by recovery adds to no side of the account, at any exchange, short of a
\* liquidation at Bybit or Gate: the ClosePosition of each adapter.
THEOREM RecoveryReduces == DeskSpec => RecoveryOnlyReduces
<1>1. DeskInv /\ [DeskNext]_deskVars =>
        (live # NoOrder /\ live.use = "recover" /\ ~Overtaken
           => \A s \in Sides : book'[s] <= book[s])
  <2> SUFFICES ASSUME DeskInv, [DeskNext]_deskVars, live # NoOrder, live.use = "recover",
                      ~Overtaken, NEW s \in Sides
               PROVE  book'[s] <= book[s]
    OBVIOUS
  <2>1. VenueTyped /\ AccountKind /\ book[s] \in Nat
    BY DEF DeskInv, VenueTyped
  <2>2. CASE Execute
    <3>1. PICK n \in 0..Tradable(book, [live.order EXCEPT !.size = live.left]) :
            /\ venue \in {"gate", "htx"} => n % Unit = 0
            /\ book' = Traded(book, live.order, n)
      BY <2>2 DEF Execute
    <3>2. /\ n \in Nat /\ n <= live.left
          /\ live.order \in OrderSet /\ live.left \in Nat
      BY <2>1, <3>1, TradeIs
    <3>3. PICK c \in Sides : ClosesSide(c) /\ live.order.dir = Against(c)
      BY <3>2 DEF ClosesSide, Against, OrderSet, Dirs, Sides
    <3>4. IF venue \in Nets THEN n <= book[c] ELSE live.order.pos = c
      <4>1. CASE venue \in Nets
        <5>1. ~stale
          BY <4>1 DEF Overtaken, Nets
        <5>2. live.left <= book[c] /\ book[c] \in Nat
          BY <2>1, <3>3, <4>1, <5>1 DEF Reduces, DeskInv, VenueTyped
        <5> QED
          BY <3>2, <4>1, <5>2
      <4>2. CASE venue \notin Nets
        BY <3>3, <4>2 DEF Reduces, DeskInv, Against, Sides
      <4> QED
        BY <4>1, <4>2
    <3>5. book'[c] = book[c] - n /\ \A t \in Sides \ {c} : book'[t] = book[t]
      BY <2>1, <3>1, <3>3, <3>4, BookAfter
    <3> QED
      BY <2>1, <3>2, <3>5
  <2>3. CASE ~Execute
    <3>1. book' = book \/ \E z \in Sides : book' = [book EXCEPT ![z] = 0]
      BY <2>3 DEF DeskNext, FirstStart, CloseLeg, Fails, CloseReturns, Acknowledged, Returns,
           Hear, Crash, Discover, Restored, Liquidate, Open, CloseOrphan, deskVars
    <3> QED
      BY <2>1, <3>1 DEF VenueTyped
  <2> QED
    BY <2>2, <2>3
<1> QED
  BY <1>1, DeskKeepsInv, PTL DEF DeskSpec, RecoveryOnlyReduces

\* A leg with a price holds no more than its order has traded, at five exchanges: the
\* fills that PlaceMarketOrder reports to the executor.
THEOREM PricedLegsTraded == DeskSpec => PricedLegTraded
<1>1. DeskInv /\ [DeskNext]_deskVars =>
        (leg' # leg /\ leg'.priced /\ venue # "gate" => leg'.qty <= call.filled)
  <2> SUFFICES ASSUME DeskInv, [DeskNext]_deskVars, leg' # leg, leg'.priced, venue # "gate"
               PROVE  leg'.qty <= call.filled
    OBVIOUS
  <2>1. leg' # NoLeg
    BY DEF NoLeg
  <2>2. Returns
    BY <2>1 DEF DeskNext, Execute, FirstStart, CloseLeg, Fails, CloseReturns, Acknowledged,
         Hear, Crash, Discover, Restored, Liquidate, Open, CloseOrphan, deskVars
  <2>3. call \in CallSet /\ venue \in Venues
    BY <2>2 DEF Returns, DeskInv, ProgramTyped, VenueTyped
  <2>4. PICK d, f : /\ f = Reported(venue, call.asked, call.order, call.filled, d)
                    /\ leg' = [side |-> call.use, qty |-> f.qty, priced |-> f.priced]
    BY <2>1, <2>2 DEF Returns
  <2>5. /\ f.priced /\ venue # "gate" => f.qty = call.filled
        /\ call.filled \in Nat
    BY <2>3, <2>4, ReportedIs DEF CallSet
  <2>6. leg'.qty = f.qty /\ leg'.priced = f.priced
    BY <2>4
  <2> QED
    BY <2>5, <2>6
<1> QED
  BY <1>1, DeskKeepsInv, PTL DEF DeskSpec, PricedLegTraded

\* At OKX, Bitget and Gate a leg is recorded only for an order that was taken: which
\* answers doRequest and PlaceMarketOrder take for a success.
THEOREM NothingIsInvented == DeskSpec => NothingInvented
<1>1. DeskInv /\ [DeskNext]_deskVars =>
        (leg' # leg /\ leg'.qty > 0 /\ venue \in {"okx", "bitget", "gate"} => call.taken)
  <2> SUFFICES ASSUME DeskInv, [DeskNext]_deskVars, leg' # leg, leg'.qty > 0,
                      venue \in {"okx", "bitget", "gate"}
               PROVE  call.taken
    OBVIOUS
  <2>1. leg' # NoLeg
    BY DEF NoLeg
  <2>2. Returns
    BY <2>1 DEF DeskNext, Execute, FirstStart, CloseLeg, Fails, CloseReturns, Acknowledged,
         Hear, Crash, Discover, Restored, Liquidate, Open, CloseOrphan, deskVars
  <2>3. CASE venue = "gate"
    <3>1. \E d \in Answers : Believable(d) /\ Places(venue, d)
      BY <2>2, <2>3 DEF Returns, Synchronous
    <3> QED
      BY <3>1, PlacedIsTaken
  <2>4. CASE venue \in {"okx", "bitget"}
    BY <2>2, <2>4 DEF Returns, Synchronous, AcksAreTrue, DeskInv
  <2> QED
    BY <2>3, <2>4
<1> QED
  BY <1>1, DeskKeepsInv, PTL DEF DeskSpec, NothingInvented

\* The engine drops a leg as liquidated only when the account no longer has it: the
\* handlers of the position streams and RiskManager.HandleLiquidation.
THEOREM AlarmsTrue == DeskSpec => AlarmsAreTrue
<1>1. DeskInv /\ [DeskNext]_deskVars =>
        (report # NoReport /\ report' = NoReport /\ leg' # leg /\ mode' = mode
           /\ report.at = orders => book[leg.side] = 0)
  <2> SUFFICES ASSUME DeskInv, [DeskNext]_deskVars, report # NoReport, report' = NoReport,
                      leg' # leg, mode' = mode, report.at = orders
               PROVE  book[leg.side] = 0
    OBVIOUS
  <2>1. Hear
    BY DEF DeskNext, Execute, FirstStart, CloseLeg, Fails, CloseReturns, Acknowledged, Returns,
         Crash, Discover, Restored, Liquidate, Open, CloseOrphan, deskVars, streamVars
  <2>2. report.what = "liquidated" /\ report.side = leg.side /\ leg # NoLeg
    BY <2>1 DEF Hear
  <2>3. mode = "on"
    BY <2>2 DEF Phases, DeskInv
  <2> QED
    BY <2>2, <2>3 DEF AlarmsStand, DeskInv
<1> QED
  BY <1>1, DeskKeepsInv, PTL DEF DeskSpec, AlarmsAreTrue
=============================================================================
