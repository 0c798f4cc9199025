--------------------------------- MODULE Feed ---------------------------------
(***************************************************************************)
(* One WebSocket of an adapter (ws_reconnect.go): the goroutines that read,   *)
(* ping and reconnect, a caller that subscribes, and Close, with a network    *)
(* that breaks connections and refuses new ones.  The adapter's handler turns *)
(* what is read into tickers, or into reports of positions.                 *)
(***************************************************************************)
EXTENDS Adapters, FiniteSets

CONSTANTS
  Streams,     \* the adapters whose socket this may be, and what it carries
  Subs,        \* the subscriptions
  Conns,       \* names for connections, used again when they are closed
  Readers,     \* the goroutines of readPump
  Loops,       \* the callers of dial: Connect and the goroutines of reconnectLoop
  NoConn,      \* a nil connection
  Down,        \* a connection that is closed
  MaxRetries,  \* the attempts of a reconnectLoop
  MaxBreaks,   \* a bound on broken connections
  MaxFails,    \* a bound on failures to connect or to log in
  MaxRaces     \* a bound on steps that overtake the report of a disconnect

ASSUME FeedAssumption ==
  /\ Streams \subseteq {s \in Venues \X Kinds : StreamOf(s[1], s[2]) # NoStream}
  /\ NoConn \notin Conns
  /\ MaxRetries \in Nat /\ MaxBreaks \in Nat /\ MaxFails \in Nat /\ MaxRaces \in Nat

VARIABLES
  stream,   \* the adapter and the kind of what its socket carries
  state,    \* WSConnectionState
  closing,  \* how far Close has come
  conn,     \* m.conn
  on,       \* the subscriptions the exchange got on each open connection, or Down
  subs,     \* m.subscriptions
  told,     \* the subscriptions whose Send returned no error
  sender,   \* the caller of AddSubscription and Send
  reader,   \* the goroutines of readPump
  pingers,  \* how many goroutines of pingPump there are
  acting,   \* how many of them are in handleDisconnect, past its checks
  loop,     \* the callers of dial
  retries,  \* m.retryCount
  heard,    \* whether the callback got something since the last break
  breaks, fails, races  \* what is bounded

bounds == <<breaks, fails, races>>
net == <<conn, on>>
sending == <<subs, told, sender>>
pumps == <<reader, pingers, acting>>
vars == <<stream, state, closing, net, sending, pumps, loop, retries, heard, bounds>>

Idle == [pc |-> "idle"]
Closed == closing # "no"

up == {c \in Conns : on[c] # Down}

Without(c) == [d \in Conns |-> IF d = c THEN Down ELSE on[d]]

Init ==
  /\ stream \in Streams
  /\ state = "disconnected" /\ closing = "no"
  /\ conn = NoConn /\ on = [c \in Conns |-> Down]
  /\ subs = {} /\ told = {} /\ sender = Idle
  /\ reader = [r \in Readers |-> Idle] /\ pingers = 0 /\ acting = 0
  /\ loop = [l \in Loops |-> Idle]
  /\ retries = 0 /\ heard = FALSE
  /\ breaks = 0 /\ fails = 0 /\ races = 0
-----------------------------------------------------------------------------
(* The network.                                                             *)

Break(c) ==
  /\ c \in up /\ breaks < MaxBreaks
  /\ on' = Without(c) /\ breaks' = breaks + 1
  /\ heard' = FALSE
  /\ UNCHANGED <<stream, state, closing, conn, sending, pumps, loop, retries, fails, races>>
-----------------------------------------------------------------------------
(* Connect, reconnectLoop and dial.                                         *)

Reporting ==
  acting + Cardinality({r \in Readers : reader[r].pc \in {"act1", "act2"}})

\* The readers that have yet to notice that a connection is gone, or to report it.
Late == {r \in Readers : reader[r] # Idle /\ ~(reader[r].pc = "read" /\ reader[r].at \in up)}

\* A step that is taken before n other goroutines have reported a disconnect.
Races(n) == IF n > 0 THEN races < MaxRaces /\ races' = races + 1 ELSE races' = races

Waiting == [pc |-> "wait", first |-> FALSE, copy |-> {}]

\* A loop that has ended, or waits for its next attempt; Connect has one only.
Ends(l) == loop' = [loop EXCEPT ![l] = Idle]

Again(l) ==
  IF loop[l].first
  THEN Ends(l) /\ state' = "disconnected"
  ELSE loop' = [loop EXCEPT ![l] = Waiting] /\ state' = state

\* There is no manager yet.
Unused == state = "disconnected" /\ retries = 0 /\ breaks + fails = 0

\* The first subscription of an adapter connects, once.
Connect(l) ==
  /\ Unused /\ ~Closed
  /\ state' = "connecting"
  /\ loop' = [loop EXCEPT ![l] = [pc |-> "dial", first |-> TRUE, copy |-> {}]]
  /\ UNCHANGED <<stream, closing, net, sending, pumps, retries, heard, bounds>>

\* The next attempt, unless the manager is closed or the attempts are used up.
Attempt(l) ==
  /\ loop[l].pc = "wait" /\ ~Closed
  /\ retries' = retries + 1
  /\ IF retries' > MaxRetries
     THEN Ends(l) /\ state' = "disconnected"
     ELSE loop' = [loop EXCEPT ![l].pc = "dial"] /\ state' = state
  /\ UNCHANGED <<stream, closing, net, sending, pumps, heard, bounds>>

\* Mutant: the loop does not look at closeChan.
DeafLoopStops(l) == FALSE

\* Before an attempt, or during the delay that precedes dialling.
LoopStops(l) ==
  /\ loop[l].pc \in {"wait", "dial"} /\ ~loop[l].first /\ Closed
  /\ Ends(l)
  /\ UNCHANGED <<stream, state, closing, net, sending, pumps, retries, heard, bounds>>

DialFails(l) ==
  /\ loop[l].pc = "dial" /\ fails < MaxFails
  /\ fails' = fails + 1
  /\ Again(l)
  /\ UNCHANGED <<stream, closing, net, sending, pumps, retries, heard, breaks, races>>

\* A connection nobody holds any more.
Free(c) ==
  /\ c \notin up /\ c # conn
  /\ \A r \in Readers : reader[r].pc = "read" => reader[r].at # c

\* The connection replaces m.conn, which is not closed.
Dial(l) ==
  /\ loop[l].pc = "dial"
  /\ Races(acting + Cardinality(Late))
  /\ \E c \in Conns : Free(c)
  /\ conn' = CHOOSE c \in Conns : Free(c)
  /\ on' = [on EXCEPT ![conn'] = {}]
  /\ loop' = [loop EXCEPT ![l] = [pc |-> "opened", first |-> @.first, copy |-> {}, at |-> conn']]
  /\ UNCHANGED <<stream, state, closing, sending, pumps, retries, heard, breaks, fails>>

\* authFunc fails: the connection is closed, and whatever m.conn is by now becomes nil.
AuthFails(l) ==
  /\ loop[l].pc = "opened" /\ fails < MaxFails
  /\ \E a \in Answers : ~LogsIn(stream[1], stream[2], a)
  /\ fails' = fails + 1
  /\ on' = Without(loop[l].at) /\ conn' = NoConn
  /\ Again(l)
  /\ UNCHANGED <<stream, closing, sending, pumps, retries, heard, breaks, races>>

\* resubscribe copies the subscriptions,
CopySubs(l) ==
  /\ loop[l].pc = "opened"
  /\ loop' = [loop EXCEPT ![l] = [pc |-> "copied", first |-> @.first, copy |-> subs]]
  /\ UNCHANGED <<stream, state, closing, net, sending, pumps, retries, heard, bounds>>

\* Mutant: the copy is not sent.
SentNothing(l) == {}

Sent(l) == loop[l].copy

\* and writes them to m.conn; an error is only logged.
Resubscribe(l) ==
  /\ loop[l].pc = "copied"
  /\ on' = IF conn \in up THEN [on EXCEPT ![conn] = @ \cup Sent(l)] ELSE on
  /\ loop' = [loop EXCEPT ![l].pc = "store"]
  /\ UNCHANGED <<stream, state, closing, conn, sending, pumps, retries, heard, bounds>>

\* The state is stored and the pumps are started, closed or not.
Connected(l) ==
  /\ loop[l].pc = "store"
  /\ state' = "connected" /\ retries' = 0
  /\ \E r \in Readers : reader[r] = Idle
  /\ reader' = [reader EXCEPT ![CHOOSE r \in Readers : reader[r] = Idle] = [pc |-> "top"]]
  /\ pingers' = pingers + 1
  /\ Ends(l)
  /\ UNCHANGED <<stream, closing, net, sending, acting, heard, bounds>>
-----------------------------------------------------------------------------
(* handleDisconnect, in two steps: the checks, and the rest.                *)

Ignored == Closed \/ state \in {"reconnecting", "closed"}

\* Mutant: no loop begins.
LeftDisconnected ==
  state' = "reconnecting" /\ on' = Without(conn) /\ conn' = NoConn /\ loop' = loop

\* m.conn is closed, and a new loop begins.
Disconnect ==
  /\ state' = "reconnecting"
  /\ on' = Without(conn) /\ conn' = NoConn
  /\ \E l \in Loops : loop[l] = Idle
  /\ loop' = [loop EXCEPT ![CHOOSE l \in Loops : loop[l] = Idle] = Waiting]
-----------------------------------------------------------------------------
(* readPump.                                                                *)

\* It reads m.conn again for every message; when that is nil it returns, and
\* reports a disconnect on its way out.
ReaderTop(r) ==
  /\ reader[r].pc = "top"
  /\ reader' = [reader EXCEPT ![r] =
                  IF Closed THEN Idle
                  ELSE IF conn = NoConn THEN [pc |-> "report2"]
                  ELSE [pc |-> "read", at |-> conn]]
  /\ UNCHANGED <<stream, state, closing, net, sending, pingers, acting, loop, retries,
                 heard, bounds>>

\* A message that the handler hands to the callback.
Heard == IF stream[2] = "ticks"
         THEN \E m \in Pushes : TickerPush(stream[1], m) = "quote"
         ELSE \E e \in Events : PositionReport(stream[1], e) # "nothing"

\* A ticker or a report of a subscription reaches the callback.
Deliver(r) ==
  /\ reader[r].pc = "read" /\ reader[r].at \in up /\ on[reader[r].at] # {}
  /\ Heard
  /\ heard' = TRUE
  /\ reader' = [reader EXCEPT ![r] = [pc |-> "top"]]
  /\ UNCHANGED <<stream, state, closing, net, sending, pingers, acting, loop, retries, bounds>>

\* Anything else that is read makes it look at m.conn, which may be another by now.
Skip(r) ==
  /\ reader[r].pc = "read" /\ reader[r].at \in up /\ reader[r].at # conn
  /\ reader' = [reader EXCEPT ![r] = [pc |-> "top"]]
  /\ UNCHANGED <<stream, state, closing, net, sending, pingers, acting, loop, retries,
                 heard, bounds>>

ReadError(r) ==
  /\ reader[r].pc = "read" /\ reader[r].at \notin up
  /\ reader' = [reader EXCEPT ![r] = [pc |-> "report1"]]
  /\ UNCHANGED <<stream, state, closing, net, sending, pingers, acting, loop, retries,
                 heard, bounds>>

\* An error is reported, and then the deferred call reports it once more.
AfterReport(pc) == IF pc \in {"report1", "act1"} THEN [pc |-> "report2"] ELSE Idle

ReaderChecks(r) ==
  /\ reader[r].pc \in {"report1", "report2"}
  /\ IF Ignored
     THEN reader' = [reader EXCEPT ![r] = AfterReport(@.pc)] /\ races' = races
     ELSE /\ reader' = [reader EXCEPT ![r] =
                          [pc |-> IF @.pc = "report1" THEN "act1" ELSE "act2"]]
          /\ Races(Reporting)
  /\ UNCHANGED <<stream, state, closing, net, sending, pingers, acting, loop, retries,
                 heard, breaks, fails>>

ReaderActs(r) ==
  /\ reader[r].pc \in {"act1", "act2"}
  /\ Disconnect
  /\ reader' = [reader EXCEPT ![r] = AfterReport(@.pc)]
  /\ UNCHANGED <<stream, closing, sending, pingers, acting, retries, heard, bounds>>
-----------------------------------------------------------------------------
(* pingPump.                                                                *)

\* It ends when there is nothing to ping.
PingStops ==
  /\ pingers > 0 /\ (Closed \/ conn = NoConn \/ state # "connected")
  /\ pingers' = pingers - 1
  /\ UNCHANGED <<stream, state, closing, net, sending, reader, acting, loop, retries,
                 heard, bounds>>

\* A ping cannot be written.
PingFails ==
  /\ pingers > 0 /\ conn # NoConn /\ conn \notin up /\ state = "connected" /\ ~Closed
  /\ Races(Reporting)
  /\ pingers' = pingers - 1 /\ acting' = acting + 1
  /\ UNCHANGED <<stream, state, closing, net, sending, reader, loop, retries, heard,
                 breaks, fails>>

PingActs ==
  /\ acting > 0
  /\ Disconnect
  /\ acting' = acting - 1
  /\ UNCHANGED <<stream, closing, sending, reader, pingers, retries, heard, bounds>>
-----------------------------------------------------------------------------
(* Callers.                                                                 *)

\* The mutex of the adapter's manager is held until Connect has returned.
HasManager == ~Unused /\ \A l \in Loops : loop[l] # Idle => ~loop[l].first

\* Mutant: the subscription is not kept.
ForgottenAdd(s) ==
  /\ sender = Idle /\ s \notin subs /\ HasManager
  /\ sender' = [pc |-> "added", sub |-> s]
  /\ UNCHANGED <<stream, state, closing, net, subs, told, pumps, loop, retries, heard, bounds>>

\* AddSubscription.
Add(s) ==
  /\ sender = Idle /\ s \notin subs /\ HasManager
  /\ subs' = subs \cup {s} /\ sender' = [pc |-> "added", sub |-> s]
  /\ UNCHANGED <<stream, state, closing, net, told, pumps, loop, retries, heard, bounds>>

\* Send tests the state and reads m.conn.
Send ==
  /\ sender.pc = "added"
  /\ sender' = IF state = "connected" /\ conn # NoConn
               THEN [pc |-> "write", sub |-> sender.sub, at |-> conn] ELSE Idle
  /\ UNCHANGED <<stream, state, closing, net, subs, told, pumps, loop, retries, heard, bounds>>

\* WriteJSON fails on a connection that is not open.
Write ==
  /\ sender.pc = "write"
  /\ IF sender.at \in up
     THEN /\ on' = [on EXCEPT ![sender.at] = @ \cup {sender.sub}]
          /\ told' = told \cup {sender.sub}
     ELSE UNCHANGED <<on, told>>
  /\ sender' = Idle
  /\ UNCHANGED <<stream, state, closing, conn, subs, pumps, loop, retries, heard, bounds>>

\* The adapter's Close: HTX and BingX wait for the first connection.
Close ==
  /\ closing = "no" /\ ~Unused
  /\ StreamOf(stream[1], stream[2]).socket \in Shuts(stream[1]).sockets
  /\ Shuts(stream[1]).waits => HasManager
  /\ closing' = "marked" /\ state' = "closed"
  /\ UNCHANGED <<stream, net, sending, pumps, loop, retries, heard, bounds>>

CloseConn ==
  /\ closing = "marked"
  /\ closing' = "done" /\ on' = Without(conn) /\ conn' = NoConn
  /\ UNCHANGED <<stream, state, sending, pumps, loop, retries, heard, bounds>>
-----------------------------------------------------------------------------
LoopStep(l) ==
  Connect(l) \/ Attempt(l) \/ LoopStops(l) \/ Dial(l) \/ CopySubs(l) \/ Resubscribe(l)
  \/ Connected(l)

ReaderStep(r) == ReaderTop(r) \/ ReadError(r) \/ ReaderChecks(r) \/ ReaderActs(r)

PingStep == PingStops \/ PingFails \/ PingActs

Next ==
  \/ \E c \in Conns : Break(c)
  \/ \E l \in Loops : LoopStep(l) \/ DialFails(l) \/ AuthFails(l)
  \/ \E r \in Readers : ReaderStep(r) \/ Deliver(r) \/ Skip(r)
  \/ PingStep
  \/ \E s \in Subs : Add(s)
  \/ Send \/ Write \/ Close \/ CloseConn

Spec == Init /\ [][Next]_vars

\* Goroutines run, dialling ends by its timeout, and a connection that is open and
\* subscribed again and again delivers something.
FairSpec ==
  /\ Spec
  /\ \A l \in Loops : WF_vars(LoopStep(l))
  /\ \A r \in Readers : WF_vars(ReaderStep(r)) /\ SF_vars(Deliver(r))
  /\ WF_vars(PingStep) /\ WF_vars(Send \/ Write) /\ WF_vars(CloseConn)
-----------------------------------------------------------------------------
(* Properties.                                                              *)

LoopsIdle == \A l \in Loops : loop[l] = Idle

\* A subscription that an exchange has, or was told, is one the manager keeps.
TypeOK ==
  /\ stream \in Streams /\ closing \in {"no", "marked", "done"}
  /\ state \in {"disconnected", "connecting", "connected", "reconnecting", "closed"}
  /\ conn \in Conns \cup {NoConn}
  /\ \A c \in up : on[c] \subseteq subs
  /\ told \subseteq subs /\ subs \subseteq Subs
  /\ pingers \in Nat /\ acting \in Nat /\ heard \in BOOLEAN
  /\ retries \in Nat

\* A subscription whose Send returned no error is never lost by a reconnection: when
\* m.conn is open and no loop is replacing it, the exchange has the subscription on it,
\* whichever of several loops and callers dialled, copied and wrote in whatever order.
ToldIsSubscribed == conn \in up /\ LoopsIdle => told \subseteq on[conn]

\* After the connection broke, tickers or reports come again, unless the manager was closed
\* or has used up its attempts: whoever reports the break, and however often.
StreamResumes ==
  ~heard /\ told # {} ~> heard \/ Closed \/ state = "disconnected"

\* Close, which is never undone, ends the reconnecting for good.
CloseEndsReconnecting == <>[](Closed => LoopsIdle)
=============================================================================
