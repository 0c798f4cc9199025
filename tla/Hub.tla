--------------------------------- MODULE Hub ---------------------------------
(***************************************************************************)
(* The WebSocket hub of the browsers (hub.go, client.go): the goroutine of   *)
(* Hub.Run, and for each connection the goroutines readPump and writePump,   *)
(* which share a Client structure taken from a pool.                        *)
(***************************************************************************)
EXTENDS Integers, SequencesExt

CONSTANTS
  MaxConns,      \* a bound on the connections of the browsers
  Clients,       \* the Client structures
  NoConn,        \* a Client's nil conn
  NoClient,      \* no structure yet
  MaxMessages,   \* a bound on the messages of a behaviour
  BroadcastCap, RegisterCap, SendCap  \* the buffers of the channels

ASSUME HubAssumption ==
  /\ MaxConns \in Nat /\ NoConn \notin Nat /\ NoClient \notin Clients
  /\ MaxMessages \in Nat
  /\ BroadcastCap \in Nat \ {0} /\ RegisterCap \in Nat \ {0} /\ SendCap \in Nat \ {0}

VARIABLES
  hub,         \* Run's loop: running, told to stop, ended
  clients,     \* h.clients
  count,       \* h.clientCount
  register, unregister, broadcast,  \* the channels
  accepted,    \* how many messages the broadcast channel took; they are numbered
  object,      \* the Client structures: their conn and their send channel
  pool,        \* the structures in the pool
  handed,      \* how many connections each structure was given to
  client,      \* the structure of each connection
  open,        \* the connections that are open
  reader,      \* where the readPump of a connection is
  writer,      \* where its writePump is
  written,     \* the messages written to each connection
  panic        \* the reason of a panic, which ends the process

hubVars == <<hub, clients, count>>
channels == <<register, unregister, broadcast, accepted>>
objects == <<object, pool, handed, client>>
pumps == <<open, reader, writer, written>>
vars == <<hubVars, channels, objects, pumps, panic>>

Conns == 1..MaxConns  \* numbered as they are made
Messages == 1..MaxMessages
Fresh == [conn |-> NoConn, closed |-> FALSE, send |-> <<>>]

Init ==
  /\ hub = "running" /\ clients = {} /\ count = 0
  /\ register = <<>> /\ unregister = <<>> /\ broadcast = <<>> /\ accepted = 0
  /\ object = [o \in Clients |-> Fresh] /\ pool = {}
  /\ handed = [o \in Clients |-> 0] /\ client = [c \in Conns |-> NoClient]
  /\ open = {} /\ reader = [c \in Conns |-> "none"] /\ writer = [c \in Conns |-> [pc |-> "none"]]
  /\ written = [c \in Conns |-> <<>>]
  /\ panic = "none"
-----------------------------------------------------------------------------
(* Hub.Run.                                                                 *)

\* Closing the send channels of S; a channel that is closed already panics.
CloseAll(S) ==
  IF \E o \in S : object[o].closed
  THEN panic' = "close" /\ UNCHANGED object
  ELSE object' = [o \in Clients |-> IF o \in S THEN [object[o] EXCEPT !.closed = TRUE] ELSE object[o]]
       /\ UNCHANGED panic

\* Mutant: the count is lowered for a client that is not registered.
ForgetUnchecked(S) == clients' = clients \ S /\ count' = count - Cardinality(ToSet(unregister)) /\ CloseAll(S)

\* Forgetting the clients of S, which are registered, and closing their channels.
Forget(S) == clients' = clients \ S /\ count' = count - Cardinality(S) /\ CloseAll(S)

HubStops ==
  /\ panic = "none" /\ hub = "stopping"
  /\ CloseAll(clients) /\ clients' = {} /\ count' = 0 /\ hub' = "ended"
  /\ UNCHANGED <<channels, pool, handed, client, pumps>>

\* All that wait are registered, each raises the count.
HubRegisters ==
  /\ panic = "none" /\ hub # "ended" /\ register # <<>>
  /\ clients' = clients \cup ToSet(register) /\ count' = count + Len(register)
  /\ register' = <<>>
  /\ UNCHANGED <<hub, unregister, broadcast, accepted, objects, pumps, panic>>

\* Mutant: a client is removed that was removed before.
UnregisteredTwice == ToSet(unregister)

Unregistered == clients \cap ToSet(unregister)

HubUnregisters ==
  /\ panic = "none" /\ hub # "ended" /\ unregister # <<>>
  /\ Forget(Unregistered) /\ unregister' = <<>>
  /\ UNCHANGED <<hub, register, broadcast, accepted, pool, handed, client, pumps>>

\* Mutant: no client is slow.
NoneSlow == {}

\* The clients whose channel has no room.
Slow == {o \in clients : Len(object[o].send) >= SendCap}

\* Mutant: a slow client misses the message and stays.
SlowStay == {}

\* The clients that a broadcast removes.
Dropped == Slow

\* The clients after the message was sent to all but the slow ones.
Sent(m) ==
  [o \in Clients |->
    IF o \in Dropped THEN [object[o] EXCEPT !.closed = TRUE]
    ELSE IF o \in clients \ Slow THEN [object[o] EXCEPT !.send = Append(@, m)] ELSE object[o]]

\* The send case of a select panics too when the channel is closed.
HubBroadcasts ==
  /\ panic = "none" /\ hub # "ended" /\ broadcast # <<>>
  /\ broadcast' = Tail(broadcast)
  /\ IF \E o \in clients : object[o].closed
     THEN panic' = "send" /\ UNCHANGED <<object, clients, count>>
     ELSE /\ object' = Sent(Head(broadcast))
          /\ clients' = clients \ Dropped /\ count' = count - Cardinality(Dropped)
          /\ UNCHANGED panic
  /\ UNCHANGED <<hub, register, unregister, accepted, pool, handed, client, pumps>>
-----------------------------------------------------------------------------
(* The callers: the services broadcast, main stops the hub.                 *)

\* A message is numbered when the channel takes it; a full channel drops it.
Broadcast ==
  /\ panic = "none" /\ accepted < MaxMessages /\ Len(broadcast) < BroadcastCap
  /\ accepted' = accepted + 1 /\ broadcast' = Append(broadcast, accepted + 1)
  /\ UNCHANGED <<hubVars, register, unregister, objects, pumps, panic>>

Stop ==
  /\ panic = "none" /\ hub = "running" /\ hub' = "stopping"
  /\ UNCHANGED <<clients, count, channels, objects, pumps, panic>>
-----------------------------------------------------------------------------
(* ServeWS.                                                                 *)

Unmade == {o \in Clients : handed[o] = 0}

\* The pool gives a structure that came back, or makes one.
ServeWS(c, o) ==
  /\ panic = "none" /\ reader[c] = "none" /\ \A d \in 1..c - 1 : reader[d] # "none"
  /\ o \in pool \/ (Unmade # {} /\ o = CHOOSE u \in Unmade : TRUE)
  /\ pool' = pool \ {o} /\ handed' = [handed EXCEPT ![o] = @ + 1]
  /\ object' = [object EXCEPT ![o].conn = c, ![o].send = <<>>]
  /\ client' = [client EXCEPT ![c] = o]
  /\ open' = open \cup {c} /\ reader' = [reader EXCEPT ![c] = "registering"]
  /\ UNCHANGED <<hubVars, channels, writer, written, panic>>

Registers(c) ==
  /\ panic = "none" /\ reader[c] = "registering" /\ Len(register) < RegisterCap
  /\ register' = Append(register, client[c])
  /\ reader' = [reader EXCEPT ![c] = "reading"]
  /\ writer' = [writer EXCEPT ![c] = [pc |-> "idle"]]
  /\ UNCHANGED <<hubVars, unregister, broadcast, accepted, objects, open, written, panic>>
-----------------------------------------------------------------------------
(* readPump.                                                                *)

\* The browser goes away, or is not heard of for pongWait.
Leaves(c) ==
  /\ c \in open /\ open' = open \ {c}
  /\ UNCHANGED <<hubVars, channels, objects, reader, writer, written, panic>>

\* ReadMessage fails, and the deferred function begins.
Unregisters(c) ==
  /\ panic = "none" /\ reader[c] = "reading" /\ c \notin open
  /\ Len(unregister) < RegisterCap
  /\ unregister' = Append(unregister, client[c])
  /\ reader' = [reader EXCEPT ![c] = "leaving"]
  /\ UNCHANGED <<hubVars, register, broadcast, accepted, objects, open, writer, written, panic>>

\* returnToPool forgets the connection, drains the channel and gives the structure back.
Return(c) ==
  /\ panic = "none" /\ reader[c] = "leaving"
  /\ object' = [object EXCEPT ![client[c]].conn = NoConn, ![client[c]].send = <<>>]
  /\ pool' = pool \cup {client[c]}
  /\ reader' = [reader EXCEPT ![c] = "left"]
  /\ UNCHANGED <<hubVars, channels, handed, client, open, writer, written, panic>>
-----------------------------------------------------------------------------
(* writePump, which reads conn from the structure at every use.              *)

Its(c) == object[client[c]]

\* A message is received, or the channel is found closed and empty.
Receives(c) ==
  /\ panic = "none" /\ writer[c].pc = "idle"
  /\ \/ /\ Its(c).send # <<>>
        /\ object' = [object EXCEPT ![client[c]].send = Tail(@)]
        /\ writer' = [writer EXCEPT ![c] = [pc |-> "holding", msg |-> Head(Its(c).send)]]
     \/ /\ Its(c).send = <<>> /\ Its(c).closed
        /\ writer' = [writer EXCEPT ![c] = [pc |-> "told"]]
        /\ UNCHANGED object
  /\ UNCHANGED <<hubVars, channels, pool, handed, client, open, reader, written, panic>>

\* What a writer does of a connection that returnToPool took away.
Lost(c) ==
  /\ panic = "none" /\ writer[c].pc \in {"holding", "told"} /\ Its(c).conn = NoConn
  /\ panic' = "nil conn"
  /\ UNCHANGED <<hubVars, channels, objects, pumps>>

\* The message is written, with what else the channel holds, or the connection fails.
Writes(c) ==
  /\ panic = "none" /\ writer[c].pc = "holding" /\ Its(c).conn # NoConn
  /\ LET d == Its(c).conn IN
     IF d \in open
     THEN /\ written' = [written EXCEPT ![d] = Append(@, writer[c].msg) \o Its(c).send]
          /\ object' = [object EXCEPT ![client[c]].send = <<>>]
          /\ writer' = [writer EXCEPT ![c] = [pc |-> "idle"]]
     ELSE /\ writer' = [writer EXCEPT ![c] = [pc |-> "told"]]
          /\ UNCHANGED <<written, object>>
  /\ UNCHANGED <<hubVars, channels, pool, handed, client, open, reader, panic>>

\* Mutant: a ping that fails is ignored.
DeafTicks(c) == FALSE /\ UNCHANGED vars

\* A tick of the ticker begins a ping; a ping that fails ends the goroutine.
Ticks(c) ==
  /\ panic = "none" /\ writer[c].pc = "idle"
  /\ Its(c).conn \notin open
  /\ writer' = [writer EXCEPT ![c] = [pc |-> "told"]]
  /\ UNCHANGED <<hubVars, channels, objects, open, reader, written, panic>>

\* The deferred Close, after the close message when the hub closed the channel.
Ends(c) ==
  /\ panic = "none" /\ writer[c].pc = "told" /\ Its(c).conn # NoConn
  /\ open' = open \ {Its(c).conn}
  /\ writer' = [writer EXCEPT ![c] = [pc |-> "ended"]]
  /\ UNCHANGED <<hubVars, channels, objects, reader, written, panic>>

Run == HubStops \/ HubRegisters \/ HubUnregisters \/ HubBroadcasts

Reads(c) == Registers(c) \/ Unregisters(c) \/ Return(c)
Pumps(c) == Receives(c) \/ Lost(c) \/ Writes(c) \/ Ticks(c) \/ Ends(c)

Next ==
  \/ Run \/ Broadcast \/ Stop
  \/ \E c \in Conns : Leaves(c) \/ Reads(c) \/ Pumps(c)
  \/ \E c \in Conns, o \in Clients : ServeWS(c, o)

\* No more is asked than that Go runs the goroutines of writePump.
Fairness == \A c \in Conns : WF_vars(Pumps(c))

Spec == Init /\ [][Next]_vars /\ Fairness
-----------------------------------------------------------------------------
(* Properties.                                                              *)

\* No channel holds more than its buffer, and none holds a message that was not accepted.
TypeOK ==
  /\ hub \in {"running", "stopping", "ended"} /\ clients \subseteq Clients /\ count \in Int
  /\ register \in Seq(Clients) /\ Len(register) <= RegisterCap
  /\ unregister \in Seq(Clients) /\ Len(unregister) <= RegisterCap
  /\ broadcast \in Seq(Messages) /\ Len(broadcast) <= BroadcastCap /\ accepted \in 0..MaxMessages
  /\ object \in [Clients -> [conn : Conns \cup {NoConn}, closed : BOOLEAN, send : Seq(Messages)]]
  /\ \A o \in Clients : Len(object[o].send) <= SendCap
  /\ pool \subseteq Clients /\ handed \in [Clients -> Nat]
  /\ client \in [Conns -> Clients \cup {NoClient}] /\ open \subseteq Conns
  /\ reader \in [Conns -> {"none", "registering", "reading", "leaving", "left"}]
  /\ \A c \in Conns : writer[c].pc \in {"none", "idle", "holding", "told", "ended"}
  /\ written \in [Conns -> Seq(Messages)]
  /\ panic \in {"none", "close", "send", "nil conn"}

\* A structure that one connection only has had.
Single(o) == handed[o] <= 1

\* Run panics, by a send on a closed channel or by closing it again, only over a
\* structure that the pool gave to a second connection.
HubPanicsByReuse == panic \in {"send", "close"} => \E o \in Clients : ~Single(o)

\* ClientCount is never below the clients the hub has, and is their number unless a
\* structure was registered for a second connection.
CountCovers ==
  /\ count >= Cardinality(clients)
  /\ (\A o \in Clients : Single(o)) /\ panic = "none" => count = Cardinality(clients)

\* What a browser gets is an unbroken run of the accepted messages: the hub leaves a
\* slow client rather than a gap.
StreamUnbroken ==
  \A c \in Conns : client[c] # NoClient /\ Single(client[c]) =>
    \A i \in 1..Len(written[c]) - 1 : written[c][i + 1] = written[c][i] + 1

\* A connection that was lost leaves no goroutine behind: its writePump ends, though
\* the hub may take the unregistration before the registration and keep the client.
PumpsEnd ==
  \A c \in Conns :
    reader[c] = "left" ~>
      \/ writer[c].pc = "ended" \/ panic # "none"
      \/ \E o \in Clients : client[c] = o /\ ~Single(o)
=============================================================================
