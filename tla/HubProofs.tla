------------------------------ MODULE HubProofs ------------------------------
(***************************************************************************)
(* Theorems about Hub, for any number of browsers, structures and messages   *)
(* and channels of any size.                                                *)
(***************************************************************************)
EXTENDS Hub, FiniteSetTheorems, SequenceTheorems, TLAPS
-----------------------------------------------------------------------------
(* Sequences as sets.                                                       *)

\* A sequence has no more elements than its length, and as many if none comes twice.
LEMMA ToSetSize ==
  ASSUME NEW S, NEW s \in Seq(S)
  PROVE  /\ IsFiniteSet(ToSet(s)) /\ Cardinality(ToSet(s)) <= Len(s)
         /\ (\A i, j \in DOMAIN s : s[i] = s[j] => i = j) => Cardinality(ToSet(s)) = Len(s)
<1> DEFINE D == 1..Len(s)
<1>1. Len(s) \in Nat /\ IsFiniteSet(D) /\ Cardinality(D) = Len(s)
  <2>1. Len(s) \in Nat
    BY LenProperties
  <2>2. IsFiniteSet(1..Len(s)) /\ Cardinality(1..Len(s)) = IF 1 > Len(s) THEN 0 ELSE Len(s) - 1 + 1
    BY <2>1, FS_Interval
  <2> QED
    BY <2>1, <2>2
<1>2. DOMAIN s = D /\ s \in [D -> ToSet(s)]
  BY LenProperties DEF ToSet
<1>3. s \in Surjection(D, ToSet(s))
  BY <1>2 DEF Surjection, ToSet
<1>4. IsFiniteSet(ToSet(s)) /\ Cardinality(ToSet(s)) <= Cardinality(D)
  BY <1>1, <1>3, FS_Surjection
<1>5. ASSUME \A i, j \in DOMAIN s : s[i] = s[j] => i = j
      PROVE  Cardinality(ToSet(s)) = Len(s)
  <2>1. s \in Injection(D, ToSet(s))
    BY <1>2, <1>5 DEF Injection, IsInjective
  <2> QED
    BY <2>1, <1>1, <1>3, FS_Surjection
<1> QED
  BY <1>1, <1>4, <1>5

\* The elements of a sequence to which one is appended, and of the empty one.
LEMMA ToSetAppend ==
  ASSUME NEW S, NEW s \in Seq(S), NEW e \in S
  PROVE  ToSet(Append(s, e)) = ToSet(s) \cup {e}
<1> DEFINE t == Append(s, e)
<1>1. /\ Len(s) \in Nat /\ DOMAIN s = 1..Len(s) /\ DOMAIN t = 1..Len(s) + 1
      /\ \A i \in 1..Len(s) : t[i] = s[i]
      /\ t[Len(s) + 1] = e
  BY AppendProperties, LenProperties
<1> HIDE DEF t
<1> QED
  BY <1>1 DEF ToSet, t

LEMMA ToSetEmpty == ToSet(<<>>) = {}
BY DEF ToSet

LEMMA ToSetType ==
  ASSUME NEW S, NEW s \in Seq(S)
  PROVE  ToSet(s) \subseteq S
BY LenProperties DEF ToSet
-----------------------------------------------------------------------------
(* Type correctness.                                                        *)

WriterState == [pc : {"none", "idle", "told", "ended"}] \cup [pc : {"holding"}, msg : Messages]

ClientState == [conn : Conns \cup {NoConn}, closed : BOOLEAN, send : Seq(Messages)]

\* The parts of the type invariant: the hub's loop,
HubTyped ==
  /\ hub \in {"running", "stopping", "ended"} /\ count \in Int
  /\ clients \subseteq Clients /\ IsFiniteSet(clients)
  /\ panic \in {"none", "close", "send", "nil conn"}

\* the channels to it,
ChannelsTyped ==
  /\ register \in Seq(Clients) /\ Len(register) <= RegisterCap
  /\ unregister \in Seq(Clients) /\ Len(unregister) <= RegisterCap
  /\ broadcast \in Seq(Messages) /\ Len(broadcast) <= BroadcastCap /\ accepted \in 0..MaxMessages

\* the structures,
ObjectsTyped ==
  /\ object \in [Clients -> ClientState]
  /\ \A o \in Clients : Len(object[o].send) <= SendCap
  /\ pool \subseteq Clients /\ handed \in [Clients -> Nat]

\* and the connections, which have a structure while their goroutines run.
PumpsTyped ==
  /\ client \in [Conns -> Clients \cup {NoClient}] /\ open \subseteq Conns
  /\ reader \in [Conns -> {"none", "registering", "reading", "leaving", "left"}]
  /\ writer \in [Conns -> WriterState]
  /\ written \in [Conns -> Seq(Messages)]
  /\ \A c \in Conns : reader[c] # "none" \/ writer[c].pc # "none" => client[c] \in Clients

Typed == HubTyped /\ ChannelsTyped /\ ObjectsTyped /\ PumpsTyped

LEMMA TypedIsTypeOK == Typed => TypeOK
BY DEF Typed, HubTyped, ChannelsTyped, ObjectsTyped, PumpsTyped, TypeOK, WriterState, ClientState

LEMMA InitTyped == Init => Typed
<1> SUFFICES ASSUME Init PROVE Typed
  OBVIOUS
<1>1. <<>> \in Seq(Clients) /\ <<>> \in Seq(Messages) /\ Len(<<>>) = 0
  BY EmptySeq
<1>2. Fresh \in ClientState /\ Len(Fresh.send) = 0
  BY <1>1 DEF Fresh, ClientState
<1>3. [pc |-> "none"] \in WriterState /\ [pc |-> "none"].pc = "none"
  BY DEF WriterState
<1> QED
  BY <1>1, <1>2, <1>3, HubAssumption, FS_EmptySet
  DEF Init, Typed, HubTyped, ChannelsTyped, ObjectsTyped, PumpsTyped

\* Closing channels leaves what they hold.
LEMMA CloseAllTyped ==
  ASSUME ObjectsTyped, HubTyped, NEW S, CloseAll(S)
  PROVE  /\ object' \in [Clients -> ClientState]
         /\ \A o \in Clients : Len(object'[o].send) <= SendCap
         /\ panic' \in {"none", "close", "send", "nil conn"}
<1>1. \A x \in ClientState : [x EXCEPT !.closed = TRUE] \in ClientState
                             /\ [x EXCEPT !.closed = TRUE].send = x.send
  BY DEF ClientState
<1>2. CASE \E o \in S : object[o].closed
  BY <1>2 DEF CloseAll, ObjectsTyped
<1>3. CASE ~\E o \in S : object[o].closed
  <2>1. \A o \in Clients :
          object'[o] = IF o \in S THEN [object[o] EXCEPT !.closed = TRUE] ELSE object[o]
    BY <1>3 DEF CloseAll
  <2>2. \A o \in Clients : object'[o] \in ClientState /\ object'[o].send = object[o].send
    BY <1>1, <2>1 DEF ObjectsTyped
  <2> QED
    BY <1>3, <2>2 DEF CloseAll, ObjectsTyped, HubTyped
<1> QED
  BY <1>2, <1>3

\* The hub's own steps.
LEMMA RunTyped ==
  ASSUME Typed, Run
  PROVE  Typed'
<1> USE DEF Typed
<1>0. <<>> \in Seq(Clients) /\ Len(<<>>) = 0
  BY EmptySeq
<1>1. CASE HubStops
  <2>1. CloseAll(clients)
    BY <1>1 DEF HubStops
  <2>3. panic' \in {"none", "close", "send", "nil conn"} /\ ObjectsTyped'
    BY <1>1, <2>1, CloseAllTyped DEF HubStops, ObjectsTyped
  <2>4. hub' = "ended" /\ clients' = {} /\ count' = 0
    BY <1>1 DEF HubStops
  <2>5. HubTyped'
    <3>1. clients' \subseteq Clients /\ IsFiniteSet(clients') /\ count' \in Int
      BY <2>4, FS_EmptySet
    <3> QED
      BY <2>3, <2>4, <3>1 DEF HubTyped
  <2>2. HubTyped' /\ ObjectsTyped'
    BY <2>3, <2>5
  <2> QED
    BY <1>1, <2>2 DEF HubStops, ChannelsTyped, PumpsTyped, channels, pumps
<1>2. CASE HubRegisters
  <2>3. clients' \subseteq Clients /\ count' \in Int
    BY <1>2, ToSetType, LenProperties DEF HubRegisters, HubTyped, ChannelsTyped
  <2>4. IsFiniteSet(ToSet(register))
    BY ToSetSize DEF ChannelsTyped
  <2>5. IsFiniteSet(clients \cup ToSet(register))
    BY <2>4, FS_Union DEF HubTyped
  <2>6. IsFiniteSet(clients')
    BY <1>2, <2>5 DEF HubRegisters
  <2>1. clients' \subseteq Clients /\ IsFiniteSet(clients') /\ count' \in Int
    BY <2>3, <2>6
  <2>2. HubTyped' /\ ChannelsTyped'
    BY <1>0, <1>2, <2>1, HubAssumption DEF HubRegisters, HubTyped, ChannelsTyped
  <2> QED
    BY <1>2, <2>2 DEF HubRegisters, ObjectsTyped, PumpsTyped, objects, pumps
<1>3. CASE HubUnregisters
  <2>1. IsFiniteSet(ToSet(unregister)) /\ Unregistered \subseteq ToSet(unregister)
    BY ToSetSize DEF Unregistered, ChannelsTyped
  <2>2. Cardinality(Unregistered) \in Nat
    BY <2>1, FS_Subset, FS_CardinalityType
  <2>3. CloseAll(Unregistered)
    BY <1>3 DEF HubUnregisters, Forget
  <2>4. IsFiniteSet(clients')
    BY <1>3, FS_Subset DEF HubUnregisters, Forget, HubTyped
  <2>6. panic' \in {"none", "close", "send", "nil conn"} /\ ObjectsTyped'
    BY <1>3, <2>3, CloseAllTyped DEF HubUnregisters, ObjectsTyped
  <2>7. HubTyped'
    <3>1. clients' \subseteq Clients
      BY <1>3 DEF HubUnregisters, Forget, HubTyped
    <3>2. count' \in Int
      BY <1>3, <2>2 DEF HubUnregisters, Forget, HubTyped
    <3>3. hub' \in {"running", "stopping", "ended"}
      BY <1>3 DEF HubUnregisters, Forget, HubTyped
    <3>4. panic' \in {"none", "close", "send", "nil conn"}
      BY <2>6
    <3> QED
      BY <2>4, <3>1, <3>2, <3>3, <3>4 DEF HubTyped
  <2>5. ChannelsTyped'
    BY <1>0, <1>3, HubAssumption DEF HubUnregisters, ChannelsTyped
  <2> QED
    BY <1>3, <2>5, <2>6, <2>7 DEF HubUnregisters, PumpsTyped, pumps
<1>4. CASE HubBroadcasts
  <2> DEFINE m == Head(broadcast)
  <2>1. /\ m \in Messages /\ Tail(broadcast) \in Seq(Messages)
        /\ Len(Tail(broadcast)) <= BroadcastCap
    BY <1>4, HeadTailProperties, LenProperties, HubAssumption DEF HubBroadcasts, ChannelsTyped
  <2>2. ChannelsTyped'
    BY <1>4, <2>1 DEF HubBroadcasts, ChannelsTyped
  <2>3. Sent(m) \in [Clients -> ClientState] /\ \A o \in Clients : Len(Sent(m)[o].send) <= SendCap
    <3> SUFFICES ASSUME NEW o \in Clients
                 PROVE  Sent(m)[o] \in ClientState /\ Len(Sent(m)[o].send) <= SendCap
      BY DEF Sent
    <3> HIDE DEF m
    <3>1. object[o] \in ClientState /\ Len(object[o].send) <= SendCap /\ object[o].send \in Seq(Messages)
      BY DEF ObjectsTyped, ClientState
    <3>2. [object[o] EXCEPT !.closed = TRUE] \in ClientState
          /\ [object[o] EXCEPT !.closed = TRUE].send = object[o].send
      BY <3>1 DEF ClientState
    <3>3. /\ Append(object[o].send, m) \in Seq(Messages)
          /\ Len(Append(object[o].send, m)) = Len(object[o].send) + 1
      BY <2>1, <3>1, AppendProperties
    <3>4. [object[o] EXCEPT !.send = Append(@, m)] \in ClientState
          /\ [object[o] EXCEPT !.send = Append(@, m)].send = Append(object[o].send, m)
      BY <3>1, <3>3 DEF ClientState
    <3>5. o \in clients \ Slow => Len(object[o].send) < SendCap
      BY <3>1, LenProperties, HubAssumption DEF Slow
    <3>6. Len(object[o].send) \in Nat
      BY <3>1, LenProperties
    <3> QED
      BY <3>1, <3>2, <3>3, <3>4, <3>5, <3>6, HubAssumption DEF Sent
  <2>4. ObjectsTyped' /\ panic' \in {"none", "close", "send", "nil conn"}
    BY <1>4, <2>3 DEF HubBroadcasts, ObjectsTyped, HubTyped
  <2>5. HubTyped'
    <3>1. IsFiniteSet(Dropped) /\ IsFiniteSet(clients \ Dropped)
      BY FS_Subset DEF Dropped, Slow, HubTyped
    <3>2. Cardinality(Dropped) \in Nat
      BY <3>1, FS_CardinalityType
    <3> QED
      <4>1. \/ clients' = clients /\ count' = count
            \/ clients' = clients \ Dropped /\ count' = count - Cardinality(Dropped)
        BY <1>4 DEF HubBroadcasts
      <4>2. clients' \subseteq Clients /\ IsFiniteSet(clients')
        BY <3>1, <4>1 DEF HubTyped
      <4>5. count \in Int
        BY DEF HubTyped
      <4>3. count' \in Int
        BY <3>2, <4>1, <4>5
      <4>4. hub' = hub
        BY <1>4 DEF HubBroadcasts
      <4> QED
        BY <2>4, <4>2, <4>3, <4>4 DEF HubTyped
  <2> QED
    BY <1>4, <2>2, <2>4, <2>5 DEF HubBroadcasts, PumpsTyped, pumps
<1> QED
  BY <1>1, <1>2, <1>3, <1>4 DEF Run

\* The steps of the callers and of ServeWS.
LEMMA CallersTyped ==
  ASSUME Typed, Broadcast \/ Stop \/ \E c \in Conns, o \in Clients : ServeWS(c, o)
  PROVE  Typed'
<1> USE DEF Typed
<1>1. CASE Broadcast
  <2>1. accepted + 1 \in Messages
    BY <1>1, HubAssumption DEF Broadcast, ChannelsTyped, Messages
  <2>2. /\ broadcast' \in Seq(Messages) /\ Len(broadcast') <= BroadcastCap
        /\ accepted' \in 0..MaxMessages
    <3>1. Append(broadcast, accepted + 1) \in Seq(Messages)
          /\ Len(Append(broadcast, accepted + 1)) = Len(broadcast) + 1
      BY <2>1, AppendProperties DEF ChannelsTyped
    <3>2. Len(broadcast) \in Nat /\ Len(broadcast) < BroadcastCap
      BY <1>1, LenProperties DEF Broadcast, ChannelsTyped
    <3> QED
      BY <1>1, <3>1, <3>2, HubAssumption DEF Broadcast, ChannelsTyped
  <2>3. ChannelsTyped'
    BY <1>1, <2>2 DEF Broadcast, ChannelsTyped
  <2> QED
    BY <1>1, <2>3 DEF Broadcast, HubTyped, ObjectsTyped, PumpsTyped, hubVars, objects, pumps
<1>2. CASE Stop
  BY <1>2 DEF Stop, HubTyped, ChannelsTyped, ObjectsTyped, PumpsTyped, channels, objects, pumps
<1>3. ASSUME NEW c \in Conns, NEW o \in Clients, ServeWS(c, o)
      PROVE  Typed'
  <2>1. [object[o] EXCEPT !.conn = c, !.send = <<>>] \in ClientState
        /\ [object[o] EXCEPT !.conn = c, !.send = <<>>].send = <<>>
    BY EmptySeq DEF ObjectsTyped, ClientState
  <2>2. object' = [object EXCEPT ![o] = [object[o] EXCEPT !.conn = c, !.send = <<>>]]
    BY <1>3 DEF ServeWS
  <2>3. object' \in [Clients -> ClientState] /\ \A v \in Clients : Len(object'[v].send) <= SendCap
    BY <2>1, <2>2, EmptySeq, HubAssumption DEF ObjectsTyped
  <2>4. ObjectsTyped'
    BY <1>3, <2>3 DEF ServeWS, ObjectsTyped
  <2>5. PumpsTyped'
    BY <1>3 DEF ServeWS, PumpsTyped
  <2> QED
    BY <1>3, <2>4, <2>5 DEF ServeWS, HubTyped, ChannelsTyped, hubVars, channels
<1> QED
  BY <1>1, <1>2, <1>3

\* The steps of a readPump.
LEMMA ReadsTyped ==
  ASSUME Typed, NEW c \in Conns, Leaves(c) \/ Reads(c)
  PROVE  Typed'
<1> USE DEF Typed
<1>1. CASE Leaves(c)
  BY <1>1 DEF Leaves, HubTyped, ChannelsTyped, ObjectsTyped, PumpsTyped, hubVars, channels, objects
<1>2. CASE Registers(c)
  <2>1. client[c] \in Clients
    BY <1>2 DEF Registers, PumpsTyped
  <2>2. Append(register, client[c]) \in Seq(Clients)
        /\ Len(Append(register, client[c])) = Len(register) + 1 /\ Len(register) \in Nat
    BY <2>1, AppendProperties, LenProperties DEF ChannelsTyped
  <2>3. ChannelsTyped'
    BY <1>2, <2>2, HubAssumption DEF Registers, ChannelsTyped
  <2>4. [pc |-> "idle"] \in WriterState
    BY DEF WriterState
  <2>6. reader' = [reader EXCEPT ![c] = "reading"] /\ writer' = [writer EXCEPT ![c] = [pc |-> "idle"]]
        /\ UNCHANGED <<client, open, written>>
    BY <1>2 DEF Registers, objects
  <2>7. writer' \in [Conns -> WriterState]
    BY <2>4, <2>6 DEF PumpsTyped
  <2>8. reader' \in [Conns -> {"none", "registering", "reading", "leaving", "left"}]
    BY <2>6 DEF PumpsTyped
  <2>9. \A d \in Conns : reader'[d] # "none" \/ writer'[d].pc # "none" => client'[d] \in Clients
    BY <2>1, <2>6 DEF PumpsTyped
  <2>5. PumpsTyped'
    BY <2>6, <2>7, <2>8, <2>9 DEF PumpsTyped
  <2> QED
    BY <1>2, <2>3, <2>5 DEF Registers, HubTyped, ObjectsTyped, hubVars, objects
<1>3. CASE Unregisters(c)
  <2>1. client[c] \in Clients
    BY <1>3 DEF Unregisters, PumpsTyped
  <2>2. Append(unregister, client[c]) \in Seq(Clients)
        /\ Len(Append(unregister, client[c])) = Len(unregister) + 1 /\ Len(unregister) \in Nat
    BY <2>1, AppendProperties, LenProperties DEF ChannelsTyped
  <2>3. ChannelsTyped'
    BY <1>3, <2>2, HubAssumption DEF Unregisters, ChannelsTyped
  <2>5. reader' = [reader EXCEPT ![c] = "leaving"] /\ UNCHANGED <<client, open, written, writer>>
    BY <1>3 DEF Unregisters, objects
  <2>6. reader' \in [Conns -> {"none", "registering", "reading", "leaving", "left"}]
    BY <2>5 DEF PumpsTyped
  <2>7. \A d \in Conns : reader'[d] # "none" \/ writer'[d].pc # "none" => client'[d] \in Clients
    BY <2>1, <2>5 DEF PumpsTyped
  <2>4. PumpsTyped'
    BY <2>5, <2>6, <2>7 DEF PumpsTyped
  <2> QED
    BY <1>3, <2>3, <2>4 DEF Unregisters, HubTyped, ObjectsTyped, hubVars, objects
<1>4. CASE Return(c)
  <2> DEFINE o == client[c]
  <2>1. o \in Clients
    BY <1>4 DEF Return, PumpsTyped
  <2>2. [object[o] EXCEPT !.conn = NoConn, !.send = <<>>] \in ClientState
        /\ [object[o] EXCEPT !.conn = NoConn, !.send = <<>>].send = <<>>
    BY <2>1, EmptySeq DEF ObjectsTyped, ClientState
  <2>3. object' = [object EXCEPT ![o] = [object[o] EXCEPT !.conn = NoConn, !.send = <<>>]]
    BY <1>4 DEF Return
  <2>4. object' \in [Clients -> ClientState] /\ \A v \in Clients : Len(object'[v].send) <= SendCap
    <3>1. \A v \in Clients : object'[v] \in ClientState
                            /\ (object'[v].send = <<>> \/ object'[v].send = object[v].send)
      BY <2>1, <2>2, <2>3 DEF ObjectsTyped
    <3>2. Len(<<>>) <= SendCap
      BY EmptySeq, HubAssumption
    <3>3. DOMAIN object' = Clients /\ object' = [v \in Clients |-> object'[v]]
      BY <2>3 DEF ObjectsTyped
    <3> QED
      BY <3>1, <3>2, <3>3 DEF ObjectsTyped
  <2>5. ObjectsTyped'
    BY <1>4, <2>1, <2>4 DEF Return, ObjectsTyped
  <2>6. PumpsTyped'
    BY <1>4 DEF Return, PumpsTyped
  <2> QED
    BY <1>4, <2>5, <2>6 DEF Return, HubTyped, ChannelsTyped, hubVars, channels
<1> QED
  BY <1>1, <1>2, <1>3, <1>4 DEF Reads

\* The steps of a writePump.
LEMMA PumpsStepTyped ==
  ASSUME Typed, NEW c \in Conns, Pumps(c)
  PROVE  Typed'
<1> USE DEF Typed
<1> DEFINE o == client[c]
<1>0. writer[c].pc # "none" => o \in Clients
  BY DEF PumpsTyped
<1>1. CASE Receives(c)
  <2>1. o \in Clients /\ object[o].send \in Seq(Messages)
    BY <1>0, <1>1 DEF Receives, ObjectsTyped, ClientState
  <2>2. CASE object[o].send # <<>>
    <3>1. /\ Head(object[o].send) \in Messages /\ Tail(object[o].send) \in Seq(Messages)
          /\ Len(Tail(object[o].send)) <= SendCap
      BY <2>1, <2>2, HeadTailProperties, LenProperties, HubAssumption DEF ObjectsTyped
    <3>2. object' = [object EXCEPT ![o].send = Tail(@)]
          /\ writer' = [writer EXCEPT ![c] = [pc |-> "holding", msg |-> Head(object[o].send)]]
      BY <1>1, <2>2 DEF Receives, Its
    <3>3. [object[o] EXCEPT !.send = Tail(@)] \in ClientState
          /\ [object[o] EXCEPT !.send = Tail(@)].send = Tail(object[o].send)
      BY <2>1, <3>1 DEF ObjectsTyped, ClientState
    <3>4. object' \in [Clients -> ClientState] /\ \A v \in Clients : Len(object'[v].send) <= SendCap
      BY <3>1, <3>2, <3>3 DEF ObjectsTyped
    <3>5. ObjectsTyped'
      BY <1>1, <3>4 DEF Receives, ObjectsTyped
    <3>6. [pc |-> "holding", msg |-> Head(object[o].send)] \in WriterState
      BY <3>1 DEF WriterState
    <3>7. PumpsTyped'
      BY <1>1, <2>1, <3>2, <3>6 DEF Receives, PumpsTyped
    <3> QED
      BY <1>1, <3>5, <3>7 DEF Receives, HubTyped, ChannelsTyped, hubVars, channels
  <2>3. CASE object[o].send = <<>>
    <3>1. writer' = [writer EXCEPT ![c] = [pc |-> "told"]] /\ UNCHANGED object
      BY <1>1, <2>3 DEF Receives, Its
    <3>2. [pc |-> "told"] \in WriterState
      BY DEF WriterState
    <3>3. PumpsTyped'
      BY <1>1, <2>1, <3>1, <3>2 DEF Receives, PumpsTyped
    <3> QED
      BY <1>1, <3>1, <3>3 DEF Receives, HubTyped, ChannelsTyped, ObjectsTyped, hubVars, channels
  <2> QED
    BY <2>2, <2>3
<1>2. CASE Lost(c)
  BY <1>2 DEF Lost, HubTyped, ChannelsTyped, ObjectsTyped, PumpsTyped, hubVars, channels, objects, pumps
<1>3. CASE Writes(c)
  <2>1. o \in Clients /\ object[o].send \in Seq(Messages) /\ writer[c].msg \in Messages
    BY <1>0, <1>3 DEF Writes, ObjectsTyped, PumpsTyped, ClientState, WriterState
  <2>2. CASE Its(c).conn \in open
    <3> DEFINE d == Its(c).conn
    <3>1. d \in Conns
      BY <2>2 DEF PumpsTyped
    <3>2. /\ written' = [written EXCEPT ![d] = Append(@, writer[c].msg) \o object[o].send]
          /\ object' = [object EXCEPT ![o].send = <<>>]
          /\ writer' = [writer EXCEPT ![c] = [pc |-> "idle"]]
      BY <1>3, <2>2 DEF Writes, Its
    <3>3. Append(written[d], writer[c].msg) \o object[o].send \in Seq(Messages)
      BY <2>1, <3>1, AppendProperties, ConcatProperties DEF PumpsTyped
    <3>4. [object[o] EXCEPT !.send = <<>>] \in ClientState
          /\ [object[o] EXCEPT !.send = <<>>].send = <<>>
      BY <2>1, EmptySeq DEF ObjectsTyped, ClientState
    <3>9. o \in Clients
      BY <2>1
    <3>5. object' \in [Clients -> ClientState] /\ \A v \in Clients : Len(object'[v].send) <= SendCap
      <4> HIDE DEF o
      <4>4. object' = [object EXCEPT ![o] = [object[o] EXCEPT !.send = <<>>]]
        BY <3>2
      <4>1. \A v \in Clients : object'[v] \in ClientState
                              /\ (object'[v].send = <<>> \/ object'[v].send = object[v].send)
        BY <3>9, <3>4, <4>4 DEF ObjectsTyped
      <4>2. Len(<<>>) <= SendCap
        BY EmptySeq, HubAssumption
      <4>3. DOMAIN object' = Clients /\ object' = [v \in Clients |-> object'[v]]
        BY <4>4 DEF ObjectsTyped
      <4> QED
        BY <4>1, <4>2, <4>3 DEF ObjectsTyped
    <3>6. ObjectsTyped'
      BY <1>3, <3>5 DEF Writes, ObjectsTyped
    <3>7. [pc |-> "idle"] \in WriterState
      BY DEF WriterState
    <3>8. PumpsTyped'
      <4> HIDE DEF d
      <4> QED
        BY <1>3, <2>1, <3>1, <3>2, <3>3, <3>7 DEF Writes, PumpsTyped
    <3> QED
      BY <1>3, <3>6, <3>8 DEF Writes, HubTyped, ChannelsTyped, hubVars, channels
  <2>3. CASE Its(c).conn \notin open
    <3>1. writer' = [writer EXCEPT ![c] = [pc |-> "told"]] /\ UNCHANGED <<written, object>>
      BY <1>3, <2>3 DEF Writes
    <3>2. [pc |-> "told"] \in WriterState
      BY DEF WriterState
    <3>3. PumpsTyped'
      BY <1>3, <2>1, <3>1, <3>2 DEF Writes, PumpsTyped
    <3> QED
      BY <1>3, <3>1, <3>3 DEF Writes, HubTyped, ChannelsTyped, ObjectsTyped, hubVars, channels
  <2> QED
    BY <2>2, <2>3
<1>4. CASE Ticks(c)
  <2>1. o \in Clients /\ [pc |-> "told"] \in WriterState
    BY <1>0, <1>4 DEF Ticks, WriterState
  <2>2. PumpsTyped'
    BY <1>4, <2>1 DEF Ticks, PumpsTyped, objects
  <2> QED
    BY <1>4, <2>2 DEF Ticks, HubTyped, ChannelsTyped, ObjectsTyped, hubVars, channels, objects
<1>5. CASE Ends(c)
  <2>1. o \in Clients /\ [pc |-> "ended"] \in WriterState
    BY <1>0, <1>5 DEF Ends, WriterState
  <2>2. PumpsTyped'
    BY <1>5, <2>1 DEF Ends, PumpsTyped, objects
  <2> QED
    BY <1>5, <2>2 DEF Ends, HubTyped, ChannelsTyped, ObjectsTyped, hubVars, channels, objects
<1> QED
  BY <1>1, <1>2, <1>3, <1>4, <1>5 DEF Pumps

\* Every step keeps the types.
LEMMA NextTyped == Typed /\ [Next]_vars => Typed'
<1> SUFFICES ASSUME Typed, [Next]_vars
             PROVE  Typed'
  OBVIOUS
<1>1. CASE Next
  BY <1>1, RunTyped, CallersTyped, ReadsTyped, PumpsStepTyped DEF Next
<1>2. CASE UNCHANGED vars
  BY <1>2 DEF vars, hubVars, channels, objects, pumps, Typed, HubTyped, ChannelsTyped,
              ObjectsTyped, PumpsTyped
<1> QED
  BY <1>1, <1>2

\* Every variable keeps its type, and no channel ever holds more than its buffer.
THEOREM HubTypeCorrect == Spec => []TypeOK
BY InitTyped, NextTyped, TypedIsTypeOK, PTL DEF Spec
-----------------------------------------------------------------------------
(* The panics of Run, and its count.                                        *)

Registered == ToSet(register)

\* A structure that no connection had is nowhere.
NeverHanded ==
  \A o \in Clients : handed[o] = 0 =>
    /\ o \notin clients /\ o \notin Registered /\ ~object[o].closed
    /\ \A c \in Conns : client[c] # o

\* A structure that was given once belongs to one connection,
OneOwner ==
  \A c, d \in Conns : client[c] = client[d] /\ client[c] \in Clients /\ Single(client[c]) => c = d

\* which has not registered it while its ServeWS is about to,
BeforeHub ==
  \A c \in Conns : reader[c] = "registering" /\ client[c] \in Clients /\ Single(client[c]) =>
    client[c] \notin Registered /\ client[c] \notin clients /\ ~object[client[c]].closed

\* and registers it once.
InRegister ==
  /\ \A o \in Registered : Single(o) => o \notin clients /\ ~object[o].closed
  /\ \A i, j \in DOMAIN register : register[i] = register[j] /\ Single(register[i]) => i = j

\* Run closes the channel of no client that it keeps.
OpenChannels == \A o \in clients : Single(o) => ~object[o].closed

Reuse ==
  NeverHanded /\ OneOwner /\ BeforeHub /\ InRegister /\ OpenChannels /\ CountCovers /\ HubPanicsByReuse

LEMMA InitReuse == Init => Reuse
<1> SUFFICES ASSUME Init PROVE Reuse
  OBVIOUS
<1>1. Registered = {} /\ DOMAIN register = {}
  BY ToSetEmpty, EmptySeq DEF Init, Registered
<1>2. NeverHanded
  BY <1>1, HubAssumption DEF Init, NeverHanded, Fresh
<1>3. OneOwner /\ BeforeHub /\ InRegister /\ OpenChannels
  BY <1>1, HubAssumption DEF Init, OneOwner, BeforeHub, InRegister, OpenChannels
<1>4. CountCovers /\ HubPanicsByReuse
  BY FS_EmptySet DEF Init, CountCovers, HubPanicsByReuse
<1> QED
  BY <1>2, <1>3, <1>4 DEF Reuse

\* A step that only moves messages, readers and writers.
LEMMA ElsewhereReuse ==
  ASSUME Typed, Reuse, UNCHANGED <<clients, count, register, handed, client>>,
         panic' = panic \/ (panic = "none" /\ panic' = "nil conn"),
         \A o \in Clients : object'[o].closed = object[o].closed,
         \A c \in Conns : reader'[c] = "registering" => reader[c] = "registering"
  PROVE  Reuse'
<1>1. Registered' = Registered /\ \A o : Single(o)' <=> Single(o)
  BY DEF Registered, Single
<1>6. Registered \subseteq Clients /\ clients \subseteq Clients
  BY ToSetType DEF Registered, Typed, ChannelsTyped, HubTyped
<1>2. NeverHanded'
  BY <1>1 DEF Reuse, NeverHanded
<1>3. OneOwner' /\ OpenChannels'
  BY <1>1, <1>6 DEF Reuse, OneOwner, OpenChannels
<1>7. BeforeHub'
  BY <1>1 DEF Reuse, BeforeHub
<1>8. InRegister'
  BY <1>1, <1>6 DEF Reuse, InRegister
<1>4. BeforeHub' /\ InRegister'
  BY <1>7, <1>8
<1>5. CountCovers' /\ HubPanicsByReuse'
  BY <1>1 DEF Reuse, CountCovers, HubPanicsByReuse
<1> QED
  BY <1>2, <1>3, <1>4, <1>5 DEF Reuse

\* Clients that are forgotten and closed; a panic needs one that is closed already.
LEMMA ForgetReuse ==
  ASSUME Typed, Reuse, NEW S \in SUBSET clients,
         panic = "none", UNCHANGED <<register, handed, client, reader>>,
         clients' = clients \ S, count' \in Int,
         count' = count - Cardinality(S) \/ (count' = 0 /\ S = clients),
         \/ panic' = "none" /\ \A o \in Clients : object'[o].closed = (object[o].closed \/ o \in S)
         \/ /\ panic' \in {"close", "send"} /\ UNCHANGED object
            /\ \E o \in clients : object[o].closed
  PROVE  Reuse'
<1> USE DEF Typed
<1>1. Registered' = Registered /\ \A o : Single(o)' <=> Single(o)
  BY DEF Registered, Single
<1>2. clients \subseteq Clients /\ clients' \subseteq clients
  BY DEF HubTyped
<1>3. \A o \in Clients : object'[o].closed => object[o].closed \/ o \in S
  OBVIOUS
<1>4. NeverHanded'
  BY <1>1, <1>2, <1>3 DEF Reuse, NeverHanded
<1>5. OneOwner'
  BY <1>1 DEF Reuse, OneOwner
<1>6. BeforeHub'
  BY <1>1, <1>2, <1>3 DEF Reuse, BeforeHub
<1>7. InRegister'
  <2>1. Registered \subseteq Clients
    BY ToSetType DEF Registered, ChannelsTyped
  <2> QED
    BY <1>1, <1>2, <1>3, <2>1 DEF Reuse, InRegister
<1>8. OpenChannels'
  BY <1>1, <1>2, <1>3 DEF Reuse, OpenChannels
<1>9. CountCovers'
  <2>1. IsFiniteSet(clients) /\ IsFiniteSet(S) /\ count \in Int /\ clients \cap S = S
    BY FS_Subset DEF HubTyped
  <2>2. Cardinality(clients \ S) = Cardinality(clients) - Cardinality(S)
    BY <2>1, FS_Difference
  <2>3. S = clients => Cardinality(clients \ S) = 0
    BY FS_EmptySet
  <2>4. Cardinality(clients) \in Nat /\ Cardinality(S) \in Nat
    BY <2>1, FS_CardinalityType
  <2>5. (\A o \in Clients : Single(o)') => \A o \in Clients : Single(o)
    BY <1>1
  <2>6. count >= Cardinality(clients)
        /\ ((\A o \in Clients : Single(o)) => count = Cardinality(clients))
    BY DEF Reuse, CountCovers
  <2> QED
    BY <2>1, <2>2, <2>3, <2>4, <2>5, <2>6 DEF CountCovers
<1>10. HubPanicsByReuse'
  BY <1>1, <1>2 DEF Reuse, OpenChannels, HubPanicsByReuse
<1> QED
  BY <1>4, <1>5, <1>6, <1>7, <1>8, <1>9, <1>10 DEF Reuse

\* The structures that wait in the register channel join the clients.
LEMMA RegistersReuse ==
  ASSUME Typed, Reuse, HubRegisters
  PROVE  Reuse'
<1> USE DEF Typed
<1>1. /\ clients' = clients \cup Registered /\ count' = count + Len(register)
      /\ register' = <<>> /\ UNCHANGED <<object, handed, client, reader, panic>>
  BY DEF HubRegisters, Registered, objects, pumps
<1>2. Registered' = {} /\ DOMAIN register' = {} /\ \A o : Single(o)' <=> Single(o)
  BY <1>1, ToSetEmpty, EmptySeq DEF Registered, Single
<1>3. NeverHanded'
  BY <1>1, <1>2 DEF Reuse, NeverHanded
<1>4. OneOwner'
  BY <1>1, <1>2 DEF Reuse, OneOwner
<1>5. BeforeHub'
  BY <1>1, <1>2 DEF Reuse, BeforeHub
<1>6. InRegister'
  BY <1>1, <1>2 DEF Reuse, InRegister
<1>7. OpenChannels'
  BY <1>1, <1>2 DEF Reuse, OpenChannels, InRegister
<1>8. CountCovers'
  <2>1. /\ IsFiniteSet(Registered) /\ Cardinality(Registered) <= Len(register)
        /\ (\A i, j \in DOMAIN register : register[i] = register[j] => i = j)
           => Cardinality(Registered) = Len(register)
    BY ToSetSize DEF ChannelsTyped, Registered
  <2>2. IsFiniteSet(clients) /\ IsFiniteSet(clients \cap Registered)
    BY FS_Subset DEF HubTyped
  <2>3. Cardinality(clients \cup Registered)
          = Cardinality(clients) + Cardinality(Registered) - Cardinality(clients \cap Registered)
    BY <2>1, <2>2, FS_Union
  <2>4. /\ Cardinality(clients) \in Nat /\ Cardinality(Registered) \in Nat
        /\ Cardinality(clients \cap Registered) \in Nat
        /\ Len(register) \in Nat /\ count \in Int
    BY <2>1, <2>2, FS_CardinalityType, LenProperties DEF ChannelsTyped, HubTyped
  <2>5. count >= Cardinality(clients)
    BY DEF Reuse, CountCovers
  <2>6. ASSUME \A o \in Clients : Single(o), panic = "none"
        PROVE  count' = Cardinality(clients')
    <3>1. count = Cardinality(clients)
      BY <2>6 DEF Reuse, CountCovers
    <3>2. Registered \subseteq Clients /\ \A i \in DOMAIN register : register[i] \in Clients
      BY ToSetType, LenProperties DEF Registered, ChannelsTyped
    <3>3. clients \cap Registered = {}
      BY <2>6, <3>2 DEF Reuse, InRegister
    <3>4. Cardinality(Registered) = Len(register)
      BY <2>1, <2>6, <3>2 DEF Reuse, InRegister
    <3>5. Cardinality(clients \cap Registered) = 0
      BY <3>3, FS_EmptySet
    <3> QED
      BY <1>1, <2>3, <2>4, <3>1, <3>4, <3>5
  <2>7. count' >= Cardinality(clients')
    BY <1>1, <2>1, <2>3, <2>4, <2>5
  <2> QED
    BY <1>1, <1>2, <2>6, <2>7 DEF CountCovers
<1>9. HubPanicsByReuse'
  BY <1>1, <1>2 DEF Reuse, HubPanicsByReuse
<1> QED
  BY <1>3, <1>4, <1>5, <1>6, <1>7, <1>8, <1>9 DEF Reuse

\* What CloseAll does of channels that are closed.
LEMMA CloseAllCloses ==
  ASSUME ObjectsTyped, NEW S, CloseAll(S), panic = "none"
  PROVE  \/ panic' = "none" /\ \A o \in Clients : object'[o].closed = (object[o].closed \/ o \in S)
         \/ panic' \in {"close", "send"} /\ UNCHANGED object /\ \E o \in S : object[o].closed
<1>1. CASE \E o \in S : object[o].closed
  BY <1>1 DEF CloseAll
<1>2. CASE ~\E o \in S : object[o].closed
  <2>1. \A o \in Clients :
          object'[o] = IF o \in S THEN [object[o] EXCEPT !.closed = TRUE] ELSE object[o]
    BY <1>2 DEF CloseAll
  <2>2. \A o \in Clients : object[o] \in ClientState
    BY DEF ObjectsTyped
  <2>3. \A o \in Clients : object'[o].closed = (object[o].closed \/ o \in S)
    BY <2>1, <2>2 DEF ClientState
  <2> QED
    BY <1>2, <2>3 DEF CloseAll
<1> QED
  BY <1>1, <1>2

\* The hub's own steps.
LEMMA RunReuse ==
  ASSUME Typed, Reuse, Run
  PROVE  Reuse'
<1> USE DEF Typed
<1>0. count' \in Int
  BY RunTyped DEF HubTyped
<1>1. CASE HubStops
  <2>1. /\ CloseAll(clients) /\ clients' = clients \ clients /\ count' = 0 /\ panic = "none"
        /\ UNCHANGED <<register, handed, client, reader>>
    BY <1>1 DEF HubStops, channels, pumps
  <2> QED
    BY <1>0, <2>1, CloseAllCloses, ForgetReuse
<1>2. CASE HubRegisters
  BY <1>2, RegistersReuse
<1>3. CASE HubUnregisters
  <2>1. /\ CloseAll(Unregistered) /\ clients' = clients \ Unregistered
        /\ count' = count - Cardinality(Unregistered) /\ panic = "none"
        /\ UNCHANGED <<register, handed, client, reader>> /\ Unregistered \in SUBSET clients
    BY <1>3 DEF HubUnregisters, Forget, Unregistered, pumps
  <2>2. \/ panic' = "none"
           /\ \A o \in Clients : object'[o].closed = (object[o].closed \/ o \in Unregistered)
        \/ panic' \in {"close", "send"} /\ UNCHANGED object /\ \E o \in clients : object[o].closed
    BY <2>1, CloseAllCloses
  <2> QED
    BY <1>0, <2>1, <2>2, ForgetReuse
<1>4. CASE HubBroadcasts
  <2>1. panic = "none" /\ UNCHANGED <<register, handed, client, reader>>
    BY <1>4 DEF HubBroadcasts, pumps
  <2>2. CASE \E o \in clients : object[o].closed
    <3>1. panic' = "send" /\ UNCHANGED <<object, clients, count>>
      BY <1>4, <2>2 DEF HubBroadcasts
    <3>2. {} \in SUBSET clients /\ clients' = clients \ {} /\ Cardinality({}) = 0
      BY <3>1, FS_EmptySet
    <3>4. count \in Int
      BY DEF HubTyped
    <3>3. count' = count - Cardinality({})
      BY <3>1, <3>2, <3>4
    <3> QED
      BY <1>0, <2>1, <2>2, <3>1, <3>2, <3>3, ForgetReuse
  <2>3. CASE ~\E o \in clients : object[o].closed
    <3>1. /\ object' = Sent(Head(broadcast)) /\ clients' = clients \ Dropped
          /\ count' = count - Cardinality(Dropped) /\ panic' = "none"
      BY <1>4, <2>1, <2>3 DEF HubBroadcasts
    <3>2. Dropped \in SUBSET clients
      BY DEF Dropped, Slow
    <3>3. \A o \in Clients : object'[o].closed = (object[o].closed \/ o \in Dropped)
      <4>1. \A o \in Clients : object[o] \in ClientState
        BY DEF ObjectsTyped
      <4> QED
        BY <3>1, <4>1 DEF Sent, ClientState
    <3> QED
      BY <1>0, <2>1, <3>1, <3>2, <3>3, ForgetReuse
  <2> QED
    BY <2>2, <2>3
<1> QED
  BY <1>1, <1>2, <1>3, <1>4 DEF Run

\* A connection is given a structure.
LEMMA ServeReuse ==
  ASSUME Typed, Reuse, NEW c \in Conns, NEW o \in Clients, ServeWS(c, o)
  PROVE  Reuse'
<1> USE DEF Typed
<1>1. /\ handed' = [handed EXCEPT ![o] = @ + 1] /\ client' = [client EXCEPT ![c] = o]
      /\ object' = [object EXCEPT ![o].conn = c, ![o].send = <<>>]
      /\ reader' = [reader EXCEPT ![c] = "registering"]
      /\ UNCHANGED <<clients, count, register, panic>> /\ panic = "none"
  BY DEF ServeWS, hubVars, channels
<1>2. \A v \in Clients : object'[v].closed = object[v].closed
  BY <1>1 DEF ObjectsTyped, ClientState
<1>3. /\ handed'[o] = handed[o] + 1 /\ handed[o] \in Nat
      /\ \A v \in Clients : v # o => handed'[v] = handed[v]
  BY <1>1 DEF ObjectsTyped
<1>4. \A v \in Clients : Single(v)' => Single(v) /\ (v = o => handed[o] = 0)
  BY <1>3 DEF Single
<1>5. client'[c] = o /\ \A d \in Conns : d # c => client'[d] = client[d]
  BY <1>1 DEF PumpsTyped
<1>6. Registered' = Registered /\ Registered \subseteq Clients
  BY <1>1, ToSetType DEF Registered, ChannelsTyped
<1>7. NeverHanded'
  <2>1. \A v \in Clients : handed'[v] = 0 => handed[v] = 0 /\ v # o
    BY <1>3
  <2> QED
    BY <1>1, <1>2, <1>5, <1>6, <2>1 DEF Reuse, NeverHanded
<1>8. OneOwner'
  BY <1>4, <1>5 DEF Reuse, OneOwner, NeverHanded
<1>9. BeforeHub'
  <2>1. \A d \in Conns : d # c => reader'[d] = reader[d]
    BY <1>1 DEF PumpsTyped
  <2>2. \A d \in Conns : client'[d] \in Clients /\ client'[d] = o /\ Single(o)' =>
          o \notin Registered /\ o \notin clients /\ ~object[o].closed
    BY <1>4 DEF Reuse, NeverHanded
  <2> SUFFICES ASSUME NEW d \in Conns, reader'[d] = "registering", client'[d] \in Clients,
                      handed'[client'[d]] <= 1
               PROVE  /\ client'[d] \notin Registered' /\ client'[d] \notin clients'
                      /\ ~object'[client'[d]].closed
    BY DEF BeforeHub, Single
  <2>3. CASE client'[d] = o
    <3>1. o \notin Registered /\ o \notin clients /\ ~object[o].closed
      BY <2>2, <2>3 DEF Single
    <3>2. object'[o].closed = object[o].closed /\ clients' = clients
      BY <1>1, <1>2
    <3> QED
      BY <1>6, <2>3, <3>1, <3>2
  <2>4. CASE client'[d] # o
    <3>1. d # c /\ client'[d] = client[d] /\ reader[d] = "registering" /\ Single(client[d])
      BY <1>4, <1>5, <2>1, <2>4 DEF Single
    <3>2. client[d] \in Clients
      BY <3>1
    <3>3. client[d] \notin Registered /\ client[d] \notin clients /\ ~object[client[d]].closed
      BY <3>1, <3>2 DEF Reuse, BeforeHub
    <3>4. object'[client[d]].closed = object[client[d]].closed /\ clients' = clients
      BY <1>1, <1>2, <3>2
    <3> QED
      BY <1>6, <3>1, <3>3, <3>4
  <2> QED
    BY <2>3, <2>4
<1>10. InRegister'
  <2>1. \A i \in DOMAIN register : register[i] \in Clients
    BY LenProperties DEF ChannelsTyped
  <2> QED
    BY <1>1, <1>2, <1>4, <1>6, <2>1 DEF Reuse, InRegister
<1>11. OpenChannels'
  BY <1>1, <1>2, <1>4 DEF Reuse, OpenChannels, HubTyped
<1>12. CountCovers'
  BY <1>1, <1>4 DEF Reuse, CountCovers
<1>13. HubPanicsByReuse'
  BY <1>1 DEF HubPanicsByReuse
<1> QED
  BY <1>7, <1>8, <1>9, <1>10, <1>11, <1>12, <1>13 DEF Reuse

\* A connection registers its structure.
LEMMA EntersReuse ==
  ASSUME Typed, Reuse, NEW c \in Conns, Registers(c)
  PROVE  Reuse'
<1> USE DEF Typed
<1> DEFINE o == client[c]
<1>1. /\ reader[c] = "registering" /\ o \in Clients /\ register \in Seq(Clients)
      /\ register' = Append(register, o) /\ reader' = [reader EXCEPT ![c] = "reading"]
      /\ UNCHANGED <<clients, count, object, handed, client, panic>>
  BY DEF Registers, PumpsTyped, ChannelsTyped, hubVars, objects
<1> HIDE DEF o
<1>2. Registered' = Registered \cup {o} /\ \A v : Single(v)' <=> Single(v)
  BY <1>1, ToSetAppend DEF Registered, Single
<1>3. Single(o) => o \notin Registered /\ o \notin clients /\ ~object[o].closed
  BY <1>1 DEF o, Reuse, BeforeHub
<1>4. NeverHanded'
  BY <1>1, <1>2 DEF Reuse, NeverHanded, o
<1>5. OneOwner'
  BY <1>1, <1>2 DEF Reuse, OneOwner
<1>6. BeforeHub'
  <2>1. \A d \in Conns : reader'[d] = "registering" => d # c /\ reader[d] = "registering"
    BY <1>1 DEF PumpsTyped
  <2>2. \A d \in Conns : client[d] \in Clients /\ Single(client[d]) /\ d # c => client[d] # o
    BY DEF o, Reuse, OneOwner
  <2> QED
    BY <1>1, <1>2, <2>1, <2>2 DEF Reuse, BeforeHub
<1>7. InRegister'
  <2>1. /\ Len(register) \in Nat /\ DOMAIN register = 1..Len(register)
        /\ DOMAIN register' = 1..Len(register) + 1
        /\ \A i \in 1..Len(register) : register'[i] = register[i]
        /\ register'[Len(register) + 1] = o
    BY <1>1, AppendProperties, LenProperties
  <2>2. \A i \in DOMAIN register : register[i] \in Registered
    BY <2>1 DEF Registered, ToSet
  <2>3. \A i, j \in DOMAIN register' :
          register'[i] = register'[j] /\ Single(register'[i]) => i = j
    BY <1>3, <2>1, <2>2 DEF Reuse, InRegister
  <2> QED
    BY <1>1, <1>2, <1>3, <2>3 DEF Reuse, InRegister
<1>8. OpenChannels'
  BY <1>1, <1>2 DEF Reuse, OpenChannels
<1>9. CountCovers' /\ HubPanicsByReuse'
  BY <1>1, <1>2 DEF Reuse, CountCovers, HubPanicsByReuse
<1> QED
  BY <1>4, <1>5, <1>6, <1>7, <1>8, <1>9 DEF Reuse

\* What a structure's channel holds is no matter of whether it is closed.
LEMMA ExceptSend ==
  ASSUME object \in [Clients -> ClientState], NEW o, NEW f
  PROVE  \A v \in Clients : [object EXCEPT ![o].send = f][v].closed = object[v].closed
<1> SUFFICES ASSUME NEW v \in Clients
             PROVE  [object EXCEPT ![o] = [object[o] EXCEPT !.send = f]][v].closed = object[v].closed
  OBVIOUS
<1>1. object[v] \in ClientState
  OBVIOUS
<1>2. [object[v] EXCEPT !.send = f].closed = object[v].closed
  BY <1>1 DEF ClientState
<1> QED
  BY <1>2

\* The steps of the goroutines of a connection.
LEMMA ConnReuse ==
  ASSUME Typed, Reuse, NEW c \in Conns, Leaves(c) \/ Reads(c) \/ Pumps(c)
  PROVE  Reuse'
<1> USE DEF Typed
<1>0. \A v \in Clients : object[v] \in ClientState
  BY DEF ObjectsTyped
<1>1. CASE Leaves(c)
  BY <1>1, ElsewhereReuse DEF Leaves, hubVars, channels, objects
<1>2. CASE Registers(c)
  BY <1>2, EntersReuse
<1>3. CASE Unregisters(c)
  BY <1>3, ElsewhereReuse DEF Unregisters, hubVars, objects, PumpsTyped
<1>4. CASE Return(c)
  <2>1. \A v \in Clients : object'[v].closed = object[v].closed
    BY <1>0, <1>4 DEF Return, ObjectsTyped, ClientState
  <2> QED
    BY <1>4, <2>1, ElsewhereReuse DEF Return, hubVars, channels, PumpsTyped
<1>5. CASE Receives(c)
  <2>1. \A v \in Clients : object'[v].closed = object[v].closed
    <3>1. object' = [object EXCEPT ![client[c]].send = Tail(object[client[c]].send)] \/ object' = object
      BY <1>5 DEF Receives
    <3>2. object \in [Clients -> ClientState]
      BY DEF ObjectsTyped
    <3>3. CASE object' = [object EXCEPT ![client[c]].send = Tail(object[client[c]].send)]
      <4>1. \A v \in Clients :
              [object EXCEPT ![client[c]].send = Tail(object[client[c]].send)][v].closed
                = object[v].closed
        BY <3>2, ExceptSend
      <4> QED
        BY <3>3, <4>1
    <3> QED
      BY <3>1, <3>3
  <2> QED
    BY <1>5, <2>1, ElsewhereReuse DEF Receives, hubVars, channels
<1>6. CASE Lost(c)
  BY <1>6, ElsewhereReuse DEF Lost, hubVars, channels, objects, pumps
<1>7. CASE Writes(c)
  <2>1. \A v \in Clients : object'[v].closed = object[v].closed
    <3>1. object' = [object EXCEPT ![client[c]].send = <<>>] \/ object' = object
      BY <1>7 DEF Writes
    <3>2. object \in [Clients -> ClientState]
      BY DEF ObjectsTyped
    <3>3. CASE object' = [object EXCEPT ![client[c]].send = <<>>]
      <4>1. \A v \in Clients :
              [object EXCEPT ![client[c]].send = <<>>][v].closed = object[v].closed
        BY <3>2, ExceptSend
      <4> QED
        BY <3>3, <4>1
    <3> QED
      BY <3>1, <3>3
  <2>2. UNCHANGED <<clients, count, register, handed, client, reader, panic>>
    BY <1>7 DEF Writes, hubVars, channels
  <2> QED
    BY <2>1, <2>2, ElsewhereReuse
<1>8. CASE Ticks(c)
  BY <1>8, ElsewhereReuse DEF Ticks, hubVars, channels, objects
<1>9. CASE Ends(c)
  BY <1>9, ElsewhereReuse DEF Ends, hubVars, channels, objects
<1> QED
  BY <1>1, <1>2, <1>3, <1>4, <1>5, <1>6, <1>7, <1>8, <1>9 DEF Reads, Pumps

\* Every step keeps what Run relies on.
LEMMA NextReuse == Typed /\ Reuse /\ [Next]_vars => Reuse'
<1> SUFFICES ASSUME Typed, Reuse, [Next]_vars
             PROVE  Reuse'
  OBVIOUS
<1>1. CASE Run
  BY <1>1, RunReuse
<1>2. CASE Broadcast
  BY <1>2, ElsewhereReuse DEF Broadcast, hubVars, objects, pumps
<1>3. CASE Stop
  BY <1>3, ElsewhereReuse DEF Stop, channels, objects, pumps
<1>4. CASE UNCHANGED vars
  BY <1>4, ElsewhereReuse DEF vars, hubVars, channels, objects, pumps
<1> QED
  BY <1>1, <1>2, <1>3, <1>4, ServeReuse, ConnReuse DEF Next

LEMMA ReuseInvariant == Spec => []Reuse
BY InitTyped, NextTyped, InitReuse, NextReuse, PTL DEF Spec

\* Run never panics over a structure that one connection has had: what its two panics
\* need is that the pool gave a structure a second time.
THEOREM HubPanicsOnlyByReuse == Spec => []HubPanicsByReuse
<1>1. Reuse => HubPanicsByReuse
  BY DEF Reuse
<1> QED
  BY <1>1, ReuseInvariant, PTL

\* The count that the status shows covers the clients, and is exact until a structure
\* is used again.
THEOREM CountIsOfClients == Spec => []CountCovers
<1>1. Reuse => CountCovers
  BY DEF Reuse
<1> QED
  BY <1>1, ReuseInvariant, PTL
-----------------------------------------------------------------------------
(* What a browser gets.                                                     *)

\* The messages that Run has taken from the broadcast channel.
Handled == accepted - Len(broadcast)

\* The numbers of s are consecutive and the last is n.
RunTo(s, n) == \A i \in 1..Len(s) : s[i] = n - Len(s) + i

\* The broadcast channel holds the messages that were accepted last, in order.
Numbered == RunTo(broadcast, accepted)

\* A connection that has not been made yet has nothing.
Unserved ==
  \A c \in Conns : reader[c] = "none" =>
    client[c] = NoClient /\ written[c] = <<>> /\ writer[c].pc = "none"

\* The connection a structure points to is one that was given the structure.
ConnOf == \A v \in Clients, c \in Conns : object[v].conn = c => client[c] = v

Sending(c) == object[client[c]].send
Holds(c) == writer[c].pc = "holding"

\* What was written, what the writer holds and what waits is one run up to n.
StreamTo(c, n) ==
  /\ RunTo(Sending(c), n)
  /\ Holds(c) => writer[c].msg = n - Len(Sending(c))
  /\ RunTo(written[c], n - Len(Sending(c)) - (IF Holds(c) THEN 1 ELSE 0))

\* The writer still writes to the connection.
Live(c) ==
  /\ panic = "none" /\ object[client[c]].conn = c
  /\ writer[c].pc \in {"none", "idle", "holding"}

\* Until the hub has registered it nothing is sent to a structure; while its writer
\* lives, the stream of a registered one reaches the message handled last; and whatever
\* happens afterwards, what was written stays a run.
StreamOf(c) ==
  client[c] \in Clients /\ Single(client[c]) =>
    /\ \E n \in Int : RunTo(written[c], n)
    /\ reader[c] = "registering" \/ client[c] \in Registered =>
         written[c] = <<>> /\ Sending(c) = <<>> /\ ~Holds(c)
    /\ Live(c) => \E n \in Int :
                    StreamTo(c, n) /\ (client[c] \in clients => n = Handled)

Streaming == Numbered /\ Unserved /\ ConnOf /\ \A c \in Conns : StreamOf(c)

\* The empty sequence ends anywhere.
LEMMA RunEmpty == \A n : RunTo(<<>>, n)
BY DEF RunTo

\* A run is continued by the next number,
LEMMA RunAppend ==
  ASSUME NEW s \in Seq(Messages), NEW n \in Int, RunTo(s, n), NEW m \in Messages, m = n + 1
  PROVE  RunTo(Append(s, m), n + 1)
<1>1. /\ Len(s) \in Nat /\ Len(Append(s, m)) = Len(s) + 1
      /\ \A i \in 1..Len(s) : Append(s, m)[i] = s[i]
      /\ Append(s, m)[Len(s) + 1] = m
  BY AppendProperties, LenProperties
<1> QED
  BY <1>1 DEF RunTo

\* stays one without its first number, which is the one before the rest,
LEMMA RunTail ==
  ASSUME NEW s \in Seq(Messages), s # <<>>, NEW n \in Int, RunTo(s, n)
  PROVE  /\ RunTo(Tail(s), n) /\ Head(s) = n - Len(Tail(s))
         /\ Len(Tail(s)) = Len(s) - 1 /\ Len(s) \in Nat
<1>1. /\ Len(s) \in Nat /\ Len(Tail(s)) = Len(s) - 1 /\ Len(s) > 0
      /\ \A i \in 1..Len(Tail(s)) : Tail(s)[i] = s[i + 1]
      /\ Head(s) = s[1]
  BY HeadTailProperties, LenProperties, EmptySeq
<1> QED
  BY <1>1 DEF RunTo

\* and two runs that meet are one.
LEMMA RunConcat ==
  ASSUME NEW s \in Seq(Messages), NEW t \in Seq(Messages), NEW n \in Int,
         RunTo(t, n), RunTo(s, n - Len(t))
  PROVE  RunTo(s \o t, n)
<1>1. /\ Len(s) \in Nat /\ Len(t) \in Nat /\ Len(s \o t) = Len(s) + Len(t)
      /\ \A i \in 1..Len(s) + Len(t) :
           (s \o t)[i] = IF i <= Len(s) THEN s[i] ELSE t[i - Len(s)]
  BY ConcatProperties, LenProperties
<1> QED
  BY <1>1 DEF RunTo

\* A run has no gap.
LEMMA RunUnbroken ==
  ASSUME NEW s \in Seq(Messages), NEW n \in Int, RunTo(s, n)
  PROVE  \A i \in 1..Len(s) - 1 : s[i + 1] = s[i] + 1
<1>1. Len(s) \in Nat
  BY LenProperties
<1> QED
  BY <1>1 DEF RunTo

\* Messages are numbered as they are accepted.
LEMMA NumberedStep ==
  ASSUME Typed, Numbered, [Next]_vars
  PROVE  /\ Numbered'
         /\ Handled' = Handled \/ (HubBroadcasts /\ Handled' = Handled + 1)
<1>1. /\ broadcast \in Seq(Messages) /\ accepted \in Nat /\ Len(broadcast) \in Nat
      /\ accepted <= MaxMessages
  BY LenProperties, HubAssumption DEF Typed, ChannelsTyped
<1>2. CASE Broadcast
  <2>1. accepted + 1 \in Messages
    BY <1>1, <1>2, HubAssumption DEF Broadcast, Messages
  <2>2. RunTo(Append(broadcast, accepted + 1), accepted + 1)
    BY <1>1, <2>1, RunAppend DEF Numbered
  <2>3. Len(broadcast') = Len(broadcast) + 1
    BY <1>1, <1>2, <2>1, AppendProperties DEF Broadcast
  <2> QED
    BY <1>1, <1>2, <2>2, <2>3 DEF Broadcast, Numbered, Handled
<1>3. CASE HubBroadcasts
  <2>1. broadcast # <<>> /\ broadcast' = Tail(broadcast) /\ accepted' = accepted
    BY <1>3 DEF HubBroadcasts
  <2>2. RunTo(Tail(broadcast), accepted) /\ Len(Tail(broadcast)) = Len(broadcast) - 1
    BY <1>1, <2>1, RunTail DEF Numbered
  <2> QED
    BY <1>1, <1>3, <2>1, <2>2 DEF Numbered, Handled
<1>4. CASE UNCHANGED <<broadcast, accepted>>
  BY <1>4 DEF Numbered, Handled
<1> QED
  BY <1>2, <1>3, <1>4 DEF Next, Run, HubStops, HubRegisters, HubUnregisters, Stop, Leaves,
     Reads, Registers, Unregisters, Return, Pumps, Receives, Lost, Writes, Ticks, Ends,
     ServeWS, vars, channels

\* Closing channels changes neither what they hold nor the connections.
LEMMA CloseAllKeeps ==
  ASSUME Typed, NEW S, CloseAll(S)
  PROVE  /\ \A o \in Clients : /\ object'[o].send = object[o].send
                               /\ object'[o].conn = object[o].conn
         /\ panic' = "none" => panic = "none"
<1>1. \A x \in ClientState : /\ [x EXCEPT !.closed = TRUE].conn = x.conn
                             /\ [x EXCEPT !.closed = TRUE].send = x.send
  BY DEF ClientState
<1>2. \A o \in Clients : object[o] \in ClientState
  BY DEF Typed, ObjectsTyped
<1>3. CASE \E o \in S : object[o].closed
  BY <1>3 DEF CloseAll
<1>4. CASE ~\E o \in S : object[o].closed
  BY <1>1, <1>2, <1>4 DEF CloseAll
<1> QED
  BY <1>3, <1>4

\* A step after which a connection's stream is what it was, or its writer is dead.
LEMMA StreamKept ==
  ASSUME NEW c \in Conns, StreamOf(c), client'[c] = client[c], written'[c] = written[c],
         Single(client[c])' => Single(client[c]),
         client[c] \in Clients /\ Single(client[c]) =>
           /\ object'[client[c]].send = object[client[c]].send
           /\ Holds(c)' => Holds(c)
           /\ Live(c)' => /\ Live(c)
                          /\ Holds(c) => writer'[c] = writer[c]
                          /\ client[c] \in clients' => client[c] \in clients /\ Handled' = Handled
           /\ reader'[c] = "registering" \/ client[c] \in Registered' =>
                reader[c] = "registering" \/ client[c] \in Registered
  PROVE  StreamOf(c)'
<1> SUFFICES ASSUME client[c] \in Clients, Single(client[c])
             PROVE  (/\ \E n \in Int : RunTo(written[c], n)
                     /\ reader[c] = "registering" \/ client[c] \in Registered =>
                          written[c] = <<>> /\ Sending(c) = <<>> /\ ~Holds(c)
                     /\ Live(c) => \E n \in Int :
                          StreamTo(c, n) /\ (client[c] \in clients => n = Handled))'
  BY DEF StreamOf
<1>1. (\E n \in Int : RunTo(written[c], n))'
  BY DEF StreamOf, RunTo
<1>2. (reader[c] = "registering" \/ client[c] \in Registered =>
         written[c] = <<>> /\ Sending(c) = <<>> /\ ~Holds(c))'
  BY DEF StreamOf, Sending
<1>3. ASSUME Live(c)'
      PROVE  (\E n \in Int : StreamTo(c, n) /\ (client[c] \in clients => n = Handled))'
  <2>1. PICK n \in Int : StreamTo(c, n) /\ (client[c] \in clients => n = Handled)
    BY <1>3 DEF StreamOf
  <2>2. Sending(c)' = Sending(c) /\ (Holds(c)' => Holds(c)) /\ (Holds(c) => writer'[c] = writer[c])
    BY <1>3 DEF Sending
  <2>3. Holds(c)' <=> Holds(c)
    BY <2>2 DEF Holds
  <2>4. StreamTo(c, n)'
    BY <2>1, <2>2, <2>3 DEF StreamTo, RunTo
  <2>5. (client[c] \in clients => n = Handled)'
    BY <1>3, <2>1
  <2> QED
    BY <2>4, <2>5
<1> QED
  BY <1>1, <1>2, <1>3

\* The hub's own steps that send nothing.
LEMMA RunStream ==
  ASSUME Typed, Typed', Reuse, Streaming, NEW c \in Conns,
         HubStops \/ HubRegisters \/ HubUnregisters
  PROVE  StreamOf(c)'
<1>1. Handled' = Handled /\ UNCHANGED <<client, written, handed, reader, writer>>
  BY DEF HubStops, HubRegisters, HubUnregisters, channels, objects, pumps, Handled
<1>2. StreamOf(c)
  BY DEF Streaming
<1>3. CASE HubStops \/ HubUnregisters
  <2>1. PICK S : CloseAll(S) /\ clients' \subseteq clients /\ register' = register
    BY <1>3 DEF HubStops, HubUnregisters, Forget, channels
  <2>2. /\ \A o \in Clients : /\ object'[o].send = object[o].send
                              /\ object'[o].conn = object[o].conn
        /\ panic' = "none" => panic = "none"
    BY <2>1, CloseAllKeeps
  <2>3. Single(client[c])' <=> Single(client[c])
    BY <1>1 DEF Single
  <2>4. Registered' = Registered
    BY <2>1 DEF Registered
  <2> QED
    BY <1>1, <1>2, <2>1, <2>2, <2>3, <2>4, StreamKept DEF Live, Holds
<1>4. CASE HubRegisters
  <2>1. /\ UNCHANGED <<object, panic>> /\ register' = <<>>
        /\ clients' = clients \cup Registered
    BY <1>4 DEF HubRegisters, objects, Registered
  <2>2. Registered' = {}
    BY <2>1, ToSetEmpty DEF Registered
  <2>3. Single(client[c])' <=> Single(client[c])
    BY <1>1 DEF Single
  <2>4. CASE client[c] \notin Registered
    BY <1>1, <1>2, <2>1, <2>2, <2>3, <2>4, StreamKept DEF Live, Holds
  <2>5. CASE client[c] \in Registered
    <3> SUFFICES ASSUME client[c] \in Clients, Single(client[c]) PROVE StreamOf(c)'
      BY <1>1, <2>3 DEF StreamOf
    <3>1. written[c] = <<>> /\ Sending(c) = <<>> /\ ~Holds(c)
      BY <1>2, <2>5 DEF StreamOf
    <3>2. (written[c] = <<>> /\ Sending(c) = <<>> /\ ~Holds(c))'
      BY <1>1, <2>1, <3>1 DEF Sending, Holds
    <3>3. Handled' \in Int
      BY LenProperties, HubAssumption DEF Handled, Typed, ChannelsTyped
    <3>4. \A n \in Int : (StreamTo(c, n) /\ RunTo(written[c], n))'
      BY <3>2, RunEmpty DEF StreamTo
    <3>5. (Live(c) => \E n \in Int : StreamTo(c, n) /\ (client[c] \in clients => n = Handled))'
      BY <3>3, <3>4
    <3>6. (\E n \in Int : RunTo(written[c], n))'
      BY <3>4
    <3> QED
      BY <3>2, <3>5, <3>6 DEF StreamOf
  <2> QED
    BY <2>4, <2>5
<1> QED
  BY <1>3, <1>4

\* A broadcast adds the next message to the stream of every client that keeps up.
LEMMA BroadcastStream ==
  ASSUME Typed, Typed', Reuse, Streaming, NEW c \in Conns, HubBroadcasts
  PROVE  StreamOf(c)'
<1>1. UNCHANGED <<client, written, handed, reader, writer, register>> /\ panic = "none"
  BY DEF HubBroadcasts, pumps
<1>2. StreamOf(c) /\ (Single(client[c])' <=> Single(client[c])) /\ Registered' = Registered
  BY <1>1 DEF Streaming, Single, Registered
<1>3. CASE \E o \in clients : object[o].closed
  <2>1. panic' = "send" /\ object' = object
    BY <1>3 DEF HubBroadcasts
  <2> QED
    BY <1>1, <1>2, <2>1, StreamKept DEF Live, Holds
<1>4. CASE ~\E o \in clients : object[o].closed
  <2> DEFINE m == Head(broadcast)
  <2>1. /\ object' = Sent(m) /\ clients' = clients \ Dropped /\ panic' = panic
        /\ broadcast # <<>>
    BY <1>4 DEF HubBroadcasts
  <2>2. /\ m \in Messages /\ m = Handled + 1 /\ Handled' = Handled + 1 /\ Handled \in Int
    <3>1. /\ broadcast \in Seq(Messages) /\ accepted \in Int /\ Len(broadcast) \in Nat
          /\ accepted' = accepted /\ broadcast' = Tail(broadcast)
      BY LenProperties, HubAssumption DEF Typed, ChannelsTyped, HubBroadcasts
    <3>2. /\ RunTo(broadcast, accepted) /\ m \in Messages
      BY <2>1, <3>1, HeadTailProperties DEF Streaming, Numbered
    <3>3. m = accepted - Len(Tail(broadcast)) /\ Len(Tail(broadcast)) = Len(broadcast) - 1
      BY <2>1, <3>1, <3>2, RunTail
    <3>4. Len(broadcast') = Len(broadcast) - 1
      BY <3>1, <3>3
    <3> HIDE DEF m
    <3>5. Handled = accepted - Len(broadcast) /\ Handled' = accepted' - Len(broadcast')
      BY DEF Handled
    <3>6. m = Handled + 1
      <4>1. accepted \in Int /\ Len(broadcast) \in Int
        BY <3>1
      <4>2. PICK a \in Int, l \in Int : a = accepted /\ l = Len(broadcast)
        BY <4>1
      <4>3. m = a - (l - 1) /\ Handled = a - l
        BY <3>3, <3>5, <4>2
      <4> QED
        BY <4>3
    <3>7. Handled' = Handled + 1 /\ Handled \in Int
      BY <3>1, <3>4, <3>5
    <3> QED
      BY <3>2, <3>6, <3>7
  <2>3. \A o \in Clients : object[o] \in ClientState
    BY DEF Typed, ObjectsTyped
  <2> HIDE DEF m
  <2> SUFFICES ASSUME client[c] \in Clients, Single(client[c]) PROVE StreamOf(c)'
    BY <1>1, <1>2 DEF StreamOf
  <2>4. PICK o \in Clients : o = client[c]
    OBVIOUS
  <2>5. CASE o \notin clients \ Slow
    <3>1. object'[o].send = object[o].send /\ object'[o].conn = object[o].conn
      BY <2>1, <2>3, <2>5 DEF Sent, ClientState
    <3>2. o \notin clients'
      BY <2>1, <2>5 DEF Dropped
    <3> QED
      BY <1>1, <1>2, <2>1, <2>4, <3>1, <3>2, StreamKept DEF Live, Holds
  <2>6. CASE o \in clients \ Slow
    <3>1. object'[o].send = Append(object[o].send, m) /\ object'[o].conn = object[o].conn
      BY <2>1, <2>3, <2>6 DEF Sent, Dropped, ClientState
    <3>2. ~(reader[c] = "registering" \/ o \in Registered)
      BY <2>4, <2>6 DEF Reuse, BeforeHub, InRegister
    <3>3. (\E n \in Int : RunTo(written[c], n))'
      BY <1>1, <1>2, <2>4 DEF StreamOf
    <3>4. ASSUME Live(c)'
          PROVE  (\E n \in Int : StreamTo(c, n) /\ (client[c] \in clients => n = Handled))'
      <4>1. Live(c)
        BY <1>1, <2>1, <2>4, <3>1, <3>4 DEF Live
      <4>2. StreamTo(c, Handled)
        BY <1>2, <2>4, <2>6, <4>1 DEF StreamOf
      <4>3. /\ object[o].send \in Seq(Messages) /\ Len(object[o].send) \in Nat
            /\ Len(object'[o].send) = Len(object[o].send) + 1
        BY <2>2, <2>3, <3>1, AppendProperties, LenProperties DEF ClientState
      <4>4. RunTo(object'[o].send, Handled + 1)
        BY <2>2, <2>4, <3>1, <4>2, <4>3, RunAppend DEF StreamTo, Sending
      <4>5. Handled - Len(object[o].send) = Handled + 1 - Len(object'[o].send)
        BY <2>2, <4>3
      <4>6. Sending(c)' = object'[o].send /\ Sending(c) = object[o].send
        BY <1>1, <2>4 DEF Sending
      <4>7. Holds(c)' <=> Holds(c)
        BY <1>1 DEF Holds
      <4>9. PICK n \in Int : n = Handled + 1
        BY <2>2
      <4>8. StreamTo(c, n)'
        <5>1. RunTo(Sending(c), n)'
          BY <4>4, <4>6, <4>9 DEF RunTo
        <5>0. /\ Len(Sending(c)) \in Nat /\ Len(Sending(c)') \in Nat
              /\ n - Len(Sending(c)') = Handled + 1 - Len(Sending(c)')
          <6>1. Len(object'[o].send) \in Nat
            BY <4>3
          <6> QED
            BY <2>2, <4>3, <4>6, <4>9, <6>1
        <5>2. n - Len(Sending(c)') = Handled - Len(Sending(c))
          BY <4>5, <4>6, <5>0
        <5>3. (Holds(c) => writer[c].msg = n - Len(Sending(c)))'
          BY <1>1, <4>2, <4>7, <5>2 DEF StreamTo
        <5>4. PICK k \in Int : k = n - Len(Sending(c)') - (IF Holds(c)' THEN 1 ELSE 0)
          <6>1. CASE Holds(c)'
            <7>1. PICK l \in Nat : l = Len(Sending(c)')
              BY <5>0
            <7>2. n - l - 1 \in Int
              BY <7>1
            <7> QED
              BY <6>1, <7>1, <7>2
          <6>2. CASE ~Holds(c)'
            BY <5>0, <6>2
          <6> QED
            BY <6>1, <6>2
        <5>5. RunTo(written[c], k)
          BY <4>2, <4>7, <5>2, <5>4 DEF StreamTo
        <5>6. RunTo(written[c], k)'
          BY <1>1, <5>5 DEF RunTo
        <5> QED
          BY <5>1, <5>3, <5>4, <5>6 DEF StreamTo
      <4> QED
        BY <2>2, <4>8, <4>9
    <3> QED
      BY <1>1, <1>2, <2>4, <3>2, <3>3, <3>4 DEF StreamOf
  <2> QED
    BY <2>5, <2>6
<1> QED
  BY <1>3, <1>4

\* A structure to whose channel something is done.
LEMMA SendIs ==
  ASSUME Typed, NEW v \in Clients, NEW f, object' = [object EXCEPT ![v].send = f]
  PROVE  /\ object'[v].send = f /\ object'[v].conn = object[v].conn
         /\ \A u \in Clients : u # v => object'[u] = object[u]
         /\ \A u \in Clients : object'[u].conn = object[u].conn
<1>1. \A u \in Clients : object[u] \in ClientState
  BY DEF Typed, ObjectsTyped
<1>2. [object[v] EXCEPT !.send = f].conn = object[v].conn
      /\ [object[v] EXCEPT !.send = f].send = f
  BY <1>1 DEF ClientState
<1>3. object'[v] = [object[v] EXCEPT !.send = f] /\ \A u \in Clients : u # v => object'[u] = object[u]
  BY DEF Typed, ObjectsTyped
<1> QED
  BY <1>2, <1>3

\* A connection whose structure a step does not touch.
LEMMA OtherStream ==
  ASSUME NEW d \in Conns, StreamOf(d), panic' = panic, Handled' = Handled,
         UNCHANGED <<clients, client, handed>>, written'[d] = written[d],
         client[d] \in Clients => object'[client[d]] = object[client[d]], writer'[d] = writer[d],
         reader'[d] = "registering" \/ client[d] \in Registered' =>
           reader[d] = "registering" \/ client[d] \in Registered
  PROVE  StreamOf(d)'
<1>1. Single(client[d])' <=> Single(client[d])
  BY DEF Single
<1> QED
  BY <1>1, StreamKept DEF Live, Holds

\* A connection's own structure: if it was given once, it is no other connection's.
LEMMA OwnStructure ==
  ASSUME Typed, Reuse, NEW c \in Conns, client[c] \in Clients, UNCHANGED <<client, handed>>,
         \A d \in Conns : client[d] # client[c] => StreamOf(d)',
         Single(client[c]) => StreamOf(c)'
  PROVE  \A d \in Conns : StreamOf(d)'
<1> SUFFICES ASSUME NEW d \in Conns, client[d] = client[c] PROVE StreamOf(d)'
  OBVIOUS
<1>1. CASE Single(client[c])
  <2>1. d = c
    BY <1>1 DEF Reuse, OneOwner
  <2> QED
    BY <1>1, <2>1
<1>2. CASE ~Single(client[c])
  <2>1. (~Single(client[d]))'
    BY <1>2 DEF Single
  <2> QED
    BY <2>1 DEF StreamOf
<1> QED
  BY <1>1, <1>2

\* A message goes from the channel to the writer.
LEMMA ReceivesStream ==
  ASSUME Typed, Reuse, Streaming, NEW c \in Conns, Receives(c)
  PROVE  \A d \in Conns : StreamOf(d)'
<1>1. /\ client[c] \in Clients /\ writer[c].pc = "idle" /\ panic = "none"
      /\ UNCHANGED <<clients, panic, client, handed, written, reader>>
      /\ Registered' = Registered /\ Handled' = Handled
  BY DEF Receives, Typed, PumpsTyped, hubVars, channels, Registered, Handled
<1>2. \A d \in Conns : StreamOf(d) /\ (d # c => writer'[d] = writer[d])
  BY DEF Streaming, Receives, Typed, PumpsTyped
<1>3. PICK v \in Clients : v = client[c]
  BY <1>1
<1>4. Single(client[c])' <=> Single(client[c])
  BY <1>1 DEF Single
<1>5. \A u \in Clients : u # v => object'[u] = object[u]
  BY <1>3 DEF Receives, Typed, ObjectsTyped
<1>6. \A d \in Conns : client[d] # v => StreamOf(d)'
  <2> SUFFICES ASSUME NEW d \in Conns, client[d] # v PROVE StreamOf(d)'
    OBVIOUS
  <2>1. d # c
    BY <1>3
  <2> QED
    BY <1>1, <1>2, <1>5, <2>1, OtherStream
<1>7. CASE object[v].send = <<>>
  <2>1. object' = object /\ writer'[c].pc = "told"
    BY <1>3, <1>7 DEF Receives, Its, Typed, PumpsTyped
  <2>2. StreamOf(c)'
    BY <1>1, <1>2, <1>4, <2>1, StreamKept DEF Live, Holds
  <2> QED
    BY <1>1, <1>3, <1>6, <2>2, OwnStructure
<1>8. ASSUME object[v].send # <<>>, Single(v) PROVE StreamOf(c)'
  <2>1. /\ object' = [object EXCEPT ![v].send = Tail(object[v].send)]
        /\ writer'[c] = [pc |-> "holding", msg |-> Head(object[v].send)]
    BY <1>3, <1>8 DEF Receives, Its, Typed, PumpsTyped
  <2>2. object'[v].send = Tail(object[v].send) /\ object'[v].conn = object[v].conn
    BY <2>1, SendIs
  <2>3. ~(reader[c] = "registering" \/ v \in Registered)
    BY <1>2, <1>3, <1>8 DEF StreamOf, Sending
  <2>4. (\E n \in Int : RunTo(written[c], n))'
    BY <1>1, <1>2, <1>3, <1>8 DEF StreamOf
  <2>5. ASSUME Live(c)'
        PROVE  (\E n \in Int : StreamTo(c, n) /\ (client[c] \in clients => n = Handled))'
    <3>1. Live(c)
      BY <1>1, <1>3, <2>2, <2>5 DEF Live
    <3>2. PICK n \in Int : StreamTo(c, n) /\ (client[c] \in clients => n = Handled)
      BY <1>2, <1>3, <1>8, <3>1 DEF StreamOf
    <3>3. object[v].send \in Seq(Messages)
      BY DEF Typed, ObjectsTyped, ClientState
    <3>4. RunTo(object[v].send, n) /\ RunTo(written[c], n - Len(object[v].send))
      <4>1. Sending(c) = object[v].send /\ ~Holds(c) /\ Len(object[v].send) \in Nat
        BY <1>1, <1>3, <3>3, LenProperties DEF Sending, Holds
      <4>2. n - Len(object[v].send) - 0 = n - Len(object[v].send)
        BY <4>1
      <4> QED
        BY <3>2, <4>1, <4>2 DEF StreamTo
    <3>5. /\ RunTo(Tail(object[v].send), n) /\ Head(object[v].send) = n - Len(Tail(object[v].send))
          /\ Len(Tail(object[v].send)) = Len(object[v].send) - 1 /\ Len(object[v].send) \in Nat
      BY <1>8, <3>3, <3>4, RunTail
    <3>6. PICK l \in Int : l = Len(object[v].send)
      BY <3>5
    <3>7. n - Len(Tail(object[v].send)) - 1 = n - l
      <4>1. Len(Tail(object[v].send)) = l - 1
        BY <3>5, <3>6
      <4>2. n - (l - 1) - 1 = n - l
        OBVIOUS
      <4> QED
        BY <4>1, <4>2
    <3>8. Sending(c)' = Tail(object[v].send) /\ Holds(c)' /\ writer'[c].msg = Head(object[v].send)
      BY <1>1, <1>3, <2>1, <2>2 DEF Sending, Holds
    <3>9. StreamTo(c, n)'
      <4>1. RunTo(Sending(c), n)'
        BY <3>5, <3>8 DEF RunTo
      <4>2. (Holds(c) => writer[c].msg = n - Len(Sending(c)))'
        BY <3>5, <3>8
      <4>3. RunTo(written[c], n - l)'
        BY <1>1, <3>4, <3>6 DEF RunTo
      <4>4. (n - l = n - Len(Sending(c)) - (IF Holds(c) THEN 1 ELSE 0))'
        BY <3>7, <3>8
      <4> QED
        BY <4>1, <4>2, <4>3, <4>4 DEF StreamTo
    <3> QED
      BY <1>1, <3>2, <3>9
  <2> QED
    BY <1>1, <1>3, <2>3, <2>4, <2>5 DEF StreamOf
<1> QED
  BY <1>1, <1>3, <1>6, <1>7, <1>8, OwnStructure

\* What the writer holds and what waits are written.
LEMMA WritesStream ==
  ASSUME Typed, Reuse, Streaming, NEW c \in Conns, Writes(c)
  PROVE  \A d \in Conns : StreamOf(d)'
<1>1. /\ client[c] \in Clients /\ Holds(c) /\ panic = "none"
      /\ UNCHANGED <<clients, panic, client, handed, reader>>
      /\ Registered' = Registered /\ Handled' = Handled
  BY DEF Writes, Holds, Typed, PumpsTyped, hubVars, channels, Registered, Handled
<1>2. \A d \in Conns : StreamOf(d) /\ (d # c => writer'[d] = writer[d])
  BY DEF Streaming, Writes, Typed, PumpsTyped
<1>3. PICK v \in Clients : v = client[c]
  BY <1>1
<1>4. \A u \in Clients : Single(u)' <=> Single(u)
  BY <1>1 DEF Single
<1>5. PICK e \in Conns : e = object[v].conn
  BY <1>3 DEF Writes, Its, Typed, ObjectsTyped, ClientState
<1>6. CASE e \notin open
  <2>1. object' = object /\ written' = written /\ writer'[c].pc = "told"
    BY <1>3, <1>5, <1>6 DEF Writes, Its, Typed, PumpsTyped
  <2>2. \A d \in Conns : client[d] # v => StreamOf(d)'
    BY <1>1, <1>2, <1>3, <2>1, OtherStream
  <2>3. StreamOf(c)'
    BY <1>1, <1>2, <1>3, <1>4, <2>1, StreamKept DEF Live, Holds
  <2> QED
    BY <1>1, <1>3, <2>2, <2>3, OwnStructure
<1>7. CASE e \in open
  <2>1. /\ written' = [written EXCEPT ![e] = Append(@, writer[c].msg) \o object[v].send]
        /\ object' = [object EXCEPT ![v].send = <<>>]
        /\ writer'[c].pc = "idle"
    <3>1. writer' = [writer EXCEPT ![c] = [pc |-> "idle"]]
      BY <1>3, <1>5, <1>7 DEF Writes, Its
    <3>2. writer'[c].pc = "idle"
      BY <3>1 DEF Typed, PumpsTyped
    <3>3. /\ written' = [written EXCEPT ![e] = Append(@, writer[c].msg) \o object[v].send]
          /\ object' = [object EXCEPT ![v].send = <<>>]
      BY <1>3, <1>5, <1>7 DEF Writes, Its
    <3> QED
      BY <3>2, <3>3
  <2>2. /\ object'[v].send = <<>> /\ object'[v].conn = object[v].conn
        /\ \A u \in Clients : u # v => object'[u] = object[u]
    BY <2>1, SendIs
  <2>3. client[e] = v
    BY <1>5 DEF Streaming, ConnOf
  <2>4. \A d \in Conns : client[d] # v => StreamOf(d)'
    <3> SUFFICES ASSUME NEW d \in Conns, client[d] # v PROVE StreamOf(d)'
      OBVIOUS
    <3>1. d # c /\ d # e /\ written'[d] = written[d]
      BY <1>3, <2>1, <2>3 DEF Typed, PumpsTyped
    <3> QED
      BY <1>1, <1>2, <2>2, <3>1, OtherStream
  <2>5. ASSUME Single(v) PROVE StreamOf(c)'
    <3>1. e = c
      BY <1>3, <2>3, <2>5 DEF Reuse, OneOwner
    <3>2. Live(c)
      BY <1>1, <1>3, <1>5, <3>1 DEF Live, Holds
    <3>3. PICK n \in Int : StreamTo(c, n) /\ (client[c] \in clients => n = Handled)
      BY <1>2, <1>3, <2>5, <3>2 DEF StreamOf
    <3>4. /\ object[v].send \in Seq(Messages) /\ written[c] \in Seq(Messages)
          /\ writer[c].msg \in Messages /\ Len(object[v].send) \in Nat
      BY <1>1, LenProperties DEF Holds, Typed, ObjectsTyped, PumpsTyped, ClientState, WriterState
    <3>5. PICK k \in Int : k = n - Len(object[v].send)
      <4>1. PICK l \in Nat : l = Len(object[v].send)
        BY <3>4
      <4>2. n - l \in Int
        BY <4>1
      <4> QED
        BY <4>1, <4>2
    <3>6. RunTo(object[v].send, n) /\ writer[c].msg = k /\ RunTo(written[c], k - 1)
      BY <1>1, <1>3, <3>3, <3>5 DEF StreamTo, Sending
    <3>7. RunTo(Append(written[c], writer[c].msg), k)
      <4>1. PICK j \in Int : j = k - 1
        OBVIOUS
      <4>2. writer[c].msg = j + 1 /\ k = j + 1
        BY <3>6, <4>1
      <4>3. RunTo(Append(written[c], writer[c].msg), j + 1)
        BY <3>4, <3>6, <4>1, <4>2, RunAppend
      <4> QED
        BY <4>2, <4>3
    <3>8. Append(written[c], writer[c].msg) \in Seq(Messages)
      BY <3>4, AppendProperties
    <3>9. RunTo(Append(written[c], writer[c].msg) \o object[v].send, n)
      BY <3>4, <3>5, <3>6, <3>7, <3>8, RunConcat
    <3>10. written'[c] = Append(written[c], writer[c].msg) \o object[v].send
      BY <2>1, <3>1 DEF Typed, PumpsTyped
    <3>11. RunTo(written'[c], n)
      BY <3>9, <3>10
    <3>12. ~(reader[c] = "registering" \/ v \in Registered)
      BY <1>1, <1>2, <1>3, <2>5 DEF StreamOf
    <3>13. Sending(c)' = <<>> /\ ~Holds(c)' /\ Len(<<>>) = 0
      BY <1>1, <1>3, <2>1, <2>2, EmptySeq DEF Sending, Holds
    <3>14. StreamTo(c, n)'
      <4>1. (RunTo(Sending(c), n) /\ ~Holds(c))'
        BY <3>13, RunEmpty
      <4>2. (n = n - Len(Sending(c)) - (IF Holds(c) THEN 1 ELSE 0))'
        BY <3>13
      <4>3. RunTo(written[c], n)'
        BY <3>11 DEF RunTo
      <4> QED
        BY <4>1, <4>2, <4>3 DEF StreamTo
    <3>15. RunTo(written[c], n)'
      BY <3>11 DEF RunTo
    <3> QED
      BY <1>1, <1>3, <3>3, <3>12, <3>14, <3>15 DEF StreamOf
  <2> QED
    BY <1>1, <1>3, <2>4, <2>5, OwnStructure
<1> QED
  BY <1>6, <1>7

\* A structure that is registered has sent nothing yet.
LEMMA RegistersStream ==
  ASSUME Typed, Typed', Reuse, Streaming, NEW c \in Conns, Registers(c)
  PROVE  \A d \in Conns : StreamOf(d)'
<1>1. /\ client[c] \in Clients /\ reader[c] = "registering" /\ panic = "none"
      /\ UNCHANGED <<clients, panic, object, client, handed, written>>
      /\ register \in Seq(Clients) /\ register' = Append(register, client[c])
      /\ Handled' = Handled
  BY DEF Registers, Typed, PumpsTyped, ChannelsTyped, hubVars, objects, Handled
<1>2. \A d \in Conns : StreamOf(d) /\ (d # c => writer'[d] = writer[d] /\ reader'[d] = reader[d])
  BY DEF Streaming, Registers, Typed, PumpsTyped
<1>3. Registered' = Registered \cup {client[c]}
  BY <1>1, ToSetAppend DEF Registered
<1>4. ASSUME NEW d \in Conns, client[d] # client[c]
      PROVE  StreamOf(d)'
  <2>1. d # c /\ (client[d] \in Registered' => client[d] \in Registered)
    BY <1>3, <1>4
  <2> QED
    BY <1>1, <1>2, <2>1, OtherStream
<1>5. ASSUME Single(client[c]) PROVE StreamOf(c)'
  <2>1. written[c] = <<>> /\ Sending(c) = <<>>
    BY <1>1, <1>2, <1>5 DEF StreamOf
  <2>2. (written[c] = <<>> /\ Sending(c) = <<>> /\ ~Holds(c))'
    BY <1>1, <2>1 DEF Sending, Holds, Registers, Typed, PumpsTyped
  <2>3. Handled' \in Int
    BY LenProperties, HubAssumption DEF Handled, Typed, ChannelsTyped
  <2>4. \A n \in Int : (StreamTo(c, n) /\ RunTo(written[c], n))'
    BY <2>2, RunEmpty DEF StreamTo
  <2>5. (Live(c) => \E n \in Int : StreamTo(c, n) /\ (client[c] \in clients => n = Handled))'
    BY <2>3, <2>4
  <2>6. (\E n \in Int : RunTo(written[c], n))'
    BY <2>4
  <2> QED
    BY <2>2, <2>5, <2>6 DEF StreamOf
<1> QED
  BY <1>1, <1>4, <1>5, OwnStructure

\* The structure that goes back to the pool loses its connection.
LEMMA ReturnStream ==
  ASSUME Typed, Reuse, Streaming, NEW c \in Conns, Return(c)
  PROVE  \A d \in Conns : StreamOf(d)'
<1>1. /\ client[c] \in Clients /\ panic = "none"
      /\ UNCHANGED <<clients, panic, client, handed, written, writer>>
      /\ Registered' = Registered /\ Handled' = Handled /\ reader'[c] = "left"
      /\ \A d \in Conns : d # c => reader'[d] = reader[d]
  BY DEF Return, Typed, PumpsTyped, hubVars, channels, Registered, Handled
<1>2. \A d \in Conns : StreamOf(d)
  BY DEF Streaming
<1>3. PICK v \in Clients : v = client[c]
  BY <1>1
<1>4. /\ \A u \in Clients : u # v => object'[u] = object[u]
      /\ object'[v] = [object[v] EXCEPT !.conn = NoConn, !.send = <<>>]
  BY <1>3 DEF Return, Typed, ObjectsTyped
<1>5. object[v] \in ClientState
  BY DEF Typed, ObjectsTyped
<1>6. object'[v].conn = NoConn /\ object'[v].send = <<>>
  BY <1>4, <1>5 DEF ClientState
<1>7. \A d \in Conns : client[d] # v => StreamOf(d)'
  <2> SUFFICES ASSUME NEW d \in Conns, client[d] # v PROVE StreamOf(d)'
    OBVIOUS
  <2>1. d # c
    BY <1>3
  <2> QED
    BY <1>1, <1>2, <1>4, <2>1, OtherStream
<1>8. ASSUME Single(v) PROVE StreamOf(c)'
  <2>1. (\E n \in Int : RunTo(written[c], n))'
    BY <1>1, <1>2, <1>3, <1>8 DEF StreamOf
  <2>2. ~Live(c)'
    BY <1>1, <1>3, <1>6, HubAssumption DEF Live, Conns
  <2>3. (reader[c] = "registering" \/ client[c] \in Registered =>
           written[c] = <<>> /\ Sending(c) = <<>> /\ ~Holds(c))'
    BY <1>1, <1>2, <1>3, <1>6, <1>8 DEF StreamOf, Sending, Holds
  <2> QED
    BY <2>1, <2>2, <2>3 DEF StreamOf
<1> QED
  BY <1>1, <1>3, <1>7, <1>8, OwnStructure

\* A connection begins with nothing.
LEMMA ServeStream ==
  ASSUME Typed, Typed', Reuse, Streaming, NEW c \in Conns, NEW o \in Clients, ServeWS(c, o)
  PROVE  \A d \in Conns : StreamOf(d)'
<1>1. /\ reader[c] = "none" /\ panic = "none"
      /\ UNCHANGED <<clients, panic, written, writer>>
      /\ Registered' = Registered /\ Handled' = Handled
  BY DEF ServeWS, hubVars, channels, Registered, Handled
<1>2. /\ client'[c] = o /\ handed'[o] = handed[o] + 1 /\ handed[o] \in Nat
      /\ \A d \in Conns : d # c => client'[d] = client[d] /\ reader'[d] = reader[d]
      /\ \A u \in Clients : u # o => handed'[u] = handed[u] /\ object'[u] = object[u]
      /\ object'[o] = [object[o] EXCEPT !.conn = c, !.send = <<>>]
  BY DEF ServeWS, Typed, ObjectsTyped, PumpsTyped
<1>3. object'[o].send = <<>>
  <2>1. object[o] \in ClientState
    BY DEF Typed, ObjectsTyped
  <2> QED
    BY <1>2, <2>1 DEF ClientState
<1>4. Handled' \in Int
  BY LenProperties, HubAssumption DEF Handled, Typed, ChannelsTyped
<1>5. StreamOf(c)'
  <2>1. (written[c] = <<>> /\ Sending(c) = <<>> /\ ~Holds(c))'
    BY <1>1, <1>2, <1>3 DEF Streaming, Unserved, Sending, Holds
  <2>2. \A n \in Int : (StreamTo(c, n) /\ RunTo(written[c], n))'
    BY <2>1, RunEmpty DEF StreamTo
  <2>3. (Live(c) => \E n \in Int : StreamTo(c, n) /\ (client[c] \in clients => n = Handled))'
    BY <1>4, <2>2
  <2>4. (\E n \in Int : RunTo(written[c], n))'
    BY <2>2
  <2> QED
    BY <2>1, <2>3, <2>4 DEF StreamOf
<1>6. ASSUME NEW d \in Conns, d # c PROVE StreamOf(d)'
  <2>1. client'[d] = client[d] /\ reader'[d] = reader[d] /\ StreamOf(d)
    BY <1>2, <1>6 DEF Streaming
  <2>2. CASE client[d] \in Clients \ {o}
    <3>1. (Single(client[d])' <=> Single(client[d])) /\ object'[client[d]] = object[client[d]]
      BY <1>2, <2>1, <2>2 DEF Single
    <3> QED
      BY <1>1, <2>1, <3>1, StreamKept DEF Live, Holds
  <2>3. CASE client[d] = o
    <3>1. ~Single(o)'
      BY <1>2, <2>3 DEF Reuse, NeverHanded, Single
    <3> QED
      BY <2>1, <2>3, <3>1 DEF StreamOf
  <2>4. CASE client[d] \notin Clients
    BY <2>1, <2>4 DEF StreamOf
  <2> QED
    BY <2>2, <2>3, <2>4
<1> QED
  BY <1>5, <1>6

\* Every step keeps the streams,
LEMMA NextStream ==
  ASSUME Typed, Typed', Reuse, Streaming, [Next]_vars, NEW d \in Conns
  PROVE  StreamOf(d)'
<1>0. StreamOf(d)
  BY DEF Streaming
<1>1. CASE Run
  BY <1>1, RunStream, BroadcastStream DEF Run
<1>2. CASE Broadcast \/ Stop \/ UNCHANGED vars \/ \E c \in Conns : Leaves(c)
  <2>1. /\ UNCHANGED <<clients, register, object, client, handed, written, reader, writer>>
        /\ panic' = panic
    BY <1>2 DEF Broadcast, Stop, Leaves, vars, hubVars, channels, objects, pumps
  <2>2. Handled' = Handled \/ HubBroadcasts
    BY NumberedStep DEF Streaming
  <2>3. Registered' = Registered
    BY <2>1 DEF Registered
  <2> QED
    BY <1>0, <1>1, <2>1, <2>2, <2>3, OtherStream DEF Run
<1>3. ASSUME NEW c \in Conns, Unregisters(c) PROVE StreamOf(d)'
  <2>1. /\ UNCHANGED <<clients, object, client, handed, written, writer>>
        /\ panic' = panic /\ Handled' = Handled /\ Registered' = Registered
        /\ reader'[d] = "registering" => reader[d] = "registering"
    BY <1>3 DEF Unregisters, Typed, PumpsTyped, hubVars, objects, Registered, Handled
  <2> QED
    BY <1>0, <2>1, OtherStream
<1>4. ASSUME NEW c \in Conns, Lost(c) PROVE StreamOf(d)'
  <2>1. /\ UNCHANGED <<object, client, handed, written, reader, writer>>
        /\ panic' # "none" /\ Registered' = Registered
    BY <1>4 DEF Lost, hubVars, channels, objects, pumps, Registered
  <2>2. Single(client[d])' <=> Single(client[d])
    BY <2>1 DEF Single
  <2> QED
    BY <1>0, <2>1, <2>2, StreamKept DEF Live, Holds
<1>5. ASSUME NEW c \in Conns, Ticks(c) \/ Ends(c) PROVE StreamOf(d)'
  <2>1. /\ UNCHANGED <<clients, object, client, handed, written, reader, panic>>
        /\ Handled' = Handled /\ Registered' = Registered
        /\ writer'[d] = writer[d] \/ writer'[d].pc \in {"told", "ended"}
    BY <1>5 DEF Ticks, Ends, Typed, PumpsTyped, hubVars, channels, objects, Registered, Handled
  <2>2. Single(client[d])' <=> Single(client[d])
    BY <2>1 DEF Single
  <2> QED
    BY <1>0, <2>1, <2>2, StreamKept DEF Live, Holds
<1> QED
  BY <1>1, <1>2, <1>3, <1>4, <1>5, ReceivesStream, WritesStream, RegistersStream, ReturnStream,
     ServeStream DEF Next, Reads, Pumps

\* what is known of connections that are not made,
LEMMA NextUnserved ==
  ASSUME Typed, Streaming, [Next]_vars
  PROVE  Unserved'
<1> USE DEF Typed, PumpsTyped
<1>0. Unserved /\ ConnOf
  BY DEF Streaming
<1>1. CASE UNCHANGED <<client, reader, writer, written>>
  BY <1>0, <1>1 DEF Unserved
<1>2. ASSUME NEW c \in Conns, NEW o \in Clients, ServeWS(c, o) PROVE Unserved'
  BY <1>0, <1>2 DEF ServeWS, Unserved
<1>3. ASSUME NEW c \in Conns, Reads(c) PROVE Unserved'
  BY <1>0, <1>3 DEF Reads, Registers, Unregisters, Return, objects, Unserved
<1>4. ASSUME NEW c \in Conns, Pumps(c) PROVE Unserved'
  <2>1. UNCHANGED <<client, reader>>
    BY <1>4 DEF Pumps, Receives, Lost, Writes, Ticks, Ends, objects, pumps
  <2>2. \A d \in Conns : reader[d] = "none" => writer'[d] = writer[d]
    <3>1. CASE Lost(c)
      BY <3>1 DEF Lost, pumps
    <3>2. CASE ~Lost(c)
      <4>1. writer[c].pc # "none" /\ \A d \in Conns : d # c => writer'[d] = writer[d]
        BY <1>4, <3>2 DEF Pumps, Receives, Writes, Ticks, Ends
      <4> QED
        BY <1>0, <4>1 DEF Unserved
    <3> QED
      BY <3>1, <3>2
  <2>3. \A d \in Conns : reader[d] = "none" => written'[d] = written[d]
    <3>1. CASE ~Writes(c)
      BY <1>4, <3>1 DEF Pumps, Receives, Lost, Ticks, Ends, pumps
    <3>2. CASE Writes(c)
      <4>1. PICK v \in Clients : v = client[c]
        BY <3>2 DEF Writes
      <4>2. \A d \in Conns : d # object[v].conn => written'[d] = written[d]
        BY <3>2, <4>1 DEF Writes, Its
      <4>3. \A d \in Conns : d = object[v].conn => reader[d] # "none"
        BY <1>0, <4>1, HubAssumption DEF ConnOf, Unserved
      <4> QED
        BY <4>2, <4>3
    <3> QED
      BY <3>1, <3>2
  <2> QED
    BY <1>0, <2>1, <2>2, <2>3 DEF Unserved
<1> QED
  BY <1>1, <1>2, <1>3, <1>4 DEF Next, Run, HubStops, HubRegisters, HubUnregisters, HubBroadcasts,
     Broadcast, Stop, Leaves, vars, objects, pumps

\* and where a structure points.
LEMMA NextConnOf ==
  ASSUME Typed, Streaming, [Next]_vars
  PROVE  ConnOf'
<1>0. Unserved /\ ConnOf /\ \A v \in Clients : object[v] \in ClientState
  BY DEF Streaming, Typed, ObjectsTyped
<1>1. CASE client' = client /\ \A v \in Clients : object'[v].conn = object[v].conn
  BY <1>0, <1>1 DEF ConnOf
<1>2. ASSUME NEW c \in Conns, NEW o \in Clients, ServeWS(c, o) PROVE ConnOf'
  <2>1. /\ client'[c] = o /\ \A d \in Conns : d # c => client'[d] = client[d]
        /\ object'[o].conn = c /\ \A v \in Clients : v # o => object'[v] = object[v]
    BY <1>0, <1>2 DEF ServeWS, Typed, ObjectsTyped, PumpsTyped, ClientState
  <2>2. client[c] = NoClient
    BY <1>0, <1>2 DEF ServeWS, Unserved
  <2> QED
    BY <1>0, <2>1, <2>2, HubAssumption DEF ConnOf
<1>3. ASSUME NEW c \in Conns, Return(c) PROVE ConnOf'
  <2>1. PICK v \in Clients : v = client[c]
    BY <1>3 DEF Return, Typed, PumpsTyped
  <2>2. /\ object'[v].conn = NoConn /\ \A u \in Clients : u # v => object'[u] = object[u]
        /\ client' = client
    BY <1>0, <1>3, <2>1 DEF Return, Typed, ObjectsTyped, ClientState
  <2> QED
    BY <1>0, <2>1, <2>2, HubAssumption DEF ConnOf, Conns
<1>4. ASSUME NEW c \in Conns, Pumps(c) PROVE ConnOf'
  <2>1. client' = client
    BY <1>4 DEF Pumps, Receives, Lost, Writes, Ticks, Ends, objects
  <2>2. object' = object \/ \E f : object' = [object EXCEPT ![client[c]].send = f]
    BY <1>4 DEF Pumps, Receives, Lost, Writes, Ticks, Ends, objects
  <2>3. client[c] \in Clients \/ object' = object
    BY <1>4 DEF Pumps, Receives, Lost, Writes, Ticks, Ends, objects, Typed, PumpsTyped
  <2>4. \A v \in Clients : object'[v].conn = object[v].conn
    BY <2>2, <2>3, SendIs
  <2> QED
    BY <1>1, <2>1, <2>4
<1>5. CASE Run
  <2>1. client' = client
    BY <1>5 DEF Run, HubStops, HubRegisters, HubUnregisters, HubBroadcasts, objects
  <2>2. CASE HubBroadcasts
    <3>1. object' = object \/ object' = Sent(Head(broadcast))
      BY <2>2 DEF HubBroadcasts
    <3>2. \A v \in Clients : Sent(Head(broadcast))[v].conn = object[v].conn
      BY <1>0 DEF Sent, ClientState
    <3>3. \A v \in Clients : object'[v].conn = object[v].conn
      BY <3>1, <3>2
    <3> QED
      BY <1>1, <2>1, <3>3
  <2>3. CASE HubStops \/ HubUnregisters
    <3>1. \E S : CloseAll(S)
      BY <2>3 DEF HubStops, HubUnregisters, Forget
    <3>2. \A v \in Clients : object'[v].conn = object[v].conn
      BY <3>1, CloseAllKeeps
    <3> QED
      BY <1>1, <2>1, <3>2
  <2>4. CASE HubRegisters
    BY <1>1, <2>1, <2>4 DEF HubRegisters, objects
  <2> QED
    BY <1>5, <2>2, <2>3, <2>4 DEF Run
<1>6. CASE UNCHANGED <<object, client>>
  BY <1>1, <1>6
<1> QED
  BY <1>2, <1>3, <1>4, <1>5, <1>6 DEF Next, Reads, Registers, Unregisters, Broadcast, Stop,
     Leaves, vars, objects

LEMMA InitStreaming == Init => Streaming
<1> SUFFICES ASSUME Init PROVE Streaming
  OBVIOUS
<1>1. Numbered
  BY RunEmpty DEF Init, Numbered
<1>2. Unserved
  BY DEF Init, Unserved
<1>3. ConnOf
  BY HubAssumption DEF Init, ConnOf, Fresh, Conns
<1>4. \A c \in Conns : StreamOf(c)
  BY HubAssumption DEF Init, StreamOf
<1> QED
  BY <1>1, <1>2, <1>3, <1>4 DEF Streaming

LEMMA NextStreaming == Typed /\ Typed' /\ Reuse /\ Streaming /\ [Next]_vars => Streaming'
<1> SUFFICES ASSUME Typed, Typed', Reuse, Streaming, [Next]_vars
             PROVE  Streaming'
  OBVIOUS
<1>1. Numbered'
  BY NumberedStep DEF Streaming
<1> QED
  BY <1>1, NextStream, NextUnserved, NextConnOf DEF Streaming

\* A browser never misses a message between two that it gets, whatever the hub, the
\* readPump and the writePump do in whatever order, as long as the pool gave the
\* connection's structure to no other.
THEOREM BrowsersMissNothing == Spec => []StreamUnbroken
<1>1. Typed /\ Streaming => StreamUnbroken
  <2> SUFFICES ASSUME Typed, Streaming, NEW c \in Conns, client[c] # NoClient, Single(client[c])
               PROVE  \A i \in 1..Len(written[c]) - 1 : written[c][i + 1] = written[c][i] + 1
    BY DEF StreamUnbroken
  <2>1. client[c] \in Clients /\ written[c] \in Seq(Messages)
    BY DEF Typed, PumpsTyped
  <2>2. PICK n \in Int : RunTo(written[c], n)
    BY <2>1 DEF Streaming, StreamOf
  <2> QED
    BY <2>1, <2>2, RunUnbroken
<1> QED
  BY <1>1, InitTyped, NextTyped, ReuseInvariant, InitStreaming, NextStreaming, PTL DEF Spec
=============================================================================
