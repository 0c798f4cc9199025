--------------------------------- MODULE Desk ---------------------------------
(***************************************************************************)
(* One account at one of the six exchanges, for one symbol: the executor     *)
(* opens a leg with PlaceMarketOrder, closes it with the opposite order,     *)
(* the program crashes, and recovery closes the positions it finds with      *)
(* ClosePosition.  Every call is what the adapter of that exchange makes of  *)
(* it, and is interleaved with the execution of its order.  The exchange may  *)
(* liquidate a position, which the program learns from the position stream.  *)
(***************************************************************************)
EXTENDS Adapters, FiniteSets

CONSTANTS
  Quantities,  \* the quantities the executor asks for
  MaxOrders,   \* a bound on the executor's orders
  MaxCrashes,  \* a bound on crashes
  MaxLiquidations \* a bound on liquidations

ASSUME QuantitiesAssumption == Quantities \subseteq Nat

VARIABLES
  venue,    \* the exchange
  below,    \* whether it reports shorts as negative amounts
  book,     \* the units of a contract held on each side
  live,     \* the order that is being executed, NoOrder when none is
  call,     \* the adapter's call in progress
  leg,      \* what the program records as its leg
  mode,     \* "off", "on", "restoring" or "restored"
  found,    \* the positions recovery has yet to close
  clean,    \* whether every close of recovery succeeded and was executed whole
  watch,    \* whether the position stream is subscribed
  report,   \* the report of a position on its way to the engine, or NoReport
  stale,    \* whether a side was liquidated since recovery read the positions
  orders,   \* how many orders the executor has sent
  crashes,  \* how often the program has crashed
  liquidations \* how many positions the exchange has liquidated

streamVars == <<watch, report, stale, liquidations>>
deskVars ==
  <<venue, below, book, live, call, leg, mode, found, clean, streamVars, orders, crashes>>

NoOrder == [none |-> TRUE]
NoCall == [use |-> "none"]
NoReport == [what |-> "nothing"]
NoLeg == [side |-> "none", qty |-> 0, priced |-> FALSE]
Flat == [s \in Sides |-> 0]

\* A call: its use, the quantity asked for, the order, whether the exchange took
\* it, what it has filled, and whether its details are asked for next.
Call(u, q, o, taken) ==
  [use |-> u, asked |-> q, order |-> o, taken |-> taken, filled |-> 0, acked |-> FALSE]

\* The holdings after n units of order o have traded.
Traded(b, o, n) ==
  IF o.pos = "net"
  THEN LET net == b.long - b.short + (IF o.dir = "buy" THEN n ELSE -n)
       IN [s \in Sides |->
             IF s = "long" THEN (IF net > 0 THEN net ELSE 0)
             ELSE IF net < 0 THEN -net ELSE 0]
  ELSE [b EXCEPT ![o.pos] = IF (o.dir = "buy") = (o.pos = "long") THEN @ + n ELSE @ - n]

\* An order that closes one side trades no more than is held.
Tradable(b, o) ==
  IF o.pos # "net" /\ (o.dir = "buy") # (o.pos = "long") /\ b[o.pos] < o.size
  THEN b[o.pos] ELSE o.size

DeskInit ==
  /\ venue \in Venues
  /\ below \in BOOLEAN
  /\ book = Flat /\ live = NoOrder /\ call = NoCall /\ leg = NoLeg
  /\ mode = "off" /\ found = {} /\ clean = TRUE /\ orders = 0 /\ crashes = 0
  /\ watch = FALSE /\ report = NoReport /\ stale = FALSE /\ liquidations = 0
-----------------------------------------------------------------------------
(* The exchange.                                                            *)

\* The side of the position an order has changed; a position that is gone is long.
SideOf(o, b) == IF o.pos # "net" THEN o.pos ELSE IF b.short > 0 THEN "short" ELSE "long"

\* The position stream tells event e of side s: what the adapter's handler makes of
\* it is queued for the engine, and dropped when the queue, of one, is full.
Report(e, s) ==
  LET what == IF watch THEN PositionReport(venue, e) ELSE "nothing"
  IN report' = IF what = "nothing" \/ report # NoReport THEN report
               ELSE [what |-> what, side |-> s, at |-> orders]

\* An order in the book trades n more units, or its rest is cancelled.  Gate and
\* HTX trade whole contracts.
Execute ==
  /\ live # NoOrder
  /\ \E n \in 0..Tradable(book, [live.order EXCEPT !.size = live.left]) :
       /\ venue \in {"gate", "htx"} => n % Unit = 0
       /\ book' = Traded(book, live.order, n)
       /\ live' = IF n = live.left \/ n = 0 THEN NoOrder ELSE [live EXCEPT !.left = @ - n]
       /\ clean' = (clean /\ (live.use = "recover" => n > 0))
       /\ call' = IF call # NoCall /\ call.use = live.use
                  THEN [call EXCEPT !.filled = @ + n] ELSE call
       /\ IF n > 0 THEN Report("changed", SideOf(live.order, book')) ELSE report' = report
  /\ UNCHANGED <<venue, below, leg, mode, found, orders, crashes, watch, stale, liquidations>>

\* The exchange takes the whole of one side.
Liquidate(s) ==
  /\ book[s] > 0 /\ live = NoOrder
  /\ liquidations < MaxLiquidations /\ liquidations' = liquidations + 1
  /\ book' = [book EXCEPT ![s] = 0]
  /\ stale' = TRUE
  /\ Report("liquidated", s)
  /\ UNCHANGED <<venue, below, live, call, leg, mode, found, clean, watch, orders, crashes>>

\* A request is sent: it may reach the exchange, which may take the order.
Request(u, q, o) ==
  \E taken \in BOOLEAN :
    /\ taken => o.size > 0
    /\ call' = Call(u, q, o, taken)
    /\ live' = IF taken THEN [order |-> o, left |-> o.size, use |-> u] ELSE NoOrder
-----------------------------------------------------------------------------
(* The executor.                                                            *)

\* Connect reads the balance; then AddExchange subscribes to the positions, and
\* does not look at the error.
Join ==
  \E a, login \in Answers :
    /\ Balance(venue, a, 1) # NoBalance
    /\ watch' = (StreamOf(venue, "watch") # NoStream /\ LogsIn(venue, "watch", login))

\* The first start, when the ticker shows that the symbol is traded.
FirstStart ==
  /\ mode = "off" /\ crashes = 0
  /\ Join
  /\ \E t \in Answers : Available(venue, t)
  /\ mode' = "on"
  /\ UNCHANGED <<venue, below, book, live, call, leg, found, clean, orders, crashes,
                 report, stale, liquidations>>

\* placeOrder for the long or the short leg of an entry.
Open(s, q) ==
  /\ mode = "on" /\ call = NoCall /\ live = NoOrder /\ leg = NoLeg
  /\ orders < MaxOrders /\ orders' = orders + 1
  /\ Request(s, q, MarketOrder(venue, IF s = "long" THEN "buy" ELSE "sell", q))
  /\ UNCHANGED <<venue, below, book, leg, mode, found, clean, crashes, streamVars>>

\* closeTwoLegs or a rollback: the opposite order for what the leg records.
CloseLeg ==
  /\ mode = "on" /\ call = NoCall /\ live = NoOrder /\ leg.qty > 0
  /\ orders < MaxOrders /\ orders' = orders + 1
  /\ Request("close", leg.qty,
          MarketOrder(venue, IF leg.side = "long" THEN "sell" ELSE "buy", leg.qty))
  /\ UNCHANGED <<venue, below, book, leg, mode, found, clean, crashes, streamVars>>

\* An order that was taken is answered with a success and another is refused,
\* at OKX perhaps as the item of its batch; either answer may be lost, or replaced
\* by a server in between.
Believable(a) ==
  \/ a \in {"lost", "proxy"}
  \/ a = "ok" /\ call.taken
  \/ a \in {"refused", "item"} /\ ~call.taken /\ (a = "item" => venue = "okx")

\* The call returns an error: nothing is recorded, whatever the order does.
Fails ==
  /\ call # NoCall /\ ~call.acked
  /\ \E a \in Answers :
       /\ Believable(a)
       /\ IF call.use = "recover" THEN ~Accepts(venue, a) ELSE ~Places(venue, a)
  /\ clean' = (clean /\ call.use # "recover")
  /\ call' = NoCall
  /\ UNCHANGED <<venue, below, book, live, leg, mode, found, orders, crashes, streamVars>>

\* Gate and BingX answer with the order's state; the others are asked for it.
Synchronous == venue \in {"gate", "bingx"}

\* ClosePosition returns when the order is acknowledged.
CloseReturns ==
  /\ call # NoCall /\ call.use = "recover"
  /\ \E a \in Answers :
       /\ Believable(a) /\ Accepts(venue, a)
       /\ clean' = (clean /\ a = "ok")
  /\ call' = NoCall
  /\ UNCHANGED <<venue, below, book, live, leg, mode, found, orders, crashes, streamVars>>

Acknowledged ==
  /\ call # NoCall /\ call.use # "recover" /\ ~call.acked /\ ~Synchronous
  /\ \E a \in Answers : Believable(a) /\ Places(venue, a)
  /\ call' = [call EXCEPT !.acked = TRUE]
  /\ UNCHANGED <<venue, below, book, live, leg, mode, found, clean, orders, crashes, streamVars>>

\* The call returns an order, with the answer d that carries its details: a leg
\* is recorded as that order says, and is gone once it is closed.
Returns ==
  /\ call # NoCall /\ call.use # "recover"
  /\ \E d \in Answers :
       /\ IF Synchronous THEN Believable(d) /\ Places(venue, d) ELSE call.acked
       /\ LET f == Reported(venue, call.asked, call.order, call.filled, d)
          IN leg' = IF call.use = "close" THEN NoLeg
                    ELSE [side |-> call.use, qty |-> f.qty, priced |-> f.priced]
  /\ call' = NoCall
  /\ UNCHANGED <<venue, below, book, live, mode, found, clean, orders, crashes, streamVars>>

\* The engine takes a report.  When the leg of that side was liquidated, and no call
\* is in progress, the leg is forgotten, unless the close of the other one fails.
Hear ==
  /\ report # NoReport
  /\ report' = NoReport
  /\ \/ leg' = leg
     \/ /\ report.what = "liquidated" /\ report.side = leg.side /\ call = NoCall
        /\ leg' = NoLeg
  /\ UNCHANGED <<venue, below, book, live, call, mode, found, clean, orders, crashes,
                 watch, stale, liquidations>>
-----------------------------------------------------------------------------
(* Crash and recovery.                                                      *)

\* The process ends; what it recorded in memory is gone.
Crash ==
  /\ mode \in {"on", "restored"} /\ crashes < MaxCrashes
  /\ mode' = "off" /\ crashes' = crashes + 1
  /\ call' = NoCall /\ leg' = NoLeg /\ found' = {} /\ clean' = TRUE
  /\ watch' = FALSE /\ report' = NoReport
  /\ UNCHANGED <<venue, below, book, live, orders, stale, liquidations>>

\* Mutant: no position is skipped.
KeptAny(p) == p.size # 0

\* Recovery keeps a position of a size above zero.
Kept(p) == p.size > 0

\* The exchange is connected and its positions are read, once the orders from
\* before the crash have ended.
Discover ==
  /\ mode = "off" /\ crashes > 0 /\ live = NoOrder
  /\ Join
  /\ \E a \in Answers :
       /\ Accepts(venue, a)
       /\ a \in {"proxy", "empty", "ok"} /\ (a = "empty" => book = Flat)
       /\ found' = IF a = "ok" THEN {p \in Positions(venue, book, below) : Kept(p)} ELSE {}
       /\ clean' = (a # "proxy")
  /\ mode' = "restoring" /\ stale' = FALSE
  /\ UNCHANGED <<venue, below, book, live, call, leg, orders, crashes, report, liquidations>>

\* closeOrphanedPositions: one call per position, by its side and size.
CloseOrphan(p) ==
  /\ mode = "restoring" /\ p \in found /\ call = NoCall /\ live = NoOrder
  /\ found' = found \ {p}
  /\ Request("recover", p.size, CloseOrder(venue, p.side, p.size))
  /\ UNCHANGED <<venue, below, book, leg, mode, clean, orders, crashes, streamVars>>

Restored ==
  /\ mode = "restoring" /\ found = {} /\ call = NoCall /\ live = NoOrder
  /\ mode' = "restored"
  /\ UNCHANGED <<venue, below, book, live, call, leg, found, clean, orders, crashes, streamVars>>

DeskNext ==
  \/ Execute \/ FirstStart \/ CloseLeg \/ Fails \/ CloseReturns \/ Acknowledged \/ Returns
  \/ Hear \/ Crash \/ Discover \/ Restored
  \/ \E s \in Sides : Liquidate(s)
  \/ \E s \in Sides, q \in Quantities : Open(s, q)
  \/ \E p \in found : CloseOrphan(p)

DeskSpec == DeskInit /\ [][DeskNext]_deskVars
-----------------------------------------------------------------------------
(* Properties.                                                              *)

\* At Bybit and Gate the close of a position that is gone opens the other side.
Overtaken == stale /\ venue \in {"bybit", "gate"}

\* Recovery's ClosePosition, called with the side and size a position was
\* reported with, never opens or enlarges a position at any exchange; only at
\* Bybit and Gate does it when the exchange liquidated the position meanwhile.
RecoveryOnlyReduces ==
  [][live # NoOrder /\ live.use = "recover" /\ ~Overtaken
       => \A s \in Sides : book'[s] <= book[s]]_deskVars

\* The engine forgets a leg as liquidated only when the account does not hold it:
\* no other report, of an order's own execution, is taken for a liquidation.
\* Not when an order was sent since, which a report does not show.
AlarmsAreTrue ==
  [][report # NoReport /\ report' = NoReport /\ leg' # leg /\ mode' = mode
       /\ report.at = orders => book[leg.side] = 0]_deskVars

\* When recovery has read the positions, and each of its closes was accepted and
\* executed, the account is flat.  Not at OKX when it reports a short above
\* zero: okx.go:484 negates every short, and recovery drops it.  Nor at Bybit and
\* Gate when the exchange liquidated the position meanwhile.
OrphansClosed ==
  mode = "restored" /\ clean /\ ~(venue = "okx" /\ ~below) /\ ~Overtaken => book = Flat

\* A leg that is recorded with a price is no larger than what its order traded.
\* Not at Gate, where left is signed and a fraction of a contract is not sent.
PricedLegTraded ==
  [][leg' # leg /\ leg'.priced /\ venue # "gate" => leg'.qty <= call.filled]_deskVars

\* OKX, Bitget and Gate never record a leg for an order the exchange never had.
NothingInvented ==
  [][leg' # leg /\ leg'.qty > 0 /\ venue \in {"okx", "bitget", "gate"}
       => call.taken]_deskVars

\* interface.go:124-127: a sell order "opens a short or closes a long".  The
\* order that closes a leg never adds to the other side of the account.
ClosingNeverOpens ==
  [][live # NoOrder /\ live.use = "close" => \A s \in Sides : book'[s] <= book[s]]_deskVars
=============================================================================
