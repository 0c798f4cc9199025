------------------------------- MODULE Adapters -------------------------------
(***************************************************************************)
(* The six adapters of internal/exchange as functions: what each one sends   *)
(* for an order or for the close of a position, which answers it takes for   *)
(* a success, how much it reports as filled, which positions it reports,     *)
(* and the limits it derives.  Signing, symbols and JSON are left out.       *)
(* The program's quantities are fractions: they are counted in parts of a    *)
(* contract, of which there are Unit.                                        *)
(***************************************************************************)
EXTENDS Integers

CONSTANT Unit  \* the parts of one contract

ASSUME UnitAssumption == Unit \in Nat /\ Unit > 0

Venues == {"bybit", "okx", "bitget", "gate", "htx", "bingx"}
Dirs == {"buy", "sell"}
Sides == {"long", "short"}

\* What arrives: nothing readable ("lost"), JSON of a server in between without
\* the exchange's status code ("proxy"), a refusal of the request ("refused") or,
\* in a batch format, of its only item ("item"), a success with no data
\* ("empty"), a success.
Answers == {"lost", "proxy", "refused", "item", "empty", "ok"}

\* SideSell and SideShort are the same to every adapter that opens.
Dir(side) == IF side \in {"sell", "short"} THEN "sell" ELSE "buy"

Opposite(d) == IF d = "buy" THEN "sell" ELSE "buy"

\* An order trades against the net position or opens or closes one side of a
\* hedged account: buy and "long" open a long, sell and "long" close it.
Order(d, pos, q) == [dir |-> d, pos |-> pos, size |-> q]

Opening(d, q) == Order(d, IF d = "buy" THEN "long" ELSE "short", q)

Closing(d, q) == Order(d, IF d = "sell" THEN "long" ELSE "short", q)

\* int64(qty)
Truncated(q) == (q \div Unit) * Unit

\* FormatFloat(qty, 'f', 0, 64): to the nearest contract, a tie to the even one.
Rounded(q) ==
  LET n == q \div Unit
      r == 2 * (q % Unit)
  IN Unit * (IF r > Unit \/ (r = Unit /\ n % 2 = 1) THEN n + 1 ELSE n)
-----------------------------------------------------------------------------
(* doRequest: which answers are a success.                                  *)

\* retCode is a number, and 0 when it is missing; the HTTP status is not read.
BybitAccepts(a) == a \in {"proxy", "item", "empty", "ok"}

\* code is the string "0"; the item's sCode is for the caller to read.
OKXAccepts(a) == a \in {"item", "empty", "ok"}

\* code is the string "00000".
BitgetAccepts(a) == a \in {"item", "empty", "ok"}

\* Mutant: the HTTP status is not read.
GateTakesAny(a) == a # "lost" /\ a # "refused"

\* Any HTTP status from 400 is an error.
GateAccepts(a) == a \in {"item", "empty", "ok"}

\* status is compared with "error" only.
HTXAccepts(a) == a \in {"proxy", "item", "empty", "ok"}

\* code is a number, and 0 when it is missing.
BingXAccepts(a) == a \in {"proxy", "item", "empty", "ok"}

Accepts(v, a) ==
  CASE v = "bybit" -> BybitAccepts(a)
    [] v = "okx" -> OKXAccepts(a)
    [] v = "bitget" -> BitgetAccepts(a)
    [] v = "gate" -> GateAccepts(a)
    [] v = "htx" -> HTXAccepts(a)
    [] v = "bingx" -> BingXAccepts(a)

\* PlaceMarketOrder of OKX reads the item as well; its ClosePosition does not.
Places(v, a) == Accepts(v, a) /\ (v = "okx" => a = "ok")
-----------------------------------------------------------------------------
(* GetBalance, by which Connect tries the keys: the equity b, or 0 when the   *)
(* answer has none.                                                         *)

NoBalance == -1

BalanceIn(accepted, a, b) == IF ~accepted THEN NoBalance ELSE IF a = "ok" THEN b ELSE 0

BybitBalance(a, b) == BalanceIn(BybitAccepts(a), a, b)
OKXBalance(a, b) == BalanceIn(OKXAccepts(a), a, b)
BitgetBalance(a, b) == BalanceIn(BitgetAccepts(a), a, b)

\* An object is parsed: a list in its place is an error.
GateBalance(a, b) == BalanceIn(GateAccepts(a) /\ a # "empty", a, b)

HTXBalance(a, b) == BalanceIn(HTXAccepts(a), a, b)
BingXBalance(a, b) == BalanceIn(BingXAccepts(a), a, b)

Balance(v, a, b) ==
  CASE v = "bybit" -> BybitBalance(a, b)
    [] v = "okx" -> OKXBalance(a, b)
    [] v = "bitget" -> BitgetBalance(a, b)
    [] v = "gate" -> GateBalance(a, b)
    [] v = "htx" -> HTXBalance(a, b)
    [] v = "bingx" -> BingXBalance(a, b)
-----------------------------------------------------------------------------
(* PlaceMarketOrder: what is sent.                                          *)

BybitOrder(s, q) == Order(Dir(s), "net", q)

\* posSide follows the direction: a sale opens a short.
OKXOrder(s, q) == Opening(Dir(s), q)

\* tradeSide is "open".
BitgetOrder(s, q) == Opening(Dir(s), q)

GateOrder(s, q) == Order(Dir(s), "net", Truncated(q))

\* offset is "open".
HTXOrder(s, q) == Opening(Dir(s), Rounded(q))

\* positionSide follows the direction.
BingXOrder(s, q) == Opening(Dir(s), q)

MarketOrder(v, s, q) ==
  CASE v = "bybit" -> BybitOrder(s, q)
    [] v = "okx" -> OKXOrder(s, q)
    [] v = "bitget" -> BitgetOrder(s, q)
    [] v = "gate" -> GateOrder(s, q)
    [] v = "htx" -> HTXOrder(s, q)
    [] v = "bingx" -> BingXOrder(s, q)
-----------------------------------------------------------------------------
(* ClosePosition: what is sent.  The side is that of a position, or of an    *)
(* order: the callers differ.                                               *)

\* Mutant: the direction of the position itself.
BybitCloseTwice(s, q) == BybitOrder(s, q)

BybitClose(s, q) == BybitOrder(IF s \in {"long", "buy"} THEN "sell" ELSE "buy", q)

OKXClose(s, q) == Closing(IF s = "short" THEN "buy" ELSE "sell", q)

BitgetClose(s, q) == Closing(IF s \in {"long", "buy"} THEN "sell" ELSE "buy", q)

GateClose(s, q) ==
  Order(IF s \in {"long", "buy"} THEN "sell" ELSE "buy", "net", Truncated(q))

HTXClose(s, q) == Closing(IF s = "short" THEN "buy" ELSE "sell", Rounded(q))

BingXClose(s, q) == Closing(IF s = "short" THEN "buy" ELSE "sell", q)

CloseOrder(v, s, q) ==
  CASE v = "bybit" -> BybitClose(s, q)
    [] v = "okx" -> OKXClose(s, q)
    [] v = "bitget" -> BitgetClose(s, q)
    [] v = "gate" -> GateClose(s, q)
    [] v = "htx" -> HTXClose(s, q)
    [] v = "bingx" -> BingXClose(s, q)
-----------------------------------------------------------------------------
(* What PlaceMarketOrder reports: FilledQty, and whether AvgFillPrice is     *)
(* set.  asked is the caller's quantity, o the order sent, n what it has     *)
(* filled when that is read, d the answer that carries the details.         *)

Fill(q, priced) == [qty |-> q, priced |-> priced]

\* Without details the order counts as filled, at the price 0.
BybitDetail(asked, n, d) ==
  IF BybitAccepts(d) /\ d = "ok" THEN Fill(n, n > 0) ELSE Fill(asked, FALSE)

OKXDetail(asked, n, d) ==
  IF OKXAccepts(d) /\ d = "ok" THEN Fill(n, n > 0) ELSE Fill(asked, FALSE)

\* An answer without the order's data is read as an order without fills.
BitgetDetail(asked, n, d) ==
  IF ~BitgetAccepts(d) THEN Fill(asked, FALSE)
  ELSE IF d = "ok" THEN Fill(n, n > 0) ELSE Fill(0, FALSE)

HTXDetail(asked, n, d) ==
  IF HTXAccepts(d) /\ d = "ok" THEN Fill(n, n > 0) ELSE Fill(asked, FALSE)

\* The order's own answer has left, which is negative for a sale.
GateFill(asked, o, n) ==
  LET left == (o.size - n) * (IF o.dir = "sell" THEN -1 ELSE 1)
      filled == asked - left
  IN Fill(IF filled < 0 THEN -filled ELSE filled, n > 0)

\* Mutant: every order counts as filled, at the price of the answer.
BingXAssumed(a, n) == Fill(2 * Unit, a = "ok")

\* The order's own answer has executedQty.
BingXFill(a, n) == IF a = "ok" THEN Fill(n, n > 0) ELSE Fill(0, FALSE)

Reported(v, asked, o, n, d) ==
  CASE v = "bybit" -> BybitDetail(asked, n, d)
    [] v = "okx" -> OKXDetail(asked, n, d)
    [] v = "bitget" -> BitgetDetail(asked, n, d)
    [] v = "gate" -> GateFill(asked, o, n)
    [] v = "htx" -> HTXDetail(asked, n, d)
    [] v = "bingx" -> BingXFill(d, n)
-----------------------------------------------------------------------------
(* GetOpenPositions: the positions reported for the holdings b.             *)

Position(s, n) == [side |-> s, size |-> n]

\* One entry per side that is held.
Held(b) == {s \in Sides : b[s] # 0}

BybitPositions(b) == {Position(s, b[s]) : s \in Held(b)}

\* The size of a short is negated, whether OKX reported it below zero or not.
OKXPositions(b, below) ==
  {Position(s, IF s = "short" /\ ~below THEN -b[s] ELSE b[s]) : s \in Held(b)}

\* holdSide names the side; total is never below zero.
BitgetPositions(b) == {Position(s, b[s]) : s \in Held(b)}

\* The size is signed: shorts are below zero.
GatePositions(b) ==
  LET net == b.long - b.short
  IN IF net = 0 THEN {}
     ELSE {Position(IF net < 0 THEN "short" ELSE "long", IF net < 0 THEN -net ELSE net)}

\* Mutant: the direction is not read.
HTXLongPositions(b) == {Position("long", b[s]) : s \in Held(b)}

\* direction "sell" is a short; volume is never below zero.
HTXPositions(b) == {Position(s, b[s]) : s \in Held(b)}

\* positionSide or the sign of the amount makes a short; the size is its amount.
BingXPositions(b, below) ==
  {LET amount == IF s = "short" /\ below THEN -b[s] ELSE b[s]
   IN Position(s, IF amount < 0 THEN -amount ELSE amount) : s \in Held(b)}

Positions(v, b, below) ==
  CASE v = "bybit" -> BybitPositions(b)
    [] v = "okx" -> OKXPositions(b, below)
    [] v = "bitget" -> BitgetPositions(b)
    [] v = "gate" -> GatePositions(b)
    [] v = "htx" -> HTXPositions(b)
    [] v = "bingx" -> BingXPositions(b, below)
-----------------------------------------------------------------------------
(* GetTicker as the availability check of a symbol uses it.                 *)

\* The list of four adapters is tested for being empty.
BybitTicker(a) == BybitAccepts(a) /\ a \notin {"proxy", "empty"}
OKXTicker(a) == OKXAccepts(a) /\ a # "empty"
BitgetTicker(a) == BitgetAccepts(a) /\ a # "empty"
GateTicker(a) == GateAccepts(a) /\ a # "empty"

\* The other two return prices of 0.
HTXTicker(a) == HTXAccepts(a)
BingXTicker(a) == BingXAccepts(a)

Available(v, a) ==
  CASE v = "bybit" -> BybitTicker(a)
    [] v = "okx" -> OKXTicker(a)
    [] v = "bitget" -> BitgetTicker(a)
    [] v = "gate" -> GateTicker(a)
    [] v = "htx" -> HTXTicker(a)
    [] v = "bingx" -> BingXTicker(a)
-----------------------------------------------------------------------------
(* The sockets: SubscribeTicker and SubscribePositions keep the callback, the *)
(* first of them connects its socket, under the adapter's mutex, and logs in  *)
(* where there is a login; then the subscription is added and sent.         *)

Stream(socket, login) == [socket |-> socket, login |-> login]
NoStream == Stream("none", FALSE)

BybitTicks == Stream("public", FALSE)
OKXTicks == Stream("public", FALSE)
BitgetTicks == Stream("public", FALSE)
GateTicks == Stream("one", FALSE)
HTXTicks == Stream("one", FALSE)
BingXTicks == Stream("one", FALSE)

BybitWatch == Stream("private", TRUE)
OKXWatch == Stream("private", TRUE)
BitgetWatch == Stream("private", TRUE)

\* The socket of the tickers; the subscription itself is signed, once.
GateWatch == Stream("one", FALSE)

\* The callback is kept and nothing is subscribed.
HTXWatch == NoStream
BingXWatch == NoStream

Kinds == {"ticks", "watch"}

StreamOf(v, k) ==
  CASE v = "bybit" -> IF k = "ticks" THEN BybitTicks ELSE BybitWatch
    [] v = "okx" -> IF k = "ticks" THEN OKXTicks ELSE OKXWatch
    [] v = "bitget" -> IF k = "ticks" THEN BitgetTicks ELSE BitgetWatch
    [] v = "gate" -> IF k = "ticks" THEN GateTicks ELSE GateWatch
    [] v = "htx" -> IF k = "ticks" THEN HTXTicks ELSE HTXWatch
    [] v = "bingx" -> IF k = "ticks" THEN BingXTicks ELSE BingXWatch

\* authenticateWebSocket: Bybit writes the login and does not wait for the
\* answer, which OKX and Bitget read.
BybitLogin(a) == a # "lost"
OKXLogin(a) == a = "ok"
BitgetLogin(a) == a = "ok"

LogsIn(v, k, a) ==
  StreamOf(v, k).login =>
    CASE v = "bybit" -> BybitLogin(a)
      [] v = "okx" -> OKXLogin(a)
      [] v = "bitget" -> BitgetLogin(a)

\* Close of an adapter: the sockets it closes, and whether it waits, under the
\* mutex, for the first connection of one.
CloseOf(sockets, waits) == [sockets |-> sockets, waits |-> waits]

BybitShuts == CloseOf({"public", "private"}, FALSE)
OKXShuts == CloseOf({"public", "private"}, FALSE)
BitgetShuts == CloseOf({"public", "private"}, FALSE)
GateShuts == CloseOf({"one"}, FALSE)
HTXShuts == CloseOf({"one"}, TRUE)
BingXShuts == CloseOf({"one"}, TRUE)

Shuts(v) ==
  CASE v = "bybit" -> BybitShuts
    [] v = "okx" -> OKXShuts
    [] v = "bitget" -> BitgetShuts
    [] v = "gate" -> GateShuts
    [] v = "htx" -> HTXShuts
    [] v = "bingx" -> BingXShuts

\* What the handler of positions reports of a position: only Bybit's tells a
\* liquidation from any other change.
Events == {"changed", "liquidated"}

\* Mutant: a position that an order changed counts as liquidated.
BybitAlarms(e) == "liquidated"

BybitReport(e) == e
OKXReport(e) == "changed"
BitgetReport(e) == "changed"
GateReport(e) == "changed"

PositionReport(v, e) ==
  CASE v = "bybit" -> BybitReport(e)
    [] v = "okx" -> OKXReport(e)
    [] v = "bitget" -> BitgetReport(e)
    [] v = "gate" -> GateReport(e)
    [] OTHER -> "nothing"
-----------------------------------------------------------------------------
(* What the WebSocket handlers make of a message: a quote, a ticker with a   *)
(* price of zero, or nothing.                                               *)

\* A ticker may come whole, with fields missing, or without data; or the message
\* answers a request.
Pushes == {"whole", "part", "bare", "other"}

\* A field that is missing is parsed as 0: a delta has only what changed.
BybitPush(m) == IF m = "whole" THEN "quote" ELSE IF m = "part" THEN "zero" ELSE "nothing"

\* The list of data is tested for being empty.
OKXPush(m) == IF m = "whole" THEN "quote" ELSE IF m = "part" THEN "zero" ELSE "nothing"

\* The list of data is tested for being empty.
BitgetPush(m) == IF m = "whole" THEN "quote" ELSE IF m = "part" THEN "zero" ELSE "nothing"

\* Only updates are read; every ticker of the list is a callback.
GatePush(m) == IF m = "whole" THEN "quote" ELSE IF m = "part" THEN "zero" ELSE "nothing"

\* The symbol is taken from the channel, and prices are 0 unless there are some.
HTXPush(m) == IF m = "whole" THEN "quote" ELSE IF m = "other" THEN "nothing" ELSE "zero"

\* A message without data names no symbol.
BingXPush(m) == IF m = "whole" THEN "quote" ELSE IF m = "part" THEN "zero" ELSE "nothing"

TickerPush(v, m) ==
  CASE v = "bybit" -> BybitPush(m)
    [] v = "okx" -> OKXPush(m)
    [] v = "bitget" -> BitgetPush(m)
    [] v = "gate" -> GatePush(m)
    [] v = "htx" -> HTXPush(m)
    [] v = "bingx" -> BingXPush(m)
=============================================================================
