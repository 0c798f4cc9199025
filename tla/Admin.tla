------------------------------- MODULE Admin -------------------------------
(***************************************************************************)
(* The pairs and the accounts behind the API: PairService and              *)
(* ExchangeService write the database and then the engine, requests are     *)
(* served concurrently, the engine opens and closes positions meanwhile,    *)
(* and after a crash RecoveryManager rebuilds the engine from the database  *)
(* and from the positions it finds on the exchanges.                       *)
(***************************************************************************)
EXTENDS Integers, FiniteSets

CONSTANTS
  Workers,      \* goroutines that serve requests
  MaxId,        \* a bound on the serial identifiers of pairs
  Symbols,      \* what is traded
  Exchanges,    \* the exchanges
  Params,       \* valid settings of a pair
  MaxPairs,     \* the limit on pairs
  AutoClose,    \* whether recovery closes the positions nobody claims
  MaxRequests,  \* a bound on requests
  MaxEntries,   \* a bound on entries
  MaxCrashes,   \* a bound on crashes
  None          \* no row, no pair, no setting

VARIABLES
  mode,      \* "down" or "up"
  rows,      \* the table of pairs
  next,      \* the next identifier of the table's sequence
  accounts,  \* the table of exchanges: those marked as connected
  held,      \* what the account has at each exchange: above zero is long
  pending,   \* the settings that wait for a position to close
  joined,    \* the engine's exchanges
  known,     \* the engine's pairs, by identifier
  index,     \* the engine's pairs that receive the prices of a symbol
  pairs,     \* the state of each pair the engine ever made
  jobs,      \* the entries and closes in flight
  req,       \* the request each worker serves
  raced,     \* the pairs that two requests changed at the same time
  answered,  \* the exchanges whose positions recovery could read
  requests, entries, crashes

engineVars == <<joined, known, index, pairs, jobs>>
storeVars == <<rows, next, accounts>>
ghosts == <<answered, crashes>>
vars == <<mode, storeVars, held, pending, engineVars, req, raced, ghosts, requests, entries>>

Ids == 1..MaxId
States == {"PAUSED", "READY", "ENTERING", "HOLDING", "EXITING", "ERROR"}
Sides == {"long", "short"}
Sign(side) == IF side = "long" THEN 1 ELSE -1
Magnitude(n) == IF n < 0 THEN -n ELSE n

\* The rows of a symbol, a status and settings; a leg: where, which side, and how
\* much; and a pair of the engine.
Row == [symbol : Symbols, status : {"active", "paused"}, params : Params]
Legs == [ex : Exchanges, side : Sides, qty : Nat \ {0}]
Pair == [symbol : Symbols, params : Params, status : {"active", "paused"}, state : States,
         legs : SUBSET Legs, ready : BOOLEAN]

ASSUME AdminAssumption ==
  /\ MaxId \in Nat
  /\ IsFiniteSet(Exchanges)
  /\ None \notin Ids /\ None \notin Row /\ None \notin Pair

Leg(x, side, n) == [ex |-> x, side |-> side, qty |-> n]
Idle == [op |-> "idle", id |-> None, at |-> "idle", arg |-> None]
Request(op, id, at, arg) == [op |-> op, id |-> id, at |-> at, arg |-> arg]
NewPair(s, p) ==
  [symbol |-> s, params |-> p, status |-> "paused", state |-> "PAUSED", legs |-> {},
   ready |-> FALSE]

\* GetByID, and the rows that GetActive and ExistsBySymbol select.
Rows == {i \in Ids : rows[i] # None}
Named(s) == {i \in Rows : rows[i].symbol = s}

\* The engine's lookup by identifier under pairsMu.
Known(i) == i \in known

\* Engine.HasOpenPosition, which hasOpenPosition asks.
HasOpenPosition(i) == Known(i) /\ pairs[i].state \in {"HOLDING", "ENTERING", "EXITING"}

\* checkSymbolAvailability: a request goes on when two of the accounts answered.
Available == Cardinality(accounts) >= 2

\* A process starts with what the last one stored: at most one pair.
Init ==
  /\ mode = "down"
  /\ \E r \in Row \cup {None} :
       /\ rows = [i \in Ids |-> IF i = 1 THEN r ELSE None]
       /\ next = IF r = None THEN 1 ELSE 2
  /\ accounts \in SUBSET Exchanges
  /\ held = [s \in Symbols |-> [x \in Exchanges |-> 0]]
  /\ pending = [i \in Ids |-> None]
  /\ joined = {} /\ known = {} /\ index = [s \in Symbols |-> {}]
  /\ pairs = [i \in Ids |-> None] /\ jobs = {}
  /\ req = [w \in Workers |-> Idle] /\ raced = {} /\ answered = {}
  /\ requests = 0 /\ entries = 0 /\ crashes = 0
-----------------------------------------------------------------------------
(* Requests.                                                               *)

Asks(w) ==
  /\ mode = "up" /\ req[w] = Idle
  /\ requests < MaxRequests /\ requests' = requests + 1

\* The worker goes on with its request, or ends it.
Goes(w, at) == req' = [req EXCEPT ![w].at = at]
Ends(w) == req' = [req EXCEPT ![w] = Idle]
At(w, op, at) == mode = "up" /\ req[w].op = op /\ req[w].at = at

\* CreatePair up to the answers of the exchanges.  The symbol is compared as it
\* was typed, and stored in capitals.
CreateChecks(w, s, p, capitals) ==
  /\ Asks(w)
  /\ Cardinality(Rows) < MaxPairs
  /\ capitals => Named(s) = {}
  /\ Available
  /\ req' = [req EXCEPT ![w] = Request("create", None, "insert", [symbol |-> s, params |-> p])]
  /\ UNCHANGED <<mode, storeVars, held, pending, engineVars, raced, ghosts, entries>>

\* PairRepository.Create: the row gets the next identifier of the sequence; no
\* constraint of the table makes the symbol unique.
CreateInserts(w) ==
  /\ At(w, "create", "insert")
  /\ \/ Ends(w) /\ UNCHANGED <<rows, next>>
     \/ /\ next \in Ids /\ next' = next + 1
        /\ rows' = [rows EXCEPT ![next] = [symbol |-> req[w].arg.symbol,
                                           params |-> req[w].arg.params, status |-> "paused"]]
        /\ req' = [req EXCEPT ![w].at = "add", ![w].id = next]
  /\ UNCHANGED <<mode, accounts, held, pending, engineVars, raced, ghosts, requests, entries>>

\* Mutant: the index takes a second pair of a symbol.
AddPairAgain(i, s, p) ==
  /\ known' = known \cup {i}
  /\ pairs' = [pairs EXCEPT ![i] = NewPair(s, p)]
  /\ index' = [index EXCEPT ![s] = @ \cup {i}]

\* Engine.AddPair: a second pair of a symbol panics where the index compares
\* slices, after the pair was stored by identifier.
AddPair(i, s, p) ==
  /\ known' = known \cup {i}
  /\ pairs' = [pairs EXCEPT ![i] = NewPair(s, p)]
  /\ index' = [index EXCEPT ![s] = IF @ = {} THEN {i} ELSE @]

CreateAdds(w) ==
  /\ At(w, "create", "add")
  /\ AddPair(req[w].id, req[w].arg.symbol, req[w].arg.params)
  /\ Ends(w)
  /\ UNCHANGED <<mode, storeVars, held, pending, joined, jobs, raced, ghosts, requests, entries>>

Changing(i) == {w \in Workers : req[w].id = i /\ req[w].op \in {"create", "update"}}

\* UpdatePair: the new settings wait while a position is open.
UpdateDecides(w, i, p) ==
  /\ Asks(w)
  /\ i \in Rows
  /\ \/ HasOpenPosition(i) /\ pending' = [pending EXCEPT ![i] = p] /\ UNCHANGED <<req, raced>>
     \/ /\ ~HasOpenPosition(i)
        /\ req' = [req EXCEPT ![w] = Request("update", i, "write", p)]
        /\ raced' = IF Changing(i) = {} THEN raced ELSE raced \cup {i}
        /\ UNCHANGED pending
  /\ UNCHANGED <<mode, storeVars, held, engineVars, ghosts, entries>>

\* Mutant: the engine is told although the row was not written.
UpdateIgnoresError(w) ==
  /\ At(w, "update", "write")
  /\ Goes(w, "tell")
  /\ rows' \in {rows, IF req[w].id \in Rows
                      THEN [rows EXCEPT ![req[w].id].params = req[w].arg] ELSE rows}
  /\ UNCHANGED <<mode, next, accounts, held, pending, engineVars, raced, ghosts, requests, entries>>

\* PairRepository.UpdateParams fails, or finds no row, or writes.
UpdateWrites(w) ==
  /\ At(w, "update", "write")
  /\ \/ Ends(w) /\ UNCHANGED rows
     \/ /\ req[w].id \in Rows
        /\ rows' = [rows EXCEPT ![req[w].id].params = req[w].arg]
        /\ Goes(w, "tell")
  /\ UNCHANGED <<mode, next, accounts, held, pending, engineVars, raced, ghosts, requests, entries>>

\* Engine.UpdatePairConfig.
UpdateTells(w) ==
  /\ At(w, "update", "tell")
  /\ pairs' = IF Known(req[w].id) THEN [pairs EXCEPT ![req[w].id].params = req[w].arg] ELSE pairs
  /\ Ends(w)
  /\ UNCHANGED <<mode, storeVars, held, pending, joined, known, index, jobs, raced, ghosts,
                 requests, entries>>

\* DeletePair up to the engine.
DeleteChecks(w, i) ==
  /\ Asks(w)
  /\ i \in Rows /\ rows[i].status = "paused" /\ ~HasOpenPosition(i)
  /\ req' = [req EXCEPT ![w] = Request("delete", i, "remove", None)]
  /\ UNCHANGED <<mode, storeVars, held, pending, engineVars, raced, ghosts, entries>>

\* Engine.RemovePair forgets the identifier; then the index compares slices and
\* the request panics.  It goes on for a pair the engine does not know.
DeleteRemoves(w) ==
  /\ At(w, "delete", "remove")
  /\ known' = known \ {req[w].id}
  /\ IF Known(req[w].id) THEN Ends(w) ELSE Goes(w, "row")
  /\ UNCHANGED <<mode, storeVars, held, pending, joined, index, pairs, jobs, raced, ghosts,
                 requests, entries>>

\* clearPendingConfig, and PairRepository.Delete, which may fail.
DeleteRow(w) ==
  /\ At(w, "delete", "row")
  /\ pending' = [pending EXCEPT ![req[w].id] = None]
  /\ rows' \in {rows, [rows EXCEPT ![req[w].id] = None]}
  /\ Ends(w)
  /\ UNCHANGED <<mode, next, accounts, held, engineVars, raced, ghosts, requests, entries>>

\* StartPair up to the answers of the exchanges.
StartChecks(w, i) ==
  /\ Asks(w)
  /\ i \in Rows /\ rows[i].status # "active"
  /\ Available
  /\ req' = [req EXCEPT ![w] = Request("start", i, "write", "active")]
  /\ UNCHANGED <<mode, storeVars, held, pending, engineVars, raced, ghosts, entries>>

\* PausePair; with force a HOLDING pair is closed by a goroutine of its own.
PauseChecks(w, i, force) ==
  /\ Asks(w)
  /\ i \in Rows /\ rows[i].status # "paused"
  /\ HasOpenPosition(i) => force
  /\ req' = [req EXCEPT ![w] = Request("pause", i, "tell", "paused")]
  /\ IF HasOpenPosition(i) /\ pairs[i].state = "HOLDING"
     THEN /\ pairs' = [pairs EXCEPT ![i].state = "EXITING"]
          /\ jobs' = jobs \cup {[pair |-> i, does |-> "force", legs |-> pairs[i].legs, at |-> "sent"]}
     ELSE UNCHANGED <<pairs, jobs>>
  /\ UNCHANGED <<mode, storeVars, held, pending, joined, known, index, raced, ghosts, entries>>

\* PairRepository.UpdateStatus: StartPair's first write, PausePair's last.
StatusWrites(w) ==
  /\ At(w, req[w].op, "write") /\ req[w].op \in {"start", "pause"}
  /\ \/ Ends(w) /\ UNCHANGED rows
     \/ /\ req[w].id \in Rows
        /\ rows' = [rows EXCEPT ![req[w].id].status = req[w].arg]
        /\ IF req[w].op = "start" THEN Goes(w, "tell") ELSE Ends(w)
  /\ UNCHANGED <<mode, next, accounts, held, pending, engineVars, raced, ghosts, requests, entries>>

\* Engine.StartPair and Engine.PausePair set the state whatever it was.
Started(p) == [p EXCEPT !.status = "active", !.state = "READY", !.ready = TRUE]
Paused(p) == [p EXCEPT !.status = "paused", !.state = "PAUSED", !.ready = FALSE]
StatusTells(w) ==
  /\ At(w, req[w].op, "tell") /\ req[w].op \in {"start", "pause"}
  /\ pairs' = IF Known(req[w].id)
              THEN [pairs EXCEPT ![req[w].id] =
                      IF req[w].op = "start" THEN Started(@) ELSE Paused(@)]
              ELSE pairs
  /\ IF req[w].op = "pause" THEN Goes(w, "write") ELSE Ends(w)
  /\ UNCHANGED <<mode, storeVars, held, pending, joined, known, index, jobs, raced, ghosts,
                 requests, entries>>

\* ConnectExchange up to the exchange's balance.
ConnectChecks(w, x) ==
  /\ Asks(w)
  /\ x \notin accounts
  /\ req' = [req EXCEPT ![w] = Request("connect", None, "write", x)]
  /\ UNCHANGED <<mode, storeVars, held, pending, engineVars, raced, ghosts, entries>>

\* The account is stored; the running engine is not told.
ConnectWrites(w) ==
  /\ At(w, "connect", "write")
  /\ accounts' \in {accounts, accounts \cup {req[w].arg}}
  /\ Ends(w)
  /\ UNCHANGED <<mode, rows, next, held, pending, engineVars, raced, ghosts, requests, entries>>

\* DisconnectExchange: with two or fewer accounts it pauses the active rows, each
\* unless its write fails, and not the pairs of the engine.
DisconnectPauses(w, x) ==
  /\ Asks(w)
  /\ x \in accounts
  /\ \E S \in SUBSET {i \in Rows : rows[i].status = "active"} :
       /\ Cardinality(accounts) > 2 => S = {}
       /\ rows' = [i \in Ids |-> IF i \in S THEN [rows[i] EXCEPT !.status = "paused"] ELSE rows[i]]
  /\ req' = [req EXCEPT ![w] = Request("disconnect", None, "write", x)]
  /\ UNCHANGED <<mode, next, accounts, held, pending, engineVars, raced, ghosts, entries>>

\* Its connection is closed and its row cleared; the engine has one of its own.
DisconnectWrites(w) ==
  /\ At(w, "disconnect", "write")
  /\ accounts' \in {accounts, accounts \ {req[w].arg}}
  /\ Ends(w)
  /\ UNCHANGED <<mode, rows, next, held, pending, engineVars, raced, ghosts, requests, entries>>
-----------------------------------------------------------------------------
(* The engine, which trades the pairs that receive prices.                  *)

\* An opportunity is taken: the orders of the entry are sent.
Enter(s, i, a, b) ==
  /\ mode = "up" /\ i \in index[s] /\ pairs[i].ready /\ pairs[i].state = "READY"
  /\ {a, b} \subseteq joined /\ a # b
  /\ entries < MaxEntries /\ entries' = entries + 1
  /\ pairs' = [pairs EXCEPT ![i].state = "ENTERING", ![i].ready = FALSE]
  /\ jobs' = jobs \cup {[pair |-> i, does |-> "enter", at |-> "sent",
                         legs |-> {Leg(a, "long", 1), Leg(b, "short", 1)}]}
  /\ UNCHANGED <<mode, storeVars, held, pending, joined, known, index, req, raced, ghosts, requests>>

\* The exit spread, or the stop-loss, is reached.
Exit(s, i) ==
  /\ mode = "up" /\ i \in index[s] /\ pairs[i].state = "HOLDING" /\ ~pairs[i].ready
  /\ pairs' = [pairs EXCEPT ![i].state = "EXITING"]
  /\ jobs' = jobs \cup {[pair |-> i, does |-> "exit", legs |-> pairs[i].legs, at |-> "sent"]}
  /\ UNCHANGED <<mode, storeVars, held, pending, joined, known, index, req, raced, ghosts,
                 requests, entries>>

\* What an exchange has after it executed a leg, or the close of one.
After(x, n, L, way) ==
  IF \E l \in L : l.ex = x
  THEN LET l == CHOOSE l \in L : l.ex = x IN n + way * Sign(l.side) * l.qty ELSE n

\* The exchanges execute some of the orders of a job.
Execute(j) ==
  /\ mode = "up" /\ j.at = "sent"
  /\ \E L \in SUBSET j.legs :
       /\ held' = [held EXCEPT ![pairs[j.pair].symbol] =
                     [x \in Exchanges |-> After(x, @[x], L, IF j.does = "enter" THEN 1 ELSE -1)]]
       /\ jobs' = (jobs \ {j}) \cup
                  {[j EXCEPT !.at = IF L = j.legs THEN "whole" ELSE "part"]}
  /\ UNCHANGED <<mode, storeVars, pending, joined, known, index, pairs, req, raced, ghosts,
                 requests, entries>>

\* The goroutine of an entry, an exit or a forced close records what it did.
Recorded(p, j) ==
  CASE j.does = "enter" /\ j.at = "whole" -> {[p EXCEPT !.state = "HOLDING", !.legs = j.legs]}
    [] j.does = "enter" /\ j.at = "part" -> {Paused(p), [p EXCEPT !.state = "READY", !.ready = TRUE]}
    [] j.does = "exit" /\ j.at = "whole" ->
         {Paused([p EXCEPT !.legs = {}]), [p EXCEPT !.legs = {}, !.state = "READY", !.ready = TRUE]}
    [] j.does = "force" /\ j.at = "whole" -> {[p EXCEPT !.legs = {}, !.state = "PAUSED"]}
    [] OTHER -> {[p EXCEPT !.state = "ERROR"]}

Record(j) ==
  /\ mode = "up" /\ j.at # "sent"
  /\ \E p \in Recorded(pairs[j.pair], j) : pairs' = [pairs EXCEPT ![j.pair] = p]
  /\ jobs' = jobs \ {j}
  /\ UNCHANGED <<mode, storeVars, held, pending, joined, known, index, req, raced, ghosts,
                 requests, entries>>
-----------------------------------------------------------------------------
(* Crash and recovery.                                                      *)

Crash ==
  /\ mode = "up" /\ crashes < MaxCrashes
  /\ mode' = "down" /\ crashes' = crashes + 1
  /\ pending' = [i \in Ids |-> None]
  /\ joined' = {} /\ known' = {} /\ index' = [s \in Symbols |-> {}]
  /\ pairs' = [i \in Ids |-> None] /\ jobs' = {}
  /\ req' = [w \in Workers |-> Idle] /\ raced' = {} /\ answered' = {}
  /\ UNCHANGED <<storeVars, held, requests, entries>>

\* discoverOpenPositions: an exchange that does not answer is skipped.
Discovered(s, X) ==
  {Leg(x, IF held[s][x] > 0 THEN "long" ELSE "short", Magnitude(held[s][x])) :
     x \in {y \in X : held[s][y] # 0}}

\* matchPositionsToPairs takes the first long and the first short of the symbol;
\* the order in which the exchanges answered decides which.
Matches(L) ==
  {M \in SUBSET L : \A side \in Sides :
     Cardinality({l \in M : l.side = side}) = IF \E l \in L : l.side = side THEN 1 ELSE 0}

\* loadPairs: each row, paused.
Loaded(i) == NewPair(rows[i].symbol, rows[i].params)

\* restoreRuntimeState: one leg makes an error, two make a position.
Restored(i, M) ==
  IF M = {} THEN Loaded(i)
  ELSE IF Cardinality(M) = 1 THEN [Loaded(i) EXCEPT !.state = "ERROR"]
  ELSE [Loaded(i) EXCEPT !.state = "HOLDING", !.legs = M, !.status = "active"]

\* Mutant: activateMonitoring starts the pairs that hold a position, too.
ActivatedAll(i, p) == IF rows[i].status = "active" THEN Started(p) ELSE p

\* activateMonitoring leaves alone what was restored.
Activated(i, p) ==
  IF p.state \in {"HOLDING", "ERROR"} \/ rows[i].status # "active" THEN p ELSE Started(p)

\* closeOrphanedPositions: some closes fail.
Closed(O, f) ==
  [s \in Symbols |-> [x \in Exchanges |->
     IF AutoClose /\ x \in f[s] /\ \E l \in O[s] : l.ex = x THEN 0 ELSE held[s][x]]]

\* Recover connects the accounts it can, loads, discovers, matches, restores,
\* closes and activates.  Two rows of one symbol make it panic.
Recover ==
  /\ mode = "down"
  /\ \A s \in Symbols : Cardinality(Named(s)) <= 1
  /\ \E X \in SUBSET accounts : \E R \in SUBSET X :
       /\ joined' = X /\ answered' = R
       /\ IF X = {}
          THEN UNCHANGED <<known, index, pairs, held>>
          ELSE \E M \in [Symbols -> SUBSET UNION {Discovered(s, R) : s \in Symbols}] :
                 /\ \A s \in Symbols :
                      IF Named(s) = {} THEN M[s] = {} ELSE M[s] \in Matches(Discovered(s, R))
                 /\ known' = Rows
                 /\ index' = [s \in Symbols |-> Named(s)]
                 /\ pairs' = [i \in Ids |-> IF i \in Rows
                                THEN Activated(i, Restored(i, M[rows[i].symbol])) ELSE None]
                 /\ \E f \in [Symbols -> SUBSET Exchanges] :
                      held' = Closed([s \in Symbols |-> Discovered(s, R) \ M[s]], f)
  /\ mode' = "up"
  /\ UNCHANGED <<storeVars, pending, jobs, req, raced, crashes, requests, entries>>
-----------------------------------------------------------------------------
PairRequest(w, i) ==
  \/ \E p \in Params : UpdateDecides(w, i, p)
  \/ DeleteChecks(w, i)
  \/ StartChecks(w, i)
  \/ \E force \in BOOLEAN : PauseChecks(w, i, force)

WorkerNext(w) ==
  \/ \E s \in Symbols, p \in Params, c \in BOOLEAN : CreateChecks(w, s, p, c)
  \/ \E i \in Ids : PairRequest(w, i)
  \/ \E x \in Exchanges : ConnectChecks(w, x) \/ DisconnectPauses(w, x)
  \/ ConnectWrites(w) \/ DisconnectWrites(w)
  \/ CreateInserts(w) \/ CreateAdds(w)
  \/ UpdateWrites(w) \/ UpdateTells(w)
  \/ DeleteRemoves(w) \/ DeleteRow(w)
  \/ StatusWrites(w) \/ StatusTells(w)

Next ==
  \/ \E w \in Workers : WorkerNext(w)
  \/ \E s \in Symbols, i \in Ids : Exit(s, i) \/ \E a, b \in Exchanges : Enter(s, i, a, b)
  \/ \E j \in jobs : Execute(j) \/ Record(j)
  \/ Crash
  \/ Recover

Spec == Init /\ [][Next]_vars
-----------------------------------------------------------------------------
\* The engine's pairs are of their rows' kinds; a pair that receives prices was
\* made; only one pair of a symbol does.
TypeOK ==
  /\ mode \in {"down", "up"} /\ accounts \subseteq Exchanges /\ joined \subseteq Exchanges
  /\ \A i \in Ids :
       /\ rows[i] = None \/ rows[i] \in Row
       /\ pairs[i] = None \/
            /\ pairs[i].state \in States /\ pairs[i].status \in {"active", "paused"}
            /\ \A l \in pairs[i].legs : l.side \in Sides /\ l.qty > 0
       /\ pending[i] \in Params \cup {None}
  /\ known \subseteq {i \in Ids : pairs[i] # None}
  /\ \A s \in Symbols : /\ Cardinality(index[s]) <= 1
                        /\ \A i \in index[s] : pairs[i] # None /\ pairs[i].symbol = s
  /\ \A j \in jobs : pairs[j.pair] # None
  /\ \A w \in Workers : req[w].op \in {"idle", "create", "update", "delete", "start", "pause",
                                 "connect", "disconnect"}

\* Outside its updates a pair trades with the settings of its row, whatever writes
\* failed, requests overlapped or restarts happened, unless two changes of that pair
\* overlapped (UpdatePair writes the row and tells the engine without a lock).
ParamsAgree ==
  \A i \in known \cap Rows :
    Changing(i) = {} /\ i \notin raced => pairs[i].params = rows[i].params

\* Recovery takes the positions it could read for what they are: a pair that starts
\* READY has none, a pair in HOLDING has a long and a short leg at two exchanges that
\* hold just that, and no leg is closed as an orphan.
RecoveryClaims ==
  [][mode = "down" /\ mode' = "up" =>
       \A i \in known' :
         LET p == pairs'[i] IN
           /\ p.state = "READY" => \A x \in answered' : held[p.symbol][x] = 0
           /\ p.state = "HOLDING" =>
                /\ {l.side : l \in p.legs} = Sides /\ Cardinality({l.ex : l \in p.legs}) = 2
                /\ \A l \in p.legs : held'[p.symbol][l.ex] = Sign(l.side) * l.qty]_vars
=============================================================================
