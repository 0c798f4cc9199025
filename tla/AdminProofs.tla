---------------------------- MODULE AdminProofs ----------------------------
(***************************************************************************)
(* Theorems about Admin: the engine's pairs keep the settings of their rows *)
(* through failing writes, overlapping requests and restarts, and recovery  *)
(* takes the positions it finds for what they are.                         *)
(***************************************************************************)
EXTENDS Admin, FiniteSetTheorems, TLAPS

Job == [pair : Ids, does : {"enter", "exit", "force"}, legs : SUBSET Legs,
        at : {"sent", "part", "whole"}]
Wanted == [symbol : Symbols, params : Params]

\* The requests of each kind that there are.
Form ==
  {Idle}
    \cup [op : {"create"}, id : {None}, at : {"insert"}, arg : Wanted]
    \cup [op : {"create"}, id : Ids, at : {"add"}, arg : Wanted]
    \cup [op : {"update"}, id : Ids, at : {"write", "tell"}, arg : Params]
    \cup [op : {"delete"}, id : Ids, at : {"remove", "row"}, arg : {None}]
    \cup [op : {"start"}, id : Ids, at : {"write", "tell"}, arg : {"active"}]
    \cup [op : {"pause"}, id : Ids, at : {"write", "tell"}, arg : {"paused"}]
    \cup [op : {"connect", "disconnect"}, id : {None}, at : {"write"}, arg : Exchanges]

StoreTyped ==
  /\ mode \in {"down", "up"} /\ accounts \subseteq Exchanges
  /\ rows \in [Ids -> Row \cup {None}] /\ next \in Nat
  /\ held \in [Symbols -> [Exchanges -> Int]]
  /\ pending \in [Ids -> Params \cup {None}]

EngineTyped ==
  /\ joined \subseteq Exchanges /\ raced \subseteq Ids
  /\ pairs \in [Ids -> Pair \cup {None}]
  /\ known \subseteq {i \in Ids : pairs[i] # None}
  /\ jobs \subseteq Job /\ \A j \in jobs : pairs[j.pair] # None

Indexed ==
  /\ index \in [Symbols -> SUBSET Ids]
  /\ \A s \in Symbols :
       /\ Cardinality(index[s]) <= 1
       /\ \A i \in index[s] : pairs[i] # None /\ pairs[i].symbol = s

RequestsTyped == req \in [Workers -> Form]

\* A worker between the row of a new pair and the engine.
Adding(w) == req[w].op = "create" /\ req[w].at = "add"

\* What has an identifier got it from the sequence; what is being added is not yet
\* a pair, and is added once.
Fresh ==
  /\ \A i \in Ids : rows[i] # None \/ pairs[i] # None \/ (\E w \in Workers : req[w].id = i)
                      => i < next
  /\ \A w \in Workers : Adding(w) =>
       /\ pairs[req[w].id] = None
       /\ \A v \in Workers : Adding(v) /\ req[v].id = req[w].id => v = w

\* A process that is down has forgotten everything.
Forgotten ==
  mode = "down" => known = {} /\ jobs = {} /\ raced = {} /\ \A w \in Workers : req[w] = Idle

\* One change of a pair at a time keeps the engine, the row and the request in step.
InStep(i) ==
  /\ \A v, w \in Changing(i) : v = w
  /\ i \in Rows => \A w \in Changing(i) :
       /\ req[w].at = "tell" => rows[i].params = req[w].arg
       /\ req[w].at = "add" => rows[i].params = req[w].arg.params
  /\ i \in known \cap Rows /\ (\A w \in Changing(i) : req[w].at = "write")
       => pairs[i].params = rows[i].params

Agree == \A i \in Ids \ raced : InStep(i)

AInv == StoreTyped /\ EngineTyped /\ Indexed /\ RequestsTyped /\ Fresh /\ Forgotten /\ Agree
-----------------------------------------------------------------------------
(* Steps that change no settings.                                          *)

\* A request for a change of a pair that has its identifier.
Changer(r) == r.op \in {"create", "update"} /\ r.id \in Ids

\* The worker's request becomes r: neither is a change, and r names a row.
Turns(w, r) ==
  /\ req' = [req EXCEPT ![w] = r]
  /\ ~Changer(req[w]) /\ ~Changer(r)
  /\ r.id \in Ids => r.id = req[w].id \/ rows[r.id] # None

Quiet ==
  /\ mode = "up" /\ UNCHANGED <<mode, next, raced, index, joined>>
  /\ known' \subseteq known
  /\ \A i \in Ids : rows'[i] # None => rows[i] # None /\ rows'[i].params = rows[i].params
  /\ \A i \in Ids : /\ pairs'[i] # None <=> pairs[i] # None
                    /\ pairs[i] # None => /\ pairs'[i].symbol = pairs[i].symbol
                                          /\ pairs'[i].params = pairs[i].params
  /\ UNCHANGED req \/ \E w \in Workers, r \in Form : Turns(w, r)

\* What a request of each kind carries.
LEMMA Kinds ==
  ASSUME NEW r \in Form
  PROVE  /\ r.id \in Ids \cup {None}
         /\ r.op \in {"idle", "create", "update", "delete", "start", "pause", "connect", "disconnect"}
         /\ r.op = "create" => r.arg \in Wanted /\ (r.at = "add" <=> r.id \in Ids)
         /\ r.op = "create" => r.at \in {"insert", "add"}
         /\ r.op = "update" => r.id \in Ids /\ r.arg \in Params /\ r.at \in {"write", "tell"}
         /\ r.op \in {"delete", "start", "pause"} => r.id \in Ids
         /\ r.op = "start" => r.arg = "active"
         /\ r.op = "pause" => r.arg = "paused"
         /\ r.op \in {"connect", "disconnect"} => r.arg \in Exchanges /\ r.id = None
         /\ r.op = "idle" => r = Idle
  BY AdminAssumption DEF Form, Idle

LEMMA QuietRequests ==
  ASSUME RequestsTyped, Quiet
  PROVE  /\ RequestsTyped'
         /\ \A v \in Workers : (Changer(req[v]) \/ Changer(req'[v])) => req'[v] = req[v]
         /\ \A v \in Workers : req'[v].id \in Ids => req'[v].id = req[v].id \/ rows[req'[v].id] # None
  BY DEF RequestsTyped, Quiet, Turns

LEMMA QuietFresh ==
  ASSUME RequestsTyped, Fresh, Quiet
  PROVE  Fresh'
<1>1. \A i \in Ids : rows'[i] # None \/ pairs'[i] # None => rows[i] # None \/ pairs[i] # None
  BY DEF Quiet
<1>2. ASSUME NEW i \in Ids, NEW w \in Workers, req'[w].id = i  PROVE i < next'
  BY <1>2, QuietRequests DEF Fresh, Quiet
<1>3. ASSUME NEW w \in Workers, Adding(w)'
      PROVE  Adding(w) /\ req'[w] = req[w] /\ req[w].id \in Ids
  <2>1. req'[w] \in Form
    BY QuietRequests DEF RequestsTyped
  <2>2. Changer(req'[w])
    BY <1>3, <2>1, Kinds DEF Adding, Changer
  <2> QED  BY <1>3, <2>2, QuietRequests DEF Adding, Changer
<1>4. \A i \in Ids : rows'[i] # None \/ pairs'[i] # None => i < next'
  BY <1>1 DEF Fresh, Quiet
<1>5. ASSUME NEW w \in Workers, Adding(w)'  PROVE pairs'[req'[w].id] = None
  BY <1>3, <1>5 DEF Fresh, Quiet
<1>6. ASSUME NEW w \in Workers, NEW v \in Workers, Adding(w)', Adding(v)', req'[v].id = req'[w].id
      PROVE  v = w
  BY <1>3, <1>6 DEF Fresh
<1> QED  BY <1>2, <1>4, <1>5, <1>6 DEF Fresh

\* What a step leaves as it was for one pair stays in step.
LEMMA InStepStays ==
  ASSUME NEW i \in Ids, InStep(i),
         \A w \in Workers : (w \in Changing(i) \/ (req'[w].id = i /\ req'[w].op \in {"create", "update"}))
                              => req'[w] = req[w],
         rows'[i] # None => rows[i] # None /\ rows'[i].params = rows[i].params,
         i \in known' => i \in known /\ pairs'[i].params = pairs[i].params
  PROVE  InStep(i)'
<1>1. \A w \in Workers : w \in Changing(i)' => w \in Changing(i) /\ req'[w] = req[w]
  BY DEF Changing
<1>2. \A w \in Workers : w \in Changing(i) => w \in Changing(i)'
  BY DEF Changing
<1>3. i \in Rows' => i \in Rows /\ rows'[i].params = rows[i].params
  BY DEF Rows
<1>4. Changing(i)' = Changing(i)
  BY <1>1, <1>2 DEF Changing
<1>5. \A v, w \in Changing(i)' : v = w
  BY <1>4 DEF InStep
<1>6. ASSUME i \in Rows', NEW w \in Changing(i)'
      PROVE  /\ req'[w].at = "tell" => rows'[i].params = req'[w].arg
             /\ req'[w].at = "add" => rows'[i].params = req'[w].arg.params
  <2>1. w \in Changing(i) /\ req'[w] = req[w]
    BY <1>6, <1>1 DEF Changing
  <2>2. i \in Rows /\ rows'[i].params = rows[i].params
    BY <1>6, <1>3
  <2> QED  BY <2>1, <2>2 DEF InStep
<1>7. ASSUME i \in (known \cap Rows)', \A w \in Changing(i)' : req'[w].at = "write"
       PROVE  pairs'[i].params = rows'[i].params
  <2>1. i \in known \cap Rows
    BY <1>7, <1>3
  <2>2. \A w \in Changing(i) : req[w].at = "write"
    BY <1>7, <1>4, <1>1 DEF Changing
  <2>3. pairs[i].params = rows[i].params
    BY <2>1, <2>2 DEF InStep
  <2> QED  BY <1>7, <2>3, <1>3
<1> QED  BY <1>5, <1>6, <1>7 DEF InStep

LEMMA QuietAgree ==
  ASSUME RequestsTyped, EngineTyped, Agree, Quiet
  PROVE  Agree'
<1> SUFFICES ASSUME NEW i \in Ids \ raced  PROVE InStep(i)'
  BY DEF Agree, Quiet
<1>1. InStep(i)
  BY DEF Agree
<1>2. \A w \in Workers : (w \in Changing(i) \/ (req'[w].id = i /\ req'[w].op \in {"create", "update"}))
                            => req'[w] = req[w]
  BY QuietRequests DEF Changing, Changer
<1>3. rows'[i] # None => rows[i] # None /\ rows'[i].params = rows[i].params
  BY DEF Quiet
<1>4. i \in known' => i \in known /\ pairs'[i].params = pairs[i].params
  BY DEF Quiet, EngineTyped
<1> QED  BY <1>1, <1>2, <1>3, <1>4, InStepStays

LEMMA QuietStep ==
  ASSUME AInv, Quiet
  PROVE  RequestsTyped' /\ Indexed' /\ Fresh' /\ Forgotten' /\ Agree'
<1>1. RequestsTyped' /\ Fresh' /\ Agree'
  BY QuietRequests, QuietFresh, QuietAgree DEF AInv
<1>2. Indexed'
  BY DEF AInv, Indexed, Quiet
<1>3. Forgotten'
  BY DEF Forgotten, Quiet
<1> QED  BY <1>1, <1>2, <1>3

\* A quiet step whose row table, pairs and jobs are of their kinds.
LEMMA QuietKeeps ==
  ASSUME AInv, Quiet, StoreTyped',
         pairs' \in [Ids -> Pair \cup {None}],
         jobs' \subseteq Job, \A j \in jobs' : pairs[j.pair] # None
  PROVE  AInv'
<1>1. EngineTyped'
  <2>1. joined' \subseteq Exchanges /\ raced' \subseteq Ids
    BY DEF AInv, EngineTyped, Quiet
  <2>2. known' \subseteq {i \in Ids : pairs'[i] # None}
    BY DEF AInv, EngineTyped, Quiet
  <2>3. \A j \in jobs' : pairs'[j.pair] # None
    BY DEF Quiet, Job
  <2> QED  BY <2>1, <2>2, <2>3 DEF EngineTyped
<1> QED  BY <1>1, QuietStep DEF AInv

\* Steps that write the database or only the request, and steps of the engine.
LEMMA StoreStep ==
  ASSUME AInv, mode = "up", UNCHANGED <<mode, next, held, raced, engineVars>>,
         accounts' \subseteq Exchanges, pending' \in [Ids -> Params \cup {None}],
         rows' \in [Ids -> Row \cup {None}],
         \A i \in Ids : rows'[i] # None => rows[i] # None /\ rows'[i].params = rows[i].params,
         UNCHANGED req \/ \E w \in Workers, r \in Form : Turns(w, r)
  PROVE  AInv'
<1>1. Quiet
  BY DEF Quiet, engineVars
<1>2. StoreTyped'
  BY DEF AInv, StoreTyped
<1>3. pairs' = pairs /\ jobs' = jobs
  BY DEF engineVars
<1> QED  BY <1>1, <1>2, <1>3, QuietKeeps DEF AInv, EngineTyped

LEMMA EngineStep ==
  ASSUME AInv, mode = "up", UNCHANGED <<mode, storeVars, pending, raced, joined, index>>,
         known' \subseteq known, held' \in [Symbols -> [Exchanges -> Int]],
         pairs' \in [Ids -> Pair \cup {None}],
         \A i \in Ids : /\ pairs'[i] # None <=> pairs[i] # None
                        /\ pairs[i] # None => /\ pairs'[i].symbol = pairs[i].symbol
                                              /\ pairs'[i].params = pairs[i].params,
         jobs' \subseteq Job, \A j \in jobs' : pairs[j.pair] # None,
         UNCHANGED req \/ \E w \in Workers, r \in Form : Turns(w, r)
  PROVE  AInv'
<1>1. Quiet
  BY DEF Quiet, storeVars
<1>2. StoreTyped'
  BY DEF AInv, StoreTyped, storeVars
<1> QED  BY <1>1, <1>2, QuietKeeps

\* What becomes of a request that is not a change.
LEMMA Ending ==
  ASSUME RequestsTyped, NEW w \in Workers, Ends(w), ~Changer(req[w])
  PROVE  \E r \in Form : Turns(w, r)
<1>1. Idle \in Form /\ ~Changer(Idle) /\ Idle.id \notin Ids
  BY AdminAssumption DEF Form, Idle, Changer
<1> QED  BY <1>1 DEF Turns, Ends

LEMMA Asking ==
  ASSUME RequestsTyped, NEW w \in Workers, req[w] = Idle, NEW r \in Form, ~Changer(r),
         req' = [req EXCEPT ![w] = r], r.id \in Ids => rows[r.id] # None
  PROVE  \E q \in Form : Turns(w, q)
<1>1. ~Changer(Idle)
  BY AdminAssumption DEF Idle, Changer
<1> QED  BY <1>1 DEF Turns

LEMMA Going ==
  ASSUME RequestsTyped, NEW w \in Workers, NEW at, Goes(w, at),
         \/ req[w].op = "delete" /\ at = "row"
         \/ req[w].op \in {"start", "pause"} /\ at \in {"write", "tell"}
  PROVE  \E r \in Form : Turns(w, r)
<1>1. req[w] \in Form
  BY DEF RequestsTyped
<1>2. [req[w] EXCEPT !.at = at] \in Form
  BY <1>1, SMTT(30) DEF Form, Idle
<1>3. req' = [req EXCEPT ![w] = [req[w] EXCEPT !.at = at]]
  BY DEF Goes, RequestsTyped
<1>4. /\ [req[w] EXCEPT !.at = at].op = req[w].op
      /\ [req[w] EXCEPT !.at = at].id = req[w].id
  BY <1>1, SMTT(30) DEF Form, Idle
<1> QED  BY <1>2, <1>3, <1>4 DEF Turns, Changer

-----------------------------------------------------------------------------
(* The actions of the workers.                                             *)

LEMMA CreateChecksKeeps ==
  ASSUME AInv, NEW w \in Workers, NEW s \in Symbols, NEW p \in Params, NEW c \in BOOLEAN,
         CreateChecks(w, s, p, c)
  PROVE  AInv'
<1> DEFINE r == Request("create", None, "insert", [symbol |-> s, params |-> p])
<1>1. r \in Form /\ ~Changer(r) /\ r.id \notin Ids
  BY AdminAssumption DEF Form, Request, Changer, Wanted
<1>2. \E q \in Form : Turns(w, q)
  BY <1>1, Asking DEF CreateChecks, Asks, AInv
<1> QED  BY <1>2, StoreStep DEF CreateChecks, Asks, AInv, StoreTyped, storeVars

LEMMA DeleteChecksKeeps ==
  ASSUME AInv, NEW w \in Workers, NEW i \in Ids, DeleteChecks(w, i)
  PROVE  AInv'
<1> DEFINE r == Request("delete", i, "remove", None)
<1>1. r \in Form /\ ~Changer(r) /\ r.id = i
  BY DEF Form, Request, Changer
<1>2. \E q \in Form : Turns(w, q)
  BY <1>1, Asking DEF DeleteChecks, Asks, AInv, Rows
<1> QED  BY <1>2, StoreStep DEF DeleteChecks, Asks, AInv, StoreTyped, storeVars

LEMMA StartChecksKeeps ==
  ASSUME AInv, NEW w \in Workers, NEW i \in Ids, StartChecks(w, i)
  PROVE  AInv'
<1> DEFINE r == Request("start", i, "write", "active")
<1>1. r \in Form /\ ~Changer(r) /\ r.id = i
  BY DEF Form, Request, Changer
<1>2. \E q \in Form : Turns(w, q)
  BY <1>1, Asking DEF StartChecks, Asks, AInv, Rows
<1> QED  BY <1>2, StoreStep DEF StartChecks, Asks, AInv, StoreTyped, storeVars

LEMMA ConnectChecksKeeps ==
  ASSUME AInv, NEW w \in Workers, NEW x \in Exchanges, ConnectChecks(w, x)
  PROVE  AInv'
<1> DEFINE r == Request("connect", None, "write", x)
<1>1. r \in Form /\ ~Changer(r) /\ r.id \notin Ids
  BY AdminAssumption DEF Form, Request, Changer
<1>2. \E q \in Form : Turns(w, q)
  BY <1>1, Asking DEF ConnectChecks, Asks, AInv
<1> QED  BY <1>2, StoreStep DEF ConnectChecks, Asks, AInv, StoreTyped, storeVars

LEMMA DisconnectPausesKeeps ==
  ASSUME AInv, NEW w \in Workers, NEW x \in Exchanges, DisconnectPauses(w, x)
  PROVE  AInv'
<1> DEFINE r == Request("disconnect", None, "write", x)
<1>1. r \in Form /\ ~Changer(r) /\ r.id \notin Ids
  BY AdminAssumption DEF Form, Request, Changer
<1>2. \E q \in Form : Turns(w, q)
  BY <1>1, Asking DEF DisconnectPauses, Asks, AInv
<1>3. PICK S \in SUBSET {i \in Rows : rows[i].status = "active"} :
        rows' = [i \in Ids |-> IF i \in S THEN [rows[i] EXCEPT !.status = "paused"] ELSE rows[i]]
  BY DEF DisconnectPauses
<1>4. \A i \in Ids : rows[i] # None => /\ [rows[i] EXCEPT !.status = "paused"] \in Row
                                       /\ [rows[i] EXCEPT !.status = "paused"].params = rows[i].params
  BY DEF AInv, StoreTyped, Row
<1>5. \A i \in S : rows[i] # None
  BY DEF Rows
<1>6. rows' \in [Ids -> Row \cup {None}]
  BY <1>3, <1>4, <1>5 DEF AInv, StoreTyped
<1>7. \A i \in Ids : rows'[i] # None => rows[i] # None /\ rows'[i].params = rows[i].params
  BY <1>3, <1>4, <1>5
<1> QED
  BY <1>2, <1>6, <1>7, StoreStep DEF DisconnectPauses, Asks, AInv, StoreTyped

LEMMA AccountWritesKeep ==
  ASSUME AInv, NEW w \in Workers, ConnectWrites(w) \/ DisconnectWrites(w)
  PROVE  AInv'
<1>1. req[w] \in Form /\ req[w].op \in {"connect", "disconnect"}
  BY DEF AInv, RequestsTyped, ConnectWrites, DisconnectWrites, At
<1>2. ~Changer(req[w]) /\ req[w].arg \in Exchanges
  BY <1>1, Kinds DEF Changer
<1>3. \E r \in Form : Turns(w, r)
  BY <1>2, Ending DEF ConnectWrites, DisconnectWrites, AInv
<1>4. accounts' \subseteq Exchanges
  BY <1>2 DEF ConnectWrites, DisconnectWrites, AInv, StoreTyped
<1> QED
  BY <1>3, <1>4, StoreStep DEF ConnectWrites, DisconnectWrites, At, AInv, StoreTyped

LEMMA DeleteRowKeeps ==
  ASSUME AInv, NEW w \in Workers, DeleteRow(w)
  PROVE  AInv'
<1>1. ~Changer(req[w])
  BY DEF DeleteRow, At, Changer
<1>2. \E r \in Form : Turns(w, r)
  BY <1>1, Ending DEF DeleteRow, AInv
<1>3. rows' \in [Ids -> Row \cup {None}] /\ pending' \in [Ids -> Params \cup {None}]
  BY DEF DeleteRow, AInv, StoreTyped
<1>4. \A i \in Ids : rows'[i] # None => rows[i] # None /\ rows'[i].params = rows[i].params
  BY DEF DeleteRow, AInv, StoreTyped
<1> QED  BY <1>2, <1>3, <1>4, StoreStep DEF DeleteRow, At, AInv, StoreTyped

LEMMA DeleteRemovesKeeps ==
  ASSUME AInv, NEW w \in Workers, DeleteRemoves(w)
  PROVE  AInv'
<1>1. ~Changer(req[w]) /\ req[w].op = "delete"
  BY DEF DeleteRemoves, At, Changer
<1>2. \E r \in Form : Turns(w, r)
  BY <1>1, Ending, Going DEF DeleteRemoves, AInv
<1> QED
  BY <1>2, EngineStep DEF DeleteRemoves, At, AInv, StoreTyped, EngineTyped, storeVars

LEMMA StatusWritesKeeps ==
  ASSUME AInv, NEW w \in Workers, StatusWrites(w)
  PROVE  AInv'
<1>1. req[w] \in Form /\ req[w].op \in {"start", "pause"} /\ ~Changer(req[w])
  BY DEF StatusWrites, AInv, RequestsTyped, Changer
<1>2. req[w].arg \in {"active", "paused"} /\ req[w].id \in Ids
  BY <1>1, Kinds
<1>3. \E r \in Form : Turns(w, r)
  BY <1>1, Ending, Going DEF StatusWrites, AInv
<1>4. \A i \in Ids : rows[i] # None =>
        /\ [rows[i] EXCEPT !.status = req[w].arg] \in Row
        /\ [rows[i] EXCEPT !.status = req[w].arg].params = rows[i].params
  BY <1>2 DEF AInv, StoreTyped, Row
<1>5. \/ rows' = rows
      \/ /\ req[w].id \in Rows
         /\ rows' = [rows EXCEPT ![req[w].id] = [rows[req[w].id] EXCEPT !.status = req[w].arg]]
  BY <1>2 DEF StatusWrites, AInv, StoreTyped
<1>6. rows' \in [Ids -> Row \cup {None}]
  BY <1>4, <1>5 DEF AInv, StoreTyped, Rows
<1>7. \A i \in Ids : rows'[i] # None => rows[i] # None /\ rows'[i].params = rows[i].params
  BY <1>4, <1>5 DEF AInv, StoreTyped, Rows
<1> QED
  BY <1>3, <1>6, <1>7, StoreStep DEF StatusWrites, At, AInv, StoreTyped

\* A pair whose state, status, legs or entry flag change.
LEMMA PairMoves ==
  ASSUME AInv, NEW i \in Ids, pairs[i] # None, NEW q \in Pair,
         q.symbol = pairs[i].symbol, q.params = pairs[i].params,
         pairs' = [pairs EXCEPT ![i] = q]
  PROVE  /\ pairs' \in [Ids -> Pair \cup {None}]
         /\ \A k \in Ids : /\ pairs'[k] # None <=> pairs[k] # None
                           /\ pairs[k] # None => /\ pairs'[k].symbol = pairs[k].symbol
                                                 /\ pairs'[k].params = pairs[k].params
  BY AdminAssumption DEF AInv, EngineTyped

LEMMA MadeIs ==
  ASSUME NEW p \in Pair
  PROVE  /\ Started(p) \in Pair /\ Started(p).symbol = p.symbol /\ Started(p).params = p.params
         /\ Paused(p) \in Pair /\ Paused(p).symbol = p.symbol /\ Paused(p).params = p.params
  BY DEF Pair, Started, Paused, States

LEMMA StatusTellsKeeps ==
  ASSUME AInv, NEW w \in Workers, StatusTells(w)
  PROVE  AInv'
<1>1. req[w] \in Form /\ req[w].op \in {"start", "pause"} /\ ~Changer(req[w])
  BY DEF StatusTells, AInv, RequestsTyped, Changer
<1>2. req[w].id \in Ids
  BY <1>1, Kinds
<1>3. \E r \in Form : Turns(w, r)
  BY <1>1, Ending, Going DEF StatusTells, AInv
<1>4. CASE ~Known(req[w].id)
  BY <1>3, <1>4, EngineStep DEF StatusTells, At, AInv, StoreTyped, EngineTyped, storeVars
<1>5. CASE Known(req[w].id)
  <2>1. pairs[req[w].id] # None /\ pairs[req[w].id] \in Pair
    BY <1>2, <1>5 DEF Known, AInv, EngineTyped
  <2>2. PICK q \in Pair : /\ q.symbol = pairs[req[w].id].symbol /\ q.params = pairs[req[w].id].params
                          /\ pairs' = [pairs EXCEPT ![req[w].id] = q]
    BY <1>5, <2>1, MadeIs DEF StatusTells
  <2>3. /\ pairs' \in [Ids -> Pair \cup {None}]
        /\ \A k \in Ids : /\ pairs'[k] # None <=> pairs[k] # None
                          /\ pairs[k] # None => /\ pairs'[k].symbol = pairs[k].symbol
                                                /\ pairs'[k].params = pairs[k].params
    BY <1>2, <2>1, <2>2, PairMoves
  <2> QED
    BY <1>3, <2>3, EngineStep DEF StatusTells, At, AInv, StoreTyped, EngineTyped, storeVars
<1> QED  BY <1>4, <1>5

LEMMA PauseChecksKeeps ==
  ASSUME AInv, NEW w \in Workers, NEW i \in Ids, NEW force \in BOOLEAN, PauseChecks(w, i, force)
  PROVE  AInv'
<1> DEFINE r == Request("pause", i, "tell", "paused")
<1>1. r \in Form /\ ~Changer(r) /\ r.id = i
  BY DEF Form, Request, Changer
<1>2. \E q \in Form : Turns(w, q)
  BY <1>1, Asking DEF PauseChecks, Asks, AInv, Rows
<1>3. CASE HasOpenPosition(i) /\ pairs[i].state = "HOLDING"
  <2>1. pairs[i] # None /\ pairs[i] \in Pair
    BY <1>3 DEF HasOpenPosition, Known, AInv, EngineTyped
  <2>2. PICK q \in Pair : /\ q.symbol = pairs[i].symbol /\ q.params = pairs[i].params
                          /\ pairs' = [pairs EXCEPT ![i] = q]
    <3>1. [pairs[i] EXCEPT !.state = "EXITING"] \in Pair
      BY <2>1 DEF Pair, States
    <3>2. pairs' = [pairs EXCEPT ![i] = [pairs[i] EXCEPT !.state = "EXITING"]]
      BY <1>3 DEF PauseChecks, AInv, EngineTyped
    <3>3. /\ [pairs[i] EXCEPT !.state = "EXITING"].symbol = pairs[i].symbol
          /\ [pairs[i] EXCEPT !.state = "EXITING"].params = pairs[i].params
      BY <2>1 DEF Pair
    <3> QED  BY <3>1, <3>2, <3>3
  <2>3. /\ pairs' \in [Ids -> Pair \cup {None}]
        /\ \A k \in Ids : /\ pairs'[k] # None <=> pairs[k] # None
                          /\ pairs[k] # None => /\ pairs'[k].symbol = pairs[k].symbol
                                                /\ pairs'[k].params = pairs[k].params
    BY <2>1, <2>2, PairMoves
  <2>4. [pair |-> i, does |-> "force", legs |-> pairs[i].legs, at |-> "sent"] \in Job
    BY <2>1 DEF Pair, Job
  <2>5. jobs' \subseteq Job /\ \A j \in jobs' : pairs[j.pair] # None
    BY <1>3, <2>1, <2>4 DEF PauseChecks, AInv, EngineTyped
  <2> QED
    BY <1>2, <2>3, <2>5, EngineStep DEF PauseChecks, Asks, AInv, StoreTyped, storeVars
<1>4. CASE ~(HasOpenPosition(i) /\ pairs[i].state = "HOLDING")
  <2>1. UNCHANGED <<pairs, jobs>>
    BY <1>4 DEF PauseChecks
  <2> QED
    BY <1>2, <2>1, EngineStep DEF PauseChecks, Asks, AInv, StoreTyped, EngineTyped, storeVars
<1> QED  BY <1>3, <1>4
-----------------------------------------------------------------------------
(* The actions of the engine.                                              *)

LEMMA EnterKeeps ==
  ASSUME AInv, NEW s \in Symbols, NEW i \in Ids, NEW a \in Exchanges, NEW b \in Exchanges,
         Enter(s, i, a, b)
  PROVE  AInv'
<1>1. pairs[i] # None /\ pairs[i] \in Pair
  BY DEF Enter, AInv, Indexed, EngineTyped
<1>2. PICK q \in Pair : /\ q.symbol = pairs[i].symbol /\ q.params = pairs[i].params
                        /\ pairs' = [pairs EXCEPT ![i] = q]
  <2> DEFINE q == [pairs[i] EXCEPT !.state = "ENTERING", !.ready = FALSE]
  <2>1. q \in Pair /\ q.symbol = pairs[i].symbol /\ q.params = pairs[i].params
    BY <1>1 DEF Pair, States
  <2>2. pairs' = [pairs EXCEPT ![i] = q]
    BY DEF Enter, AInv, EngineTyped
  <2> QED  BY <2>1, <2>2
<1>3. /\ pairs' \in [Ids -> Pair \cup {None}]
      /\ \A k \in Ids : /\ pairs'[k] # None <=> pairs[k] # None
                        /\ pairs[k] # None => /\ pairs'[k].symbol = pairs[k].symbol
                                              /\ pairs'[k].params = pairs[k].params
  BY <1>1, <1>2, PairMoves
<1>4. PICK j \in Job : j.pair = i /\ jobs' = jobs \cup {j}
  <2> DEFINE j == [pair |-> i, does |-> "enter", at |-> "sent",
                   legs |-> {Leg(a, "long", 1), Leg(b, "short", 1)}]
  <2>1. j \in Job /\ j.pair = i
    BY DEF Job, Leg, Legs, Sides
  <2>2. jobs' = jobs \cup {j}
    BY DEF Enter
  <2> QED  BY <2>1, <2>2
<1>5. jobs' \subseteq Job /\ \A k \in jobs' : pairs[k.pair] # None
  BY <1>1, <1>4 DEF AInv, EngineTyped
<1> QED
  BY <1>3, <1>5, EngineStep DEF Enter, AInv, StoreTyped, storeVars

LEMMA ExitKeeps ==
  ASSUME AInv, NEW s \in Symbols, NEW i \in Ids, Exit(s, i)
  PROVE  AInv'
<1>1. pairs[i] # None /\ pairs[i] \in Pair
  BY DEF Exit, AInv, Indexed, EngineTyped
<1>2. PICK q \in Pair : /\ q.symbol = pairs[i].symbol /\ q.params = pairs[i].params
                        /\ pairs' = [pairs EXCEPT ![i] = q]
  <2> DEFINE q == [pairs[i] EXCEPT !.state = "EXITING"]
  <2>1. q \in Pair /\ q.symbol = pairs[i].symbol /\ q.params = pairs[i].params
    BY <1>1 DEF Pair, States
  <2>2. pairs' = [pairs EXCEPT ![i] = q]
    BY DEF Exit, AInv, EngineTyped
  <2> QED  BY <2>1, <2>2
<1>3. /\ pairs' \in [Ids -> Pair \cup {None}]
      /\ \A k \in Ids : /\ pairs'[k] # None <=> pairs[k] # None
                        /\ pairs[k] # None => /\ pairs'[k].symbol = pairs[k].symbol
                                              /\ pairs'[k].params = pairs[k].params
  BY <1>1, <1>2, PairMoves
<1>4. [pair |-> i, does |-> "exit", legs |-> pairs[i].legs, at |-> "sent"] \in Job
  BY <1>1 DEF Job, Pair
<1>5. jobs' \subseteq Job /\ \A j \in jobs' : pairs[j.pair] # None
  BY <1>1, <1>4 DEF Exit, AInv, EngineTyped
<1> QED
  BY <1>3, <1>5, EngineStep DEF Exit, AInv, StoreTyped, storeVars

LEMMA AfterIsInt ==
  ASSUME NEW x, NEW n \in Int, NEW L \in SUBSET Legs, NEW way \in {1, -1}
  PROVE  After(x, n, L, way) \in Int
<1>1. CASE \E l \in L : l.ex = x
  <2> DEFINE l == CHOOSE l \in L : l.ex = x
  <2>1. l \in Legs
    BY <1>1
  <2>2. l.qty \in Int /\ Sign(l.side) \in {1, -1}
    BY <2>1 DEF Legs, Sign
  <2> HIDE DEF l
  <2>3. way * Sign(l.side) * l.qty \in Int
    BY <2>2
  <2>4. n + way * Sign(l.side) * l.qty \in Int
    BY <2>3
  <2> QED  BY <1>1, <2>4 DEF After, l
<1>2. CASE ~ \E l \in L : l.ex = x
  BY <1>2 DEF After
<1> QED  BY <1>1, <1>2

LEMMA ExecuteKeeps ==
  ASSUME AInv, NEW j \in jobs, Execute(j)
  PROVE  AInv'
<1>1. j \in Job /\ pairs[j.pair] # None
  BY DEF AInv, EngineTyped
<1>2. PICK L \in SUBSET j.legs :
        /\ held' = [held EXCEPT ![pairs[j.pair].symbol] =
                      [x \in Exchanges |-> After(x, @[x], L, IF j.does = "enter" THEN 1 ELSE -1)]]
        /\ jobs' = (jobs \ {j}) \cup {[j EXCEPT !.at = IF L = j.legs THEN "whole" ELSE "part"]}
  BY DEF Execute
<1>3. held' \in [Symbols -> [Exchanges -> Int]]
  <2>1. L \in SUBSET Legs
    BY <1>1 DEF Job
  <2>2. \A n \in Int, x \in Exchanges : After(x, n, L, IF j.does = "enter" THEN 1 ELSE -1) \in Int
    BY <2>1, AfterIsInt
  <2> QED  BY <1>2, <2>2 DEF AInv, StoreTyped
<1>4. /\ [j EXCEPT !.at = IF L = j.legs THEN "whole" ELSE "part"] \in Job
      /\ [j EXCEPT !.at = IF L = j.legs THEN "whole" ELSE "part"].pair = j.pair
  BY <1>1 DEF Job
<1>5. jobs' \subseteq Job /\ \A k \in jobs' : pairs[k.pair] # None
  BY <1>1, <1>2, <1>4 DEF AInv, EngineTyped
<1> QED
  BY <1>3, <1>5, EngineStep DEF Execute, AInv, EngineTyped, storeVars

LEMMA RecordedIs ==
  ASSUME NEW p \in Pair, NEW j \in Job, NEW q \in Recorded(p, j)
  PROVE  q \in Pair /\ q.symbol = p.symbol /\ q.params = p.params
<1>1. /\ [p EXCEPT !.legs = {}] \in Pair
      /\ [p EXCEPT !.legs = {}].symbol = p.symbol /\ [p EXCEPT !.legs = {}].params = p.params
  BY DEF Pair
<1>2. CASE j.does = "enter" /\ j.at = "whole"
  BY <1>2 DEF Recorded, Job, Pair, States
<1>3. CASE j.does = "enter" /\ j.at = "part"
  <2>1. q \in {Paused(p), [p EXCEPT !.state = "READY", !.ready = TRUE]}
    BY <1>3 DEF Recorded
  <2>2. CASE q = Paused(p)
    BY <2>2, MadeIs
  <2>3. CASE q = [p EXCEPT !.state = "READY", !.ready = TRUE]
    BY <2>3 DEF Pair, States
  <2> QED  BY <2>1, <2>2, <2>3
<1>4. CASE j.does = "exit" /\ j.at = "whole"
  <2>1. q \in {Paused([p EXCEPT !.legs = {}]), [p EXCEPT !.legs = {}, !.state = "READY", !.ready = TRUE]}
    BY <1>4 DEF Recorded
  <2>2. CASE q = Paused([p EXCEPT !.legs = {}])
    BY <2>2, <1>1, MadeIs
  <2>3. CASE q = [p EXCEPT !.legs = {}, !.state = "READY", !.ready = TRUE]
    BY <2>3 DEF Pair, States
  <2> QED  BY <2>1, <2>2, <2>3
<1>5. CASE j.does = "force" /\ j.at = "whole"
  BY <1>5 DEF Recorded, Pair, States
<1>6. CASE ~(j.does = "enter" /\ j.at \in {"whole", "part"}) /\ j.at # "whole"
  BY <1>6 DEF Recorded, Pair, States
<1> QED  BY <1>2, <1>3, <1>4, <1>5, <1>6 DEF Job

LEMMA RecordKeeps ==
  ASSUME AInv, NEW j \in jobs, Record(j)
  PROVE  AInv'
<1>1. j \in Job /\ j.pair \in Ids /\ pairs[j.pair] # None /\ pairs[j.pair] \in Pair
  BY DEF AInv, EngineTyped, Job
<1>2. PICK q \in Pair : /\ q.symbol = pairs[j.pair].symbol /\ q.params = pairs[j.pair].params
                        /\ pairs' = [pairs EXCEPT ![j.pair] = q]
  BY <1>1, RecordedIs DEF Record
<1>3. /\ pairs' \in [Ids -> Pair \cup {None}]
      /\ \A k \in Ids : /\ pairs'[k] # None <=> pairs[k] # None
                        /\ pairs[k] # None => /\ pairs'[k].symbol = pairs[k].symbol
                                              /\ pairs'[k].params = pairs[k].params
  BY <1>1, <1>2, PairMoves
<1>4. jobs' \subseteq Job /\ \A k \in jobs' : pairs[k.pair] # None
  BY DEF Record, AInv, EngineTyped
<1> QED
  BY <1>3, <1>4, EngineStep DEF Record, AInv, StoreTyped, storeVars

-----------------------------------------------------------------------------
(* The actions that change settings.                                       *)

LEMMA CreateInsertsKeeps ==
  ASSUME AInv, NEW w \in Workers, CreateInserts(w)
  PROVE  AInv'
<1> USE DEF AInv
<1>1. req[w] \in Form /\ req[w].op = "create" /\ req[w].at = "insert"
  BY DEF RequestsTyped, CreateInserts, At
<1>2. ~Changer(req[w]) /\ req[w].arg \in Wanted /\ req[w].id = None
  BY <1>1, Kinds DEF Changer
<1>3. CASE Ends(w) /\ UNCHANGED <<rows, next>>
  <2>1. \E r \in Form : Turns(w, r)
    BY <1>2, <1>3, Ending
  <2> QED  BY <2>1, <1>3, StoreStep DEF CreateInserts, At, StoreTyped
<1>4. CASE ~(Ends(w) /\ UNCHANGED <<rows, next>>)
  <2> DEFINE row == [symbol |-> req[w].arg.symbol, params |-> req[w].arg.params, status |-> "paused"]
             r == [req[w] EXCEPT !.at = "add", !.id = next]
  <2>1. /\ next \in Ids /\ next' = next + 1 /\ rows' = [rows EXCEPT ![next] = row]
        /\ req' = [req EXCEPT ![w].at = "add", ![w].id = next]
    BY <1>4 DEF CreateInserts
  <2>2. req' = [req EXCEPT ![w] = r]
    BY <2>1 DEF RequestsTyped
  <2>3. row \in Row /\ r \in Form
    BY <1>1, <1>2, <2>1 DEF Wanted, Row, Form, Idle
  <2>4. row.params = req[w].arg.params /\ r.op = "create" /\ r.id = next /\ r.at = "add" /\ r.arg = req[w].arg
    BY <1>1 DEF Form, Idle
  <2>5. row # None
    BY <2>3, AdminAssumption
  <2> HIDE DEF row, r
  <2>6. /\ rows[next] = None /\ pairs[next] = None /\ \A v \in Workers : req[v].id # next
    BY <2>1 DEF Fresh, Ids
  <2>7. StoreTyped'
    BY <2>1, <2>3 DEF CreateInserts, StoreTyped
  <2>8. EngineTyped' /\ Indexed'
    BY DEF CreateInserts, engineVars, EngineTyped, Indexed
  <2>9. RequestsTyped'
    BY <2>2, <2>3 DEF RequestsTyped
  <2>10. pairs' = pairs /\ raced' = raced /\ known' = known
    BY DEF CreateInserts, engineVars
  <2>11. Fresh'
    <3>1. \A i \in Ids : rows'[i] # None \/ pairs'[i] # None \/ (\E v \in Workers : req'[v].id = i)
                          => i < next'
      BY <2>1, <2>2, <2>4, <2>10 DEF Fresh, StoreTyped, RequestsTyped, Ids
    <3>2. \A v \in Workers : Adding(v)' => IF v = w THEN req'[v] = r ELSE Adding(v) /\ req'[v] = req[v]
      BY <2>2 DEF RequestsTyped, Adding
    <3>3. ASSUME NEW v \in Workers, Adding(v)'  PROVE pairs'[req'[v].id] = None
      BY <3>2, <3>3, <2>4, <2>6, <2>10 DEF Fresh
    <3>4. ASSUME NEW v \in Workers, NEW u \in Workers, Adding(v)', Adding(u)', req'[u].id = req'[v].id
          PROVE  u = v
      BY <3>2, <3>4, <2>4, <2>6 DEF Fresh
    <3> QED  BY <3>1, <3>3, <3>4 DEF Fresh
  <2>12. Forgotten'
    BY DEF CreateInserts, At, Forgotten
  <2>13. ASSUME NEW i \in Ids \ raced'  PROVE InStep(i)'
    <3>1. CASE i # next
      <4>1. \A v \in Workers : (v \in Changing(i) \/ (req'[v].id = i /\ req'[v].op \in {"create", "update"}))
                                => req'[v] = req[v]
        BY <3>1, <1>2, <2>2, <2>4, AdminAssumption DEF Changing, RequestsTyped
      <4>2. rows'[i] = rows[i]
        BY <3>1, <2>1 DEF StoreTyped
      <4> QED  BY <4>1, <4>2, <2>10, <2>13, InStepStays DEF Agree
    <3>2. CASE i = next
      <4>1. \A v \in Changing(i)' : v = w
        BY <3>2, <2>2, <2>6 DEF Changing, RequestsTyped
      <4>2. w \in Changing(i)' /\ req'[w] = r
        BY <3>2, <2>2, <2>4 DEF Changing, RequestsTyped
      <4>3. rows'[i].params = req'[w].arg.params
        BY <3>2, <4>2, <2>1, <2>4 DEF StoreTyped
      <4>4. req'[w].at = "add"
        BY <4>2, <2>4
      <4> QED  BY <4>1, <4>2, <4>3, <4>4 DEF InStep
    <3> QED  BY <3>1, <3>2
  <2> QED  BY <2>7, <2>8, <2>9, <2>11, <2>12, <2>13 DEF Agree
<1> QED  BY <1>3, <1>4

LEMMA CreateAddsKeeps ==
  ASSUME AInv, NEW w \in Workers, CreateAdds(w)
  PROVE  AInv'
<1> USE DEF AInv
<1>1. req[w] \in Form /\ req[w].op = "create" /\ req[w].at = "add"
  BY DEF RequestsTyped, CreateAdds, At
<1>2. PICK i \in Ids : req[w].id = i
  BY <1>1, Kinds
<1>3. PICK s \in Symbols, p \in Params : req[w].arg.symbol = s /\ req[w].arg.params = p
  BY <1>1, Kinds DEF Wanted
<1>4. PICK q \in Pair : q = NewPair(s, p)
  BY DEF NewPair, Pair, States
<1>5. q # None /\ q.symbol = s /\ q.params = p
  BY <1>4, AdminAssumption DEF NewPair
<1>6. /\ known' = known \cup {i} /\ pairs' = [pairs EXCEPT ![i] = q]
      /\ index' = [index EXCEPT ![s] = IF @ = {} THEN {i} ELSE @]
      /\ req' = [req EXCEPT ![w] = Idle]
      /\ UNCHANGED <<mode, storeVars, held, pending, joined, jobs, raced>>
  BY <1>2, <1>3, <1>4 DEF CreateAdds, AddPair, Ends
<1>7. pairs[i] = None /\ \A v \in Workers : Adding(v) /\ req[v].id = i => v = w
  BY <1>1, <1>2 DEF Fresh, Adding
<1>8. StoreTyped' /\ RequestsTyped'
  BY <1>6 DEF StoreTyped, storeVars, RequestsTyped, Form
<1>9. EngineTyped'
  BY <1>5, <1>6 DEF EngineTyped, Job
<1>10. Indexed'
  <2>1. \A t \in Symbols : i \notin index[t]
    BY <1>7 DEF Indexed
  <2>2. Cardinality({i}) = 1
    BY FS_Singleton
  <2>3. index' \in [Symbols -> SUBSET Ids]
    BY <1>6 DEF Indexed
  <2>4. \A t \in Symbols : Cardinality(index'[t]) <= 1
    BY <1>6, <2>2 DEF Indexed
  <2>5. \A t \in Symbols : \A k \in index'[t] : pairs'[k] # None /\ pairs'[k].symbol = t
    BY <1>5, <1>6, <2>1, <2>3 DEF Indexed, EngineTyped
  <2> QED  BY <2>3, <2>4, <2>5 DEF Indexed
<1>11. Idle.op = "idle" /\ Idle.id \notin Ids
  BY AdminAssumption DEF Idle
<1>12. Fresh'
  <2>1. \A v \in Workers : Adding(v)' => Adding(v) /\ req'[v] = req[v] /\ v # w
    BY <1>6, <1>11 DEF RequestsTyped, Adding
  <2>2. i < next /\ next' = next /\ rows' = rows
    BY <1>2, <1>6 DEF Fresh, storeVars
  <2>3. \A k \in Ids : rows'[k] # None \/ pairs'[k] # None \/ (\E v \in Workers : req'[v].id = k)
                        => k < next'
    BY <2>2, <1>6, <1>11 DEF Fresh, RequestsTyped, EngineTyped
  <2>4. ASSUME NEW v \in Workers, Adding(v)'  PROVE pairs'[req'[v].id] = None
    <3>1. req[v].id # i /\ pairs[req[v].id] = None
      BY <2>1, <2>4, <1>7 DEF Fresh
    <3>2. req[v].id \in Ids
      BY <2>1, <2>4, Kinds DEF RequestsTyped, Adding
    <3> QED  BY <3>1, <3>2, <2>1, <2>4, <1>6 DEF EngineTyped
  <2> QED  BY <2>1, <2>3, <2>4 DEF Fresh
<1>13. Forgotten'
  BY <1>6 DEF CreateAdds, At, Forgotten
<1>14. ASSUME NEW k \in Ids \ raced'  PROVE InStep(k)'
  <2>1. InStep(k)
    BY <1>6, <1>14 DEF Agree
  <2>2. rows' = rows
    BY <1>6 DEF storeVars
  <2>3. CASE k # i
    <3>1. \A v \in Workers : (v \in Changing(k) \/ (req'[v].id = k /\ req'[v].op \in {"create", "update"}))
                              => req'[v] = req[v]
      BY <2>3, <1>2, <1>6, <1>11 DEF Changing, RequestsTyped
    <3>2. k \in known' => k \in known /\ pairs'[k].params = pairs[k].params
      BY <2>3, <1>6 DEF EngineTyped
    <3> QED  BY <2>1, <2>2, <3>1, <3>2, InStepStays
  <2>4. CASE k = i
    <3>1. w \in Changing(i)
      BY <1>1, <1>2 DEF Changing
    <3>2. \A v \in Changing(i) : v = w
      BY <2>1, <2>4, <3>1 DEF InStep
    <3>3. Changing(i)' = {}
      BY <3>2, <1>6, <1>11 DEF Changing, RequestsTyped
    <3>4. i \in Rows => rows[i].params = p
      BY <2>1, <2>4, <3>1, <1>1, <1>3 DEF InStep
    <3>5. pairs'[i].params = p
      BY <1>5, <1>6 DEF EngineTyped
    <3>6. Rows' = Rows
      BY <2>2 DEF Rows
    <3> QED  BY <2>2, <2>4, <3>3, <3>4, <3>5, <3>6 DEF InStep
  <2> QED  BY <2>3, <2>4
<1> QED  BY <1>8, <1>9, <1>10, <1>12, <1>13, <1>14 DEF Agree

LEMMA UpdateDecidesKeeps ==
  ASSUME AInv, NEW w \in Workers, NEW i \in Ids, NEW p \in Params, UpdateDecides(w, i, p)
  PROVE  AInv'
<1> USE DEF AInv
<1>1. CASE HasOpenPosition(i)
  <2>1. pending' \in [Ids -> Params \cup {None}] /\ req' = req /\ raced' = raced
    BY <1>1 DEF UpdateDecides, StoreTyped
  <2> QED
    BY <2>1, StoreStep DEF UpdateDecides, Asks, StoreTyped, storeVars
<1>2. CASE ~HasOpenPosition(i)
  <2>1. PICK r \in Form : r = Request("update", i, "write", p)
    BY DEF Form, Request
  <2>2. r.op = "update" /\ r.id = i /\ r.at = "write"
    BY <2>1 DEF Request
  <2>3. /\ mode = "up" /\ req[w] = Idle /\ rows[i] # None /\ pending' = pending
        /\ req' = [req EXCEPT ![w] = r]
        /\ raced' = IF Changing(i) = {} THEN raced ELSE raced \cup {i}
        /\ UNCHANGED <<mode, storeVars, held, engineVars>>
    BY <1>2, <2>1 DEF UpdateDecides, Asks, Rows
  <2>4. Idle.op = "idle" /\ Idle.id \notin Ids
    BY AdminAssumption DEF Idle
  <2>5. StoreTyped' /\ RequestsTyped'
    BY <2>3 DEF StoreTyped, storeVars, RequestsTyped
  <2>6. EngineTyped' /\ Indexed'
    BY <2>3 DEF EngineTyped, Indexed, engineVars
  <2>7. Fresh'
    <3>1. \A v \in Workers : Adding(v)' => Adding(v) /\ req'[v] = req[v] /\ v # w
      BY <2>2, <2>3 DEF RequestsTyped, Adding
    <3>2. i < next
      BY <2>3 DEF Fresh
    <3>3. rows' = rows /\ next' = next /\ pairs' = pairs
      BY <2>3 DEF storeVars, engineVars
    <3>4. \A k \in Ids : rows'[k] # None \/ pairs'[k] # None \/ (\E v \in Workers : req'[v].id = k)
                          => k < next'
      BY <2>2, <2>3, <3>2, <3>3 DEF Fresh, RequestsTyped
    <3> QED  BY <3>1, <3>3, <3>4 DEF Fresh
  <2>8. Forgotten'
    BY <2>3 DEF Forgotten
  <2>9. ASSUME NEW k \in Ids \ raced'  PROVE InStep(k)'
    <3>1. InStep(k) /\ rows' = rows /\ pairs' = pairs /\ known' = known
      BY <2>3, <2>9 DEF Agree, storeVars, engineVars
    <3>2. CASE k # i
      <4>1. \A v \in Workers : (v \in Changing(k) \/ (req'[v].id = k /\ req'[v].op \in {"create", "update"}))
                                => req'[v] = req[v]
        BY <3>2, <2>2, <2>3, <2>4 DEF Changing, RequestsTyped
      <4> QED  BY <3>1, <4>1, InStepStays
    <3>3. CASE k = i
      <4>1. Changing(i) = {}
        BY <2>3, <2>9, <3>3
      <4>2. Changing(i)' = {w}
        BY <4>1, <2>2, <2>3 DEF Changing, RequestsTyped
      <4>3. req'[w].at = "write"
        BY <2>2, <2>3 DEF RequestsTyped
      <4>4. i \in known \cap Rows => pairs[i].params = rows[i].params
        BY <3>1, <3>3, <4>1 DEF InStep
      <4>5. Rows' = Rows
        BY <3>1 DEF Rows
      <4> QED  BY <3>1, <3>3, <4>2, <4>3, <4>4, <4>5 DEF InStep
    <3> QED  BY <3>2, <3>3
  <2> QED  BY <2>5, <2>6, <2>7, <2>8, <2>9 DEF Agree
<1> QED  BY <1>1, <1>2

LEMMA UpdateWritesKeeps ==
  ASSUME AInv, NEW w \in Workers, UpdateWrites(w)
  PROVE  AInv'
<1> USE DEF AInv
<1>1. req[w] \in Form /\ req[w].op = "update" /\ req[w].at = "write" /\ mode = "up"
  BY DEF RequestsTyped, UpdateWrites, At
<1>2. PICK i \in Ids : req[w].id = i
  BY <1>1, Kinds
<1>3. Idle.op = "idle" /\ Idle.id \notin Ids /\ Idle \in Form
  BY AdminAssumption DEF Idle, Form
<1>4. PICK r \in Form :
        /\ req' = [req EXCEPT ![w] = r]
        /\ \/ r = Idle /\ UNCHANGED rows
           \/ /\ rows[i] # None /\ rows' = [rows EXCEPT ![i].params = req[w].arg]
              /\ r.op = "update" /\ r.id = i /\ r.at = "tell" /\ r.arg = req[w].arg
  <2>1. CASE Ends(w) /\ UNCHANGED rows
    BY <2>1, <1>3 DEF Ends
  <2>2. CASE ~(Ends(w) /\ UNCHANGED rows)
    <3>1. Goes(w, "tell") /\ rows[i] # None /\ rows' = [rows EXCEPT ![i].params = req[w].arg]
      BY <2>2, <1>2 DEF UpdateWrites, Rows
    <3>2. PICK r : r = [req[w] EXCEPT !.at = "tell"]
      OBVIOUS
    <3>3. r \in Form /\ r.op = "update" /\ r.id = i /\ r.at = "tell" /\ r.arg = req[w].arg
      BY <1>1, <1>2, <3>2 DEF Form, Idle
    <3>4. req' = [req EXCEPT ![w] = r]
      BY <3>1, <3>2 DEF Goes, RequestsTyped
    <3> QED  BY <3>1, <3>3, <3>4
  <2> QED  BY <2>1, <2>2
<1>5. UNCHANGED <<mode, next, accounts, held, pending, engineVars, raced>>
  BY DEF UpdateWrites
<1>6. rows' \in [Ids -> Row \cup {None}] /\ \A k \in Ids : rows'[k] # None <=> rows[k] # None
  <2>1. req[w].arg \in Params
    BY <1>1, Kinds
  <2>2. rows[i] # None => [rows[i] EXCEPT !.params = req[w].arg] \in Row
    BY <2>1 DEF StoreTyped, Row
  <2> QED  BY <1>4, <2>2, AdminAssumption DEF StoreTyped
<1>7. StoreTyped' /\ RequestsTyped'
  BY <1>4, <1>5, <1>6 DEF StoreTyped, RequestsTyped
<1>8. EngineTyped' /\ Indexed'
  BY <1>5 DEF EngineTyped, Indexed, engineVars
<1>9. pairs' = pairs /\ known' = known
  BY <1>5 DEF engineVars
<1>10. Fresh'
  <2>1. \A v \in Workers : Adding(v)' => Adding(v) /\ req'[v] = req[v] /\ v # w
    BY <1>3, <1>4 DEF RequestsTyped, Adding
  <2>2. \A k \in Ids : rows'[k] # None \/ pairs'[k] # None \/ (\E v \in Workers : req'[v].id = k)
                        => k < next'
    BY <1>2, <1>3, <1>4, <1>5, <1>6, <1>9 DEF Fresh, RequestsTyped
  <2> QED  BY <2>1, <2>2, <1>9 DEF Fresh
<1>11. Forgotten'
  BY <1>1, <1>5 DEF Forgotten
<1>12. ASSUME NEW k \in Ids \ raced'  PROVE InStep(k)'
  <2>1. InStep(k)
    BY <1>5, <1>12 DEF Agree
  <2>2. CASE k # i
    <3>1. \A v \in Workers : (v \in Changing(k) \/ (req'[v].id = k /\ req'[v].op \in {"create", "update"}))
                              => req'[v] = req[v]
      BY <2>2, <1>2, <1>3, <1>4 DEF Changing, RequestsTyped
    <3>2. rows'[k] = rows[k]
      BY <2>2, <1>4 DEF StoreTyped
    <3> QED  BY <2>1, <3>1, <3>2, <1>9, InStepStays
  <2>3. CASE k = i
    <3>1. w \in Changing(i)
      BY <1>1, <1>2 DEF Changing
    <3>2. \A v \in Changing(i) : v = w
      BY <2>1, <2>3, <3>1 DEF InStep
    <3>3. CASE r = Idle /\ UNCHANGED rows
      <4>1. Changing(i)' = {}
        BY <3>2, <3>3, <1>3, <1>4 DEF Changing, RequestsTyped
      <4>2. i \in known \cap Rows => pairs[i].params = rows[i].params
        BY <2>1, <2>3, <3>2, <1>1 DEF InStep
      <4>3. Rows' = Rows
        BY <3>3 DEF Rows
      <4> QED  BY <2>3, <3>3, <4>1, <4>2, <4>3, <1>9 DEF InStep
    <3>4. CASE ~(r = Idle /\ UNCHANGED rows)
      <4>1. /\ rows[i] # None /\ rows' = [rows EXCEPT ![i].params = req[w].arg]
            /\ r.op = "update" /\ r.id = i /\ r.at = "tell" /\ r.arg = req[w].arg
        BY <3>4, <1>4
      <4>2. Changing(i)' = {w} /\ req'[w] = r
        BY <3>2, <4>1, <1>4 DEF Changing, RequestsTyped
      <4>3. rows'[i].params = req'[w].arg
        BY <4>1, <4>2 DEF StoreTyped, Row
      <4>4. req'[w].at = "tell"
        BY <4>1, <4>2
      <4> QED  BY <2>3, <4>2, <4>3, <4>4 DEF InStep
    <3> QED  BY <3>3, <3>4
  <2> QED  BY <2>2, <2>3
<1> QED  BY <1>7, <1>8, <1>10, <1>11, <1>12 DEF Agree

LEMMA UpdateTellsKeeps ==
  ASSUME AInv, NEW w \in Workers, UpdateTells(w)
  PROVE  AInv'
<1> USE DEF AInv
<1>1. req[w] \in Form /\ req[w].op = "update" /\ req[w].at = "tell" /\ mode = "up"
  BY DEF RequestsTyped, UpdateTells, At
<1>2. PICK i \in Ids, p \in Params : req[w].id = i /\ req[w].arg = p
  BY <1>1, Kinds
<1>3. Idle.op = "idle" /\ Idle.id \notin Ids /\ Idle \in Form
  BY AdminAssumption DEF Idle, Form
<1>4. /\ pairs' = IF i \in known THEN [pairs EXCEPT ![i].params = p] ELSE pairs
      /\ req' = [req EXCEPT ![w] = Idle]
      /\ UNCHANGED <<mode, storeVars, held, pending, joined, known, index, jobs, raced>>
  BY <1>2 DEF UpdateTells, Known, Ends
<1>5. \A k \in known : pairs[k] # None /\ pairs[k] \in Pair
  BY DEF EngineTyped
<1>6. i \in known => /\ [pairs[i] EXCEPT !.params = p] \in Pair
                     /\ [pairs[i] EXCEPT !.params = p].symbol = pairs[i].symbol
                     /\ [pairs[i] EXCEPT !.params = p].params = p
  BY <1>5 DEF Pair
<1>7. /\ pairs' \in [Ids -> Pair \cup {None}]
      /\ \A k \in Ids : /\ pairs'[k] # None <=> pairs[k] # None
                        /\ pairs[k] # None => pairs'[k].symbol = pairs[k].symbol
                        /\ k # i => pairs'[k] = pairs[k]
      /\ i \in known => pairs'[i].params = p
  BY <1>4, <1>5, <1>6, AdminAssumption DEF EngineTyped
<1>8. StoreTyped' /\ RequestsTyped'
  BY <1>3, <1>4 DEF StoreTyped, RequestsTyped, storeVars
<1>9. EngineTyped' /\ Indexed'
  BY <1>4, <1>7 DEF EngineTyped, Indexed, Job
<1>10. rows' = rows /\ next' = next
  BY <1>4 DEF storeVars
<1>11. Fresh'
  <2>1. \A v \in Workers : Adding(v)' => Adding(v) /\ req'[v] = req[v] /\ v # w
    BY <1>3, <1>4 DEF RequestsTyped, Adding
  <2>2. \A k \in Ids : rows'[k] # None \/ pairs'[k] # None \/ (\E v \in Workers : req'[v].id = k)
                        => k < next'
    BY <1>3, <1>4, <1>7, <1>10 DEF Fresh, RequestsTyped
  <2>3. \A v \in Workers : Adding(v) => req[v].id \in Ids
    BY Kinds DEF RequestsTyped, Adding
  <2> QED  BY <2>1, <2>2, <2>3, <1>7 DEF Fresh
<1>12. Forgotten'
  BY <1>1, <1>4 DEF Forgotten
<1>13. ASSUME NEW k \in Ids \ raced'  PROVE InStep(k)'
  <2>1. InStep(k)
    BY <1>4, <1>13 DEF Agree
  <2>2. CASE k # i
    <3>1. \A v \in Workers : (v \in Changing(k) \/ (req'[v].id = k /\ req'[v].op \in {"create", "update"}))
                              => req'[v] = req[v]
      BY <2>2, <1>2, <1>3, <1>4 DEF Changing, RequestsTyped
    <3>2. pairs'[k] = pairs[k]
      BY <2>2, <1>7
    <3> QED  BY <2>1, <3>1, <3>2, <1>4, <1>10, InStepStays
  <2>3. CASE k = i
    <3>1. w \in Changing(i)
      BY <1>1, <1>2 DEF Changing
    <3>2. \A v \in Changing(i) : v = w
      BY <2>1, <2>3, <3>1 DEF InStep
    <3>3. Changing(i)' = {}
      BY <3>2, <1>3, <1>4 DEF Changing, RequestsTyped
    <3>4. i \in Rows => rows[i].params = p
      BY <2>1, <2>3, <3>1, <1>1, <1>2 DEF InStep
    <3>5. Rows' = Rows /\ known' = known
      BY <1>4, <1>10 DEF Rows
    <3> QED  BY <2>3, <3>3, <3>4, <3>5, <1>7, <1>10 DEF InStep
  <2> QED  BY <2>2, <2>3
<1> QED  BY <1>8, <1>9, <1>11, <1>12, <1>13 DEF Agree

-----------------------------------------------------------------------------
(* Crash, recovery and the start.                                          *)

LEMMA CrashKeeps ==
  ASSUME AInv, Crash
  PROVE  AInv'
<1> USE DEF AInv
<1>1. Idle \in Form /\ Idle.op = "idle" /\ Idle.id \notin Ids
  BY AdminAssumption DEF Idle, Form
<1>2. StoreTyped' /\ RequestsTyped'
  BY <1>1 DEF Crash, StoreTyped, storeVars, RequestsTyped
<1>3. EngineTyped'
  BY DEF Crash, EngineTyped
<1>4. Indexed'
  BY FS_EmptySet DEF Crash, Indexed
<1>5. Fresh'
  BY <1>1 DEF Crash, Fresh, Adding, storeVars
<1>6. Forgotten'
  BY DEF Crash, Forgotten
<1>7. \A i \in Ids : Changing(i)' = {} /\ i \notin known'
  BY <1>1 DEF Crash, Changing
<1>8. Agree'
  BY <1>7 DEF Agree, InStep
<1> QED  BY <1>2, <1>3, <1>4, <1>5, <1>6, <1>8

\* A pair that recovery made is its row's.
LEMMA RestoredIs ==
  ASSUME NEW i \in Ids, StoreTyped, rows[i] # None, NEW M \in SUBSET Legs,
         NEW p, p = Activated(i, Restored(i, M))
  PROVE  p \in Pair /\ p.symbol = rows[i].symbol /\ p.params = rows[i].params
<1>1. Loaded(i) \in Pair /\ Loaded(i).symbol = rows[i].symbol /\ Loaded(i).params = rows[i].params
  BY DEF Loaded, NewPair, Pair, States, StoreTyped, Row
<1>2. PICK q : q = Restored(i, M)
  OBVIOUS
<1>3. q \in Pair /\ q.symbol = rows[i].symbol /\ q.params = rows[i].params
  BY <1>1, <1>2 DEF Restored, Pair, States
<1>4. p = q \/ p = Started(q)
  BY <1>2 DEF Activated
<1> QED  BY <1>3, <1>4, MadeIs

LEMMA DiscoveredIs ==
  ASSUME StoreTyped, NEW s \in Symbols, NEW R \in SUBSET Exchanges
  PROVE  /\ Discovered(s, R) \subseteq Legs
         /\ \A l \in Discovered(s, R) : held[s][l.ex] = Sign(l.side) * l.qty /\ l.ex \in R
         /\ \A l, k \in Discovered(s, R) : l.ex = k.ex => l = k
         /\ \A x \in R : held[s][x] # 0 => \E l \in Discovered(s, R) : l.ex = x
         /\ IsFiniteSet(Discovered(s, R))
<1>1. ASSUME NEW x \in R, held[s][x] # 0
      PROVE  /\ Leg(x, IF held[s][x] > 0 THEN "long" ELSE "short", Magnitude(held[s][x])) \in Legs
             /\ held[s][x] = Sign(IF held[s][x] > 0 THEN "long" ELSE "short") * Magnitude(held[s][x])
  <2>1. held[s][x] \in Int
    BY DEF StoreTyped
  <2> QED  BY <1>1, <2>1 DEF Leg, Legs, Sides, Sign, Magnitude
<1>2. Discovered(s, R) \subseteq Legs
  BY <1>1 DEF Discovered
<1>3. \A l \in Discovered(s, R) : held[s][l.ex] = Sign(l.side) * l.qty /\ l.ex \in R
  BY <1>1 DEF Discovered, Leg
<1>4. ASSUME NEW l \in Discovered(s, R), NEW k \in Discovered(s, R), l.ex = k.ex  PROVE l = k
  <2>1. PICK x \in R : l = Leg(x, IF held[s][x] > 0 THEN "long" ELSE "short", Magnitude(held[s][x]))
    BY DEF Discovered
  <2>2. PICK y \in R : k = Leg(y, IF held[s][y] > 0 THEN "long" ELSE "short", Magnitude(held[s][y]))
    BY DEF Discovered
  <2>3. l.ex = x /\ k.ex = y
    BY <2>1, <2>2 DEF Leg
  <2> QED  BY <2>1, <2>2, <2>3, <1>4
<1>5. ASSUME NEW x \in R, held[s][x] # 0  PROVE \E l \in Discovered(s, R) : l.ex = x
  <2> DEFINE l == Leg(x, IF held[s][x] > 0 THEN "long" ELSE "short", Magnitude(held[s][x]))
  <2>1. l \in Discovered(s, R)
    BY <1>5 DEF Discovered
  <2>2. l.ex = x
    BY DEF Leg
  <2> QED  BY <2>1, <2>2
<1>6. IsFiniteSet(Discovered(s, R))
  <2> DEFINE f == [l \in Discovered(s, R) |-> l.ex]
  <2>1. f \in Injection(Discovered(s, R), Exchanges)
    BY <1>3, <1>4 DEF Injection, IsInjective
  <2> QED  BY <2>1, FS_Injection, AdminAssumption
<1> QED  BY <1>2, <1>3, <1>4, <1>5, <1>6

\* What Recover does when it can connect some exchange.
Rebuilds(R, M, f) ==
  /\ \A s \in Symbols : IF Named(s) = {} THEN M[s] = {} ELSE M[s] \in Matches(Discovered(s, R))
  /\ known' = Rows
  /\ index' = [s \in Symbols |-> Named(s)]
  /\ pairs' = [i \in Ids |-> IF i \in Rows
                 THEN Activated(i, Restored(i, M[rows[i].symbol])) ELSE None]
  /\ held' = Closed([s \in Symbols |-> Discovered(s, R) \ M[s]], f)

LEMMA RecoverIs ==
  ASSUME StoreTyped, Recover
  PROVE  /\ mode = "down" /\ mode' = "up" /\ joined' \subseteq Exchanges
         /\ \A s \in Symbols : Cardinality(Named(s)) <= 1
         /\ UNCHANGED <<storeVars, pending, jobs, req, raced>>
         /\ \/ UNCHANGED <<known, index, pairs, held>>
            \/ \E R \in SUBSET Exchanges :
                 /\ answered' = R
                 /\ \E M \in [Symbols -> SUBSET Legs], f \in [Symbols -> SUBSET Exchanges] :
                      Rebuilds(R, M, f)
<1>1. PICK X \in SUBSET accounts, R \in SUBSET Exchanges :
        /\ joined' = X /\ answered' = R
        /\ IF X = {}
           THEN UNCHANGED <<known, index, pairs, held>>
           ELSE \E M \in [Symbols -> SUBSET UNION {Discovered(s, R) : s \in Symbols}] :
                  \E f \in [Symbols -> SUBSET Exchanges] : Rebuilds(R, M, f)
  <2>1. PICK X \in SUBSET accounts : \E R \in SUBSET X :
          /\ joined' = X /\ answered' = R
          /\ IF X = {}
             THEN UNCHANGED <<known, index, pairs, held>>
             ELSE \E M \in [Symbols -> SUBSET UNION {Discovered(s, R) : s \in Symbols}] :
                    /\ \A s \in Symbols :
                         IF Named(s) = {} THEN M[s] = {} ELSE M[s] \in Matches(Discovered(s, R))
                    /\ known' = Rows
                    /\ index' = [s \in Symbols |-> Named(s)]
                    /\ pairs' = [i \in Ids |-> IF i \in Rows
                                   THEN Activated(i, Restored(i, M[rows[i].symbol])) ELSE None]
                    /\ \E f \in [Symbols -> SUBSET Exchanges] :
                         held' = Closed([s \in Symbols |-> Discovered(s, R) \ M[s]], f)
    BY DEF Recover
  <2>2. PICK R \in SUBSET X :
          /\ joined' = X /\ answered' = R
          /\ IF X = {}
             THEN UNCHANGED <<known, index, pairs, held>>
             ELSE \E M \in [Symbols -> SUBSET UNION {Discovered(s, R) : s \in Symbols}] :
                    /\ \A s \in Symbols :
                         IF Named(s) = {} THEN M[s] = {} ELSE M[s] \in Matches(Discovered(s, R))
                    /\ known' = Rows
                    /\ index' = [s \in Symbols |-> Named(s)]
                    /\ pairs' = [i \in Ids |-> IF i \in Rows
                                   THEN Activated(i, Restored(i, M[rows[i].symbol])) ELSE None]
                    /\ \E f \in [Symbols -> SUBSET Exchanges] :
                         held' = Closed([s \in Symbols |-> Discovered(s, R) \ M[s]], f)
    BY <2>1
  <2>3. R \in SUBSET Exchanges
    BY DEF StoreTyped
  <2>4. CASE X = {}
    BY <2>2, <2>3, <2>4
  <2>5. CASE X # {}
    <3>1. PICK M \in [Symbols -> SUBSET UNION {Discovered(s, R) : s \in Symbols}],
               f \in [Symbols -> SUBSET Exchanges] : Rebuilds(R, M, f)
      BY <2>2, <2>5 DEF Rebuilds
    <3> QED  BY <2>2, <2>3, <2>5, <3>1
  <2> QED  BY <2>4, <2>5
<1>2. X \subseteq Exchanges
  BY DEF StoreTyped
<1>3. UNION {Discovered(s, R) : s \in Symbols} \subseteq Legs
  BY <1>2, DiscoveredIs
<1>4. [Symbols -> SUBSET UNION {Discovered(s, R) : s \in Symbols}] \subseteq [Symbols -> SUBSET Legs]
  BY <1>3
<1> QED  BY <1>1, <1>2, <1>4 DEF Recover

LEMMA RecoverKeeps ==
  ASSUME AInv, Recover
  PROVE  AInv'
<1> USE DEF AInv
<1>1. /\ mode = "down" /\ mode' = "up" /\ joined' \subseteq Exchanges
      /\ \A s \in Symbols : Cardinality(Named(s)) <= 1
      /\ UNCHANGED <<storeVars, pending, jobs, req, raced>>
  BY RecoverIs
<1>2. /\ known = {} /\ jobs = {} /\ raced = {} /\ jobs' = {} /\ raced' = {}
      /\ \A w \in Workers : req'[w] = Idle
  BY <1>1 DEF Forgotten
<1>3. Idle.op = "idle" /\ Idle.id \notin Ids
  BY AdminAssumption DEF Idle
<1>4. RequestsTyped' /\ Forgotten'
  BY <1>1 DEF RequestsTyped, Forgotten
<1>5. \A i \in Ids : Changing(i)' = {}
  BY <1>2, <1>3 DEF Changing
<1>6. \A w \in Workers : ~Adding(w)' /\ req'[w].id \notin Ids
  BY <1>2, <1>3 DEF Adding
<1>7. CASE UNCHANGED <<known, index, pairs, held>>
  <2>1. StoreTyped' /\ EngineTyped' /\ Indexed'
    BY <1>1, <1>2, <1>7 DEF StoreTyped, EngineTyped, Indexed, storeVars
  <2>2. Fresh'
    BY <1>1, <1>6, <1>7 DEF Fresh, storeVars
  <2>3. Agree'
    BY <1>2, <1>5, <1>7 DEF Agree, InStep
  <2> QED  BY <1>4, <2>1, <2>2, <2>3
<1>8. ASSUME NEW R \in SUBSET Exchanges, NEW M \in [Symbols -> SUBSET Legs],
             NEW f \in [Symbols -> SUBSET Exchanges], Rebuilds(R, M, f)
      PROVE  AInv'
  <2>1. \A i \in Ids : rows[i] # None => rows[i].symbol \in Symbols
    BY DEF StoreTyped, Row
  <2>2. \A i \in Ids : IF rows[i] # None
                       THEN pairs'[i] \in Pair /\ pairs'[i].symbol = rows[i].symbol
                                               /\ pairs'[i].params = rows[i].params
                       ELSE pairs'[i] = None
    <3> SUFFICES ASSUME NEW i \in Ids, rows[i] # None
                 PROVE  pairs'[i] \in Pair /\ pairs'[i].symbol = rows[i].symbol
                                           /\ pairs'[i].params = rows[i].params
      BY <1>8 DEF Rebuilds, Rows
    <3>1. M[rows[i].symbol] \in SUBSET Legs
      BY <2>1
    <3>2. pairs'[i] = Activated(i, Restored(i, M[rows[i].symbol]))
      BY <1>8 DEF Rebuilds, Rows
    <3> QED  BY <3>1, <3>2, RestoredIs
  <2>3. pairs' \in [Ids -> Pair \cup {None}]
    <3>1. \A i \in Ids : pairs'[i] \in Pair \cup {None}
      BY <2>2
    <3>2. pairs' = [i \in Ids |-> pairs'[i]]
      BY <1>8 DEF Rebuilds
    <3> QED  BY <3>1, <3>2
  <2>4. \A i \in Ids : pairs'[i] # None <=> rows[i] # None
    BY <2>2, AdminAssumption
  <2>5. known' = Rows /\ rows' = rows /\ next' = next /\ Rows' = Rows
    BY <1>1, <1>8 DEF Rebuilds, storeVars, Rows
  <2>6. held' \in [Symbols -> [Exchanges -> Int]]
    BY <1>8 DEF Rebuilds, Closed, StoreTyped
  <2>7. StoreTyped'
    BY <1>1, <2>6 DEF StoreTyped, storeVars
  <2>8. EngineTyped'
    BY <1>1, <1>2, <2>3, <2>4, <2>5 DEF EngineTyped, Rows
  <2>9. Indexed'
    BY <1>1, <1>8, <2>2, <2>4 DEF Indexed, Rebuilds, Named, Rows
  <2>10. Fresh'
    BY <1>6, <2>4, <2>5 DEF Fresh
  <2>11. Agree'
    BY <1>5, <2>2, <2>5 DEF Agree, InStep, Rows
  <2> QED  BY <1>4, <2>7, <2>8, <2>9, <2>10, <2>11
<1> QED  BY <1>7, <1>8, RecoverIs

LEMMA InitAInv == Init => AInv
<1> SUFFICES ASSUME Init  PROVE AInv
  OBVIOUS
<1>1. Idle \in Form /\ Idle.op = "idle" /\ Idle.id \notin Ids
  BY AdminAssumption DEF Idle, Form
<1>2. PICK r \in Row \cup {None} : /\ rows = [i \in Ids |-> IF i = 1 THEN r ELSE None]
                                   /\ next = IF r = None THEN 1 ELSE 2
  BY DEF Init
<1>3. StoreTyped
  BY <1>2 DEF Init, StoreTyped
<1>4. EngineTyped /\ RequestsTyped /\ Forgotten
  BY <1>1 DEF Init, EngineTyped, RequestsTyped, Forgotten
<1>5. Indexed
  BY FS_EmptySet DEF Init, Indexed
<1>6. Fresh
  <2>1. \A i \in Ids : rows[i] # None => i < next
    BY <1>2 DEF Ids
  <2> QED  BY <1>1, <2>1 DEF Init, Fresh, Adding
<1>7. \A i \in Ids : Changing(i) = {} /\ i \notin known
  BY <1>1 DEF Init, Changing
<1>8. Agree
  BY <1>7 DEF Agree, InStep
<1> QED  BY <1>3, <1>4, <1>5, <1>6, <1>8 DEF AInv

LEMMA NextAInv == AInv /\ [Next]_vars => AInv'
<1> SUFFICES ASSUME AInv, [Next]_vars  PROVE AInv'
  OBVIOUS
<1>1. ASSUME NEW w \in Workers, WorkerNext(w)  PROVE AInv'
  <2>1. ASSUME NEW i \in Ids, PairRequest(w, i)  PROVE AInv'
    BY <2>1, UpdateDecidesKeeps, DeleteChecksKeeps, StartChecksKeeps, PauseChecksKeeps DEF PairRequest
  <2>2. CASE \E s \in Symbols, p \in Params, c \in BOOLEAN : CreateChecks(w, s, p, c)
    BY <2>2, CreateChecksKeeps
  <2>3. CASE \E x \in Exchanges : ConnectChecks(w, x) \/ DisconnectPauses(w, x)
    BY <2>3, ConnectChecksKeeps, DisconnectPausesKeeps
  <2>4. CASE ConnectWrites(w) \/ DisconnectWrites(w)
    BY <2>4, AccountWritesKeep
  <2>5. CASE CreateInserts(w) \/ CreateAdds(w)
    BY <2>5, CreateInsertsKeeps, CreateAddsKeeps
  <2>6. CASE UpdateWrites(w) \/ UpdateTells(w)
    BY <2>6, UpdateWritesKeeps, UpdateTellsKeeps
  <2>7. CASE DeleteRemoves(w) \/ DeleteRow(w)
    BY <2>7, DeleteRemovesKeeps, DeleteRowKeeps
  <2>8. CASE StatusWrites(w) \/ StatusTells(w)
    BY <2>8, StatusWritesKeeps, StatusTellsKeeps
  <2> QED  BY <1>1, <2>1, <2>2, <2>3, <2>4, <2>5, <2>6, <2>7, <2>8 DEF WorkerNext
<1>2. ASSUME NEW s \in Symbols, NEW i \in Ids, Exit(s, i) \/ \E a, b \in Exchanges : Enter(s, i, a, b)
      PROVE  AInv'
  BY <1>2, ExitKeeps, EnterKeeps
<1>3. ASSUME NEW j \in jobs, Execute(j) \/ Record(j)  PROVE AInv'
  BY <1>3, ExecuteKeeps, RecordKeeps
<1>4. CASE Crash
  BY <1>4, CrashKeeps
<1>5. CASE Recover
  BY <1>5, RecoverKeeps
<1>6. CASE UNCHANGED vars
  BY <1>6 DEF vars, storeVars, engineVars, ghosts, AInv, StoreTyped, EngineTyped, Indexed,
     RequestsTyped, Fresh, Adding, Forgotten, Agree, InStep, Changing, Rows
<1> QED  BY <1>1, <1>2, <1>3, <1>4, <1>5, <1>6 DEF Next
-----------------------------------------------------------------------------
LEMMA AInvHolds == Spec => []AInv
  BY InitAInv, NextAInv, PTL DEF Spec

\* TypeOK: the engine's pairs are of their rows' kinds, and no symbol's prices go to
\* two pairs, for any number of pairs, exchanges and requests.
THEOREM AdminTypeCorrect == Spec => []TypeOK
<1>1. AInv => TypeOK
  <2> SUFFICES ASSUME AInv  PROVE TypeOK
    OBVIOUS
  <2> USE DEF AInv
  <2>1. ASSUME NEW i \in Ids, pairs[i] # None
        PROVE  /\ pairs[i].state \in States /\ pairs[i].status \in {"active", "paused"}
               /\ \A l \in pairs[i].legs : l.side \in Sides /\ l.qty > 0
    <3>1. pairs[i] \in Pair
      BY <2>1 DEF EngineTyped
    <3> QED  BY <3>1 DEF Pair, Legs
  <2>2. \A w \in Workers : req[w].op \in {"idle", "create", "update", "delete", "start", "pause",
                                 "connect", "disconnect"}
    BY Kinds DEF RequestsTyped
  <2>3. \A i \in Ids : (rows[i] = None \/ rows[i] \in Row) /\ pending[i] \in Params \cup {None}
    BY DEF StoreTyped
  <2> QED  BY <2>1, <2>2, <2>3 DEF TypeOK, StoreTyped, EngineTyped, Indexed
<1> QED  BY <1>1, AInvHolds, PTL

\* ParamsAgree: outside its updates a pair trades with the settings of its row,
\* whatever writes failed, requests overlapped or restarts happened, unless two
\* changes of that pair overlapped.
THEOREM SettingsAgree == Spec => []ParamsAgree
<1>1. AInv => ParamsAgree
  BY DEF AInv, EngineTyped, Agree, InStep, ParamsAgree
<1> QED  BY <1>1, AInvHolds, PTL


\* The sides of legs, and the exchanges they are at.
SidesOf(M) == {l.side : l \in M}
Places(M) == {l.ex : l \in M}

\* Recovery gives a symbol's row no leg, one, or one of each side.
LEMMA MatchedIs ==
  ASSUME NEW L \in SUBSET Legs, IsFiniteSet(L), NEW M \in Matches(L),
         \A l, k \in L : l.ex = k.ex => l = k
  PROVE  /\ M \subseteq L
         /\ M = {} => L = {}
         /\ M # {} /\ Cardinality(M) # 1 => SidesOf(M) = Sides /\ Cardinality(Places(M)) = 2
<1>1. M \subseteq L /\ IsFiniteSet(M)
  BY FS_Subset DEF Matches
<1>2. \A side \in Sides : Cardinality({l \in M : l.side = side}) = IF \E l \in L : l.side = side THEN 1 ELSE 0
  BY DEF Matches
<1>3. \A side \in Sides : IsFiniteSet({l \in M : l.side = side})
  BY <1>1, FS_Subset
<1>4. \A l \in L : l.side \in Sides
  BY DEF Legs
<1>5. M = {} => L = {}
  <2> SUFFICES ASSUME M = {}, NEW l \in L  PROVE FALSE
    OBVIOUS
  <2>1. l.side \in Sides /\ {k \in M : k.side = l.side} = {}
    BY <1>4
  <2>2. Cardinality({k \in M : k.side = l.side}) = 1
    BY <1>2, <2>1
  <2> QED  BY <2>1, <2>2, FS_EmptySet
<1>6. ASSUME NEW side \in Sides, NEW l \in M, l.side = side
      PROVE  {k \in M : k.side = side} = {l}
  <2>1. Cardinality({k \in M : k.side = side}) = 1
    BY <1>1, <1>2, <1>6
  <2>2. PICK k : {m \in M : m.side = side} = {k}
    BY <2>1, <1>3, FS_Singleton
  <2> QED  BY <2>2, <1>6
<1>7. ASSUME M # {}, Cardinality(M) # 1
      PROVE  SidesOf(M) = Sides /\ Cardinality(Places(M)) = 2
  <2>1. PICK l \in M : TRUE
    BY <1>7
  <2>2. PICK k \in M : k # l
    <3>1. M # {l}
      BY <1>7, FS_Singleton
    <3> QED  BY <3>1
  <2>3. l.side \in Sides /\ k.side \in Sides /\ l.side # k.side
    BY <2>2, <1>1, <1>4, <1>6
  <2>4. \A m \in M : m = l \/ m = k
    <3> SUFFICES ASSUME NEW m \in M  PROVE m = l \/ m = k
      OBVIOUS
    <3>1. m.side = l.side \/ m.side = k.side
      BY <2>3, <1>1, <1>4 DEF Sides
    <3> QED  BY <3>1, <2>3, <1>6
  <2>5. SidesOf(M) = Sides
    BY <2>3, <2>4 DEF Sides, SidesOf
  <2>6. PICK a, b : a = l.ex /\ b = k.ex
    OBVIOUS
  <2>7. a # b /\ Places(M) = {a} \cup {b}
    BY <2>2, <2>4, <2>6, <1>1 DEF Places
  <2>8. IsFiniteSet({a}) /\ Cardinality({a}) = 1
    BY FS_Singleton
  <2>9. Cardinality({a} \cup {b}) = 1 + 1
    BY <2>7, <2>8, FS_AddElement
  <2> QED  BY <2>5, <2>7, <2>9
<1> QED  BY <1>1, <1>5, <1>7

\* RecoveryClaims: recovery takes the positions it could read for what they are: a
\* pair that starts READY has none, a pair in HOLDING has a long and a short leg at
\* two exchanges that hold just that, and no leg is closed as an orphan.
THEOREM RecoveryTakesWhatIsThere == Spec => RecoveryClaims
<1> DEFINE Claimed(i) ==
      /\ pairs'[i].state = "READY" => \A x \in answered' : held[pairs'[i].symbol][x] = 0
      /\ pairs'[i].state = "HOLDING" =>
           /\ SidesOf(pairs'[i].legs) = Sides /\ Cardinality(Places(pairs'[i].legs)) = 2
           /\ \A l \in pairs'[i].legs : held'[pairs'[i].symbol][l.ex] = Sign(l.side) * l.qty
<1>1. ASSUME AInv, Recover, NEW i \in known'  PROVE Claimed(i)
  <2> USE DEF AInv
  <2>1. CASE UNCHANGED <<known, index, pairs, held>>
    BY <1>1, <2>1, RecoverIs DEF Forgotten
  <2>2. ASSUME NEW R \in SUBSET Exchanges, answered' = R, NEW M \in [Symbols -> SUBSET Legs],
               NEW f \in [Symbols -> SUBSET Exchanges], Rebuilds(R, M, f)
        PROVE  Claimed(i)
    <3>1. i \in Ids /\ rows[i] # None /\ rows[i].symbol \in Symbols
      BY <2>2, <1>1 DEF Rebuilds, Rows, StoreTyped, Row
    <3>2. PICK s \in Symbols : s = rows[i].symbol
      BY <3>1
    <3>3. PICK D : D = Discovered(s, R)
      OBVIOUS
    <3>4. /\ D \subseteq Legs /\ IsFiniteSet(D)
          /\ \A l \in D : held[s][l.ex] = Sign(l.side) * l.qty /\ l.ex \in R
          /\ \A l, k \in D : l.ex = k.ex => l = k
          /\ \A x \in R : held[s][x] # 0 => \E l \in D : l.ex = x
      BY <1>1, <3>3, DiscoveredIs
    <3>5. i \in Named(s)
      BY <3>1, <3>2 DEF Named, Rows
    <3>6. M[s] \in Matches(D)
      BY <2>2, <3>3, <3>5 DEF Rebuilds
    <3>7. /\ M[s] \subseteq D
          /\ M[s] = {} => D = {}
          /\ M[s] # {} /\ Cardinality(M[s]) # 1 =>
               SidesOf(M[s]) = Sides /\ Cardinality(Places(M[s])) = 2
      BY <3>4, <3>6, MatchedIs
    <3>8. pairs'[i] = Activated(i, Restored(i, M[s])) /\ M[s] \in SUBSET Legs
      BY <2>2, <3>1, <3>2 DEF Rebuilds, Rows
    <3>9. pairs'[i].symbol = s
      BY <1>1, <3>1, <3>2, <3>8, RestoredIs
    <3>10. Loaded(i).state = "PAUSED" /\ Loaded(i) \in Pair
      BY <1>1, <3>1 DEF Loaded, NewPair, Pair, States, StoreTyped, Row
    <3>11. CASE M[s] = {}
      <4>1. pairs'[i] = Loaded(i) \/ pairs'[i] = Started(Loaded(i))
        BY <3>8, <3>11 DEF Restored, Activated
      <4>2. pairs'[i].state # "HOLDING"
        BY <4>1, <3>10 DEF Started, Pair
      <4>3. \A x \in R : held[s][x] = 0
        BY <3>4, <3>7, <3>11
      <4> QED  BY <4>2, <4>3, <3>9, <2>2
    <3>12. CASE M[s] # {} /\ Cardinality(M[s]) = 1
      <4>1. Restored(i, M[s]) = [Loaded(i) EXCEPT !.state = "ERROR"]
        BY <3>12 DEF Restored
      <4>2. Restored(i, M[s]).state = "ERROR"
        BY <4>1, <3>10 DEF Pair
      <4>3. pairs'[i].state = "ERROR"
        BY <4>2, <3>8 DEF Activated
      <4> QED  BY <4>3
    <3>13. CASE M[s] # {} /\ Cardinality(M[s]) # 1
      <4>1. Restored(i, M[s]) = [Loaded(i) EXCEPT !.state = "HOLDING", !.legs = M[s], !.status = "active"]
        BY <3>13 DEF Restored
      <4>2. Restored(i, M[s]).state = "HOLDING" /\ Restored(i, M[s]).legs = M[s]
        BY <4>1, <3>10 DEF Pair
      <4>3. pairs'[i].state = "HOLDING" /\ pairs'[i].legs = M[s]
        BY <4>2, <3>8 DEF Activated
      <4>4. ASSUME NEW l \in M[s]  PROVE held'[s][l.ex] = Sign(l.side) * l.qty
        <5>1. l \in D /\ l.ex \in Exchanges /\ held[s][l.ex] = Sign(l.side) * l.qty
          BY <3>4, <3>7
        <5>2. ~ \E k \in D \ M[s] : k.ex = l.ex
          BY <5>1, <3>4
        <5>3. held'[s][l.ex] = held[s][l.ex]
          BY <2>2, <3>3, <5>1, <5>2 DEF Rebuilds, Closed
        <5> QED  BY <5>1, <5>3
      <4> QED  BY <4>3, <4>4, <3>7, <3>9, <3>13
    <3> QED  BY <3>11, <3>12, <3>13
  <2> QED  BY <1>1, <2>1, <2>2, RecoverIs
<1>2. AInv /\ [Next]_vars /\ mode = "down" /\ mode' = "up" => Recover
  BY DEF Next, WorkerNext, PairRequest, CreateChecks, UpdateDecides, DeleteChecks, StartChecks,
     PauseChecks, ConnectChecks, DisconnectPauses, Asks, ConnectWrites, DisconnectWrites,
     CreateInserts, CreateAdds, UpdateWrites, UpdateTells, DeleteRemoves, DeleteRow, StatusWrites,
     StatusTells, At, Enter, Exit, Execute, Record, Crash, vars
<1>3. AInv /\ [Next]_vars =>
        [mode = "down" /\ mode' = "up" =>
           \A i \in known' :
             LET p == pairs'[i] IN
               /\ p.state = "READY" => \A x \in answered' : held[p.symbol][x] = 0
               /\ p.state = "HOLDING" =>
                    /\ {l.side : l \in p.legs} = Sides /\ Cardinality({l.ex : l \in p.legs}) = 2
                    /\ \A l \in p.legs : held'[p.symbol][l.ex] = Sign(l.side) * l.qty]_vars
  BY <1>1, <1>2 DEF SidesOf, Places
<1> QED  BY <1>3, AInvHolds, PTL DEF Spec, RecoveryClaims
=============================================================================
