----------------------------- MODULE OrderStore -----------------------------
(***************************************************************************)
(* The in-memory OMS of crates/domain/orders/src/store.rs together with    *)
(* the durable rows it is rebuilt from: idempotent submission per account  *)
(* and client order id, event application, and the restore that follows a  *)
(* restart.                                                                *)
(*                                                                         *)
(* Save stands for the upsert of one order row.  It writes the order as it *)
(* is in memory at that moment and may come any time after a mutation, or  *)
(* never: a crash in between loses what was not saved.                     *)
(***************************************************************************)
EXTENDS Orders, FiniteSets

CONSTANTS
  Lots,        \* quantities requests and events may carry
  Prices,      \* prices requests and events may carry
  ReqSides,    \* sides requests may have (the store does not look at them)
  MaxId,       \* bound: order ids allocated per run
  MaxEvents,   \* bound: orders created and events applied
  MaxRestarts  \* bound: restarts

ASSUME StoreAssumption ==
  /\ Lots \subseteq Int /\ Prices \subseteq Int /\ ReqSides \subseteq Sides
  /\ MaxId \in Nat /\ MaxEvents \in Nat /\ MaxRestarts \in Nat

VARIABLES
  orders,     \* orders: order id -> order, for the ids in the store
  byClient,   \* by_client: <<account, client>> -> order id
  nextId,     \* next_id: the last id allocated
  events,     \* orders created and events applied so far (for the bound)
  rows,       \* the table "orders": order id -> saved order
  restarts,   \* how often the process has restarted
  trades,     \* history: the trades the OMS accepted and has not lost
  answers     \* history: <<key, id>> pairs submit answered and has not lost

vars == <<orders, byClient, nextId, events, rows, restarts, trades, answers>>

Requests == [account : Accounts, client : ClientIds, side : ReqSides,
             tif : {"GTC"}, qty : Lots, price : Prices]
Events   == [type : {"Trade"}, exec : ExecIds, qty : Lots, price : Prices]
              \cup [type : {"ReplaceRequested", "Replaced"}, exec : {NoExec},
                    qty : Lots, price : Prices]
              \cup [type : EventTypes \ {"Trade", "ReplaceRequested", "Replaced"},
                    exec : {NoExec}, qty : {0}, price : {0}]
Keys     == Accounts \X ClientIds
OrderIds == 1 .. MaxId

KeyOf(o) == <<o.account, o.client>>

\* Extends or overwrites a partial function (HashMap::insert).
Insert(f, k, v) == [x \in DOMAIN f \cup {k} |-> IF x = k THEN v ELSE f[x]]

EmptyMap == [x \in {} |-> 0]

-----------------------------------------------------------------------------
Init ==
  /\ orders = EmptyMap /\ byClient = EmptyMap /\ rows = EmptyMap
  /\ nextId = 0 /\ events = 0 /\ restarts = 0
  /\ trades = {} /\ answers = {}

\* OrderStore::submit with a key already known: the existing order is returned.
SubmitDuplicate(req) ==
  /\ KeyOf(req) \in DOMAIN byClient
  /\ answers' = answers \cup {<<KeyOf(req), byClient[KeyOf(req)]>>}
  /\ UNCHANGED <<orders, byClient, nextId, events, rows, restarts, trades>>

\* OrderStore::submit refused by new_pending_typed: the id is already spent.
SubmitInvalid(req) ==
  /\ KeyOf(req) \notin DOMAIN byClient
  /\ nextId < MaxId
  /\ NewPendingError(req) # "none"
  /\ nextId' = nextId + 1
  /\ UNCHANGED <<orders, byClient, events, rows, restarts, trades, answers>>

\* Mutant of SubmitCreated: the client key is not looked up first.
SubmitCreatedAgain(req) ==
  /\ nextId < MaxId /\ events < MaxEvents
  /\ NewPendingError(req) = "none"
  /\ nextId' = nextId + 1
  /\ events' = events + 1
  /\ byClient' = Insert(byClient, KeyOf(req), nextId + 1)
  /\ orders' = Insert(orders, nextId + 1, NewPending(req))
  /\ answers' = answers \cup {<<KeyOf(req), nextId + 1>>}
  /\ UNCHANGED <<rows, restarts, trades>>

\* OrderStore::submit of a new order.
SubmitCreated(req) ==
  /\ KeyOf(req) \notin DOMAIN byClient
  /\ nextId < MaxId /\ events < MaxEvents
  /\ NewPendingError(req) = "none"
  /\ nextId' = nextId + 1
  /\ events' = events + 1
  /\ byClient' = Insert(byClient, KeyOf(req), nextId + 1)
  /\ orders' = Insert(orders, nextId + 1, NewPending(req))
  /\ answers' = answers \cup {<<KeyOf(req), nextId + 1>>}
  /\ UNCHANGED <<rows, restarts, trades>>

\* OrderStore::apply_event that succeeds.
ApplyEvent(id, ev) ==
  /\ id \in DOMAIN orders /\ events < MaxEvents
  /\ ApplyError(orders[id], ev) = "none"
  /\ events' = events + 1
  /\ orders' = [orders EXCEPT ![id] = Applied(orders[id], ev)]
  /\ trades' = IF ev.type = "Trade"
               THEN trades \cup {[id |-> id, exec |-> ev.exec, qty |-> ev.qty, price |-> ev.price]}
               ELSE trades
  /\ UNCHANGED <<byClient, nextId, rows, restarts, answers>>

\* OrderStore::apply_event that returns an error: the store is unchanged.
ApplyRefused(id, ev) ==
  /\ id \in DOMAIN orders => ApplyError(orders[id], ev) # "none"
  /\ UNCHANGED vars

\* upsert_order_tx: the row becomes the order as it is now.
Save(id) ==
  /\ id \in DOMAIN orders
  /\ rows' = Insert(rows, id, orders[id])
  /\ UNCHANGED <<orders, byClient, nextId, events, restarts, trades, answers>>

(* Mutants of Restart.                                                     *)
Restored(someRows) ==
  /\ restarts < MaxRestarts
  /\ restarts' = restarts + 1
  /\ orders' = someRows
  /\ trades' = {t \in trades : t.id \in DOMAIN rows /\ t.exec \in rows[t.id].execs}
  /\ answers' = {a \in answers : a[2] \in DOMAIN rows /\ KeyOf(rows[a[2]]) = a[1]}
  /\ UNCHANGED <<rows, events>>

IndexOf(someRows) ==
  [k \in {KeyOf(someRows[i]) : i \in DOMAIN someRows} |->
     CHOOSE i \in DOMAIN someRows : KeyOf(someRows[i]) = k]

\* next_id is not moved past the restored ids.
RestartNoBump == Restored(rows) /\ byClient' = IndexOf(rows) /\ nextId' = 0

\* Only open orders are restored.
RestartOpenOnly ==
  LET open == [i \in {j \in DOMAIN rows : rows[j].status \notin IsTerminal} |-> rows[i]]
  IN  Restored(open) /\ byClient' = IndexOf(open) /\ UNCHANGED nextId

\* A fresh OrderStore on which restore_order runs for every row.
Restart ==
  /\ restarts < MaxRestarts
  /\ restarts' = restarts + 1
  /\ orders' = rows
  /\ byClient' = [k \in {KeyOf(rows[i]) : i \in DOMAIN rows} |->
                    CHOOSE i \in DOMAIN rows : KeyOf(rows[i]) = k]
  /\ nextId' \in {n \in DOMAIN rows \cup {0} : \A i \in DOMAIN rows : i <= n}
  /\ trades' = {t \in trades : t.id \in DOMAIN rows /\ t.exec \in rows[t.id].execs}
  /\ answers' = {a \in answers : a[2] \in DOMAIN rows /\ KeyOf(rows[a[2]]) = a[1]}
  /\ UNCHANGED <<rows, events>>

Next ==
  \/ \E req \in Requests : SubmitDuplicate(req) \/ SubmitInvalid(req) \/ SubmitCreated(req)
  \/ \E id \in OrderIds, ev \in Events : ApplyEvent(id, ev) \/ ApplyRefused(id, ev)
  \/ \E id \in OrderIds : Save(id)
  \/ Restart

Spec == Init /\ [][Next]_vars
-----------------------------------------------------------------------------
(* Properties.                                                             *)

\* Type invariant.  Ids in the store were allocated: none exceeds next_id, so
\* the next submission cannot overwrite an order.
TypeOK ==
  /\ nextId \in 0 .. MaxId /\ events \in 0 .. MaxEvents /\ restarts \in 0 .. MaxRestarts
  /\ DOMAIN orders \subseteq 1 .. nextId /\ DOMAIN rows \subseteq 1 .. nextId
  /\ \A id \in DOMAIN orders : orders[id] \in Order
  /\ \A id \in DOMAIN rows : rows[id] \in Order
  /\ DOMAIN byClient \subseteq Keys
  /\ \A k \in DOMAIN byClient : byClient[k] \in 1 .. nextId

\* What a status says about an order's fills.
StatusMatchesFillsOf(o) ==
  /\ AssertInvariants(o) /\ o.qty > 0
  /\ o.leaves = 0 <=> o.status = "Filled"
  /\ o.status \in {"PendingNew", "New", "Rejected"} => o.cum = 0
  /\ o.status = "PartiallyFilled" => o.cum > 0
  /\ o.cum > 0 <=> o.execs # {}
  /\ o.acked <=> o.status \notin {"PendingNew", "Rejected"}

\* The status of every order agrees with its fills after any sequence of
\* events and restarts (status.rs, Order::apply_trade, Order::apply_replaced):
\* an order without leaves is Filled and nothing else is, one still New has no
\* fill, and only an acknowledged order leaves PendingNew or Rejected.
StatusMatchesFills == \A id \in DOMAIN orders : StatusMatchesFillsOf(orders[id])

\* The trades of an order, and their lots one by one.
Mine(id) == {t \in trades : t.id = id}
LotsOf(ts) == UNION {{t} \X (1 .. t.qty) : t \in ts}

\* Every fill is explained by exactly one trade per execution id (has_exec):
\* the cumulative quantity is the lots of the accepted trades, and a duplicate
\* report of an execution never counts twice, restarts included.
ExecsExplainFills ==
  \A id \in DOMAIN orders :
    /\ orders[id].cum = Cardinality(LotsOf(Mine(id)))
    /\ orders[id].execs = {t.exec : t \in Mine(id)}
    /\ \A t, u \in Mine(id) : t.exec = u.exec => t = u

\* The truncated running average of apply_trade never leaves the range of the
\* prices it averages, however many trades are folded in.
AvgWithinTrades ==
  \A id \in DOMAIN orders :
    Mine(id) # {} => \E low, high \in Mine(id) : orders[id].avg \in low.price .. high.price

\* by_client and orders are inverse to each other, so get_by_client finds the
\* one order of a key and no order is unreachable (submit, restore_order).
ClientIndexAgrees ==
  /\ \A k \in DOMAIN byClient :
       byClient[k] \in DOMAIN orders /\ KeyOf(orders[byClient[k]]) = k
  /\ \A id \in DOMAIN orders :
       KeyOf(orders[id]) \in DOMAIN byClient /\ byClient[KeyOf(orders[id])] = id

\* Retrying a submission is answered with the order the key already has:
\* no key was ever answered with two ids, and no id was given to two keys.
OneOrderPerKey ==
  /\ \A a \in answers : a[1] \in DOMAIN byClient /\ byClient[a[1]] = a[2]
  /\ \A a, b \in answers : a[1] = b[1] <=> a[2] = b[2]

\* A saved row is an earlier version of the order in memory: it never shows a
\* fill memory does not have, and a terminal row is final.
RowsLagMemory ==
  \A id \in DOMAIN rows :
    /\ id \in DOMAIN orders
    /\ KeyOf(rows[id]) = KeyOf(orders[id])
    /\ rows[id].execs \subseteq orders[id].execs
    /\ rows[id].cum <= orders[id].cum
    /\ rows[id].status \in IsTerminal => orders[id] = rows[id]

\* "Terminal (immutable)": no event moves an order out of a terminal status or
\* changes any of its fields while the process runs.
TerminalFrozen ==
  [][\A id \in DOMAIN orders :
       (orders[id].status \in IsTerminal /\ restarts' = restarts)
         => id \in DOMAIN orders' /\ orders'[id] = orders[id]]_vars

=============================================================================
