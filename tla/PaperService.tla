---------------------------- MODULE PaperService ----------------------------
(***************************************************************************)
(* The order gateway around a paper session (crates/services/order-        *)
(* gateway): requests are handled by concurrent tasks that share the       *)
(* engine behind one mutex and write through to Postgres before they       *)
(* answer.                                                                 *)
(*                                                                         *)
(* A handler takes the lock several times and gives it back in between:    *)
(* it clones the engine, calls it, collects the batch, and, when the write *)
(* fails, engages the kill switch, saves it and puts the clone back.  Each *)
(* of these is a step; the steps of other handlers and a crash of the      *)
(* process may come between any two.                                       *)
(*                                                                         *)
(* Requests are GTC orders of positive quantity and price, as the handlers *)
(* refuse the others before the engine sees them.  store_fail_hard has its *)
(* default, true.                                                          *)
(***************************************************************************)
EXTENDS Hydrate

CONSTANTS
  Handlers,      \* tasks that serve requests
  Requests,      \* what clients may ask for
  FaultConfigs,  \* fault configurations of the venue
  StartCash,     \* the bootstrap deposit of each account
  MaxOrders,     \* bound: order ids
  MaxRequests,   \* bound: requests served
  MaxFails,      \* bound: writes that fail for the store's own reasons
  MaxRestarts,   \* bound: crashes
  MayCrash(_, _), \* bound: on which venue, requests served alone or not, it crashes
  MaxOutages,    \* bound: outages of the venue
  MayDrop(_),    \* bound: which venues have outages
  MaxOps         \* bound: changes of the kill switch by operators

ASSUME ServiceAssumption ==
  {StartCash, MaxOrders, MaxRequests, MaxFails, MaxRestarts, MaxOutages, MaxOps} \subseteq Nat

\* What the handlers parse out of a request, and the fill policies of the venue.
ASSUME RequestAssumption ==
  /\ \A r \in Requests :
       /\ r.op \in {"submit", "cancel", "replace", "deposit", "withdraw"}
       /\ r.op \in {"submit", "replace"} => r.qty \in Int /\ r.price \in Int
  /\ \A f \in FaultConfigs : f.first \in Int /\ f.fillPolicy \in {"Rest", "Full", "Split"}

VARIABLES
  eng,       \* the engine behind the mutex
  db,        \* Postgres
  tasks,     \* what each handler is doing
  acked,     \* history: what clients were told is done
  halted,    \* history: a write failed and no operator has cleared the kill since
  alone,     \* history: no request has arrived while another was being served
  count      \* how often each bounded thing has happened

vars == <<eng, db, tasks, acked, halted, alone, count>>

Idle == [pc |-> "idle"]

Count(what) == count' = [count EXCEPT ![what] = @ + 1]

\* The engine of a fresh process: every account has its bootstrap deposit.
Boot(faults) ==
  [NewEngine(faults) EXCEPT
     !.book = Replay({Entry(Key("bootstrap", a, 0), a, StartCash, 0, -StartCash, 0, 0) : a \in Accounts},
                     Accounts)]

Init ==
  /\ \E faults \in FaultConfigs : eng = Boot(faults)
  /\ db = Bootstrapped(eng)
  /\ tasks = [h \in Handlers |-> Idle]
  /\ acked = {} /\ halted = FALSE /\ alone = TRUE
  /\ count = [requests |-> 0, fails |-> 0, restarts |-> 0, outages |-> 0, ops |-> 0]

-----------------------------------------------------------------------------
(* Handlers.                                                               *)

\* snapshot_engine, the first thing a trading handler does.
Arrive(h, r) ==
  /\ tasks[h] = Idle /\ count.requests < MaxRequests
  /\ r.op = "submit" => eng.nextId < MaxOrders
  /\ tasks' = [tasks EXCEPT ![h] = [pc |-> "handling", req |-> r, snap |-> eng]]
  /\ alone' = (alone /\ \A other \in Handlers : tasks[other] = Idle \/ tasks[other].req.op = "ops")
  /\ Count("requests")
  /\ UNCHANGED <<eng, db, acked, halted>>

Handling(h, op) == tasks[h].pc = "handling" /\ tasks[h].req.op = op

\* The engine call of handler h leaves e.  If it must persist, the order (or
\* NoOrder) is what it will write; otherwise the error is answered at once.
Handled(h, e, persists, order) ==
  /\ eng' = e
  /\ tasks' = [tasks EXCEPT ![h] = IF persists
       THEN [pc |-> "persisting", req |-> @.req, snap |-> @.snap, order |-> order] ELSE Idle]
  /\ UNCHANGED <<db, acked, halted, alone, count>>

Clone(e, id) == [id |-> id, order |-> e.orders[id]]

\* post_order: an order created or found is persisted, a risk reject persists
\* its audit, any other error is answered without touching the store.
HandleSubmit(h) ==
  /\ Handling(h, "submit")
  /\ LET req == tasks[h].req
         out == Submit(eng, req)
     IN  Handled(h, out.eng, out.err \in {"none", "Duplicate", "Risk"},
                 IF out.err \in {"none", "Duplicate"}
                 THEN Clone(out.eng, out.eng.byClient[<<req.account, req.client>>])
                 ELSE NoOrder)

Owns(r) == r.id \in DOMAIN eng.orders /\ eng.orders[r.id].account = r.account

\* post_cancel: an order the OMS would not cancel is written as it was before.
HandleCancel(h) ==
  /\ Handling(h, "cancel")
  /\ LET r   == tasks[h].req
         out == Cancel(eng, r.id)
     IN  IF Owns(r)
         THEN Handled(h, out.eng, out.err \in {"none", "Order"},
                      IF out.err = "none" THEN Clone(out.eng, r.id) ELSE Clone(eng, r.id))
         ELSE Handled(h, eng, FALSE, NoOrder)

\* post_replace
HandleReplace(h) ==
  /\ Handling(h, "replace")
  /\ LET r   == tasks[h].req
         out == Replace(eng, r.id, r.qty, r.price)
     IN  IF Owns(r)
         THEN Handled(h, out.eng, out.err = "none", IF out.err = "none" THEN Clone(out.eng, r.id) ELSE NoOrder)
         ELSE Handled(h, eng, FALSE, NoOrder)

FundsKey(r) == Key(r.op, "any", r.key)

\* post_deposit and post_withdraw: the key holds what the client sent, not who.
HandleFunds(h) ==
  /\ tasks[h].pc = "handling" /\ tasks[h].req.op \in {"deposit", "withdraw"}
  /\ LET r   == tasks[h].req
         ok  == IF r.op = "deposit" THEN DepositError(eng.book, r.account, r.amount) = "none"
                ELSE WithdrawError(eng.book, r.account, r.amount) = "none"
         new == IF r.op = "deposit" THEN Deposit(eng.book, r.account, r.amount, FundsKey(r))
                ELSE Withdraw(eng.book, r.account, r.amount, FundsKey(r))
     IN  Handled(h, IF ok THEN [eng EXCEPT !.book = new] ELSE eng, ok, NoOrder)

-----------------------------------------------------------------------------
(* must_persist.                                                           *)

\* collect_batch, under the lock.
Collect(h) ==
  /\ tasks[h].pc = "persisting"
  /\ tasks' = [tasks EXCEPT ![h] = [pc |-> "writing", req |-> @.req, snap |-> @.snap,
                                    batch |-> CollectBatch(eng, @.order)]]
  /\ UNCHANGED <<eng, db, acked, halted, alone, count>>

\* What the answer to a request tells the client.
Acks(t) ==
  IF t.batch.order # NoOrder THEN {[op |-> "order", id |-> t.batch.order.id, order |-> t.batch.order.order]}
  ELSE IF t.req.op \in {"deposit", "withdraw"} THEN {t.req} ELSE {}

\* The transaction commits and the request is answered.
Commit(h) ==
  /\ tasks[h].pc = "writing" /\ ~ViolatesUnique(db, tasks[h].batch)
  /\ db' = Persisted(db, tasks[h].batch)
  /\ acked' = acked \cup Acks(tasks[h])
  /\ tasks' = [tasks EXCEPT ![h] = Idle]
  /\ UNCHANGED <<eng, halted, alone, count>>

\* Mutant of WriteFails: the transaction leaves its journal entries behind.
WriteFailsHalfway(h) ==
  /\ tasks[h].pc = "writing"
  /\ \/ ViolatesUnique(db, tasks[h].batch) /\ UNCHANGED count
     \/ count.fails < MaxFails /\ Count("fails")
  /\ db' = [db EXCEPT !.ledger = @ \cup tasks[h].batch.ledger]
  /\ eng' = [eng EXCEPT !.kill = TRUE]
  /\ halted' = TRUE
  /\ tasks' = [tasks EXCEPT ![h] = [pc |-> "saving", req |-> @.req, snap |-> @.snap, kill |-> "on"]]
  /\ UNCHANGED <<acked, alone>>

\* The write fails: the kill switch is engaged.
WriteFails(h) ==
  /\ tasks[h].pc = "writing"
  /\ \/ ViolatesUnique(db, tasks[h].batch) /\ UNCHANGED count
     \/ count.fails < MaxFails /\ Count("fails")
  /\ eng' = [eng EXCEPT !.kill = TRUE]
  /\ halted' = TRUE
  /\ tasks' = [tasks EXCEPT ![h] = [pc |-> "saving", req |-> @.req, snap |-> @.snap, kill |-> "on"]]
  /\ UNCHANGED <<db, acked, alone>>

\* upsert_risk_state, which may fail too; a trading handler then rolls back.
SaveRisk(h) ==
  /\ tasks[h].pc = "saving"
  /\ db' \in {db, [db EXCEPT !.risk = tasks[h].kill]}
  /\ tasks' = [tasks EXCEPT ![h] = IF @.req.op = "ops" THEN Idle
                                   ELSE [pc |-> "rollback", req |-> @.req, snap |-> @.snap]]
  /\ UNCHANGED <<eng, acked, halted, alone, count>>

(* Mutants of Rollback.                                                    *)
RolledBack(h, e) ==
  /\ tasks[h].pc = "rollback"
  /\ eng' = e
  /\ tasks' = [tasks EXCEPT ![h] = Idle]
  /\ UNCHANGED <<db, acked, halted, alone, count>>

\* The kill switch goes back too.
RollbackPlain(h) == RolledBack(h, tasks[h].snap)

\* The book, or the map of reserves, is left as it is.
RollbackKeepsBook(h) == RolledBack(h, [tasks[h].snap EXCEPT !.kill = TRUE, !.book = eng.book])
RollbackKeepsMap(h) == RolledBack(h, [tasks[h].snap EXCEPT !.kill = TRUE, !.remCash = eng.remCash])

\* rollback_engine: the whole engine goes back to the clone, but for the kill.
Rollback(h) ==
  /\ tasks[h].pc = "rollback"
  /\ eng' = [tasks[h].snap EXCEPT !.kill = TRUE]
  /\ tasks' = [tasks EXCEPT ![h] = Idle]
  /\ UNCHANGED <<db, acked, halted, alone, count>>

-----------------------------------------------------------------------------
\* post_risk: an operator sets the kill switch, then it is saved.
SetKill(h, on) ==
  /\ tasks[h] = Idle /\ count.ops < MaxOps
  /\ eng' = [eng EXCEPT !.kill = on]
  /\ halted' = (halted /\ on)
  /\ tasks' = [tasks EXCEPT ![h] = [pc |-> "saving", req |-> [op |-> "ops"],
                                    kill |-> IF on THEN "on" ELSE "off"]]
  /\ Count("ops")
  /\ UNCHANGED <<db, acked, alone>>

\* disconnect_venue and reconnect_venue: an outage of the venue.
VenueDown ==
  /\ eng.venue.connected /\ count.outages < MaxOutages /\ MayDrop(eng.venue.faults)
  /\ eng' = Disconnect(eng) /\ Count("outages")
  /\ UNCHANGED <<db, tasks, acked, halted, alone>>

VenueBack ==
  /\ ~eng.venue.connected
  /\ eng' = Reconnect(eng)
  /\ UNCHANGED <<db, tasks, acked, halted, alone, count>>

\* The process dies with everything in memory and a new one hydrates.
Restart ==
  /\ count.restarts < MaxRestarts /\ MayCrash(eng.venue.faults, alone)
  /\ eng' = HydratedFromStore(db, eng.venue.faults)
  /\ tasks' = [h \in Handlers |-> Idle]
  /\ halted' = FALSE
  /\ Count("restarts")
  /\ UNCHANGED <<db, acked, alone>>

Next ==
  \/ \E h \in Handlers :
       \/ \E r \in Requests : Arrive(h, r)
       \/ HandleSubmit(h) \/ HandleCancel(h) \/ HandleReplace(h) \/ HandleFunds(h)
       \/ Collect(h) \/ Commit(h) \/ WriteFails(h) \/ SaveRisk(h) \/ Rollback(h)
       \/ \E on \in BOOLEAN : SetKill(h, on)
  \/ VenueDown \/ VenueBack
  \/ Restart

Spec == Init /\ [][Next]_vars
-----------------------------------------------------------------------------
(* Properties.                                                             *)

\* Type invariant.
TypeOK ==
  /\ \A id \in DOMAIN eng.orders : eng.orders[id] \in Order
  /\ \A id \in DOMAIN db.rows : db.rows[id] \in Order
  /\ db.risk \in {"none", "on", "off"} /\ eng.kill \in BOOLEAN
  /\ DOMAIN eng.orders \cup DOMAIN db.rows \subseteq 1 .. MaxOrders
  /\ DOMAIN eng.remCash \cup DOMAIN eng.remLots \subseteq DOMAIN eng.orders

SameClient(o, p) == o.account = p.account /\ o.client = p.client

\* Some store of orders knows an order at least as well as its version o.
Knows(orders, id, o) ==
  /\ id \in DOMAIN orders /\ SameClient(orders[id], o)
  /\ o.execs \subseteq orders[id].execs /\ o.cum <= orders[id].cum
  /\ o.status \in IsTerminal => orders[id] = o

\* Some journal holds the movement of money an answer confirmed.
Holds(entries, r) ==
  \E e \in entries :
    /\ e.key = FundsKey(r) /\ e.account = r.account
    /\ e.cash = IF r.op = "deposit" THEN r.amount ELSE -r.amount

\* What a client was told is done is in Postgres, after any crash and any failed
\* write: the order as it was answered or a later version of it, the deposit or
\* withdrawal under its key ("ack only after a successful transactional persist").
EveryAckIsDurable ==
  \A ack \in acked : IF ack.op = "order" THEN Knows(db.rows, ack.id, ack.order)
                     ELSE Holds(db.ledger, ack)

\* It holds as long as requests are served one at a time (must_persist writes the
\* clone that its handler took, whatever has been written since).
AckedIsDurable == alone => EveryAckIsDurable

\* A deposit or withdrawal answered as "posted" moved the money of the account that
\* asked for it, whatever keys other accounts use (post_deposit, post_withdraw).
FundsArrive == \A ack \in acked : ack.op # "order" => Holds(eng.book.entries, ack)

\* The running engine also knows it: neither a rollback of another request nor a
\* restart takes back what was acknowledged.
EveryAckInMemory ==
  \A ack \in acked : IF ack.op = "order" THEN Knows(eng.orders, ack.id, ack.order)
                     ELSE Holds(eng.book.entries, ack)

\* It holds as long as requests are served one at a time (rollback_engine puts back
\* the engine of its own request, whatever others have done since).
AckedInMemory == alone => EveryAckInMemory

\* Postgres never knows more than the engine: a failed or half-done request leaves
\* neither an order version nor a journal entry behind that memory has rolled back
\* (persist_trading_batch is one transaction); while requests are served one at a time.
StoreWithinMemory == alone =>
  /\ \A id \in DOMAIN db.rows : Knows(eng.orders, id, db.rows[id])
  /\ db.ledger \subseteq eng.book.entries

\* The reserves in the book are those of the open orders, across failed writes,
\* rollbacks and restarts (reinflate_working_state).
AlwaysReserveBacked ==
  \A a \in Accounts :
    LET mine == {id \in DOMAIN eng.orders : eng.orders[id].account = a}
    IN  /\ eng.book.reserved[a] = MapThenSumSet(LAMBDA id : GetOrZero(eng.remCash, id), mine)
        /\ eng.book.posReserved[a] = MapThenSumSet(LAMBDA id : GetOrZero(eng.remLots, id), mine)

\* It holds for whatever engine the rollbacks of concurrent requests leave, and after
\* the restarts of a gateway that served its requests one at a time and never lost its
\* venue (the reserve of an order the venue was not there for is written by the next
\* request, the order is not).
ReserveBacked ==
  count.restarts = 0 \/ (alone /\ count.outages = 0) => AlwaysReserveBacked

\* The position is the net of the fills of the orders.
PositionIsNetFills ==
  \A a \in Accounts : eng.book.position[a] = LotsOf(eng.orders, a)

\* A failed write stops trading until an operator clears the kill switch, although
\* the rollback that follows puts an older engine back (must_persist, rollback_engine).
FailedWriteHalts == halted => eng.kill

Restarts == count'.restarts # count.restarts

\* "Pending OMS statuses engage the global kill switch until an operator clears
\* them" (PaperEngine::hydrate).
PendingHaltsRestart ==
  [][Restarts /\ (\E id \in DOMAIN db.rows : IsPending(db.rows[id])) => eng'.kill]_vars

\* A restart of an idle gateway gives every account the position it had.
RestartKeepsPositions ==
  [][Restarts /\ (\A h \in Handlers : tasks[h] = Idle)
       => eng'.book.position = eng.book.position]_vars
=============================================================================
