------------------------------- MODULE Hydrate -------------------------------
(***************************************************************************)
(* What the order gateway writes to Postgres and how a paper session is    *)
(* rebuilt from it: persist.rs and persist_trading_batch on the way out,   *)
(* hydrate.rs and PaperEngine::hydrate on the way back.                    *)
(*                                                                         *)
(* The database is the record [rows, ledger, positions, risk]: the order   *)
(* rows, the journal entries, the non-zero positions, and the one row of   *)
(* risk_state, "none" while it does not exist.  The audit log, the drop    *)
(* copy and the venue cursor are written too, but no restart decides on    *)
(* them.                                                                   *)
(***************************************************************************)
EXTENDS PaperEngine

\* The store after persist_bootstrap: the deposits of a fresh process.
Bootstrapped(e) ==
  [rows |-> [id \in {} |-> 0], ledger |-> e.book.entries,
   positions |-> [a \in {} |-> 0], risk |-> "none"]

\* collect_batch: one order (or NoOrder) with the whole journal and every
\* non-zero position.
NoOrder == [id |-> 0]

CollectBatch(e, order) ==
  [order     |-> order,
   ledger    |-> e.book.entries,
   positions |-> [a \in {b \in Accounts : e.book.position[b] # 0} |->
                    [lots |-> e.book.position[a], reserved |-> e.book.posReserved[a]]]]

\* The constraint orders_account_client_unique.
ViolatesUnique(db, batch) ==
  /\ batch.order # NoOrder
  /\ \E id \in DOMAIN db.rows \ {batch.order.id} :
       /\ db.rows[id].account = batch.order.order.account
       /\ db.rows[id].client = batch.order.order.client

\* Mutant of Persisted: the journal is skipped when there is no order.
PersistedOrders(db, batch) ==
  IF batch.order = NoOrder THEN db
  ELSE [db EXCEPT !.rows   = Put(@, batch.order.id, batch.order.order),
                  !.ledger = @ \cup {e \in batch.ledger : \A f \in db.ledger : f.key # e.key}]

\* persist_trading_batch: upserts the order and the positions, inserts the
\* entries whose key the table does not have.
Persisted(db, batch) ==
  [db EXCEPT
     !.rows      = IF batch.order = NoOrder THEN @ ELSE Put(@, batch.order.id, batch.order.order),
     !.ledger    = @ \cup {e \in batch.ledger : \A f \in db.ledger : f.key # e.key},
     !.positions = [a \in DOMAIN @ \cup DOMAIN batch.positions |->
                      IF a \in DOMAIN batch.positions THEN batch.positions[a] ELSE @[a]]]

-----------------------------------------------------------------------------
LotsOf(rows, a) ==
  MapThenSumSet(LAMBDA id : IF rows[id].side = "Buy" THEN rows[id].cum ELSE -rows[id].cum,
                {id \in DOMAIN rows : rows[id].account = a})

\* load_hydrate_payload: positions come from the fills when no row was saved.
LoadedPositions(db) ==
  IF DOMAIN db.positions # {} THEN db.positions
  ELSE [a \in {b \in Accounts : LotsOf(db.rows, b) # 0} |->
          [lots |-> LotsOf(db.rows, a), reserved |-> 0]]

IsOpen(o) == o.status \notin IsTerminal /\ o.leaves > 0

OpenOf(rows, a, side) ==
  {id \in DOMAIN rows : IsOpen(rows[id]) /\ rows[id].account = a /\ rows[id].side = side}

IsPending(o) == o.status \in {"PendingNew", "PendingCancel", "PendingReplace"}

\* Orders that go back to the venue.
AtVenue(o) ==
  \/ o.status \in IsWorking \cup {"PendingCancel", "PendingReplace"}
  \/ o.status = "PendingNew" /\ o.acked

\* What the open orders of an account hold back: the cash of the buys and the lots
\* of the sells.
CashNeeded(rows, a) ==
  MapThenSumSet(LAMBDA id : rows[id].price * rows[id].leaves, OpenOf(rows, a, "Buy"))

LotsNeeded(rows, a) == MapThenSumSet(LAMBDA id : rows[id].leaves, OpenOf(rows, a, "Sell"))

\* The cash that account a must still reserve, or, if negative, may have back.
CashMissing(rows, journal, a) ==
  IF OpenOf(rows, a, "Buy") = {} THEN 0 ELSE CashNeeded(rows, a) - journal.reserved[a]

Underfunded(rows, journal, a) ==
  CashMissing(rows, journal, a) > 0 /\ CashMissing(rows, journal, a) > journal.cash[a]

\* The entries of the closing loop of reinflate_working_state, each under its
\* account's key: an earlier restart may have used it.
AlignEntries(rows, journal) ==
  LET AlignEntry(a) ==
        LET n == CashMissing(rows, journal, a)
        IN  Entry(Key(IF n > 0 THEN "cash-align" ELSE "cash-release", a, 0), a, -n, n, 0, 0, 0)
      missing == {a \in Accounts : CashMissing(rows, journal, a) # 0 /\ ~Underfunded(rows, journal, a)}
  IN  {e \in {AlignEntry(a) : a \in missing} : ~Posted(journal, e.key)}

\* The book hydrate leaves: journal, aligned reserves, and the saved positions, of
\* which open sells reserve what they need.
HydratedBook(db) ==
  LET journal == Replay(db.ledger, Accounts)
      loaded  == LoadedPositions(db)
      saved(a) == a \in DOMAIN loaded
  IN  [Replay(db.ledger \cup AlignEntries(db.rows, journal), Accounts) EXCEPT
         !.position    = [a \in Accounts |-> IF saved(a) THEN loaded[a].lots ELSE 0],
         !.posReserved = [a \in Accounts |->
                            IF OpenOf(db.rows, a, "Sell") # {} THEN LotsNeeded(db.rows, a)
                            ELSE IF saved(a) /\ loaded[a].reserved > 0 THEN loaded[a].reserved
                            ELSE 0]]

\* PaperEngine::hydrate on the engine of a new process.
Hydrated(db, faults) ==
  LET rows    == db.rows
      journal == Replay(db.ledger, Accounts)
  IN  [NewEngine(faults) EXCEPT
         !.orders   = rows,
         !.byClient = [k \in {<<rows[id].account, rows[id].client>> : id \in DOMAIN rows} |->
                         CHOOSE id \in DOMAIN rows : <<rows[id].account, rows[id].client>> = k],
         !.nextId   = IF DOMAIN rows = {} THEN 0 ELSE Max(DOMAIN rows),
         !.book     = HydratedBook(db),
         !.venue    = VRestoreWorking(@, [id \in {i \in DOMAIN rows : AtVenue(rows[i])} |-> rows[id]]),
         !.remCash  = [id \in UNION {OpenOf(rows, a, "Buy") : a \in Accounts} |->
                         rows[id].price * rows[id].leaves],
         !.remLots  = [id \in UNION {OpenOf(rows, a, "Sell") : a \in Accounts} |->
                         rows[id].leaves],
         !.kill     = \/ \E a \in Accounts : Underfunded(rows, journal, a)
                      \/ \E id \in DOMAIN rows : IsPending(rows[id])]

\* Mutant of HydratedFromStore: only the journal and the ids are taken over.
AttachedOnly(db, faults) ==
  [NewEngine(faults) EXCEPT !.book = Replay(db.ledger, Accounts),
                            !.nextId = IF DOMAIN db.rows = {} THEN 0 ELSE Max(DOMAIN db.rows)]

\* apply_store_hydrate: the saved risk state replaces what hydrate decided.
HydratedFromStore(db, faults) ==
  LET e == Hydrated(db, faults)
  IN  IF db.risk = "none" THEN e ELSE [e EXCEPT !.kill = db.risk = "on"]
=============================================================================
