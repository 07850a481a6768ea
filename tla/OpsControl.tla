----------------------------- MODULE OpsControl -----------------------------
(***************************************************************************)
(* Operators and clients of one order gateway with Postgres attached       *)
(* (crates/services/order-gateway/src/ops_http.rs, orders_http.rs, app.rs).*)
(* Handlers run concurrently: the engine's lock is held for single steps   *)
(* and never across an await, so a handler's database calls interleave with*)
(* what the others do to the engine, and a failed write puts back an engine*)
(* that is as old as its request.                                          *)
(*                                                                         *)
(* Left out: who may call (tokens, allowlist, KYC), the order itself       *)
(* (PaperService has it), leadership (LeaderLease).  store_fail_hard is on,*)
(* as it is by default.                                                    *)
(***************************************************************************)
EXTENDS RiskControl

CONSTANTS
  Handlers,      \* requests served at the same time
  Accounts, Instruments, Actors,
  Restricted,    \* restricted by configuration
  Patches,       \* the bodies operators send to POST /v1/ops/risk
  Quantities, StartLimit,
  MaxRequests,   \* bound: requests
  MaxFailures,   \* bound: database calls that fail
  MaxCrashes     \* bound: crashes

ASSUME OpsAssumption ==
  /\ Restricted \subseteq Instruments /\ Quantities \subseteq Nat /\ StartLimit \in Nat
  /\ "none" \notin Actors \cup Accounts
  /\ MaxRequests \in Nat /\ MaxFailures \in Nat /\ MaxCrashes \in Nat

VARIABLES
  engine,      \* [risk, log], under the lock
  approvals,   \* the approvals in memory
  persisted,   \* audit_persisted_seq
  task,        \* what each handler is doing
  db,          \* Postgres: [risk, audit, approvals, opsAudit]
  up,          \* the process runs
  requests, failures, crashes,
  \* history
  version,     \* changes of the engine so far
  rowVersion,  \* the version the risk row shows
  asker,       \* account -> the request that last asked to stop it, or 0
  stopped,     \* accounts whose stop was acknowledged and not lifted
  acked,       \* orders and refusals whose write was acknowledged
  byAdmin,     \* overrides an admin header granted
  clean        \* nobody's work was undone by another's failure or overtaken

memory == <<engine, approvals, persisted>>
bounds == <<requests, failures, crashes>>
history == <<version, rowVersion, asker, stopped, acked, byAdmin, clean>>
vars == <<memory, task, db, up, bounds, history>>

Idle == [at |-> "idle"]
NewEngine == [risk |-> NewRisk(StartLimit, Restricted), log |-> EmptyLog]
NoRows == [id \in {} |-> 0]

Init ==
  /\ engine = NewEngine /\ approvals = NoRows /\ persisted = 0
  /\ task = [h \in Handlers |-> Idle]
  /\ db = [risk |-> {}, audit |-> NoRows, approvals |-> NoRows, opsAudit |-> {}]
  /\ up = TRUE /\ requests = 0 /\ failures = 0 /\ crashes = 0
  /\ version = 0 /\ rowVersion = 0 /\ clean = TRUE
  /\ asker = [a \in Accounts |-> 0] /\ stopped = {} /\ acked = {} /\ byAdmin = {}

At(h, place) == up /\ task[h].at = place
Goes(h, t) == task' = [task EXCEPT ![h] = t]
\* A task goes on, with more to remember.
Onward(t, place, more) ==
  [x \in DOMAIN t \cup DOMAIN more |->
     IF x = "at" THEN place ELSE IF x \in DOMAIN t THEN t[x] ELSE more[x]]

Changes(e) == engine' = e /\ version' = version + 1

\* A request comes in.
Arrives(h) == /\ At(h, "idle") /\ requests < MaxRequests /\ requests' = requests + 1
              /\ UNCHANGED <<failures, crashes>>

\* A database call works, or fails.
Works == UNCHANGED bounds
Breaks == failures < MaxFailures /\ failures' = failures + 1 /\ UNCHANGED <<requests, crashes>>

-----------------------------------------------------------------------------
(* POST /v1/orders.                                                        *)

\* An admin header grants an override of a restriction before anything else.
ArriveOrder(h) ==
  /\ Arrives(h)
  /\ \E a \in Accounts, i \in Instruments, q \in Quantities, admin \in BOOLEAN :
       /\ Goes(h, [at |-> "arrived", op |-> requests + 1, account |-> a, instrument |-> i, qty |-> q])
       /\ IF admin /\ i \in engine.risk.restricted
          THEN /\ Changes([engine EXCEPT !.risk.overrides = @ \cup {<<a, i>>}])
               /\ byAdmin' = byAdmin \cup {<<a, i>>}
          ELSE UNCHANGED <<engine, version, byAdmin>>
  /\ UNCHANGED <<approvals, persisted, db, up, rowVersion, asker, stopped, acked, clean>>

\* snapshot_engine.
TakeSnapshot(h) ==
  /\ At(h, "arrived")
  /\ Goes(h, Onward(task[h], "snapped", [snap |-> engine, since |-> version]))
  /\ UNCHANGED <<memory, db, up, bounds, history>>

\* submit.  What the risk check refuses is written too; an order the instrument does
\* not allow is recorded and answered at once.
SubmitOrder(h) ==
  /\ At(h, "snapped")
  /\ Changes([engine EXCEPT !.log = Recorded(@, task[h].op)])
  /\ \/ LET verdict == Check(engine.risk, task[h].account, task[h].instrument, task[h].qty)
        IN  Goes(h, Onward(task[h], "collect", [verdict |-> verdict]))
     \/ Goes(h, Idle)
  /\ UNCHANGED <<approvals, persisted, db, up, bounds, rowVersion, asker, stopped, acked, byAdmin, clean>>

\* Mutant of Collect: only what is new since the request's own snapshot is written.
CollectOwn(h) ==
  /\ At(h, "collect")
  /\ LET since == Max({persisted, task[h].snap.log.next})
     IN  Goes(h, Onward(task[h], "write", [batch |-> RecordsAfter(engine.log, since)]))
  /\ UNCHANGED <<memory, db, up, bounds, history>>

\* must_persist: the batch.
Collect(h) ==
  /\ At(h, "collect")
  /\ Goes(h, Onward(task[h], "write", [batch |-> RecordsAfter(engine.log, persisted)]))
  /\ UNCHANGED <<memory, db, up, bounds, history>>

Highest(batch, seq) == Max({seq} \cup {r.seq : r \in batch})

\* The write succeeds and the request is answered.
Write(h) ==
  /\ At(h, "write") /\ Works
  /\ db' = [db EXCEPT !.audit = Inserted(@, task[h].batch)]
  /\ persisted' = Highest(task[h].batch, persisted)
  /\ acked' = acked \cup {task[h].op}
  /\ clean' = (clean /\ task[h].batch \subseteq ToSet(engine.log.records))
  /\ Goes(h, Idle)
  /\ UNCHANGED <<engine, approvals, up, version, rowVersion, asker, stopped, byAdmin>>

\* The write fails, or its answer is lost: the kill switch is engaged.
WriteFails(h) ==
  /\ At(h, "write") /\ Breaks
  /\ db' \in {db, [db EXCEPT !.audit = Inserted(@, task[h].batch)]}
  /\ Changes([engine EXCEPT !.risk.kill = TRUE])
  /\ Goes(h, Onward(task[h], "saveKill", [row |-> Snapshot(engine'.risk), seen |-> version']))
  /\ clean' = (clean /\ task[h].batch \subseteq ToSet(engine.log.records))
  /\ UNCHANGED <<approvals, persisted, up, rowVersion, asker, stopped, acked, byAdmin>>

\* upsert_risk_state with the snapshot of task t.
Upserted(d, t) == [d EXCEPT !.risk = {t.row}]
Upserts(t) == rowVersion' = t.seen /\ clean' = (clean /\ t.seen >= rowVersion)

\* The risk row of the kill, and its line in the operators' trail; either may fail.
SaveKill(h) ==
  /\ At(h, "saveKill")
  /\ \E saved, noted \in BOOLEAN :
       /\ IF saved /\ noted THEN Works ELSE Breaks
       /\ IF saved THEN Upserts(task[h]) ELSE UNCHANGED <<rowVersion, clean>>
       /\ LET d == IF saved THEN Upserted(db, task[h]) ELSE db
          IN  db' = IF noted THEN [d EXCEPT !.opsAudit = @ \cup {task[h].op}] ELSE d
  /\ Goes(h, [task[h] EXCEPT !.at = "rollback"])
  /\ UNCHANGED <<memory, up, version, asker, stopped, acked, byAdmin>>

\* rollback_engine, and the request is answered.  It undoes more than the request if
\* the engine was changed, or records written, that the snapshot does not know of.
Rollback(h) ==
  /\ At(h, "rollback")
  /\ Changes([task[h].snap EXCEPT !.risk.kill = TRUE])
  /\ clean' = (clean /\ version = task[h].since + 2 /\ LastSeq(db.audit) <= task[h].snap.log.next)
  /\ Goes(h, Idle)
  /\ UNCHANGED <<approvals, persisted, db, up, bounds, rowVersion, asker, stopped, acked, byAdmin>>

-----------------------------------------------------------------------------
(* POST /v1/ops/risk.                                                      *)

\* The patch, under the lock.  With an unknown symbol what came before it stands.
PatchRisk(h) ==
  /\ Arrives(h)
  /\ \E b \in Patches :
       LET r == Patched(engine.risk, b)
       IN  /\ Changes([engine EXCEPT !.risk = r.risk])
           /\ IF r.error # "none" THEN Goes(h, Idle) /\ UNCHANGED <<asker, stopped>>
              ELSE /\ Goes(h, [at |-> "upsert", op |-> requests + 1, account |-> b.account,
                               row |-> Snapshot(r.risk), seen |-> version + 1])
                   /\ asker' = [a \in Accounts |-> IF a # b.account THEN asker[a]
                                                   ELSE IF b.on THEN requests + 1 ELSE 0]
                   /\ stopped' = IF b.on THEN stopped ELSE stopped \ {b.account}
  /\ UNCHANGED <<approvals, persisted, db, up, rowVersion, acked, byAdmin, clean>>

\* Mutant of UpsertRisk: the row is left to the next failed write.
UpsertRiskLater(h) ==
  /\ At(h, "upsert") /\ Works
  /\ Goes(h, [task[h] EXCEPT !.at = "note"])
  /\ UNCHANGED <<memory, db, up, history>>

UpsertRisk(h) ==
  /\ At(h, "upsert")
  /\ \/ /\ Works /\ Goes(h, [task[h] EXCEPT !.at = "note"])
        /\ db' = Upserted(db, task[h]) /\ Upserts(task[h])
     \/ /\ Breaks /\ Goes(h, Idle)
        /\ \/ UNCHANGED <<db, rowVersion, clean>>
           \/ db' = Upserted(db, task[h]) /\ Upserts(task[h])
  /\ UNCHANGED <<memory, up, version, asker, stopped, acked, byAdmin>>

\* persist_risk_ops_audit, and the operator is answered.
Note(h) ==
  /\ At(h, "note") /\ Goes(h, Idle)
  /\ \/ /\ Works /\ db' = [db EXCEPT !.opsAudit = @ \cup {task[h].op}]
        /\ stopped' = stopped \cup {a \in Accounts : asker[a] = task[h].op}
     \/ Breaks /\ UNCHANGED <<db, stopped>>
  /\ UNCHANGED <<memory, up, version, rowVersion, asker, acked, byAdmin, clean>>

-----------------------------------------------------------------------------
(* POST /v1/ops/approvals.                                                 *)

\* The maker's request, first in the table ...
RequestApproval(h) ==
  LET id == Cardinality(DOMAIN db.approvals) + 1
  IN  /\ At(h, "idle") /\ requests < MaxRequests /\ requests' = requests + 1 /\ UNCHANGED crashes
      /\ \E a \in Accounts, i \in Instruments, by \in Actors :
           LET filed == [db EXCEPT !.approvals = Merge(@, id, Request(a, i, by))]
           IN  \/ /\ db' = filed /\ Goes(h, [at |-> "file", id |-> id, row |-> Request(a, i, by)])
                  /\ UNCHANGED failures
               \/ /\ failures < MaxFailures /\ failures' = failures + 1
                  /\ db' \in {db, filed} /\ UNCHANGED task
      /\ UNCHANGED <<memory, up, history>>

\* ... then in memory.
FileApproval(h) ==
  /\ At(h, "file") /\ Goes(h, Idle)
  /\ approvals' = Merge(approvals, task[h].id, task[h].row)
  /\ UNCHANGED <<engine, persisted, db, up, bounds, history>>

\* The checker's approval, first in memory, ...
ApproveInMemory(h) ==
  /\ Arrives(h)
  /\ \E id \in DOMAIN approvals, actor \in Actors :
       IF ApproveError(approvals, id, actor) # "none" THEN UNCHANGED <<approvals, task>>
       ELSE /\ approvals' = Approved(approvals, id, actor)
            /\ Goes(h, [at |-> "approve", op |-> requests + 1, id |-> id, actor |-> actor])
  /\ UNCHANGED <<engine, persisted, db, up, history>>

\* ... then in the table, ...
ApproveRow(h) ==
  LET t     == task[h]
      error == ApproveRowError(db.approvals, t.id, t.actor)
      rows  == [db EXCEPT !.approvals = Approved(@, t.id, t.actor)]
  IN  /\ At(h, "approve")
      /\ \/ error # "none" /\ Works /\ Goes(h, Idle) /\ UNCHANGED db
         \/ error = "none" /\ Works /\ Goes(h, [t EXCEPT !.at = "grant"]) /\ db' = rows
         \/ error = "none" /\ Breaks /\ Goes(h, Idle) /\ db' \in {db, rows}
      /\ UNCHANGED <<memory, up, history>>

\* ... and the override is granted.
GrantOverride(h) ==
  LET row == approvals[task[h].id]
  IN  /\ At(h, "grant") /\ Goes(h, [task[h] EXCEPT !.at = "note"])
      /\ Changes([engine EXCEPT !.risk.overrides = @ \cup {<<row.account, row.instrument>>}])
      /\ UNCHANGED <<approvals, persisted, db, up, bounds, rowVersion, asker, stopped, acked,
                     byAdmin, clean>>

-----------------------------------------------------------------------------
Crash ==
  /\ up /\ crashes < MaxCrashes /\ crashes' = crashes + 1
  /\ up' = FALSE /\ task' = [h \in Handlers |-> Idle]
  /\ engine' = NewEngine /\ approvals' = NoRows /\ persisted' = 0
  /\ UNCHANGED <<db, requests, failures, history>>

\* Mutant of Restart: the stops are not restored.
RestartFree ==
  /\ ~up /\ up' = TRUE
  /\ engine' = [NewEngine EXCEPT !.log = RestoredLog(db.audit)] /\ version' = version + 1
  /\ approvals' = db.approvals /\ persisted' = LastSeq(db.audit)
  /\ UNCHANGED <<task, db, bounds, rowVersion, asker, stopped, acked, byAdmin, clean>>

\* apply_store_hydrate: stops from their row, overrides from the approved requests.
Restart ==
  LET Row(id)  == db.approvals[id]
      granted  == {<<Row(id).account, Row(id).instrument>> :
                     id \in {x \in DOMAIN db.approvals : Row(x).approved # "none"}}
      hydrated == IF db.risk = {} THEN NewEngine.risk
                  ELSE Restored(NewEngine.risk, CHOOSE row \in db.risk : TRUE)
  IN  /\ ~up /\ up' = TRUE
      /\ Changes([risk |-> [hydrated EXCEPT !.overrides = @ \cup granted],
                  log |-> RestoredLog(db.audit)])
      /\ approvals' = db.approvals /\ persisted' = LastSeq(db.audit)
      /\ UNCHANGED <<task, db, bounds, rowVersion, asker, stopped, acked, byAdmin, clean>>

Next ==
  \/ \E h \in Handlers :
       \/ ArriveOrder(h) \/ TakeSnapshot(h) \/ SubmitOrder(h) \/ Collect(h) \/ Write(h)
       \/ WriteFails(h) \/ SaveKill(h) \/ Rollback(h)
       \/ PatchRisk(h) \/ UpsertRisk(h) \/ Note(h)
       \/ RequestApproval(h) \/ FileApproval(h) \/ ApproveInMemory(h) \/ ApproveRow(h)
       \/ GrantOverride(h)
  \/ Crash
  \/ Restart

Spec == Init /\ [][Next]_vars

-----------------------------------------------------------------------------
(* Properties.                                                             *)

\* An account whose stop was acknowledged to the operator does not trade until it is
\* lifted, across crashes and other operators' patches, unless a failed request put
\* back an older engine or an older snapshot overtook a newer one (clean).
StopHolds == up /\ clean => stopped \subseteq engine.risk.killed

\* The same without the exception: what milestones.md:85 promises.
StopAlwaysHolds == up => stopped \subseteq engine.risk.killed

\* The durable audit trail has no hole and its hashes link, whatever was interleaved,
\* failed or crashed, under the same exception.
TrailIntact ==
  clean => /\ DOMAIN db.audit = 1 .. Cardinality(DOMAIN db.audit)
           /\ ChainOk(Trail(db.audit))

\* The same without the exception (architecture.md:46, "append-only").
TrailAlwaysIntact ==
  /\ DOMAIN db.audit = 1 .. Cardinality(DOMAIN db.audit)
  /\ ChainOk(Trail(db.audit))

\* What was acknowledged is in the durable trail, under the same exception.
AckedIsOnRecord == clean => acked \subseteq {db.audit[seq].what : seq \in DOMAIN db.audit}

\* A restricted instrument is opened to an account by two operators, or by the admin
\* token; a restart, a repeated approval or a lost answer opens nothing more.
DualControl ==
  \A pair \in engine.risk.overrides \ byAdmin :
    \E id \in DOMAIN db.approvals :
      /\ <<db.approvals[id].account, db.approvals[id].instrument>> = pair
      /\ db.approvals[id].approved \notin {"none", db.approvals[id].by}

\* An approval that is answered for takes effect: with nothing in flight an approved
\* request has its override.
ApprovedIsGranted ==
  up /\ clean /\ (\A h \in Handlers : task[h] = Idle) =>
    \A id \in DOMAIN approvals :
      approvals[id].approved # "none" =>
        <<approvals[id].account, approvals[id].instrument>> \in engine.risk.overrides

\* "every ops risk mutation" has its line (milestones.md:86): with nothing in flight
\* and no failure an account is not stopped without one.
MutationsAreNoted ==
  up /\ failures = 0 /\ engine.risk.kill /\ (\A h \in Handlers : task[h] = Idle) =>
    db.opsAudit # {}
=============================================================================
