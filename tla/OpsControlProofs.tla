------------------------- MODULE OpsControlProofs --------------------------
(***************************************************************************)
(* Proofs about the ops control plane, for any number of handlers,         *)
(* accounts and operators, any number of failed calls and crashes and any  *)
(* interleaving: an override of a restriction takes two operators or the   *)
(* admin token (TwoOperators); and while no rollback or late snapshot      *)
(* undid another's work, acknowledged stops hold (StopsHold) and the       *)
(* durable audit trail is whole and holds what was answered (TrailHolds,   *)
(* AckedOnRecord).                                                         *)
(***************************************************************************)
EXTENDS OpsControl, TLAPS, FiniteSetTheorems, NaturalsInduction, WellFoundedInduction

-----------------------------------------------------------------------------
(* The invariant.                                                          *)

RiskShape(r) ==
  r = [kill |-> r.kill, killed |-> r.killed, restricted |-> r.restricted,
       overrides |-> r.overrides, limit |-> r.limit]
EngineShape(e) == e = [risk |-> e.risk, log |-> e.log] /\ RiskShape(e.risk)
RowShape(row) ==
  row = [kill |-> row.kill, killed |-> row.killed, restricted |-> row.restricted,
         limit |-> row.limit]

Rows == [account : Accounts, instrument : Instruments, by : Actors, approved : Actors \cup {"none"}]

\* The table of approvals: numbered without a hole, none approved by its maker.
Sound(rows) ==
  /\ \E n \in Nat : DOMAIN rows = 1 .. n
  /\ rows \in [DOMAIN rows -> Rows]
  /\ \A id \in DOMAIN rows : rows[id].approved # rows[id].by

DbOk(d) ==
  /\ d = [risk |-> d.risk, audit |-> d.audit, approvals |-> d.approvals, opsAudit |-> d.opsAudit]
  /\ \A row \in d.risk : RowShape(row)
  /\ Sound(d.approvals)

SameRequest(x, y) == x.account = y.account /\ x.instrument = y.instrument /\ x.by = y.by

\* Memory knows no request the table does not.
Mirrors(mem, rows) ==
  /\ mem \in [DOMAIN mem -> Rows]
  /\ \A id \in DOMAIN mem : id \in DOMAIN rows /\ SameRequest(mem[id], rows[id])

\* Every override has its approved request in the table, or was an admin's.
Opened(overrides, rows, admin) ==
  \A pair \in overrides \ admin :
    \E id \in DOMAIN rows :
      <<rows[id].account, rows[id].instrument>> = pair /\ rows[id].approved # "none"

\* What a task remembers of an order: from its snapshot on, and from its failure on.
OrderFields == {"at", "op", "account", "instrument", "qty"}
Snapped == OrderFields \cup {"snap", "since"}
Collected == Snapped \cup {"verdict"}
Batched == Collected \cup {"batch"}

TaskOk(t, rows, mem, admin) ==
  /\ "at" \in DOMAIN t
  /\ t.at = "arrived" => DOMAIN t = OrderFields
  /\ t.at = "snapped" => DOMAIN t = Snapped
  /\ t.at = "collect" => DOMAIN t = Collected
  /\ t.at = "write" => DOMAIN t = Batched
  /\ t.at \in {"snapped", "collect", "write", "saveKill", "rollback"} =>
       /\ EngineShape(t.snap)
       /\ Opened(t.snap.risk.overrides, rows, admin)
  /\ t.at \in {"upsert", "saveKill"} => RowShape(t.row)
  /\ t.at = "file" => t.row \in Rows /\ t.id \in DOMAIN rows /\ SameRequest(t.row, rows[t.id])
  /\ t.at \in {"approve", "grant"} => t.id \in DOMAIN mem
  /\ t.at = "approve" => t.actor \in Actors /\ t.actor # mem[t.id].by
  /\ t.at = "grant" => rows[t.id].approved # "none"

OpsInv ==
  /\ EngineShape(engine)
  /\ Opened(engine.risk.overrides, db.approvals, byAdmin)
  /\ DbOk(db)
  /\ Mirrors(approvals, db.approvals)
  /\ task = [h \in Handlers |-> task[h]]
  /\ \A h \in Handlers : TaskOk(task[h], db.approvals, approvals, byAdmin)

\* Requests are added and approved, in the table and in memory, and nothing else.
Grown(rows1, rows2, mem1, mem2, admin1, admin2) ==
  /\ \A id \in DOMAIN rows1 :
       /\ id \in DOMAIN rows2 /\ SameRequest(rows2[id], rows1[id])
       /\ rows1[id].approved # "none" => rows2[id].approved # "none"
  /\ \A id \in DOMAIN mem1 : id \in DOMAIN mem2 /\ mem2[id].by = mem1[id].by
  /\ admin1 \subseteq admin2

-----------------------------------------------------------------------------
(* Lemmas.                                                                 *)

LEMMA OpenedGrows ==
  ASSUME NEW O, NEW r1, NEW r2, NEW m1, NEW m2, NEW a1, NEW a2,
         Grown(r1, r2, m1, m2, a1, a2), Opened(O, r1, a1)
  PROVE  Opened(O, r2, a2)
BY DEF Grown, Opened, SameRequest

LEMMA TaskGrows ==
  ASSUME NEW t, NEW r1, NEW r2, NEW m1, NEW m2, NEW a1, NEW a2,
         Mirrors(m1, r1), Grown(r1, r2, m1, m2, a1, a2), TaskOk(t, r1, m1, a1)
  PROVE  TaskOk(t, r2, m2, a2)
<1>1. t.at \in {"snapped", "collect", "write", "saveKill", "rollback"} =>
        Opened(t.snap.risk.overrides, r2, a2)
  BY OpenedGrows DEF TaskOk
<1>2. t.at = "file" => t.id \in DOMAIN r2 /\ SameRequest(t.row, r2[t.id])
  BY DEF TaskOk, Grown, SameRequest
<1>3. t.at \in {"approve", "grant"} => t.id \in DOMAIN m2
  BY DEF TaskOk, Grown
<1>4. t.at = "approve" => t.actor \in Actors /\ t.actor # m2[t.id].by
  BY DEF TaskOk, Grown
<1>5. t.at = "grant" => r2[t.id].approved # "none"
  BY DEF TaskOk, Grown, Mirrors
<1>6. QED
  BY <1>1, <1>2, <1>3, <1>4, <1>5 DEF TaskOk

\* A step of one handler.
LEMMA StepKeeps ==
  ASSUME OpsInv, NEW h \in Handlers,
         EngineShape(engine'), Opened(engine'.risk.overrides, db'.approvals, byAdmin'),
         DbOk(db'), Mirrors(approvals', db'.approvals),
         Grown(db.approvals, db'.approvals, approvals, approvals', byAdmin, byAdmin'),
         NEW u, task' = [task EXCEPT ![h] = u], TaskOk(u, db'.approvals, approvals', byAdmin')
  PROVE  OpsInv'
<1>1. task' = [k \in Handlers |-> task'[k]]
  BY DEF OpsInv
<1>2. ASSUME NEW k \in Handlers
      PROVE  TaskOk(task'[k], db'.approvals, approvals', byAdmin')
  <2>1. CASE k = h
    BY <2>1 DEF OpsInv
  <2>2. CASE k # h
    <3>1. task'[k] = task[k]
      BY <2>2 DEF OpsInv
    <3>2. QED
      BY <3>1, TaskGrows DEF OpsInv
  <2>3. QED
    BY <2>1, <2>2
<1>3. QED
  BY <1>1, <1>2 DEF OpsInv

\* A step of no handler, or one that leaves its task where it is.
LEMMA StayKeeps ==
  ASSUME OpsInv, EngineShape(engine'), Opened(engine'.risk.overrides, db'.approvals, byAdmin'),
         DbOk(db'), Mirrors(approvals', db'.approvals),
         Grown(db.approvals, db'.approvals, approvals, approvals', byAdmin, byAdmin'), task' = task
  PROVE  OpsInv'
<1>1. \A k \in Handlers : TaskOk(task'[k], db'.approvals, approvals', byAdmin')
  BY TaskGrows DEF OpsInv
<1>2. QED
  BY <1>1 DEF OpsInv

\* A step that leaves approvals and the table of approvals alone.
LEMMA SameGrown ==
  ASSUME NEW r, NEW m, NEW a1, NEW a2, a1 \subseteq a2
  PROVE  Grown(r, r, m, m, a1, a2)
BY DEF Grown, SameRequest

LEMMA LocalKeeps ==
  ASSUME OpsInv, NEW h \in Handlers, EngineShape(engine'),
         Opened(engine'.risk.overrides, db.approvals, byAdmin'),
         DbOk(db'), db'.approvals = db.approvals, approvals' = approvals, byAdmin \subseteq byAdmin',
         NEW u, task' = [task EXCEPT ![h] = u], TaskOk(u, db.approvals, approvals, byAdmin')
  PROVE  OpsInv'
<1>1. Grown(db.approvals, db'.approvals, approvals, approvals', byAdmin, byAdmin')
  BY SameGrown
<1>2. Mirrors(approvals', db'.approvals)
  BY DEF OpsInv
<1>3. QED
  BY <1>1, <1>2, StepKeeps

LEMMA IdleOk ==
  ASSUME NEW r, NEW m, NEW a
  PROVE  TaskOk(Idle, r, m, a)
BY DEF TaskOk, Idle

\* A changed log, kill switch or set of overrides is still an engine.
LEMMA EngineShapes ==
  ASSUME NEW e, EngineShape(e)
  PROVE  /\ \A l : LET f == [e EXCEPT !.log = l]
                   IN EngineShape(f) /\ f.risk = e.risk
         /\ \A k : LET f == [e EXCEPT !.risk.kill = k]
                   IN EngineShape(f) /\ f.risk.overrides = e.risk.overrides /\ RowShape(Snapshot(f.risk))
         /\ \A o : LET f == [e EXCEPT !.risk.overrides = o]
                   IN EngineShape(f) /\ f.risk.overrides = o
         /\ \A r : RiskShape(r) => LET f == [e EXCEPT !.risk = r] IN EngineShape(f) /\ f.risk = r
<1>1. ASSUME NEW l
      PROVE  LET f == [e EXCEPT !.log = l] IN EngineShape(f) /\ f.risk = e.risk
  BY DEF EngineShape
<1>2. ASSUME NEW k
      PROVE  LET f == [e EXCEPT !.risk.kill = k]
             IN EngineShape(f) /\ f.risk.overrides = e.risk.overrides /\ RowShape(Snapshot(f.risk))
  BY DEF EngineShape, RiskShape, RowShape, Snapshot
<1>3. ASSUME NEW o
      PROVE  LET f == [e EXCEPT !.risk.overrides = o] IN EngineShape(f) /\ f.risk.overrides = o
  BY DEF EngineShape, RiskShape
<1>4. ASSUME NEW r, RiskShape(r)
      PROVE  LET f == [e EXCEPT !.risk = r] IN EngineShape(f) /\ f.risk = r
  BY <1>4 DEF EngineShape
<1>5. QED
  BY <1>1, <1>2, <1>3, <1>4

\* post_risk touches no override.
LEMMA PatchedShape ==
  ASSUME NEW r, RiskShape(r), NEW b
  PROVE  /\ RiskShape(Patched(r, b).risk) /\ Patched(r, b).risk.overrides = r.overrides
         /\ RowShape(Snapshot(Patched(r, b).risk))
<1> DEFINE first  == [r EXCEPT !.kill = IF b.kill = "none" THEN @ ELSE b.kill = "on",
                               !.limit = IF b.limit = 0 THEN @ ELSE b.limit]
           second == [first EXCEPT !.restricted = @ \cup ({b.restrict} \ {"none"})]
           third  == [second EXCEPT !.restricted = @ \ {b.allow}]
           last   == IF b.account = "none" THEN third
                     ELSE [third EXCEPT !.killed = Switched(@, b.account, b.on)]
<1>1. RiskShape(first) /\ first.overrides = r.overrides
  <2> DEFINE k == IF b.kill = "none" THEN r.kill ELSE b.kill = "on"
             l == IF b.limit = 0 THEN r.limit ELSE b.limit
             half == [r EXCEPT !.kill = k]
  <2>1. first = [half EXCEPT !.limit = l]
    <3>1. r.limit = half.limit
      BY DEF RiskShape
    <3>2. QED
      BY <3>1
  <2> HIDE DEF k, l, first
  <2>2. RiskShape(half) /\ half.overrides = r.overrides
    BY DEF RiskShape
  <2> HIDE DEF half
  <2>3. QED
    BY <2>1, <2>2 DEF RiskShape
<1>2. RiskShape(second) /\ second.overrides = r.overrides
  <2> HIDE DEF first
  <2>1. QED
    BY <1>1 DEF RiskShape
<1>3. RiskShape(third) /\ third.overrides = r.overrides
  <2> HIDE DEF second
  <2>1. QED
    BY <1>2 DEF RiskShape
<1>4. RiskShape(last) /\ last.overrides = r.overrides
  <2> HIDE DEF third
  <2>1. QED
    BY <1>3 DEF RiskShape
<1>5. Patched(r, b).risk \in {first, second, last}
  BY DEF Patched
<1> HIDE DEF first, second, last
<1>6. RiskShape(Patched(r, b).risk) /\ Patched(r, b).risk.overrides = r.overrides
  BY <1>1, <1>2, <1>4, <1>5
<1>7. \A x : RowShape(Snapshot(x))
  BY DEF RowShape, Snapshot
<1>8. QED
  BY <1>6, <1>7

\* Writes to the database, one table at a time.
LEMMA DbShapes ==
  ASSUME NEW d, DbOk(d)
  PROVE  /\ \A x : DbOk([d EXCEPT !.audit = x]) /\ [d EXCEPT !.audit = x].approvals = d.approvals
         /\ \A x : DbOk([d EXCEPT !.opsAudit = x]) /\ [d EXCEPT !.opsAudit = x].approvals = d.approvals
         /\ \A t : RowShape(t.row) => DbOk(Upserted(d, t)) /\ Upserted(d, t).approvals = d.approvals
         /\ \A x : Sound(x) => DbOk([d EXCEPT !.approvals = x]) /\ [d EXCEPT !.approvals = x].approvals = x
<1>1. ASSUME NEW x
      PROVE  DbOk([d EXCEPT !.audit = x]) /\ [d EXCEPT !.audit = x].approvals = d.approvals
  BY DEF DbOk
<1>2. ASSUME NEW x
      PROVE  DbOk([d EXCEPT !.opsAudit = x]) /\ [d EXCEPT !.opsAudit = x].approvals = d.approvals
  BY DEF DbOk
<1>3. ASSUME NEW t, RowShape(t.row)
      PROVE  DbOk(Upserted(d, t)) /\ Upserted(d, t).approvals = d.approvals
  BY <1>3 DEF DbOk, Upserted
<1>4. ASSUME NEW x, Sound(x)
      PROVE  DbOk([d EXCEPT !.approvals = x]) /\ [d EXCEPT !.approvals = x].approvals = x
  BY <1>4 DEF DbOk
<1>5. QED
  BY <1>1, <1>2, <1>3, <1>4

-----------------------------------------------------------------------------
(* The steps of an order.                                                  *)

LEMMA ArriveOrderKeeps ==
  ASSUME OpsInv, NEW h \in Handlers, ArriveOrder(h)
  PROVE  OpsInv'
<1>1. PICK a \in Accounts, i \in Instruments, q \in Quantities, admin \in BOOLEAN :
        /\ Goes(h, [at |-> "arrived", op |-> requests + 1, account |-> a, instrument |-> i, qty |-> q])
        /\ IF admin /\ i \in engine.risk.restricted
           THEN /\ Changes([engine EXCEPT !.risk.overrides = @ \cup {<<a, i>>}])
                /\ byAdmin' = byAdmin \cup {<<a, i>>}
           ELSE UNCHANGED <<engine, version, byAdmin>>
  BY DEF ArriveOrder
<1> DEFINE u == [at |-> "arrived", op |-> requests + 1, account |-> a, instrument |-> i, qty |-> q]
<1>2. TaskOk(u, db.approvals, approvals, byAdmin')
  BY DEF TaskOk, OrderFields
<1>3. byAdmin \subseteq byAdmin' /\ EngineShape(engine')
      /\ Opened(engine'.risk.overrides, db.approvals, byAdmin')
  <2>1. CASE UNCHANGED <<engine, version, byAdmin>>
    BY <2>1 DEF OpsInv
  <2>2. CASE /\ Changes([engine EXCEPT !.risk.overrides = @ \cup {<<a, i>>}])
             /\ byAdmin' = byAdmin \cup {<<a, i>>}
    <3>1. EngineShape(engine') /\ engine'.risk.overrides = engine.risk.overrides \cup {<<a, i>>}
      BY <2>2, EngineShapes DEF OpsInv, Changes
    <3>2. QED
      BY <2>2, <3>1 DEF OpsInv, Opened
  <2>3. QED
    BY <1>1, <2>1, <2>2
<1>4. task' = [task EXCEPT ![h] = u]
  BY <1>1 DEF Goes
<1>5. approvals' = approvals /\ db' = db
  BY DEF ArriveOrder
<1> HIDE DEF u
<1>6. QED
  BY <1>2, <1>3, <1>4, <1>5, LocalKeeps DEF OpsInv

LEMMA TakeSnapshotKeeps ==
  ASSUME OpsInv, NEW h \in Handlers, TakeSnapshot(h)
  PROVE  OpsInv'
<1> DEFINE t == task[h]
           f == [snap |-> engine, since |-> version]
           u == Onward(t, "snapped", f)
<1>1. t.at = "arrived" /\ TaskOk(t, db.approvals, approvals, byAdmin)
  BY DEF TakeSnapshot, At, OpsInv
<1>2. "at" \in DOMAIN t /\ DOMAIN t = OrderFields /\ DOMAIN f = {"snap", "since"}
  BY <1>1 DEF TaskOk
<1>3. u["at"] = "snapped" /\ DOMAIN u = Snapped /\ u["snap"] = engine
  BY <1>2 DEF Onward, OrderFields, Snapped
<1> HIDE DEF f, u
<1>4. TaskOk(u, db.approvals, approvals, byAdmin)
  BY <1>3 DEF TaskOk, OpsInv, Snapped, OrderFields
<1>5. task' = [task EXCEPT ![h] = u] /\ engine' = engine /\ byAdmin' = byAdmin
      /\ approvals' = approvals /\ db' = db
  BY DEF TakeSnapshot, Goes, memory, history, u, f
<1>6. QED
  BY <1>4, <1>5, LocalKeeps DEF OpsInv

LEMMA SubmitOrderKeeps ==
  ASSUME OpsInv, NEW h \in Handlers, SubmitOrder(h)
  PROVE  OpsInv'
<1> DEFINE t == task[h]
           f == [verdict |-> Check(engine.risk, t.account, t.instrument, t.qty)]
           u == Onward(t, "collect", f)
<1>1. t.at = "snapped" /\ TaskOk(t, db.approvals, approvals, byAdmin)
  BY DEF SubmitOrder, At, OpsInv
<1>2. "at" \in DOMAIN t /\ DOMAIN t = Snapped /\ DOMAIN f = {"verdict"}
  BY <1>1 DEF TaskOk
<1>3. u["at"] = "collect" /\ DOMAIN u = Collected /\ u["snap"] = t["snap"]
  BY <1>2 DEF Onward, Collected, Snapped, OrderFields
<1> HIDE DEF f, u
<1>4. TaskOk(u, db.approvals, approvals, byAdmin)
  BY <1>1, <1>3 DEF TaskOk, Collected, Snapped, OrderFields
<1>5. EngineShape(engine') /\ engine'.risk = engine.risk
  BY EngineShapes DEF SubmitOrder, Changes, OpsInv
<1>6. byAdmin' = byAdmin /\ approvals' = approvals /\ db' = db
      /\ (task' = [task EXCEPT ![h] = u] \/ task' = [task EXCEPT ![h] = Idle])
  BY DEF SubmitOrder, Goes, u, f
<1>7. QED
  BY <1>4, <1>5, <1>6, IdleOk, LocalKeeps DEF OpsInv

LEMMA CollectKeeps ==
  ASSUME OpsInv, NEW h \in Handlers, Collect(h)
  PROVE  OpsInv'
<1> DEFINE t == task[h]
           f == [batch |-> RecordsAfter(engine.log, persisted)]
           u == Onward(t, "write", f)
<1>1. t.at = "collect" /\ TaskOk(t, db.approvals, approvals, byAdmin)
  BY DEF Collect, At, OpsInv
<1>2. "at" \in DOMAIN t /\ DOMAIN t = Collected /\ DOMAIN f = {"batch"}
  BY <1>1 DEF TaskOk
<1>3. u["at"] = "write" /\ DOMAIN u = Batched /\ u["snap"] = t["snap"]
  BY <1>2 DEF Onward, Batched, Collected, Snapped, OrderFields
<1> HIDE DEF f, u
<1>4. TaskOk(u, db.approvals, approvals, byAdmin)
  BY <1>1, <1>3 DEF TaskOk, Batched, Collected, Snapped, OrderFields
<1>5. task' = [task EXCEPT ![h] = u] /\ engine' = engine /\ byAdmin' = byAdmin
      /\ approvals' = approvals /\ db' = db
  BY DEF Collect, Goes, memory, history, u, f
<1>6. QED
  BY <1>4, <1>5, LocalKeeps DEF OpsInv

LEMMA WriteKeeps ==
  ASSUME OpsInv, NEW h \in Handlers, Write(h)
  PROVE  OpsInv'
<1>1. DbOk(db') /\ db'.approvals = db.approvals
  BY DbShapes DEF Write, OpsInv
<1>2. task' = [task EXCEPT ![h] = Idle] /\ engine' = engine /\ byAdmin' = byAdmin
      /\ approvals' = approvals
  BY DEF Write, Goes
<1>3. QED
  BY <1>1, <1>2, IdleOk, LocalKeeps DEF OpsInv

LEMMA WriteFailsKeeps ==
  ASSUME OpsInv, NEW h \in Handlers, WriteFails(h)
  PROVE  OpsInv'
<1> DEFINE t == task[h]
           f == [row |-> Snapshot(engine'.risk), seen |-> version']
           u == Onward(t, "saveKill", f)
<1>1. t.at = "write" /\ TaskOk(t, db.approvals, approvals, byAdmin)
  BY DEF WriteFails, At, OpsInv
<1>2. "at" \in DOMAIN t /\ DOMAIN t = Batched /\ DOMAIN f = {"row", "seen"}
  BY <1>1 DEF TaskOk
<1>3. u["at"] = "saveKill" /\ u["snap"] = t["snap"] /\ u["row"] = Snapshot(engine'.risk)
      /\ "at" \in DOMAIN u
  BY <1>2 DEF Onward, Batched, Collected, Snapped, OrderFields
<1>4. EngineShape(engine') /\ engine'.risk.overrides = engine.risk.overrides
      /\ RowShape(Snapshot(engine'.risk))
  BY EngineShapes DEF WriteFails, Changes, OpsInv
<1>5. DbOk(db') /\ db'.approvals = db.approvals
  <2>1. db' = db \/ db' = [db EXCEPT !.audit = Inserted(db.audit, t.batch)]
    BY DEF WriteFails
  <2>2. DbOk(db) /\ \A x : DbOk([db EXCEPT !.audit = x])
                          /\ [db EXCEPT !.audit = x].approvals = db.approvals
    BY DbShapes DEF OpsInv
  <2>3. QED
    BY <2>1, <2>2
<1> HIDE DEF f, u
<1>6. TaskOk(u, db.approvals, approvals, byAdmin)
  BY <1>1, <1>3, <1>4 DEF TaskOk
<1>7. task' = [task EXCEPT ![h] = u] /\ byAdmin' = byAdmin /\ approvals' = approvals
  BY DEF WriteFails, Goes, u, f
<1>8. QED
  BY <1>4, <1>5, <1>6, <1>7, LocalKeeps DEF OpsInv

LEMMA SaveKillKeeps ==
  ASSUME OpsInv, NEW h \in Handlers, SaveKill(h)
  PROVE  OpsInv'
<1> DEFINE t == task[h]
           u == [t EXCEPT !.at = "rollback"]
<1>1. t.at = "saveKill" /\ TaskOk(t, db.approvals, approvals, byAdmin)
  BY DEF SaveKill, At, OpsInv
<1>2. "at" \in DOMAIN t /\ RowShape(t.row)
  BY <1>1 DEF TaskOk
<1>3. u.at = "rollback" /\ u["snap"] = t["snap"] /\ "at" \in DOMAIN u
  BY <1>2
<1>4. DbOk(db') /\ db'.approvals = db.approvals
  <2>1. PICK saved \in BOOLEAN, noted \in BOOLEAN :
          LET d == IF saved THEN Upserted(db, t) ELSE db
          IN  db' = IF noted THEN [d EXCEPT !.opsAudit = @ \cup {t.op}] ELSE d
    BY DEF SaveKill
  <2> DEFINE d == IF saved THEN Upserted(db, t) ELSE db
  <2>2. DbOk(d) /\ d.approvals = db.approvals
    BY <1>2, DbShapes DEF OpsInv
  <2>3. db' = IF noted THEN [d EXCEPT !.opsAudit = d.opsAudit \cup {t.op}] ELSE d
    BY <2>1
  <2> HIDE DEF d
  <2>4. QED
    BY <2>2, <2>3, DbShapes
<1> HIDE DEF u
<1>5. TaskOk(u, db.approvals, approvals, byAdmin)
  BY <1>1, <1>3 DEF TaskOk
<1>6. task' = [task EXCEPT ![h] = u] /\ engine' = engine /\ byAdmin' = byAdmin /\ approvals' = approvals
  BY DEF SaveKill, Goes, memory, u
<1>7. QED
  BY <1>4, <1>5, <1>6, LocalKeeps DEF OpsInv

LEMMA RollbackKeeps ==
  ASSUME OpsInv, NEW h \in Handlers, Rollback(h)
  PROVE  OpsInv'
<1> DEFINE t == task[h]
<1>1. EngineShape(t.snap) /\ Opened(t.snap.risk.overrides, db.approvals, byAdmin)
  BY DEF Rollback, At, OpsInv, TaskOk
<1>2. EngineShape(engine') /\ engine'.risk.overrides = t.snap.risk.overrides
  BY <1>1, EngineShapes DEF Rollback, Changes
<1>3. task' = [task EXCEPT ![h] = Idle] /\ db' = db /\ byAdmin' = byAdmin /\ approvals' = approvals
  BY DEF Rollback, Goes
<1>4. QED
  BY <1>1, <1>2, <1>3, IdleOk, LocalKeeps DEF OpsInv

-----------------------------------------------------------------------------
(* The steps of an operator.                                               *)

LEMMA PatchRiskKeeps ==
  ASSUME OpsInv, NEW h \in Handlers, PatchRisk(h)
  PROVE  OpsInv'
<1>1. PICK b \in Patches :
        LET r == Patched(engine.risk, b)
        IN  /\ Changes([engine EXCEPT !.risk = r.risk])
            /\ \/ Goes(h, Idle)
               \/ Goes(h, [at |-> "upsert", op |-> requests + 1, account |-> b.account,
                           row |-> Snapshot(r.risk), seen |-> version + 1])
  BY DEF PatchRisk
<1> DEFINE r == Patched(engine.risk, b)
           u == [at |-> "upsert", op |-> requests + 1, account |-> b.account,
                 row |-> Snapshot(r.risk), seen |-> version + 1]
<1>2. RiskShape(r.risk) /\ r.risk.overrides = engine.risk.overrides /\ RowShape(Snapshot(r.risk))
  BY PatchedShape DEF OpsInv, EngineShape
<1>3. engine' = [engine EXCEPT !.risk = r.risk]
      /\ (task' = [task EXCEPT ![h] = u] \/ task' = [task EXCEPT ![h] = Idle])
  BY <1>1 DEF Changes, Goes
<1> HIDE DEF r
<1>4. EngineShape(engine') /\ engine'.risk.overrides = engine.risk.overrides
  BY <1>2, <1>3, EngineShapes DEF OpsInv
<1>5. TaskOk(u, db.approvals, approvals, byAdmin)
  BY <1>2 DEF TaskOk
<1>6. db' = db /\ approvals' = approvals /\ byAdmin' = byAdmin
  BY DEF PatchRisk
<1> HIDE DEF u
<1>7. QED
  BY <1>3, <1>4, <1>5, <1>6, IdleOk, LocalKeeps DEF OpsInv

LEMMA UpsertRiskKeeps ==
  ASSUME OpsInv, NEW h \in Handlers, UpsertRisk(h)
  PROVE  OpsInv'
<1> DEFINE t == task[h]
           u == [t EXCEPT !.at = "note"]
<1>1. "at" \in DOMAIN t /\ RowShape(t.row)
  BY DEF UpsertRisk, At, OpsInv, TaskOk
<1>2. TaskOk(u, db.approvals, approvals, byAdmin)
  BY <1>1 DEF TaskOk
<1>3. DbOk(db') /\ db'.approvals = db.approvals
  BY <1>1, DbShapes DEF UpsertRisk, OpsInv
<1>4. engine' = engine /\ approvals' = approvals /\ byAdmin' = byAdmin
      /\ (task' = [task EXCEPT ![h] = u] \/ task' = [task EXCEPT ![h] = Idle])
  BY DEF UpsertRisk, Goes, memory
<1> HIDE DEF u
<1>5. QED
  BY <1>2, <1>3, <1>4, IdleOk, LocalKeeps DEF OpsInv

LEMMA NoteKeeps ==
  ASSUME OpsInv, NEW h \in Handlers, Note(h)
  PROVE  OpsInv'
<1>1. DbOk(db') /\ db'.approvals = db.approvals
  <2>1. db' = db \/ db' = [db EXCEPT !.opsAudit = db.opsAudit \cup {task[h].op}]
    BY DEF Note
  <2>2. DbOk(db) /\ \A x : DbOk([db EXCEPT !.opsAudit = x])
                          /\ [db EXCEPT !.opsAudit = x].approvals = db.approvals
    BY DbShapes DEF OpsInv
  <2>3. QED
    BY <2>1, <2>2
<1>2. task' = [task EXCEPT ![h] = Idle] /\ engine' = engine /\ approvals' = approvals
      /\ byAdmin' = byAdmin
  BY DEF Note, Goes, memory
<1>3. QED
  BY <1>1, <1>2, IdleOk, LocalKeeps DEF OpsInv

LEMMA RequestApprovalKeeps ==
  ASSUME OpsInv, NEW h \in Handlers, RequestApproval(h)
  PROVE  OpsInv'
<1> DEFINE id == Cardinality(DOMAIN db.approvals) + 1
<1>1. PICK a \in Accounts, i \in Instruments, by \in Actors :
        LET filed == [db EXCEPT !.approvals = Merge(@, id, Request(a, i, by))]
        IN  \/ db' = filed /\ Goes(h, [at |-> "file", id |-> id, row |-> Request(a, i, by)])
            \/ db' \in {db, filed} /\ task' = task
  BY DEF RequestApproval
<1> DEFINE new == Request(a, i, by)
           rows == Merge(db.approvals, id, new)
           filed == [db EXCEPT !.approvals = rows]
           u == [at |-> "file", id |-> id, row |-> new]
<1>2. PICK n \in Nat : DOMAIN db.approvals = 1 .. n
  BY DEF OpsInv, DbOk, Sound
<1>3. id = n + 1
  <2>1. Cardinality(1 .. n) = n
    BY FS_Interval
  <2>2. QED
    BY <1>2, <2>1
<1>4. new \in Rows /\ new.approved # new.by
  BY OpsAssumption DEF Request, Rows
<1>5. engine' = engine /\ byAdmin' = byAdmin /\ approvals' = approvals
  BY DEF RequestApproval, memory, history
<1>6. \/ db' = filed /\ task' = [task EXCEPT ![h] = u]
      \/ db' \in {db, filed} /\ task' = task
  BY <1>1 DEF Goes
<1> HIDE DEF id, new, u
<1>7. DOMAIN rows = 1 .. n + 1 /\ rows[id] = new
      /\ \A k \in 1 .. n : rows[k] = db.approvals[k]
  BY <1>2, <1>3 DEF Merge
<1> HIDE DEF rows
<1>8. Sound(rows)
  <2>1. \A k \in 1 .. n : db.approvals[k] \in Rows /\ db.approvals[k].approved # db.approvals[k].by
    BY <1>2 DEF OpsInv, DbOk, Sound
  <2>2. \A k \in 1 .. n + 1 : rows[k] \in Rows /\ rows[k].approved # rows[k].by
    BY <1>3, <1>4, <1>7, <2>1
  <2>3. rows = [k \in DOMAIN rows |-> rows[k]]
    BY DEF rows, Merge
  <2>4. n + 1 \in Nat
    OBVIOUS
  <2>5. QED
    BY <1>7, <2>2, <2>3, <2>4 DEF Sound
<1>9. Grown(db.approvals, rows, approvals, approvals, byAdmin, byAdmin)
  BY <1>2, <1>7 DEF Grown, SameRequest
<1>10. DbOk(filed) /\ filed.approvals = rows
  BY <1>8, DbShapes DEF OpsInv
<1>11. Mirrors(approvals, rows)
  BY <1>2, <1>7 DEF OpsInv, Mirrors, SameRequest
<1>12. TaskOk(u, rows, approvals, byAdmin)
  BY <1>3, <1>4, <1>7 DEF TaskOk, u, SameRequest
<1>13. Opened(engine.risk.overrides, rows, byAdmin)
  BY <1>9, OpenedGrows DEF OpsInv
<1> HIDE DEF filed
<1>14. CASE db' = filed /\ task' = [task EXCEPT ![h] = u]
  BY <1>5, <1>9, <1>10, <1>11, <1>12, <1>13, <1>14, StepKeeps DEF OpsInv
<1>15. CASE db' = filed /\ task' = task
  BY <1>5, <1>9, <1>10, <1>11, <1>13, <1>15, StayKeeps DEF OpsInv
<1>16. CASE db' = db /\ task' = task
  BY <1>5, <1>16, SameGrown, StayKeeps DEF OpsInv
<1>17. QED
  BY <1>6, <1>14, <1>15, <1>16

LEMMA FileApprovalKeeps ==
  ASSUME OpsInv, NEW h \in Handlers, FileApproval(h)
  PROVE  OpsInv'
<1> DEFINE t == task[h]
<1>1. t.row \in Rows /\ t.id \in DOMAIN db.approvals /\ SameRequest(t.row, db.approvals[t.id])
  BY DEF FileApproval, At, OpsInv, TaskOk
<1>2. DOMAIN approvals' = DOMAIN approvals \cup {t.id} /\ approvals'[t.id] = t.row
      /\ \A k \in DOMAIN approvals : k # t.id => approvals'[k] = approvals[k]
  BY DEF FileApproval, Merge
<1>3. approvals' = [k \in DOMAIN approvals' |-> approvals'[k]]
  BY DEF FileApproval, Merge
<1>4. \A k \in DOMAIN approvals : approvals[k] \in Rows /\ k \in DOMAIN db.approvals
                                   /\ SameRequest(approvals[k], db.approvals[k])
  BY DEF OpsInv, Mirrors
<1>5. engine' = engine /\ byAdmin' = byAdmin /\ db' = db /\ task' = [task EXCEPT ![h] = Idle]
  BY DEF FileApproval, history, Goes
<1>6. Mirrors(approvals', db.approvals)
  BY <1>1, <1>2, <1>3, <1>4 DEF Mirrors
<1>7. Grown(db.approvals, db.approvals, approvals, approvals', byAdmin, byAdmin)
  BY <1>1, <1>2, <1>4 DEF Grown, SameRequest
<1>8. QED
  BY <1>5, <1>6, <1>7, IdleOk, StepKeeps DEF OpsInv

LEMMA ApproveInMemoryKeeps ==
  ASSUME OpsInv, NEW h \in Handlers, ApproveInMemory(h)
  PROVE  OpsInv'
<1>1. PICK id \in DOMAIN approvals, actor \in Actors :
        IF ApproveError(approvals, id, actor) # "none" THEN UNCHANGED <<approvals, task>>
        ELSE /\ approvals' = Approved(approvals, id, actor)
             /\ Goes(h, [at |-> "approve", op |-> requests + 1, id |-> id, actor |-> actor])
  BY DEF ApproveInMemory
<1> DEFINE u == [at |-> "approve", op |-> requests + 1, id |-> id, actor |-> actor]
<1>2. engine' = engine /\ byAdmin' = byAdmin /\ db' = db
  BY DEF ApproveInMemory, history
<1>3. CASE UNCHANGED <<approvals, task>>
  BY <1>2, <1>3, SameGrown, StayKeeps DEF OpsInv
<1>4. CASE /\ ApproveError(approvals, id, actor) = "none"
           /\ approvals' = Approved(approvals, id, actor) /\ task' = [task EXCEPT ![h] = u]
  <2>1. approvals[id].by # actor
    BY <1>4 DEF ApproveError
  <2>2. approvals \in [DOMAIN approvals -> Rows]
    BY DEF OpsInv, Mirrors
  <2>3. approvals' = [approvals EXCEPT ![id] = [approvals[id] EXCEPT !.approved = actor]]
    BY <1>4 DEF Approved
  <2>4. LET row == [approvals[id] EXCEPT !.approved = actor]
        IN row \in Rows /\ SameRequest(row, approvals[id])
    BY <2>2 DEF Rows, SameRequest
  <2>5. DOMAIN approvals' = DOMAIN approvals /\ approvals' \in [DOMAIN approvals -> Rows]
        /\ \A k \in DOMAIN approvals : SameRequest(approvals'[k], approvals[k])
    BY <2>2, <2>3, <2>4 DEF SameRequest
  <2>6. Mirrors(approvals', db.approvals)
    BY <2>5 DEF OpsInv, Mirrors, SameRequest
  <2>7. Grown(db.approvals, db.approvals, approvals, approvals', byAdmin, byAdmin)
    BY <2>5 DEF Grown, SameRequest
  <2>8. TaskOk(u, db.approvals, approvals', byAdmin)
    BY <2>1, <2>5 DEF TaskOk, SameRequest
  <2> HIDE DEF u
  <2>9. QED
    BY <1>2, <1>4, <2>6, <2>7, <2>8, StepKeeps DEF OpsInv
<1>5. QED
  BY <1>1, <1>3, <1>4 DEF Goes

LEMMA ApproveRowKeeps ==
  ASSUME OpsInv, NEW h \in Handlers, ApproveRow(h)
  PROVE  OpsInv'
<1> DEFINE t == task[h]
           rows == Approved(db.approvals, t.id, t.actor)
           filed == [db EXCEPT !.approvals = rows]
           u == [t EXCEPT !.at = "grant"]
<1>1. t.at = "approve" /\ TaskOk(t, db.approvals, approvals, byAdmin)
  BY DEF ApproveRow, At, OpsInv
<1>2. "at" \in DOMAIN t /\ t.id \in DOMAIN approvals /\ t.actor \in Actors
      /\ t.actor # approvals[t.id].by
  BY <1>1 DEF TaskOk
<1>3. t.id \in DOMAIN db.approvals /\ t.actor # db.approvals[t.id].by
  BY <1>2 DEF OpsInv, Mirrors, SameRequest
<1>4. engine' = engine /\ byAdmin' = byAdmin /\ approvals' = approvals
  BY DEF ApproveRow, memory, history
<1>5. \/ db' = db /\ task' = [task EXCEPT ![h] = Idle]
      \/ db' = filed /\ task' = [task EXCEPT ![h] = Idle]
      \/ db' = filed /\ task' = [task EXCEPT ![h] = u]
  BY DEF ApproveRow, Goes
<1>6. Sound(db.approvals)
  BY DEF OpsInv, DbOk
<1>7. rows = [db.approvals EXCEPT ![t.id] = [db.approvals[t.id] EXCEPT !.approved = t.actor]]
  BY DEF Approved
<1>8. LET row == [db.approvals[t.id] EXCEPT !.approved = t.actor]
      IN  /\ row \in Rows /\ SameRequest(row, db.approvals[t.id])
          /\ row.approved = t.actor /\ row.approved # row.by /\ row.approved # "none"
  <2>1. db.approvals[t.id] \in Rows
    BY <1>3, <1>6 DEF Sound
  <2>2. QED
    BY <1>2, <1>3, <2>1, OpsAssumption DEF Rows, SameRequest
<1>9. /\ DOMAIN rows = DOMAIN db.approvals /\ rows \in [DOMAIN rows -> Rows]
      /\ \A k \in DOMAIN rows : /\ SameRequest(rows[k], db.approvals[k])
                                /\ rows[k].approved # rows[k].by
                                /\ db.approvals[k].approved # "none" => rows[k].approved # "none"
      /\ rows[t.id].approved # "none"
  BY <1>3, <1>6, <1>7, <1>8, SMTT(60) DEF Sound, SameRequest
<1> HIDE DEF rows
<1>10. Sound(rows)
  BY <1>6, <1>9 DEF Sound
<1>11. Grown(db.approvals, rows, approvals, approvals, byAdmin, byAdmin)
  BY <1>9 DEF Grown
<1>12. DbOk(filed) /\ filed.approvals = rows
  BY <1>10, DbShapes DEF OpsInv
<1>13. Mirrors(approvals, rows)
  BY <1>9 DEF OpsInv, Mirrors, SameRequest
<1>14. u.at = "grant" /\ u["id"] = t.id /\ "at" \in DOMAIN u
  <2>1. "id" # "at"
    OBVIOUS
  <2>2. QED
    BY <1>2, <2>1
<1>15. TaskOk(u, rows, approvals, byAdmin)
  BY <1>2, <1>9, <1>14 DEF TaskOk
<1>16. Opened(engine.risk.overrides, rows, byAdmin)
  BY <1>11, OpenedGrows DEF OpsInv
<1> HIDE DEF u, filed
<1>17. CASE db' = db /\ task' = [task EXCEPT ![h] = Idle]
  BY <1>4, <1>17, IdleOk, LocalKeeps DEF OpsInv
<1>18. CASE db' = filed /\ task' = [task EXCEPT ![h] = Idle]
  BY <1>4, <1>11, <1>12, <1>13, <1>16, <1>18, IdleOk, StepKeeps DEF OpsInv
<1>19. CASE db' = filed /\ task' = [task EXCEPT ![h] = u]
  BY <1>4, <1>11, <1>12, <1>13, <1>15, <1>16, <1>19, StepKeeps DEF OpsInv
<1>20. QED
  BY <1>5, <1>17, <1>18, <1>19

LEMMA GrantOverrideKeeps ==
  ASSUME OpsInv, NEW h \in Handlers, GrantOverride(h)
  PROVE  OpsInv'
<1> DEFINE t == task[h]
           row == approvals[t.id]
           u == [t EXCEPT !.at = "note"]
<1>1. "at" \in DOMAIN t /\ t.id \in DOMAIN approvals /\ db.approvals[t.id].approved # "none"
  BY DEF GrantOverride, At, OpsInv, TaskOk
<1>2. t.id \in DOMAIN db.approvals /\ SameRequest(row, db.approvals[t.id])
  BY <1>1 DEF OpsInv, Mirrors
<1>3. EngineShape(engine')
      /\ engine'.risk.overrides = engine.risk.overrides \cup {<<row.account, row.instrument>>}
  BY EngineShapes, ZenonT(60) DEF GrantOverride, Changes, OpsInv
<1>4. Opened(engine'.risk.overrides, db.approvals, byAdmin)
  BY <1>1, <1>2, <1>3 DEF OpsInv, Opened, SameRequest
<1>5. TaskOk(u, db.approvals, approvals, byAdmin)
  BY <1>1 DEF TaskOk
<1>6. task' = [task EXCEPT ![h] = u] /\ db' = db /\ byAdmin' = byAdmin /\ approvals' = approvals
  BY DEF GrantOverride, Goes
<1> HIDE DEF u
<1>7. QED
  BY <1>3, <1>4, <1>5, <1>6, LocalKeeps DEF OpsInv

-----------------------------------------------------------------------------
(* The process, and all together.                                          *)

LEMMA NoOneOpened ==
  /\ EngineShape(NewEngine) /\ NewEngine.risk.overrides = {}
  /\ \A rows, admin : Opened({}, rows, admin)
  /\ \A rows : Mirrors(NoRows, rows)
BY DEF EngineShape, RiskShape, NewEngine, NewRisk, Opened, Mirrors, NoRows

LEMMA OpsInit == Init => OpsInv
<1> SUFFICES ASSUME Init
             PROVE  OpsInv
  OBVIOUS
<1>1. DOMAIN NoRows = 1 .. 0 /\ NoRows \in [DOMAIN NoRows -> Rows]
  BY DEF NoRows
<1>2. Sound(NoRows)
  BY <1>1 DEF Sound
<1>3. DbOk(db) /\ db.approvals = NoRows
  BY <1>2 DEF Init, DbOk
<1>4. \A h \in Handlers : TaskOk(task[h], db.approvals, approvals, byAdmin)
  BY IdleOk DEF Init
<1>5. QED
  BY <1>3, <1>4, NoOneOpened DEF Init, OpsInv

LEMMA CrashKeeps ==
  ASSUME OpsInv, Crash
  PROVE  OpsInv'
<1>1. engine' = NewEngine /\ approvals' = NoRows /\ db' = db /\ byAdmin' = byAdmin
      /\ task' = [h \in Handlers |-> Idle]
  BY DEF Crash, history
<1>2. \A h \in Handlers : TaskOk(task'[h], db'.approvals, approvals', byAdmin')
  BY <1>1, IdleOk
<1>3. QED
  BY <1>1, <1>2, NoOneOpened DEF OpsInv

LEMMA RestartKeeps ==
  ASSUME OpsInv, Restart
  PROVE  OpsInv'
<1> DEFINE Row(id) == db.approvals[id]
           granted == {<<Row(id).account, Row(id).instrument>> :
                         id \in {x \in DOMAIN db.approvals : Row(x).approved # "none"}}
           hydrated == IF db.risk = {} THEN NewEngine.risk
                       ELSE Restored(NewEngine.risk, CHOOSE row \in db.risk : TRUE)
           opened == [hydrated EXCEPT !.overrides = @ \cup granted]
<1>1. engine' = [risk |-> opened, log |-> RestoredLog(db.audit)]
      /\ approvals' = db.approvals /\ db' = db /\ byAdmin' = byAdmin /\ task' = task
  BY DEF Restart, Changes
<1>2. RiskShape(hydrated) /\ hydrated.overrides = {}
  BY NoOneOpened DEF EngineShape, RiskShape, Restored
<1>3. Opened(granted, db.approvals, byAdmin)
  BY DEF Opened
<1> HIDE DEF hydrated, granted
<1>4. RiskShape(opened) /\ opened.overrides = granted
  BY <1>2 DEF RiskShape
<1> HIDE DEF opened
<1>5. EngineShape(engine') /\ engine'.risk.overrides = granted
  BY <1>1, <1>4 DEF EngineShape
<1>6. Mirrors(db.approvals, db.approvals)
  BY DEF OpsInv, DbOk, Sound, Mirrors, SameRequest
<1>7. Grown(db.approvals, db.approvals, approvals, db.approvals, byAdmin, byAdmin)
  BY DEF OpsInv, Mirrors, Grown, SameRequest
<1>8. QED
  BY <1>1, <1>3, <1>5, <1>6, <1>7, StayKeeps DEF OpsInv

LEMMA OpsNext == OpsInv /\ [Next]_vars => OpsInv'
<1> SUFFICES ASSUME OpsInv, [Next]_vars
             PROVE  OpsInv'
  OBVIOUS
<1>1. ASSUME NEW h \in Handlers,
             \/ ArriveOrder(h) \/ TakeSnapshot(h) \/ SubmitOrder(h) \/ Collect(h) \/ Write(h)
             \/ WriteFails(h) \/ SaveKill(h) \/ Rollback(h)
      PROVE  OpsInv'
  BY <1>1, ArriveOrderKeeps, TakeSnapshotKeeps, SubmitOrderKeeps, CollectKeeps, WriteKeeps,
     WriteFailsKeeps, SaveKillKeeps, RollbackKeeps
<1>2. ASSUME NEW h \in Handlers,
             \/ PatchRisk(h) \/ UpsertRisk(h) \/ Note(h)
             \/ RequestApproval(h) \/ FileApproval(h) \/ ApproveInMemory(h) \/ ApproveRow(h)
             \/ GrantOverride(h)
      PROVE  OpsInv'
  BY <1>2, PatchRiskKeeps, UpsertRiskKeeps, NoteKeeps, RequestApprovalKeeps, FileApprovalKeeps,
     ApproveInMemoryKeeps, ApproveRowKeeps, GrantOverrideKeeps
<1>3. CASE Crash
  BY <1>3, CrashKeeps
<1>4. CASE Restart
  BY <1>4, RestartKeeps
<1>5. CASE UNCHANGED vars
  <2>1. /\ engine' = engine /\ approvals' = approvals /\ db' = db /\ byAdmin' = byAdmin
        /\ task' = task
    BY <1>5 DEF vars, memory, history
  <2>2. QED
    BY <2>1 DEF OpsInv
<1>6. QED
  BY <1>1, <1>2, <1>3, <1>4, <1>5 DEF Next

\* Approvals and grants (ops_http.rs, compliance.rs): however requests, approvals, grants,
\* rollbacks, lost answers and restarts interleave, an override no admin token granted
\* has a request in Postgres that someone other than its maker approved.
THEOREM TwoOperators == Spec => []DualControl
<1>1. OpsInv => DualControl
  <2> SUFFICES ASSUME OpsInv, NEW pair \in engine.risk.overrides \ byAdmin
               PROVE  \E id \in DOMAIN db.approvals :
                        /\ <<db.approvals[id].account, db.approvals[id].instrument>> = pair
                        /\ db.approvals[id].approved \notin {"none", db.approvals[id].by}
    BY DEF DualControl
  <2>1. PICK id \in DOMAIN db.approvals :
          /\ <<db.approvals[id].account, db.approvals[id].instrument>> = pair
          /\ db.approvals[id].approved # "none"
    BY DEF OpsInv, Opened
  <2>2. db.approvals[id].approved # db.approvals[id].by
    BY DEF OpsInv, DbOk, Sound
  <2>3. QED
    BY <2>1, <2>2
<1>2. QED
  BY <1>1, OpsInit, OpsNext, PTL DEF Spec

-----------------------------------------------------------------------------
(* Stops, and the trail: the invariant.                                    *)

\* The places a task can be in, and those in which it remembers a snapshot.
Ordering == {"snapped", "collect", "write", "saveKill", "rollback"}
Places == Ordering \cup {"idle", "arrived", "upsert", "note", "file", "approve", "grant"}
Numbered == Places \ {"idle", "file"}
Waiting == {"upsert", "saveKill"}

\* The changes a request made to the engine since its snapshot.
Done(at) == IF at = "snapped" THEN 0 ELSE IF at \in {"saveKill", "rollback"} THEN 2 ELSE 1

\* asks: who last asked to stop what; n: requests so far; v: changes so far.
TaskBase(t, asks, n, v) ==
  /\ t.at \in Places
  /\ t.at \in Numbered => {"at", "op"} \subseteq DOMAIN t /\ t.op \in 1 .. n
  /\ t.at \in Ordering => /\ {"at", "op", "snap", "since"} \subseteq DOMAIN t
                          /\ t.since \in Nat /\ t.since + Done(t.at) <= v
  /\ t.at \in Waiting => t.seen \in Nat /\ t.seen <= v
  /\ t.at \in {"approve", "grant"} => \A a \in Accounts : asks[a] # t.op

Base ==
  /\ version \in Nat /\ rowVersion \in Nat /\ rowVersion <= version
  /\ requests \in Nat /\ asker \in [Accounts -> 0 .. requests] /\ stopped \subseteq Accounts
  /\ up \in BOOLEAN /\ clean \in BOOLEAN
  /\ ~up => \A h \in Handlers : task[h].at = "idle"
  /\ \A h \in Handlers : TaskBase(task[h], asker, requests, version)
  /\ \A h, k \in Handlers :
       h # k /\ task[h].at \in Numbered /\ task[k].at \in Numbered => task[h].op # task[k].op

\* Account a is stopped in the engine, if it lives, and in every row taken at version v
\* or later: those that tasks are about to write, and the one written at version rv.
Backs(a, v, live, killed, tasks, rows, rv) ==
  /\ live => a \in killed
  /\ \A h \in Handlers :
       tasks[h].at \in Waiting /\ tasks[h].seen >= v => a \in tasks[h].row.killed
  /\ rv >= v => \E row \in rows : a \in row.killed

\* An unchanged engine is the snapshot's, as far as accounts are stopped.
Unmoved(t, v, killed) ==
  t.at \in Ordering => (t.since + Done(t.at) = v => t.snap.risk.killed = killed)

Backed(a, v) == Backs(a, v, up, engine.risk.killed, task, db.risk, rowVersion)

StopInv ==
  /\ \A h \in Handlers : Unmoved(task[h], version, engine.risk.killed)
  /\ \A row1, row2 \in db.risk : row1 = row2
  /\ clean => \A a \in Accounts :
       /\ a \in stopped => Backed(a, rowVersion)
       /\ \A h \in Handlers :
            /\ task[h].at = "note" /\ task[h].op = asker[a] => Backed(a, rowVersion)
            /\ task[h].at = "upsert" /\ task[h].op = asker[a] => Backed(a, task[h].seen)

\* A log without holes whose hashes link, and the rows of one.
Records == [seq : Nat, what : Nat, prev : Nat]
LogOk(log) ==
  /\ log.records \in Seq(Records) /\ log.next = Len(log.records)
  /\ \A i \in DOMAIN log.records : log.records[i].seq = i
  /\ ChainOk(log.records)
  /\ log.last = IF log.next = 0 THEN GENESIS ELSE Hash(log.records[log.next])

RowsOk(rows) ==
  /\ \E n \in Nat : rows \in [1 .. n -> Records]
  /\ \A i \in DOMAIN rows : rows[i].seq = i
  /\ ChainOk(rows)

\* The rows are the first records.
Begins(rows, log) ==
  \A i \in DOMAIN rows : i \in DOMAIN log.records /\ rows[i] = log.records[i]

Present(what, rows) == \E i \in DOMAIN rows : rows[i].what = what

TrailTask(t, log, v, rows) ==
  /\ t.at \in Ordering =>
       /\ LogOk(t.snap.log)
       /\ t.since + Done(t.at) = v =>
            log = IF t.at = "snapped" THEN t.snap.log ELSE Recorded(t.snap.log, t.op)
  /\ t.at = "collect" => Present(t.op, log.records)
  /\ t.at = "write" =>
       /\ t.batch \subseteq Records
       /\ \E p, m \in Nat : 1 .. p \subseteq DOMAIN rows /\ {r.seq : r \in t.batch} = p + 1 .. m
       /\ (\E r \in t.batch : r.what = t.op) \/ Present(t.op, rows)

TrailInv ==
  clean =>
    /\ RowsOk(db.audit)
    /\ persisted \in Nat /\ (1 .. persisted) \subseteq DOMAIN db.audit
    /\ up => LogOk(engine.log) /\ Begins(db.audit, engine.log)
    /\ \A x \in acked : Present(x, db.audit)
    /\ \A h \in Handlers : TrailTask(task[h], engine.log, version, db.audit)

All == OpsInv /\ Base /\ StopInv /\ TrailInv

-----------------------------------------------------------------------------
(* What a step of one handler, whose task becomes u, has to leave.         *)

BaseStep(h, u) ==
  /\ task' = [task EXCEPT ![h] = u]
  /\ up /\ up' = up /\ clean' \in BOOLEAN
  /\ version' \in {version, version + 1}
  /\ rowVersion' \in Nat /\ rowVersion' <= version'
  /\ requests' \in {requests, requests + 1}
  /\ asker' \in [Accounts -> 0 .. requests']
  /\ \A a \in Accounts : asker'[a] \in {asker[a], 0, requests + 1}
  /\ stopped' \subseteq Accounts
  /\ TaskBase(u, asker', requests', version')
  /\ u.at \in Numbered => \/ u.op = requests + 1 /\ requests' = requests + 1
                          \/ task[h].at \in Numbered /\ u.op = task[h].op

\* Nobody is stopped or freed in the engine but by an unclean rollback; a row is one
\* the task was waiting with; a stop is acknowledged once its row is written.
StopStep(h, u) ==
  /\ asker' = asker
  /\ clean' => clean /\ engine'.risk.killed = engine.risk.killed
  /\ version' = version => engine'.risk.killed = engine.risk.killed
  /\ \/ rowVersion' = rowVersion /\ db'.risk = db.risk
     \/ /\ task[h].at \in Waiting /\ db'.risk = {task[h].row} /\ rowVersion' = task[h].seen
        /\ clean' => rowVersion <= task[h].seen
  /\ u.at \in Waiting => u.row.killed = engine'.risk.killed
  /\ Unmoved(u, version', engine'.risk.killed)
  /\ stopped' \subseteq stopped \cup {a \in Accounts : task[h].at = "note" /\ asker[a] = task[h].op}
  /\ u.at # "upsert"
  /\ u.at = "note" => \/ task[h].at = "upsert" /\ u.op = task[h].op /\ rowVersion' = task[h].seen
                      \/ \A a \in Accounts : asker[a] # u.op

Extends(rows1, rows2) ==
  \A i \in DOMAIN rows1 : i \in DOMAIN rows2 /\ rows2[i] = rows1[i]

\* The log stays as it is, or the engine was changed; only the task's own record is lost.
TrailStep(h, u) ==
  clean' =>
    /\ clean
    /\ version' = version => engine'.log = engine.log
    /\ \A x : Present(x, engine.log.records) =>
          Present(x, engine'.log.records) \/ (task[h].at \in Numbered /\ x = task[h].op)
    /\ LogOk(engine'.log) /\ RowsOk(db'.audit) /\ Begins(db'.audit, engine'.log)
    /\ Extends(db.audit, db'.audit)
    /\ persisted' \in Nat /\ 1 .. persisted' \subseteq DOMAIN db'.audit
    /\ \A x \in acked' : x \in acked \/ Present(x, db'.audit)
    /\ TrailTask(u, engine'.log, version', db'.audit)

LEMMA BaseHolds ==
  ASSUME All, NEW h \in Handlers, NEW u, BaseStep(h, u)
  PROVE  Base'
<1>1. /\ version \in Nat /\ version' \in Nat /\ version <= version'
      /\ requests \in Nat /\ requests' \in Nat /\ requests <= requests'
  BY DEF All, Base, BaseStep
<1>2. /\ task'[h] = u
      /\ \A k \in Handlers : k # h => task'[k] = task[k]
  BY DEF All, OpsInv, BaseStep
<1>3. ASSUME NEW k \in Handlers
      PROVE  TaskBase(task'[k], asker', requests', version')
  <2>1. CASE k = h
    BY <1>2, <2>1 DEF BaseStep
  <2>2. CASE k # h
    <3>1. TaskBase(task[k], asker, requests, version) /\ task'[k] = task[k]
      BY <1>2, <2>2 DEF All, Base
    <3>2. task[k].at \in Ordering => task[k].since + Done(task[k].at) \in Nat
      BY <3>1 DEF TaskBase, Done
    <3>3. task[k].at \in {"approve", "grant"} => \A a \in Accounts : asker'[a] # task[k].op
      <4> SUFFICES ASSUME task[k].at \in {"approve", "grant"}, NEW a \in Accounts
                   PROVE  asker'[a] # task[k].op
        OBVIOUS
      <4>1. task[k].op \in 1 .. requests /\ asker[a] # task[k].op
        BY <3>1 DEF TaskBase, Numbered, Places
      <4>2. asker'[a] \in {asker[a], 0, requests + 1}
        BY DEF BaseStep
      <4> QED  BY <1>1, <4>1, <4>2
    <3> QED  BY <1>1, <3>1, <3>2, <3>3 DEF TaskBase
  <2> QED  BY <2>1, <2>2
<1>4. ASSUME NEW k \in Handlers, NEW j \in Handlers, k # j,
             task'[k].at \in Numbered, task'[j].at \in Numbered
      PROVE  task'[k].op # task'[j].op
  <2>1. \A i \in Handlers : task[i].at \in Numbered => task[i].op \in 1 .. requests
    BY DEF All, Base, TaskBase
  <2>2. \A i \in Handlers : i # h /\ task'[i].at \in Numbered /\ u.at \in Numbered => u.op # task'[i].op
    BY <1>1, <1>2, <2>1 DEF All, Base, BaseStep
  <2> QED  BY <1>2, <1>4, <2>2 DEF All, Base
<1> QED  BY <1>1, <1>3, <1>4 DEF Base, BaseStep

LEMMA StopHoldsOn ==
  ASSUME All, NEW h \in Handlers, NEW u, BaseStep(h, u), StopStep(h, u)
  PROVE  StopInv'
<1>1. /\ task'[h] = u
      /\ \A k \in Handlers : k # h => task'[k] = task[k]
  BY DEF All, OpsInv, BaseStep
<1>2. \A k \in Handlers : Unmoved(task'[k], version', engine'.risk.killed)
  <2>1. \A k \in Handlers : /\ Unmoved(task[k], version, engine.risk.killed)
                            /\ TaskBase(task[k], asker, requests, version)
    BY DEF All, StopInv, Base
  <2>2. version \in Nat /\ version' \in {version, version + 1}
    BY DEF All, Base, BaseStep
  <2>3. ASSUME NEW k \in Handlers, k # h
        PROVE  Unmoved(task'[k], version', engine'.risk.killed)
    <3>1. task[k].at \in Ordering => task[k].since + Done(task[k].at) \in Nat
                                      /\ task[k].since + Done(task[k].at) <= version
      BY <2>1 DEF TaskBase, Done
    <3> QED  BY <1>1, <2>1, <2>2, <2>3, <3>1 DEF Unmoved, StopStep
  <2> QED  BY <1>1, <2>3 DEF StopStep
<1>3. \A row1, row2 \in db'.risk : row1 = row2
  BY DEF All, StopInv, StopStep
<1> DEFINE K == engine.risk.killed
           Now(a, v) == Backs(a, v, up, K, task, db.risk, rowVersion)
           Then(a, v) == Backs(a, v, up', engine'.risk.killed, task', db'.risk, rowVersion')
<1>4. ASSUME clean', NEW a, NEW v, Now(a, v)
      PROVE  Then(a, v)
  <2>1. engine'.risk.killed = K /\ a \in K
    BY <1>4 DEF StopStep, BaseStep, Backs
  <2>2. ASSUME NEW k \in Handlers, task'[k].at \in Waiting, task'[k].seen >= v
        PROVE  a \in task'[k].row.killed
    BY <1>1, <1>4, <2>1, <2>2 DEF Backs, StopStep
  <2>3. rowVersion' >= v => \E row \in db'.risk : a \in row.killed
    BY <1>4 DEF Backs, StopStep
  <2> QED  BY <2>1, <2>2, <2>3 DEF Backs
<1>5. ASSUME clean', NEW a, Now(a, rowVersion)
      PROVE  Then(a, rowVersion')
  <2>1. Then(a, rowVersion)
    BY <1>4, <1>5
  <2>2. rowVersion \in Nat /\ rowVersion' \in Nat /\ rowVersion <= rowVersion'
    BY <1>5 DEF StopStep, All, Base, BaseStep
  <2>3. \A k \in Handlers : task'[k].at \in Waiting => task'[k].seen \in Nat
    BY BaseHolds DEF Base, TaskBase
  <2> QED  BY <2>1, <2>2, <2>3 DEF Backs
<1>6. ASSUME clean', NEW a \in Accounts
      PROVE  /\ a \in stopped' => Then(a, rowVersion')
             /\ \A k \in Handlers :
                  /\ task'[k].at = "note" /\ task'[k].op = asker'[a] => Then(a, rowVersion')
                  /\ task'[k].at = "upsert" /\ task'[k].op = asker'[a] => Then(a, task'[k].seen)
  <2>1. /\ a \in stopped => Now(a, rowVersion)
        /\ \A k \in Handlers :
             /\ task[k].at = "note" /\ task[k].op = asker[a] => Now(a, rowVersion)
             /\ task[k].at = "upsert" /\ task[k].op = asker[a] => Now(a, task[k].seen)
    BY <1>6 DEF All, StopInv, StopStep, Backed
  <2> HIDE DEF Now, Then
  <2>2. a \in stopped' => Now(a, rowVersion)
    BY <2>1 DEF StopStep
  <2>3. ASSUME NEW k \in Handlers, task'[k].at = "note", task'[k].op = asker'[a]
        PROVE  Then(a, rowVersion')
    <3>1. CASE k = h
      <4>1. task[h].at = "upsert" /\ task[h].op = asker[a] /\ rowVersion' = task[h].seen
        BY <1>1, <2>3, <3>1 DEF StopStep
      <4> QED  BY <1>4, <1>6, <2>1, <4>1
    <3>2. CASE k # h
      BY <1>1, <1>5, <1>6, <2>1, <2>3, <3>2 DEF StopStep
    <3> QED  BY <3>1, <3>2
  <2>4. ASSUME NEW k \in Handlers, task'[k].at = "upsert", task'[k].op = asker'[a]
        PROVE  Then(a, task'[k].seen)
    <3>1. k # h
      BY <1>1, <2>4 DEF StopStep
    <3> QED  BY <1>1, <1>4, <1>6, <2>1, <2>4, <3>1 DEF StopStep
  <2> QED  BY <1>5, <1>6, <2>2, <2>3, <2>4
<1> QED  BY <1>2, <1>3, <1>6 DEF StopInv, Backed

LEMMA TrailHoldsOn ==
  ASSUME All, NEW h \in Handlers, NEW u, BaseStep(h, u), TrailStep(h, u)
  PROVE  TrailInv'
<1> SUFFICES ASSUME clean'
             PROVE  TrailInv'
  BY DEF TrailInv
<1>1. /\ task'[h] = u
      /\ \A k \in Handlers : k # h => task'[k] = task[k]
  BY DEF All, OpsInv, BaseStep
<1>2. \A x : Present(x, db.audit) => Present(x, db'.audit)
  BY DEF TrailStep, Extends, Present
<1>3. \A x \in acked' : Present(x, db'.audit)
  BY <1>2 DEF All, TrailInv, TrailStep
<1>4. ASSUME NEW k \in Handlers
      PROVE  TrailTask(task'[k], engine'.log, version', db'.audit)
  <2>1. CASE k = h
    BY <1>1, <2>1 DEF TrailStep
  <2>2. CASE k # h
    <3> DEFINE t == task[k]
    <3>1. TrailTask(t, engine.log, version, db.audit) /\ TaskBase(t, asker, requests, version)
          /\ task'[k] = t
      BY <1>1, <2>2 DEF All, Base, TrailInv, TrailStep
    <3>2. t.at \in Ordering => t.since + Done(t.at) \in Nat /\ t.since + Done(t.at) <= version
      BY <3>1 DEF TaskBase, Done
    <3>3. version \in Nat /\ version' \in {version, version + 1}
      BY DEF All, Base, BaseStep
    <3>4. t.at \in Numbered /\ task[h].at \in Numbered => t.op # task[h].op
      BY <2>2 DEF All, Base
    <3>5. \A p \in Nat : 1 .. p \subseteq DOMAIN db.audit => 1 .. p \subseteq DOMAIN db'.audit
      BY DEF TrailStep, Extends
    <3> HIDE DEF t
    <3>6. t.at = "collect" => Present(t.op, engine'.log.records)
      BY <3>1, <3>4 DEF TrailTask, TrailStep, Numbered, Places, Ordering
    <3>7. t.at \in Ordering =>
            /\ LogOk(t.snap.log)
            /\ t.since + Done(t.at) = version' =>
                 engine'.log = IF t.at = "snapped" THEN t.snap.log ELSE Recorded(t.snap.log, t.op)
      BY <3>1, <3>2, <3>3 DEF TrailTask, TrailStep
    <3>8. t.at = "write" =>
            /\ t.batch \subseteq Records
            /\ \E p, m \in Nat : 1 .. p \subseteq DOMAIN db'.audit /\ {r.seq : r \in t.batch} = p + 1 .. m
            /\ (\E r \in t.batch : r.what = t.op) \/ Present(t.op, db'.audit)
      BY <1>2, <3>1, <3>5 DEF TrailTask
    <3> QED  BY <3>1, <3>6, <3>7, <3>8 DEF TrailTask
  <2> QED  BY <2>1, <2>2
<1> QED  BY <1>3, <1>4 DEF TrailInv, TrailStep

LEMMA StepHolds ==
  ASSUME All, OpsInv', NEW h \in Handlers, NEW u,
         BaseStep(h, u), StopStep(h, u), TrailStep(h, u)
  PROVE  All'
BY BaseHolds, StopHoldsOn, TrailHoldsOn DEF All

-----------------------------------------------------------------------------
(* Parts of changed records, and steps that touch neither stops nor logs.  *)

LEMMA EngineParts ==
  ASSUME NEW e, EngineShape(e)
  PROVE  /\ \A l : LET f == [e EXCEPT !.log = l] IN f.risk = e.risk /\ f.log = l
         /\ \A k : LET f == [e EXCEPT !.risk.kill = k]
                   IN f.risk.killed = e.risk.killed /\ f.log = e.log
         /\ \A o : LET f == [e EXCEPT !.risk.overrides = o]
                   IN f.risk.killed = e.risk.killed /\ f.log = e.log
         /\ \A r : LET f == [e EXCEPT !.risk = r] IN f.risk = r /\ f.log = e.log
BY DEF EngineShape, RiskShape

LEMMA DbParts ==
  ASSUME NEW d, DbOk(d)
  PROVE  /\ \A x : LET f == [d EXCEPT !.audit = x] IN f.audit = x /\ f.risk = d.risk
         /\ \A x : LET f == [d EXCEPT !.opsAudit = x] IN f.audit = d.audit /\ f.risk = d.risk
         /\ \A x : LET f == [d EXCEPT !.approvals = x] IN f.audit = d.audit /\ f.risk = d.risk
         /\ \A t : Upserted(d, t).audit = d.audit /\ Upserted(d, t).risk = {t.row}
BY DEF DbOk, Upserted

\* A step that leaves stops, rows, log and trail alone.
QuietStops == /\ engine'.risk.killed = engine.risk.killed /\ db'.risk = db.risk
              /\ rowVersion' = rowVersion /\ asker' = asker /\ stopped' = stopped
QuietTrail == /\ engine'.log = engine.log /\ db'.audit = db.audit
              /\ persisted' = persisted /\ acked' = acked

LEMMA QuietStopStep ==
  ASSUME NEW h \in Handlers, NEW u, QuietStops, clean' => clean,
         u.at \notin Waiting \cup Ordering, u.at = "note" => \A a \in Accounts : asker[a] # u.op
  PROVE  StopStep(h, u)
BY DEF QuietStops, StopStep, Waiting, Unmoved

LEMMA QuietTrailStep ==
  ASSUME All, NEW h \in Handlers, NEW u, QuietTrail, up, clean' => clean, u.at \notin Ordering
  PROVE  TrailStep(h, u)
<1>1. TrailTask(u, engine'.log, version', db'.audit)
  BY DEF TrailTask, Ordering
<1> QED  BY <1>1 DEF QuietTrail, TrailStep, Extends, All, TrailInv

LEMMA IdleBase ==
  ASSUME NEW a, NEW n, NEW v
  PROVE  TaskBase(Idle, a, n, v) /\ Idle.at = "idle" /\ Idle.at \notin Ordering \cup Waiting \cup Numbered
BY DEF TaskBase, Idle, Places, Ordering, Numbered, Waiting

\* What Base says of the counters.
LEMMA BaseFacts ==
  ASSUME All
  PROVE  /\ version \in Nat /\ rowVersion \in Nat /\ rowVersion <= version /\ requests \in Nat
         /\ asker \in [Accounts -> 0 .. requests] /\ stopped \subseteq Accounts /\ clean \in BOOLEAN
         /\ \A a \in Accounts : asker[a] \in 0 .. requests
         /\ EngineShape(engine) /\ DbOk(db)
         /\ \A h \in Handlers : /\ TaskBase(task[h], asker, requests, version)
                                /\ TaskOk(task[h], db.approvals, approvals, byAdmin)
         /\ task = [h \in Handlers |-> task[h]]
BY DEF All, Base, OpsInv

\* A request that comes in with a task that waits for nothing, or is answered at once.
LEMMA QuietArrival ==
  ASSUME All, OpsInv', NEW h \in Handlers, NEW u, task' = [task EXCEPT ![h] = u], up, up' = up,
         clean' = clean, version' \in {version, version + 1}, requests' = requests + 1,
         QuietStops, QuietTrail, u.at \in {"idle", "arrived", "file", "approve"},
         u.at \in Numbered => {"at", "op"} \subseteq DOMAIN u /\ u.op = requests + 1
  PROVE  All'
<1>1. u.at \notin Ordering \cup Waiting /\ u.at # "note"
  BY DEF Ordering, Waiting
<1>2. StopStep(h, u) /\ TrailStep(h, u)
  BY <1>1, QuietStopStep, QuietTrailStep
<1>3. \A a \in Accounts : asker[a] # requests + 1
  BY BaseFacts
<1>4. u.at \in Places
  BY DEF Places
<1>5. requests' \in Nat /\ requests + 1 \in 1 .. requests' /\ asker' \in [Accounts -> 0 .. requests']
  BY BaseFacts DEF QuietStops
<1>6. TaskBase(u, asker', requests', version')
  BY <1>1, <1>3, <1>4, <1>5 DEF TaskBase, QuietStops, Numbered, Places
<1>7. rowVersion' \in Nat /\ rowVersion' <= version'
  BY BaseFacts DEF QuietStops
<1>8. BaseStep(h, u)
  BY <1>5, <1>6, <1>7, BaseFacts DEF BaseStep, QuietStops
<1> QED  BY <1>2, <1>8, StepHolds

\* A task that goes on without touching stops or trail.
LEMMA QuietProgress ==
  ASSUME All, OpsInv', NEW h \in Handlers, NEW u, task' = [task EXCEPT ![h] = u], up, up' = up,
         clean' = clean, version' \in {version, version + 1}, requests' = requests,
         QuietStops, QuietTrail, u.at \in {"idle", "grant", "note"},
         u.at # "idle" => /\ {"at", "op"} \subseteq DOMAIN u /\ u.op = task[h].op
                          /\ task[h].at \in {"approve", "grant"}
  PROVE  All'
<1>1. u.at \notin Ordering \cup Waiting /\ u.at \in Places
  BY DEF Ordering, Waiting, Places
<1>2. u.at # "idle" => /\ u.op \in 1 .. requests /\ \A a \in Accounts : asker[a] # u.op
                       /\ task[h].at \in Numbered
  BY BaseFacts DEF TaskBase, Numbered, Places
<1>3. StopStep(h, u) /\ TrailStep(h, u)
  BY <1>1, <1>2, QuietStopStep, QuietTrailStep
<1>4. TaskBase(u, asker', requests', version')
  BY <1>1, <1>2 DEF TaskBase, QuietStops, Numbered
<1>5. BaseStep(h, u)
  BY <1>2, <1>4, BaseFacts DEF BaseStep, QuietStops, Numbered
<1> QED  BY <1>3, <1>5, StepHolds

-----------------------------------------------------------------------------
(* The steps: the approvals.                                               *)

LEMMA RequestApprovalHolds ==
  ASSUME All, OpsInv', NEW h \in Handlers, RequestApproval(h)
  PROVE  All'
<1>1. /\ up /\ up' = up /\ clean' = clean /\ version' = version /\ requests' = requests + 1
      /\ engine' = engine /\ persisted' = persisted /\ acked' = acked
      /\ rowVersion' = rowVersion /\ asker' = asker /\ stopped' = stopped /\ task[h].at = "idle"
  BY DEF RequestApproval, At, memory, history
<1>2. db'.risk = db.risk /\ db'.audit = db.audit
  <2>1. \E rows : db' \in {db, [db EXCEPT !.approvals = rows]}
    BY DEF RequestApproval
  <2>2. \A x : LET f == [db EXCEPT !.approvals = x] IN f.audit = db.audit /\ f.risk = db.risk
    BY DbParts, BaseFacts
  <2> QED  BY <2>1, <2>2
<1>3. \E u : task' = [task EXCEPT ![h] = u] /\ u.at \in {"idle", "file"}
  <2>1. \/ \E id, row : task' = [task EXCEPT ![h] = [at |-> "file", id |-> id, row |-> row]]
        \/ task' = task
    BY DEF RequestApproval, Goes
  <2>2. task = [task EXCEPT ![h] = task[h]]
    BY BaseFacts
  <2> QED  BY <1>1, <2>1, <2>2
<1>4. PICK u : task' = [task EXCEPT ![h] = u] /\ u.at \in {"idle", "file"}
  BY <1>3
<1>5. u.at \notin Numbered
  BY <1>4 DEF Numbered
<1> QED  BY <1>1, <1>2, <1>4, <1>5, QuietArrival DEF QuietStops, QuietTrail

LEMMA FileApprovalHolds ==
  ASSUME All, OpsInv', NEW h \in Handlers, FileApproval(h)
  PROVE  All'
<1>1. /\ up /\ up' = up /\ clean' = clean /\ version' = version /\ requests' = requests
      /\ task' = [task EXCEPT ![h] = Idle] /\ QuietStops /\ QuietTrail
  BY DEF FileApproval, At, Goes, history, bounds, QuietStops, QuietTrail
<1> QED  BY <1>1, IdleBase, QuietProgress

LEMMA ApproveInMemoryHolds ==
  ASSUME All, OpsInv', NEW h \in Handlers, ApproveInMemory(h)
  PROVE  All'
<1>1. /\ up /\ up' = up /\ clean' = clean /\ version' = version /\ requests' = requests + 1
      /\ task[h].at = "idle" /\ QuietStops /\ QuietTrail
  BY DEF ApproveInMemory, Arrives, At, history, QuietStops, QuietTrail
<1>2. \/ \E id, actor :
           task' = [task EXCEPT ![h] = [at |-> "approve", op |-> requests + 1, id |-> id, actor |-> actor]]
      \/ task' = [task EXCEPT ![h] = task[h]]
  <2>1. task = [task EXCEPT ![h] = task[h]]
    BY BaseFacts
  <2> QED  BY <2>1 DEF ApproveInMemory, Goes
<1>3. ASSUME NEW id, NEW actor,
             task' = [task EXCEPT ![h] = [at |-> "approve", op |-> requests + 1, id |-> id, actor |-> actor]]
      PROVE  All'
  <2> DEFINE u == [at |-> "approve", op |-> requests + 1, id |-> id, actor |-> actor]
  <2>1. u.at = "approve" /\ {"at", "op"} \subseteq DOMAIN u /\ u.op = requests + 1
    OBVIOUS
  <2> HIDE DEF u
  <2> QED  BY <1>1, <1>3, <2>1, QuietArrival DEF u
<1>4. CASE task' = [task EXCEPT ![h] = task[h]]
  <2>1. task[h].at \notin Numbered
    BY <1>1 DEF Numbered
  <2> QED  BY <1>1, <1>4, <2>1, QuietArrival
<1> QED  BY <1>2, <1>3, <1>4

LEMMA ApproveRowHolds ==
  ASSUME All, OpsInv', NEW h \in Handlers, ApproveRow(h)
  PROVE  All'
<1> DEFINE t == task[h]
           u == [t EXCEPT !.at = "grant"]
<1>1. /\ up /\ up' = up /\ clean' = clean /\ version' = version /\ requests' = requests
      /\ engine' = engine /\ persisted' = persisted /\ acked' = acked
      /\ rowVersion' = rowVersion /\ asker' = asker /\ stopped' = stopped /\ t.at = "approve"
  BY DEF ApproveRow, At, memory, history, bounds, Works, Breaks
<1>2. db'.risk = db.risk /\ db'.audit = db.audit
  <2>1. \E rows : db' \in {db, [db EXCEPT !.approvals = rows]}
    BY DEF ApproveRow
  <2>2. \A x : LET f == [db EXCEPT !.approvals = x] IN f.audit = db.audit /\ f.risk = db.risk
    BY DbParts, BaseFacts
  <2> QED  BY <2>1, <2>2
<1>3. task' = [task EXCEPT ![h] = Idle] \/ task' = [task EXCEPT ![h] = u]
  BY DEF ApproveRow, Goes
<1>4. {"at", "op"} \subseteq DOMAIN t
  BY <1>1, BaseFacts DEF TaskBase, Numbered, Places
<1>5. u.at = "grant" /\ u.op = t.op /\ {"at", "op"} \subseteq DOMAIN u
  BY <1>4
<1>6. QuietStops /\ QuietTrail
  BY <1>1, <1>2 DEF QuietStops, QuietTrail
<1> HIDE DEF u
<1> QED  BY <1>1, <1>3, <1>5, <1>6, IdleBase, QuietProgress

LEMMA GrantOverrideHolds ==
  ASSUME All, OpsInv', NEW h \in Handlers, GrantOverride(h)
  PROVE  All'
<1> DEFINE t == task[h]
           u == [t EXCEPT !.at = "note"]
<1>1. /\ up /\ up' = up /\ clean' = clean /\ version' = version + 1 /\ requests' = requests
      /\ db' = db /\ persisted' = persisted /\ acked' = acked
      /\ rowVersion' = rowVersion /\ asker' = asker /\ stopped' = stopped /\ t.at = "grant"
      /\ task' = [task EXCEPT ![h] = u]
  BY DEF GrantOverride, At, bounds, Changes, Goes
<1>2. engine'.risk.killed = engine.risk.killed /\ engine'.log = engine.log
  BY EngineParts, BaseFacts DEF GrantOverride, Changes
<1>3. {"at", "op"} \subseteq DOMAIN t
  BY <1>1, BaseFacts DEF TaskBase, Numbered, Places
<1>4. u.at = "note" /\ u.op = t.op /\ {"at", "op"} \subseteq DOMAIN u
  BY <1>3
<1>5. QuietStops /\ QuietTrail
  BY <1>1, <1>2 DEF QuietStops, QuietTrail
<1> HIDE DEF u
<1> QED  BY <1>1, <1>4, <1>5, QuietProgress

-----------------------------------------------------------------------------
(* The steps: operators' patches.                                          *)

LEMMA NoteHolds ==
  ASSUME All, OpsInv', NEW h \in Handlers, Note(h)
  PROVE  All'
<1>1. /\ up /\ up' = up /\ clean' = clean /\ version' = version /\ requests' = requests
      /\ engine' = engine /\ persisted' = persisted /\ acked' = acked
      /\ rowVersion' = rowVersion /\ asker' = asker /\ task[h].at = "note"
      /\ task' = [task EXCEPT ![h] = Idle]
      /\ stopped' \subseteq stopped \cup {a \in Accounts : asker[a] = task[h].op}
  BY DEF Note, At, memory, bounds, Works, Breaks, Goes
<1>2. db'.risk = db.risk /\ db'.audit = db.audit
  <2>1. \E x : db' \in {db, [db EXCEPT !.opsAudit = x]}
    BY DEF Note
  <2>2. \A x : LET f == [db EXCEPT !.opsAudit = x] IN f.audit = db.audit /\ f.risk = db.risk
    BY DbParts, BaseFacts
  <2> QED  BY <2>1, <2>2
<1>3. StopStep(h, Idle)
  BY <1>1, <1>2, IdleBase DEF StopStep, Unmoved, Idle
<1>4. TrailStep(h, Idle)
  BY <1>1, <1>2, IdleBase, QuietTrailStep DEF QuietTrail
<1>5. BaseStep(h, Idle)
  <2>1. stopped' \subseteq Accounts
    BY <1>1, BaseFacts
  <2> QED  BY <1>1, <2>1, BaseFacts, IdleBase DEF BaseStep
<1> QED  BY <1>3, <1>4, <1>5, StepHolds

LEMMA UpsertRiskHolds ==
  ASSUME All, OpsInv', NEW h \in Handlers, UpsertRisk(h)
  PROVE  All'
<1> DEFINE t == task[h]
<1>1. /\ up /\ up' = up /\ version' = version /\ requests' = requests
      /\ engine' = engine /\ persisted' = persisted /\ acked' = acked
      /\ asker' = asker /\ t.at = "upsert" /\ stopped' = stopped
  BY DEF UpsertRisk, At, memory, bounds, Works, Breaks
<1>2. PICK u \in {Idle, [t EXCEPT !.at = "note"]} :
        /\ task' = [task EXCEPT ![h] = u]
        /\ \/ u = Idle /\ db' = db /\ rowVersion' = rowVersion /\ clean' = clean
           \/ /\ db' = Upserted(db, t) /\ rowVersion' = t.seen
              /\ clean' = (clean /\ t.seen >= rowVersion)
  BY DEF UpsertRisk, Goes, Upserts
<1>3. /\ {"at", "op"} \subseteq DOMAIN t /\ t.op \in 1 .. requests
      /\ t.seen \in Nat /\ t.seen <= version
  BY <1>1, BaseFacts DEF TaskBase, Numbered, Places, Waiting
<1>4. u = Idle \/ (u.at = "note" /\ u.op = t.op /\ {"at", "op"} \subseteq DOMAIN u)
  BY <1>2, <1>3
<1>5. db'.audit = db.audit /\ db'.risk \in {db.risk, {t.row}}
      /\ (db' = Upserted(db, t) => db'.risk = {t.row})
  BY <1>2, DbParts, BaseFacts
<1>6. u.at \notin Ordering \cup Waiting /\ u.at \in Places /\ (u.at \in Numbered => u.at = "note")
  BY <1>4, IdleBase DEF Ordering, Waiting, Places, Numbered, Idle
<1>7. u.at = "note" => u # Idle
  BY DEF Idle
<1>8. clean' => clean
  BY <1>2
<1> HIDE DEF t
<1>9. StopStep(h, u)
  <2>1. rowVersion \in Nat /\ (t.seen >= rowVersion <=> rowVersion <= t.seen)
    BY <1>3, BaseFacts
  <2>2. \/ rowVersion' = rowVersion /\ db'.risk = db.risk
        \/ /\ task[h].at \in Waiting /\ db'.risk = {task[h].row} /\ rowVersion' = task[h].seen
           /\ clean' => rowVersion <= task[h].seen
    BY <1>1, <1>2, <1>5, <2>1 DEF Waiting, t
  <2>3. u.at = "note" => task[h].at = "upsert" /\ u.op = task[h].op /\ rowVersion' = task[h].seen
    <3>1. u.at = "note" => rowVersion' = t.seen
      BY <1>2, <1>7
    <3>2. u.at = "note" => u.op = t.op
      BY <1>4, <1>7
    <3> QED  BY <1>1, <3>1, <3>2 DEF t
  <2> QED  BY <1>1, <1>6, <1>8, <2>2, <2>3 DEF StopStep, Unmoved, Waiting
<1>10. TrailStep(h, u)
  BY <1>1, <1>5, <1>6, <1>8, QuietTrailStep DEF QuietTrail
<1>11. BaseStep(h, u)
  <2>1. TaskBase(u, asker', requests', version')
    BY <1>1, <1>3, <1>4, <1>6, IdleBase DEF TaskBase
  <2>2. clean' \in BOOLEAN /\ rowVersion' \in Nat /\ rowVersion' <= version'
    BY <1>1, <1>2, <1>3, BaseFacts
  <2>3. u.at \in Numbered => task[h].at \in Numbered /\ u.op = task[h].op
    BY <1>1, <1>4, <1>6, <1>7 DEF Numbered, Places, t
  <2> QED  BY <1>1, <1>2, <2>1, <2>2, <2>3, BaseFacts DEF BaseStep
<1> QED  BY <1>9, <1>10, <1>11, StepHolds

\* post_risk stops or frees the account it names, and no other.
LEMMA PatchedKilled ==
  ASSUME NEW r, RiskShape(r), NEW b
  PROVE  /\ Patched(r, b).error # "none" => Patched(r, b).risk.killed = r.killed
         /\ Patched(r, b).error = "none" =>
              \A a \in Accounts :
                /\ a # b.account => (a \in Patched(r, b).risk.killed <=> a \in r.killed)
                /\ a = b.account => (a \in Patched(r, b).risk.killed <=> b.on)
<1> DEFINE first  == [r EXCEPT !.kill = IF b.kill = "none" THEN @ ELSE b.kill = "on",
                               !.limit = IF b.limit = 0 THEN @ ELSE b.limit]
           second == [first EXCEPT !.restricted = @ \cup ({b.restrict} \ {"none"})]
           third  == [second EXCEPT !.restricted = @ \ {b.allow}]
           last   == IF b.account = "none" THEN third
                     ELSE [third EXCEPT !.killed = Switched(@, b.account, b.on)]
<1>1. "killed" \in DOMAIN r /\ first.killed = r.killed /\ DOMAIN first = DOMAIN r
  BY DEF RiskShape
<1> HIDE DEF first
<1>2. second.killed = r.killed /\ DOMAIN second = DOMAIN r
  BY <1>1
<1> HIDE DEF second
<1>3. third.killed = r.killed /\ "killed" \in DOMAIN third
  BY <1>1, <1>2
<1> HIDE DEF third
<1>4. \A a \in Accounts : a # "none"
  BY OpsAssumption
<1>5. \A a \in Accounts : /\ a # b.account => (a \in last.killed <=> a \in r.killed)
                          /\ a = b.account => (a \in last.killed <=> b.on)
  BY <1>3, <1>4 DEF Switched
<1> HIDE DEF last
<1>6. Patched(r, b) \in {[risk |-> first, error |-> "unknown_symbol"],
                         [risk |-> second, error |-> "unknown_symbol"],
                         [risk |-> last, error |-> "none"]}
  BY DEF Patched, first, second, third, last
<1>7. "unknown_symbol" # "none"
  OBVIOUS
<1> QED  BY <1>1, <1>2, <1>5, <1>6, <1>7

LEMMA PatchRiskHolds ==
  ASSUME All, OpsInv', NEW h \in Handlers, PatchRisk(h)
  PROVE  All'
<1>1. /\ up /\ up' = up /\ clean' = clean /\ version' = version + 1 /\ requests' = requests + 1
      /\ db' = db /\ persisted' = persisted /\ acked' = acked /\ rowVersion' = rowVersion
  BY DEF PatchRisk, Arrives, At, Changes
<1>2. PICK b \in Patches :
        LET p == Patched(engine.risk, b)
        IN  /\ Changes([engine EXCEPT !.risk = p.risk])
            /\ IF p.error # "none" THEN Goes(h, Idle) /\ UNCHANGED <<asker, stopped>>
               ELSE /\ Goes(h, [at |-> "upsert", op |-> requests + 1, account |-> b.account,
                                row |-> Snapshot(p.risk), seen |-> version + 1])
                    /\ asker' = [a \in Accounts |-> IF a # b.account THEN asker[a]
                                                    ELSE IF b.on THEN requests + 1 ELSE 0]
                    /\ stopped' = IF b.on THEN stopped ELSE stopped \ {b.account}
  BY DEF PatchRisk
<1> DEFINE p == Patched(engine.risk, b)
           u == [at |-> "upsert", op |-> requests + 1, account |-> b.account,
                 row |-> Snapshot(p.risk), seen |-> version + 1]
<1>3. engine'.risk = p.risk /\ engine'.log = engine.log
  BY <1>2, EngineParts, BaseFacts DEF Changes
<1>4. RiskShape(engine.risk)
  BY BaseFacts DEF EngineShape
<1>5. CASE p.error # "none"
  <2>1. engine'.risk.killed = engine.risk.killed
    BY <1>3, <1>4, <1>5, PatchedKilled
  <2>2. task' = [task EXCEPT ![h] = Idle] /\ asker' = asker /\ stopped' = stopped
    BY <1>2, <1>5 DEF Goes
  <2> QED  BY <1>1, <1>3, <1>5, <2>1, <2>2, IdleBase, QuietArrival DEF QuietStops, QuietTrail
<1>6. CASE p.error = "none"
  <2>1. /\ task' = [task EXCEPT ![h] = u]
        /\ asker' = [a \in Accounts |-> IF a # b.account THEN asker[a]
                                        ELSE IF b.on THEN requests + 1 ELSE 0]
        /\ stopped' = IF b.on THEN stopped ELSE stopped \ {b.account}
    BY <1>2, <1>6 DEF Goes
  <2>2. /\ u.at = "upsert" /\ u.op = requests + 1 /\ u.row.killed = p.risk.killed
        /\ u.seen = version + 1 /\ {"at", "op"} \subseteq DOMAIN u
    BY DEF Snapshot
  <2>3. \A a \in Accounts : /\ a # b.account => (a \in p.risk.killed <=> a \in engine.risk.killed)
                            /\ a = b.account => (a \in p.risk.killed <=> b.on)
    BY <1>4, <1>6, PatchedKilled
  <2> HIDE DEF u, p
  <2>4. u.at \notin Ordering /\ u.at \in Places /\ u.at \in Waiting
    BY <2>2 DEF Ordering, Places, Waiting
  <2>5. \A a \in Accounts : asker'[a] = IF a # b.account THEN asker[a]
                                        ELSE IF b.on THEN requests + 1 ELSE 0
    BY <2>1
  <2>6. BaseStep(h, u)
    <3>1. \A a \in Accounts : asker'[a] \in {asker[a], 0, requests + 1}
      BY <2>5
    <3>2. requests + 1 \in Nat /\ requests + 1 \in 1 .. requests + 1
          /\ \A a \in Accounts : asker[a] \in 0 .. requests + 1
      BY BaseFacts
    <3>3. asker' \in [Accounts -> 0 .. requests']
      BY <1>1, <2>1, <3>2, BaseFacts
    <3>4. TaskBase(u, asker', requests', version')
      BY <1>1, <2>2, <2>4, <3>2, BaseFacts DEF TaskBase
    <3>5. stopped' \subseteq Accounts /\ rowVersion' \in Nat /\ rowVersion' <= version'
      BY <1>1, <2>1, BaseFacts
    <3> QED  BY <1>1, <2>1, <2>2, <3>1, <3>3, <3>4, <3>5, BaseFacts DEF BaseStep
  <2>7. TrailStep(h, u)
    BY <1>1, <1>3, <2>4, QuietTrailStep DEF QuietTrail
  <2>8. StopInv'
    <3>1. /\ task'[h] = u
          /\ \A k \in Handlers : k # h => task'[k] = task[k]
      BY <2>1, BaseFacts
    <3>2. \A k \in Handlers : Unmoved(task'[k], version', engine'.risk.killed)
      <4>1. \A k \in Handlers : task[k].at \in Ordering =>
              task[k].since + Done(task[k].at) \in Nat /\ task[k].since + Done(task[k].at) <= version
        BY BaseFacts DEF TaskBase, Done
      <4> QED  BY <1>1, <2>4, <3>1, <4>1, BaseFacts DEF Unmoved
    <3> DEFINE K == engine.risk.killed
               Now(a, v) == Backs(a, v, up, K, task, db.risk, rowVersion)
               Then(a, v) == Backs(a, v, up', engine'.risk.killed, task', db'.risk, rowVersion')
    <3>3. ASSUME NEW a, NEW v, Now(a, v), a \in p.risk.killed
          PROVE  Then(a, v)
      BY <1>1, <1>3, <2>2, <3>1, <3>3 DEF Backs
    <3>4. ASSUME NEW a, a \in p.risk.killed
          PROVE  Then(a, version + 1)
      <4>1. \A k \in Handlers : task[k].at \in Waiting => task[k].seen \in Nat /\ task[k].seen <= version
        BY BaseFacts DEF TaskBase
      <4>2. \A k \in Handlers : task'[k].at \in Waiting /\ task'[k].seen >= version + 1 => k = h
        BY <3>1, <4>1, BaseFacts
      <4>3. ~(rowVersion' >= version + 1)
        BY <1>1, BaseFacts
      <4> QED  BY <1>3, <2>2, <3>1, <3>4, <4>2, <4>3 DEF Backs
    <3>5. ASSUME clean', NEW a \in Accounts
          PROVE  /\ a \in stopped' => Then(a, rowVersion')
                 /\ \A k \in Handlers :
                      /\ task'[k].at = "note" /\ task'[k].op = asker'[a] => Then(a, rowVersion')
                      /\ task'[k].at = "upsert" /\ task'[k].op = asker'[a] => Then(a, task'[k].seen)
      <4>1. /\ a \in stopped => Now(a, rowVersion)
            /\ \A k \in Handlers :
                 /\ task[k].at = "note" /\ task[k].op = asker[a] => Now(a, rowVersion)
                 /\ task[k].at = "upsert" /\ task[k].op = asker[a] => Now(a, task[k].seen)
        BY <1>1, <3>5 DEF All, StopInv, Backed
      <4>2. \A v : Now(a, v) => a \in K
        BY <1>1 DEF Backs
      <4>3. \A k \in Handlers : task[k].at \in {"note", "upsert"} => task[k].op \in 1 .. requests
        BY BaseFacts DEF TaskBase, Numbered, Places
      <4> HIDE DEF Now, Then
      <4>4. a \in stopped' => Then(a, rowVersion')
        BY <1>1, <2>1, <2>3, <3>3, <4>1, <4>2
      <4>5. ASSUME NEW k \in Handlers, task'[k].at \in {"note", "upsert"}, task'[k].op = asker'[a], k # h
            PROVE  Then(a, IF task'[k].at = "note" THEN rowVersion' ELSE task'[k].seen)
        <5>1. task'[k] = task[k] /\ task[k].op \in 1 .. requests
          BY <3>1, <4>3, <4>5
        <5>2. a # b.account
          BY <2>5, <4>5, <5>1, BaseFacts
        <5>3. Now(a, IF task[k].at = "note" THEN rowVersion ELSE task[k].seen)
          BY <2>5, <4>1, <4>5, <5>1, <5>2
        <5> QED  BY <1>1, <2>3, <3>3, <4>2, <5>1, <5>2, <5>3
      <4>6. ASSUME task'[h].at \in {"note", "upsert"}, task'[h].op = asker'[a]
            PROVE  task'[h].at = "upsert" /\ Then(a, task'[h].seen)
        <5>1. a = b.account /\ b.on
          BY <2>2, <2>5, <3>1, <4>6, BaseFacts
        <5> QED  BY <2>2, <2>3, <3>1, <3>4, <5>1
      <4> QED  BY <4>4, <4>5, <4>6
    <3> HIDE DEF Then
    <3>6. \A row1, row2 \in db'.risk : row1 = row2
      BY <1>1 DEF All, StopInv
    <3> QED  BY <3>2, <3>5, <3>6 DEF StopInv, Backed, Then
  <2> QED  BY <2>6, <2>7, <2>8, BaseHolds, TrailHoldsOn DEF All
<1> QED  BY <1>5, <1>6

-----------------------------------------------------------------------------
(* Logs and rows.                                                          *)

\* record adds a record with the next number that links to the last.
LEMMA RecordedOk ==
  ASSUME NEW log, LogOk(log), NEW what \in Nat
  PROVE  LET new == Recorded(log, what)
         IN  /\ LogOk(new) /\ Present(what, new.records) /\ Extends(log.records, new.records)
             /\ \A x : Present(x, new.records) => Present(x, log.records) \/ x = what
<1> DEFINE n == log.next
           r == [seq |-> n + 1, what |-> what, prev |-> log.last]
           rs == Append(log.records, r)
<1>1. n \in Nat /\ log.records \in Seq(Records) /\ n = Len(log.records)
      /\ DOMAIN log.records = 1 .. n
  BY DEF LogOk
<1>2. log.last \in Nat /\ log.last = IF n = 0 THEN GENESIS ELSE log.records[n].what
  <2>1. n # 0 => log.records[n] \in Records
    BY <1>1
  <2> QED  BY <1>1, <2>1 DEF LogOk, GENESIS, Hash, Records
<1>3. r \in Records /\ r.seq = n + 1 /\ r.what = what /\ r.prev = log.last
  BY <1>1, <1>2 DEF Records
<1> HIDE DEF r
<1>4. /\ rs \in Seq(Records) /\ Len(rs) = n + 1 /\ DOMAIN rs = 1 .. n + 1 /\ rs[n + 1] = r
      /\ \A i \in 1 .. n : rs[i] = log.records[i]
  BY <1>1, <1>3
<1> HIDE DEF rs
<1>5. /\ Recorded(log, what).records = rs /\ Recorded(log, what).next = n + 1
      /\ Recorded(log, what).last = r.what
  BY DEF Recorded, Hash, rs, r
<1>6. \A i \in DOMAIN rs : rs[i].seq = i
  <2>1. \A i \in 1 .. n : log.records[i].seq = i
    BY <1>1 DEF LogOk
  <2>2. \A i \in 1 .. n + 1 : i \in 1 .. n \/ i = n + 1
    BY <1>1
  <2> QED  BY <1>3, <1>4, <2>1, <2>2
<1>7. ChainOk(rs)
  <2>1. \A i \in 1 .. n : log.records[i].prev = IF i = 1 THEN GENESIS ELSE log.records[i - 1].what
    BY <1>1 DEF LogOk, ChainOk, Hash
  <2>2. ASSUME NEW i \in 1 .. n + 1
        PROVE  rs[i].prev = IF i = 1 THEN GENESIS ELSE rs[i - 1].what
    <3>1. CASE i \in 1 .. n
      <4>1. rs[i] = log.records[i] /\ (i # 1 => i - 1 \in 1 .. n /\ rs[i - 1] = log.records[i - 1])
        BY <1>1, <1>4, <3>1
      <4> QED  BY <2>1, <3>1, <4>1
    <3>2. CASE i = n + 1
      <4>1. n # 0 => n \in 1 .. n
        BY <1>1
      <4> QED  BY <1>1, <1>2, <1>3, <1>4, <3>2, <4>1
    <3> QED  BY <1>1, <3>1, <3>2
  <2> QED  BY <1>4, <2>2 DEF ChainOk, Hash
<1>8. n + 1 \in DOMAIN rs /\ \A i \in 1 .. n : i \in DOMAIN rs
  BY <1>1, <1>4
<1>9. \A x : Present(x, rs) => Present(x, log.records) \/ x = what
  <2>1. \A i \in DOMAIN rs : i \in 1 .. n \/ i = n + 1
    BY <1>1, <1>4
  <2> QED  BY <1>1, <1>3, <1>4, <2>1 DEF Present
<1>10. n + 1 # 0
  BY <1>1
<1>11. LogOk(Recorded(log, what))
  BY <1>4, <1>5, <1>6, <1>7, <1>10 DEF LogOk, Hash
<1>12. Present(what, rs)
  BY <1>3, <1>4, <1>8 DEF Present
<1> QED  BY <1>1, <1>4, <1>5, <1>8, <1>9, <1>11, <1>12 DEF Extends

\* What collect_batch takes: the records after the last that is known to be stored.
LEMMA CollectedOk ==
  ASSUME NEW log, LogOk(log), NEW p \in Nat
  PROVE  /\ RecordsAfter(log, p) \subseteq Records
         /\ {r.seq : r \in RecordsAfter(log, p)} = p + 1 .. log.next
         /\ \A i \in DOMAIN log.records : i > p => log.records[i] \in RecordsAfter(log, p)
<1>1. /\ log.next \in Nat /\ DOMAIN log.records = 1 .. log.next
      /\ \A i \in 1 .. log.next : log.records[i] \in Records /\ log.records[i].seq = i
  BY DEF LogOk
<1>2. RecordsAfter(log, p) = {log.records[i] : i \in {j \in 1 .. log.next : j > p}}
  <2>1. ToSet(log.records) = {log.records[i] : i \in 1 .. log.next}
    BY <1>1 DEF ToSet
  <2> QED  BY <1>1, <2>1 DEF RecordsAfter
<1>3. \A i : i \in 1 .. log.next /\ i > p <=> i \in p + 1 .. log.next
  BY <1>1
<1> QED  BY <1>1, <1>2, <1>3

\* insert_audit_record_tx: a batch that goes on where the rows end, or earlier, adds
\* the records the rows do not have.
LEMMA InsertedOk ==
  ASSUME NEW log, LogOk(log), NEW rows, RowsOk(rows), Begins(rows, log), NEW batch,
         batch \subseteq ToSet(log.records),
         NEW p \in Nat, NEW m \in Nat, 1 .. p \subseteq DOMAIN rows,
         {r.seq : r \in batch} = p + 1 .. m
  PROVE  LET new == Inserted(rows, batch)
         IN  /\ RowsOk(new) /\ Begins(new, log) /\ Extends(rows, new)
             /\ DOMAIN new = DOMAIN rows \cup (p + 1 .. m)
             /\ \A r \in batch : Present(r.what, new)
<1> DEFINE new == Inserted(rows, batch)
           added == {r.seq : r \in batch} \ DOMAIN rows
           Row(seq) == CHOOSE r \in batch : r.seq = seq
<1>1. PICK n \in Nat : rows \in [1 .. n -> Records]
  BY DEF RowsOk
<1>2. /\ \A i \in DOMAIN log.records : log.records[i].seq = i /\ log.records[i] \in Records
      /\ DOMAIN log.records = 1 .. log.next /\ log.next \in Nat
  BY DEF LogOk
<1>3. \A r \in batch : r.seq \in DOMAIN log.records /\ r = log.records[r.seq]
  BY <1>2 DEF ToSet
<1>4. \A i \in added : i \in DOMAIN log.records /\ Row(i) = log.records[i]
  <2> SUFFICES ASSUME NEW i \in added
               PROVE  i \in DOMAIN log.records /\ Row(i) = log.records[i]
    OBVIOUS
  <2>1. \E r \in batch : r.seq = i
    OBVIOUS
  <2>2. Row(i) \in batch /\ Row(i).seq = i
    BY <2>1
  <2> QED  BY <1>3, <2>2
<1>5. new = [i \in DOMAIN rows \cup added |-> IF i \in added THEN Row(i) ELSE rows[i]]
  BY DEF Inserted
<1>6. DOMAIN new = DOMAIN rows \cup (p + 1 .. m)
  BY <1>5
<1>7. \A i \in DOMAIN new : i \in DOMAIN log.records /\ new[i] = log.records[i]
  <2> HIDE DEF added, Row
  <2> QED  BY <1>4, <1>5 DEF Begins
<1>8. \A i \in DOMAIN rows : i \in DOMAIN new /\ new[i] = rows[i]
  <2>1. \A i \in DOMAIN rows : i \notin added
    OBVIOUS
  <2> HIDE DEF added, Row
  <2> QED  BY <1>5, <2>1
<1> HIDE DEF new
<1>9. \E k \in Nat : DOMAIN new = 1 .. k
  <2>1. p <= n
    <3>1. p = 0 \/ p \in 1 .. p
      OBVIOUS
    <3> QED  BY <1>1, <3>1
  <2>2. CASE m > n
    <3>1. DOMAIN new = 1 .. m
      BY <1>1, <1>6, <2>1, <2>2
    <3> QED  BY <3>1
  <2>3. CASE m <= n
    <3>1. DOMAIN new = 1 .. n
      BY <1>1, <1>6, <2>1, <2>3
    <3> QED  BY <3>1
  <2> QED  BY <2>2, <2>3
<1>10. PICK k \in Nat : DOMAIN new = 1 .. k
  BY <1>9
<1>11. new \in [1 .. k -> Records]
  <2>1. new = [i \in DOMAIN new |-> new[i]]
    BY <1>5
  <2> QED  BY <1>2, <1>7, <1>10, <2>1
<1>12. \A i \in DOMAIN new : new[i].seq = i
  BY <1>2, <1>7
<1>13. ChainOk(new)
  <2>1. \A i \in DOMAIN log.records :
          log.records[i].prev = IF i = 1 THEN GENESIS ELSE log.records[i - 1].what
    BY DEF LogOk, ChainOk, Hash
  <2>2. \A i \in 1 .. k : i = 1 \/ i - 1 \in 1 .. k
    BY <1>10
  <2>3. ASSUME NEW i \in DOMAIN new
        PROVE  new[i].prev = IF i = 1 THEN GENESIS ELSE new[i - 1].what
    BY <1>7, <1>10, <2>1, <2>2
  <2> QED  BY <2>3 DEF ChainOk, Hash
<1>14. RowsOk(new)
  BY <1>10, <1>11, <1>12, <1>13 DEF RowsOk
<1>15. Begins(new, log)
  BY <1>7 DEF Begins
<1>16. Extends(rows, new)
  BY <1>8 DEF Extends
<1>17. \A r \in batch : Present(r.what, new)
  <2> SUFFICES ASSUME NEW r \in batch
               PROVE  Present(r.what, new)
    OBVIOUS
  <2>1. r.seq \in DOMAIN new
    BY <1>6
  <2>2. new[r.seq] = r
    BY <1>3, <1>7, <2>1
  <2> QED  BY <2>1, <2>2 DEF Present
<1> QED  BY <1>6, <1>14, <1>15, <1>16, <1>17 DEF new

\* The highest number of a contiguous batch, or the one before it.
LEMMA HighestOk ==
  ASSUME NEW batch, NEW p \in Nat, NEW m \in Nat, {r.seq : r \in batch} = p + 1 .. m, NEW seq \in Nat
  PROVE  /\ Highest(batch, seq) \in Nat
         /\ Highest(batch, seq) = seq \/ (Highest(batch, seq) = m /\ m > p)
<1> DEFINE S == {seq} \cup (p + 1 .. m)
<1>1. Highest(batch, seq) = Max(S)
  BY DEF Highest
<1>2. CASE m > p /\ m > seq
  <2>1. m \in S /\ \A x \in S : m >= x
    BY <1>2
  <2>2. \A y \in S : (\A x \in S : y >= x) => y = m
    BY <1>2
  <2>3. Max(S) = m
    <3> HIDE DEF S
    <3> QED  BY <2>1, <2>2 DEF Max
  <2> QED  BY <1>1, <1>2, <2>3
<1>3. CASE ~(m > p /\ m > seq)
  <2>1. seq \in S /\ \A x \in S : seq >= x
    BY <1>3
  <2>2. \A y \in S : (\A x \in S : y >= x) => y = seq
    BY <1>3
  <2>3. Max(S) = seq
    <3> HIDE DEF S
    <3> QED  BY <2>1, <2>2 DEF Max
  <2> HIDE DEF S
  <2> QED  BY <1>1, <2>3
<1> QED  BY <1>2, <1>3

\* The number of the last row.
LEMMA LastSeqOk ==
  ASSUME NEW rows, NEW n \in Nat, DOMAIN rows = 1 .. n
  PROVE  LastSeq(rows) = n
<1>1. CASE n = 0
  <2>1. 1 .. 0 = {}
    OBVIOUS
  <2> QED  BY <1>1, <2>1 DEF LastSeq
<1>2. CASE n > 0
  <2> DEFINE S == DOMAIN rows
  <2>1. n \in S /\ \A x \in S : n >= x
    BY <1>2
  <2>2. \A y \in S : (\A x \in S : y >= x) => y = n
    <3> SUFFICES ASSUME NEW y \in S, \A x \in S : y >= x
                 PROVE  y = n
      OBVIOUS
    <3>1. y \in 1 .. n /\ y >= n
      BY <2>1
    <3> QED  BY <3>1
  <2>3. Max(S) = n /\ S # {}
    <3> HIDE DEF S
    <3> QED  BY <2>1, <2>2 DEF Max
  <2> QED  BY <2>3 DEF LastSeq
<1> QED  BY <1>1, <1>2

\* A set of naturals that is not empty has a least element.
LEMMA LeastOf ==
  ASSUME NEW S \in SUBSET Nat, S # {}
  PROVE  \E x \in S : \A y \in S : x <= y
<1> DEFINE Less == {ss \in Nat \X Nat : ss[1] < ss[2]}
<1>1. IsWellFoundedOn(Less, Nat)
  BY NatLessThanWellFounded DEF OpToRel
<1>2. PICK x \in S : \A y \in S : <<y, x>> \notin Less
  <2> HIDE DEF Less
  <2> QED  BY <1>1, WFMin
<1>3. \A y \in S : ~(y < x)
  BY <1>2
<1> QED  BY <1>3

\* The numbers 1 .. n in ascending order are 1, 2, ... n.
LEMMA AscendingOk ==
  ASSUME NEW n \in Nat
  PROVE  Ascending(1 .. n) = [i \in 1 .. n |-> i]
<1> DEFINE Rises(f) == \A i, j \in DOMAIN f : i < j => f[i] < f[j]
<1>1. Cardinality(1 .. n) = n
  BY FS_Interval
<1>2. ASSUME NEW f \in [1 .. n -> 1 .. n], Rises(f)
      PROVE  f = [i \in 1 .. n |-> i]
  <2>1. \A i \in 1 .. n : f[i] \in 1 .. n
    OBVIOUS
  <2>2. \A i, j \in 1 .. n : i < j => f[i] < f[j]
    BY <1>2
  <2> HIDE DEF Rises
  <2>3. ASSUME NEW k \in 1 .. n, f[k] < k
        PROVE  FALSE
    <3> DEFINE Low == {i \in 1 .. n : f[i] < i}
    <3>1. PICK i \in Low : \A y \in Low : i <= y
      <4>1. Low \in SUBSET Nat /\ Low # {}
        BY <2>3, SMTT(60)
      <4> HIDE DEF Low
      <4> QED  BY <4>1, LeastOf
    <3>2. i \in 1 .. n /\ f[i] < i /\ f[i] >= 1
      BY <2>1
    <3>3. i - 1 \in 1 .. n /\ i - 1 < i
      BY <3>2, <2>1
    <3>4. i - 1 \notin Low
      <4> HIDE DEF Low
      <4> QED  BY <3>1, <3>2, <3>3
    <3>5. f[i - 1] >= i - 1
      BY <2>1, <3>3, <3>4
    <3>6. f[i - 1] < f[i]
      BY <2>2, <3>2, <3>3
    <3> QED  BY <2>1, <3>2, <3>3, <3>5, <3>6
  <2>4. ASSUME NEW k \in 1 .. n, f[k] > k
        PROVE  FALSE
    <3> DEFINE High == {d \in 0 .. n : \E i \in 1 .. n : i = n - d /\ f[i] > i}
    <3>1. PICK d \in High : \A y \in High : d <= y
      <4>1. n - k \in 0 .. n /\ k = n - (n - k)
        OBVIOUS
      <4>2. n - k \in High
        BY <2>4, <4>1
      <4>3. \A x \in High : x \in Nat
        OBVIOUS
      <4> HIDE DEF High
      <4> QED  BY <4>2, <4>3, LeastOf
    <3>2. PICK i \in 1 .. n : i = n - d /\ f[i] > i
      OBVIOUS
    <3>3. i + 1 \in 1 .. n /\ f[i] <= n
      BY <2>1, <3>2
    <3>4. f[i] < f[i + 1]
      BY <2>2, <3>2, <3>3
    <3>5. f[i + 1] > i + 1
      BY <2>1, <3>2, <3>3, <3>4
    <3>6. d - 1 \in 0 .. n /\ i + 1 = n - (d - 1)
      BY <3>2, <3>3
    <3>7. d - 1 \in High
      BY <3>3, <3>5, <3>6
    <3>8. d \in 0 .. n
      OBVIOUS
    <3> HIDE DEF High
    <3> QED  BY <3>1, <3>7, <3>8
  <2>5. \A k \in 1 .. n : f[k] = k
    BY <2>1, <2>3, <2>4
  <2> QED  BY <2>5
<1>3. [i \in 1 .. n |-> i] \in [1 .. n -> 1 .. n] /\ Rises([i \in 1 .. n |-> i])
  OBVIOUS
<1>4. Ascending(1 .. n) = CHOOSE f \in [1 .. n -> 1 .. n] : Rises(f)
  BY <1>1 DEF Ascending
<1> HIDE DEF Rises
<1> QED  BY <1>2, <1>3, <1>4

\* load_audit_after and restore: rows without a hole come back as the log they are.
LEMMA RestoredOk ==
  ASSUME NEW rows, RowsOk(rows)
  PROVE  /\ LogOk(RestoredLog(rows)) /\ Begins(rows, RestoredLog(rows))
         /\ DOMAIN rows = 1 .. Cardinality(DOMAIN rows) /\ ChainOk(Trail(rows))
         /\ LastSeq(rows) \in Nat /\ 1 .. LastSeq(rows) = DOMAIN rows
<1>1. PICK n \in Nat : rows \in [1 .. n -> Records]
  BY DEF RowsOk
<1>2. DOMAIN rows = 1 .. n
  BY <1>1
<1>3. Trail(rows) = rows
  <2>1. Trail(rows) = [i \in DOMAIN Ascending(1 .. n) |-> rows[Ascending(1 .. n)[i]]]
    BY <1>2 DEF Trail
  <2>2. Trail(rows) = [i \in 1 .. n |-> rows[i]]
    BY <2>1, AscendingOk
  <2> QED  BY <1>1, <2>2
<1>4. LastSeq(rows) = n
  BY <1>2, LastSeqOk
<1>5. rows \in Seq(Records) /\ Len(rows) = n
  BY <1>1
<1>6. /\ RestoredLog(rows).records = rows /\ RestoredLog(rows).next = n
      /\ RestoredLog(rows).last = IF rows = <<>> THEN GENESIS ELSE Hash(Last(rows))
  BY <1>3, <1>4 DEF RestoredLog
<1>7. (rows = <<>> <=> n = 0) /\ (n # 0 => Last(rows) = rows[n])
  BY <1>5 DEF Last
<1>8. LogOk(RestoredLog(rows))
  BY <1>5, <1>6, <1>7 DEF LogOk, RowsOk
<1>9. Begins(rows, RestoredLog(rows))
  BY <1>6 DEF Begins
<1>10. Cardinality(DOMAIN rows) = n
  BY <1>2, FS_Interval
<1> QED  BY <1>2, <1>3, <1>4, <1>8, <1>9, <1>10 DEF RowsOk

-----------------------------------------------------------------------------
(* The steps: an order.                                                    *)

LEMMA ArriveOrderHolds ==
  ASSUME All, OpsInv', NEW h \in Handlers, ArriveOrder(h)
  PROVE  All'
<1>1. /\ up /\ up' = up /\ clean' = clean /\ requests' = requests + 1
      /\ db' = db /\ persisted' = persisted /\ acked' = acked
      /\ rowVersion' = rowVersion /\ asker' = asker /\ stopped' = stopped
  BY DEF ArriveOrder, Arrives, At
<1>2. PICK a \in Accounts, i \in Instruments, q \in Quantities :
        task' = [task EXCEPT ![h] = [at |-> "arrived", op |-> requests + 1, account |-> a,
                                     instrument |-> i, qty |-> q]]
  BY DEF ArriveOrder, Goes
<1>3. /\ version' \in {version, version + 1}
      /\ engine'.risk.killed = engine.risk.killed /\ engine'.log = engine.log
  <2>1. \/ engine' = engine /\ version' = version
        \/ \E o : engine' = [engine EXCEPT !.risk.overrides = o] /\ version' = version + 1
    BY DEF ArriveOrder, Changes
  <2>2. \A o : LET f == [engine EXCEPT !.risk.overrides = o]
               IN f.risk.killed = engine.risk.killed /\ f.log = engine.log
    BY EngineParts, BaseFacts
  <2> QED  BY <2>1, <2>2
<1> DEFINE u == [at |-> "arrived", op |-> requests + 1, account |-> a, instrument |-> i, qty |-> q]
<1>4. u.at = "arrived" /\ {"at", "op"} \subseteq DOMAIN u /\ u.op = requests + 1
  OBVIOUS
<1>5. QuietStops /\ QuietTrail
  BY <1>1, <1>3 DEF QuietStops, QuietTrail
<1> HIDE DEF u
<1> QED  BY <1>1, <1>2, <1>3, <1>4, <1>5, QuietArrival DEF u

LEMMA TakeSnapshotHolds ==
  ASSUME All, OpsInv', NEW h \in Handlers, TakeSnapshot(h)
  PROVE  All'
<1> DEFINE t == task[h]
           f == [snap |-> engine, since |-> version]
           u == Onward(t, "snapped", f)
<1>1. /\ up /\ up' = up /\ clean' = clean /\ version' = version /\ requests' = requests
      /\ engine' = engine /\ persisted' = persisted /\ acked' = acked /\ db' = db
      /\ rowVersion' = rowVersion /\ asker' = asker /\ stopped' = stopped
      /\ t.at = "arrived" /\ task' = [task EXCEPT ![h] = u]
  BY DEF TakeSnapshot, At, memory, history, bounds, Goes
<1>2. DOMAIN t = OrderFields /\ DOMAIN f = {"snap", "since"} /\ t.op \in 1 .. requests
  BY <1>1, BaseFacts DEF TaskOk, TaskBase, Numbered, Places
<1>3. /\ u.at = "snapped" /\ u.op = t.op /\ u.snap = engine /\ u.since = version
      /\ {"at", "op", "snap", "since"} \subseteq DOMAIN u
  <2>1. "at" \in DOMAIN t /\ "op" \in DOMAIN t \ {"at"} /\ "snap" \in DOMAIN f \ DOMAIN t
        /\ "since" \in DOMAIN f \ DOMAIN t
    BY <1>2 DEF OrderFields
  <2>2. /\ u.at = "snapped" /\ DOMAIN u = DOMAIN t \cup DOMAIN f
        /\ \A x \in DOMAIN t \ {"at"} : u[x] = t[x]
        /\ \A x \in DOMAIN f \ DOMAIN t : u[x] = f[x]
    <3> HIDE DEF f
    <3> QED  BY <2>1 DEF Onward
  <2>3. f["snap"] = engine /\ f["since"] = version
    OBVIOUS
  <2> HIDE DEF u, f
  <2> QED  BY <2>1, <2>2, <2>3
<1> HIDE DEF u
<1>4. /\ u.at \in Ordering /\ u.at \in Places /\ u.at \in Numbered /\ u.at \notin Waiting
      /\ t.at \in Numbered /\ Done(u.at) = 0
  BY <1>1, <1>3 DEF Ordering, Places, Numbered, Waiting, Done
<1>5. BaseStep(h, u)
  <2>1. TaskBase(u, asker', requests', version')
    BY <1>1, <1>2, <1>3, <1>4, BaseFacts DEF TaskBase
  <2> QED  BY <1>1, <1>3, <1>4, <2>1, BaseFacts DEF BaseStep
<1>6. StopStep(h, u)
  BY <1>1, <1>3, <1>4 DEF StopStep, Unmoved
<1>7. TrailStep(h, u)
  <2>1. clean => TrailTask(u, engine'.log, version', db'.audit)
    BY <1>1, <1>3 DEF TrailTask, All, TrailInv
  <2> QED  BY <1>1, <2>1 DEF TrailStep, All, TrailInv, Extends
<1> QED  BY <1>5, <1>6, <1>7, StepHolds

LEMMA SubmitOrderHolds ==
  ASSUME All, OpsInv', NEW h \in Handlers, SubmitOrder(h)
  PROVE  All'
<1> DEFINE t == task[h]
           f == [verdict |-> Check(engine.risk, t.account, t.instrument, t.qty)]
           w == Onward(t, "collect", f)
           log == Recorded(engine.log, t.op)
<1>1. /\ up /\ up' = up /\ clean' = clean /\ version' = version + 1 /\ requests' = requests
      /\ persisted' = persisted /\ acked' = acked /\ db' = db
      /\ rowVersion' = rowVersion /\ asker' = asker /\ stopped' = stopped
      /\ t.at = "snapped"
  BY DEF SubmitOrder, At, bounds, Changes
<1>2. PICK u \in {w, Idle} : task' = [task EXCEPT ![h] = u]
  BY DEF SubmitOrder, Goes
<1>3. engine'.risk = engine.risk /\ engine'.log = log
  BY EngineParts, BaseFacts DEF SubmitOrder, Changes
<1>4. /\ DOMAIN t = Snapped /\ DOMAIN f = {"verdict"} /\ t.op \in 1 .. requests /\ t.since \in Nat
      /\ t.since <= version
  BY <1>1, BaseFacts DEF TaskOk, TaskBase, Numbered, Places, Ordering, Done
<1>5. /\ w.at = "collect" /\ w.op = t.op /\ w.snap = t.snap /\ w.since = t.since
      /\ {"at", "op", "snap", "since"} \subseteq DOMAIN w
  <2>1. "at" \in DOMAIN t /\ {"op", "snap", "since"} \subseteq DOMAIN t \ {"at"}
    BY <1>4 DEF OrderFields, Snapped
  <2>2. /\ w.at = "collect" /\ DOMAIN w = DOMAIN t \cup DOMAIN f
        /\ \A x \in DOMAIN t \ {"at"} : w[x] = t[x]
    <3> HIDE DEF f
    <3> QED  BY <2>1 DEF Onward
  <2> HIDE DEF w, f
  <2> QED  BY <2>1, <2>2
<1> HIDE DEF w, log
<1>6. u = Idle \/ (u = w /\ u.at \in Ordering /\ u.at \in Places /\ u.at \in Numbered
                   /\ u.at \notin Waiting /\ Done(u.at) = 1)
  BY <1>2, <1>5 DEF Ordering, Places, Numbered, Waiting, Done
<1>7. t.at \in Numbered /\ t.at \in Ordering /\ Done(t.at) = 0
  BY <1>1 DEF Numbered, Places, Ordering, Done
<1>8. BaseStep(h, u)
  <2>1. TaskBase(u, asker', requests', version')
    BY <1>1, <1>4, <1>5, <1>6, BaseFacts, IdleBase DEF TaskBase
  <2>2. u.at \in Numbered => u.op = t.op
    BY <1>5, <1>6, IdleBase
  <2> QED  BY <1>1, <1>2, <1>7, <2>1, <2>2, BaseFacts DEF BaseStep
<1>9. StopStep(h, u)
  <2>1. Unmoved(t, version, engine.risk.killed)
    BY DEF All, StopInv
  <2>2. Unmoved(u, version', engine'.risk.killed)
    BY <1>1, <1>3, <1>4, <1>5, <1>6, <1>7, <2>1, BaseFacts, IdleBase DEF Unmoved
  <2>3. u.at \notin Waiting /\ u.at \notin {"note", "upsert"}
    BY <1>5, <1>6, IdleBase DEF Idle
  <2> QED  BY <1>1, <1>3, <2>2, <2>3 DEF StopStep
<1>10. TrailStep(h, u)
  <2> SUFFICES ASSUME clean
               PROVE  TrailStep(h, u)
    BY <1>1 DEF TrailStep
  <2>1. /\ LogOk(engine.log) /\ RowsOk(db.audit) /\ Begins(db.audit, engine.log)
        /\ persisted \in Nat /\ 1 .. persisted \subseteq DOMAIN db.audit
        /\ TrailTask(t, engine.log, version, db.audit)
    BY <1>1 DEF All, TrailInv
  <2>2. /\ LogOk(log) /\ Present(t.op, log.records) /\ Extends(engine.log.records, log.records)
        /\ \A x : Present(x, engine.log.records) => Present(x, log.records)
    <3>1. t.op \in Nat
      BY <1>4
    <3>2. /\ LogOk(log) /\ Present(t.op, log.records) /\ Extends(engine.log.records, log.records)
      BY <2>1, <3>1, RecordedOk DEF log
    <3> QED  BY <3>2 DEF Extends, Present
  <2>3. Begins(db.audit, log)
    BY <2>1, <2>2 DEF Begins, Extends
  <2>4. u = w => TrailTask(u, log, version + 1, db.audit)
    <3>1. LogOk(t.snap.log) /\ (t.since = version => engine.log = t.snap.log)
      BY <1>1, <1>4, <1>7, <2>1 DEF TrailTask
    <3>2. w.since + 1 = version + 1 => w.since = version
      BY <1>4, <1>5, BaseFacts
    <3> QED  BY <1>5, <1>6, <2>2, <3>1, <3>2 DEF TrailTask, log, Done
  <2>5. u = Idle => TrailTask(u, log, version + 1, db.audit)
    BY DEF TrailTask, Idle, Ordering
  <2>6. version' # version
    BY <1>1, BaseFacts
  <2> QED  BY <1>1, <1>2, <1>3, <2>1, <2>2, <2>3, <2>4, <2>5, <2>6 DEF TrailStep, Extends
<1> QED  BY <1>8, <1>9, <1>10, StepHolds

LEMMA CollectHolds ==
  ASSUME All, OpsInv', NEW h \in Handlers, Collect(h)
  PROVE  All'
<1> DEFINE t == task[h]
           batch == RecordsAfter(engine.log, persisted)
           f == [batch |-> batch]
           u == Onward(t, "write", f)
<1>1. /\ up /\ up' = up /\ clean' = clean /\ version' = version /\ requests' = requests
      /\ engine' = engine /\ persisted' = persisted /\ acked' = acked /\ db' = db
      /\ rowVersion' = rowVersion /\ asker' = asker /\ stopped' = stopped
      /\ t.at = "collect" /\ task' = [task EXCEPT ![h] = u]
  BY DEF Collect, At, memory, history, bounds, Goes
<1>2. /\ DOMAIN t = Collected /\ DOMAIN f = {"batch"} /\ t.op \in 1 .. requests /\ t.since \in Nat
      /\ t.since + 1 <= version
  BY <1>1, BaseFacts DEF TaskOk, TaskBase, Numbered, Places, Ordering, Done
<1>3. /\ u.at = "write" /\ u.op = t.op /\ u.snap = t.snap /\ u.since = t.since /\ u.batch = batch
      /\ {"at", "op", "snap", "since"} \subseteq DOMAIN u
  <2>1. "at" \in DOMAIN t /\ {"op", "snap", "since"} \subseteq DOMAIN t \ {"at"}
        /\ "batch" \in DOMAIN f \ DOMAIN t
    BY <1>2 DEF OrderFields, Snapped, Collected
  <2>2. /\ u.at = "write" /\ DOMAIN u = DOMAIN t \cup DOMAIN f
        /\ \A x \in DOMAIN t \ {"at"} : u[x] = t[x]
        /\ \A x \in DOMAIN f \ DOMAIN t : u[x] = f[x]
    <3> HIDE DEF f
    <3> QED  BY <2>1 DEF Onward
  <2>3. f["batch"] = batch
    OBVIOUS
  <2> HIDE DEF u, f, batch
  <2> QED  BY <2>1, <2>2, <2>3
<1> HIDE DEF u, batch
<1>4. /\ u.at \in Ordering /\ u.at \in Places /\ u.at \in Numbered /\ u.at \notin Waiting
      /\ t.at \in Numbered /\ t.at \in Ordering /\ Done(u.at) = 1 /\ Done(t.at) = 1
  BY <1>1, <1>3 DEF Ordering, Places, Numbered, Waiting, Done
<1>5. BaseStep(h, u)
  <2>1. TaskBase(u, asker', requests', version')
    BY <1>1, <1>2, <1>3, <1>4, BaseFacts DEF TaskBase
  <2> QED  BY <1>1, <1>3, <1>4, <2>1, BaseFacts DEF BaseStep
<1>6. StopStep(h, u)
  <2>1. Unmoved(t, version, engine.risk.killed)
    BY DEF All, StopInv
  <2>2. Unmoved(u, version', engine'.risk.killed)
    BY <1>1, <1>3, <1>4, <2>1 DEF Unmoved
  <2> QED  BY <1>1, <1>3, <1>4, <2>2 DEF StopStep
<1>7. TrailStep(h, u)
  <2> SUFFICES ASSUME clean
               PROVE  TrailStep(h, u)
    BY <1>1 DEF TrailStep
  <2>1. /\ LogOk(engine.log) /\ RowsOk(db.audit) /\ Begins(db.audit, engine.log)
        /\ persisted \in Nat /\ 1 .. persisted \subseteq DOMAIN db.audit
        /\ TrailTask(t, engine.log, version, db.audit)
    BY <1>1 DEF All, TrailInv
  <2>2. /\ batch \subseteq Records /\ {r.seq : r \in batch} = persisted + 1 .. engine.log.next
        /\ \A i \in DOMAIN engine.log.records : i > persisted => engine.log.records[i] \in batch
    BY <2>1, CollectedOk DEF batch
  <2>3. engine.log.next \in Nat /\ DOMAIN engine.log.records \subseteq Nat
    BY <2>1 DEF LogOk
  <2>4. (\E r \in batch : r.what = t.op) \/ Present(t.op, db.audit)
    <3>1. PICK i \in DOMAIN engine.log.records : engine.log.records[i].what = t.op
      BY <1>1, <2>1 DEF TrailTask, Present
    <3>2. CASE i > persisted
      BY <2>2, <3>1, <3>2
    <3>3. CASE ~(i > persisted)
      <4>1. i \in 1 .. persisted
        <5>1. DOMAIN engine.log.records = 1 .. engine.log.next
          BY <2>1 DEF LogOk
        <5> QED  BY <2>1, <2>3, <3>3, <5>1
      <4>2. i \in DOMAIN db.audit /\ db.audit[i] = engine.log.records[i]
        BY <2>1, <4>1 DEF Begins
      <4> QED  BY <3>1, <4>2 DEF Present
    <3> QED  BY <3>2, <3>3
  <2>5. TrailTask(u, engine.log, version, db.audit)
    BY <1>1, <1>3, <1>4, <2>1, <2>2, <2>3, <2>4 DEF TrailTask
  <2> QED  BY <1>1, <2>1, <2>5 DEF TrailStep, Extends
<1> QED  BY <1>5, <1>6, <1>7, StepHolds

\* What the write of a task's batch leaves in the table.
LEMMA WrittenOk ==
  ASSUME All, up, clean, NEW h \in Handlers, task[h].at = "write",
         task[h].batch \subseteq ToSet(engine.log.records)
  PROVE  LET new == Inserted(db.audit, task[h].batch)
             top == Highest(task[h].batch, persisted)
         IN  /\ RowsOk(new) /\ Begins(new, engine.log) /\ Extends(db.audit, new)
             /\ top \in Nat /\ 1 .. top \subseteq DOMAIN new /\ 1 .. persisted \subseteq DOMAIN new
             /\ Present(task[h].op, new)
<1> DEFINE t == task[h]
           new == Inserted(db.audit, t.batch)
           top == Highest(t.batch, persisted)
<1>1. /\ LogOk(engine.log) /\ RowsOk(db.audit) /\ Begins(db.audit, engine.log)
      /\ persisted \in Nat /\ 1 .. persisted \subseteq DOMAIN db.audit
      /\ TrailTask(t, engine.log, version, db.audit)
  BY DEF All, TrailInv
<1>2. PICK p \in Nat, m \in Nat : 1 .. p \subseteq DOMAIN db.audit /\ {r.seq : r \in t.batch} = p + 1 .. m
  BY <1>1 DEF TrailTask
<1>3. /\ RowsOk(new) /\ Begins(new, engine.log) /\ Extends(db.audit, new)
      /\ DOMAIN new = DOMAIN db.audit \cup (p + 1 .. m)
      /\ \A r \in t.batch : Present(r.what, new)
  BY <1>1, <1>2, InsertedOk
<1>4. top \in Nat /\ (top = persisted \/ (top = m /\ m > p))
  BY <1>1, <1>2, HighestOk, ZenonT(60)
<1> HIDE DEF new, top
<1>5. 1 .. top \subseteq DOMAIN new
  <2>1. CASE top = persisted
    BY <1>1, <1>3, <2>1
  <2>2. CASE top = m /\ m > p
    <3>1. \A i \in 1 .. m : i \in 1 .. p \/ i \in p + 1 .. m
      BY <1>2
    <3> QED  BY <1>2, <1>3, <2>2, <3>1
  <2> QED  BY <1>4, <2>1, <2>2
<1>6. Present(t.op, new)
  <2>1. CASE \E r \in t.batch : r.what = t.op
    BY <1>3, <2>1
  <2>2. CASE Present(t.op, db.audit)
    BY <1>3, <2>2 DEF Present, Extends
  <2> QED  BY <1>1, <2>1, <2>2 DEF TrailTask
<1> QED  BY <1>1, <1>3, <1>4, <1>5, <1>6 DEF new, top

LEMMA WriteHolds ==
  ASSUME All, OpsInv', NEW h \in Handlers, Write(h)
  PROVE  All'
<1> DEFINE t == task[h]
           new == Inserted(db.audit, t.batch)
           top == Highest(t.batch, persisted)
<1>1. /\ up /\ up' = up /\ version' = version /\ requests' = requests /\ engine' = engine
      /\ rowVersion' = rowVersion /\ asker' = asker /\ stopped' = stopped
      /\ t.at = "write" /\ task' = [task EXCEPT ![h] = Idle]
      /\ persisted' = top /\ acked' = acked \cup {t.op}
      /\ clean' = (clean /\ t.batch \subseteq ToSet(engine.log.records))
      /\ db' = [db EXCEPT !.audit = new]
  BY DEF Write, At, bounds, Goes, Works
<1>2. db'.audit = new /\ db'.risk = db.risk
  BY <1>1, DbParts, BaseFacts
<1> HIDE DEF new, top
<1>3. clean' \in BOOLEAN /\ (clean' => clean /\ t.batch \subseteq ToSet(engine.log.records))
  BY <1>1
<1>4. BaseStep(h, Idle)
  BY <1>1, <1>3, BaseFacts, IdleBase DEF BaseStep
<1>5. StopStep(h, Idle)
  BY <1>1, <1>2, <1>3, IdleBase, QuietStopStep DEF QuietStops, Idle
<1>6. TrailStep(h, Idle)
  <2> SUFFICES ASSUME clean, t.batch \subseteq ToSet(engine.log.records)
               PROVE  TrailStep(h, Idle)
    BY <1>3 DEF TrailStep
  <2>1. /\ RowsOk(new) /\ Begins(new, engine.log) /\ Extends(db.audit, new)
        /\ top \in Nat /\ 1 .. top \subseteq DOMAIN new /\ Present(t.op, new)
    BY <1>1, WrittenOk DEF new, top
  <2>2. LogOk(engine.log)
    BY <1>1 DEF All, TrailInv
  <2>3. TrailTask(Idle, engine'.log, version', db'.audit)
    BY DEF TrailTask, Idle, Ordering
  <2> QED  BY <1>1, <1>2, <2>1, <2>2, <2>3 DEF TrailStep
<1> QED  BY <1>4, <1>5, <1>6, StepHolds

LEMMA WriteFailsHolds ==
  ASSUME All, OpsInv', NEW h \in Handlers, WriteFails(h)
  PROVE  All'
<1> DEFINE t == task[h]
           new == Inserted(db.audit, t.batch)
           f == [row |-> Snapshot(engine'.risk), seen |-> version']
           u == Onward(t, "saveKill", f)
<1>1. /\ up /\ up' = up /\ version' = version + 1 /\ requests' = requests
      /\ rowVersion' = rowVersion /\ asker' = asker /\ stopped' = stopped
      /\ t.at = "write" /\ task' = [task EXCEPT ![h] = u]
      /\ persisted' = persisted /\ acked' = acked
      /\ clean' = (clean /\ t.batch \subseteq ToSet(engine.log.records))
      /\ db' \in {db, [db EXCEPT !.audit = new]}
  BY DEF WriteFails, At, Goes, Breaks, Changes
<1>2. db'.audit \in {db.audit, new} /\ db'.risk = db.risk
  <2>1. LET d == [db EXCEPT !.audit = new] IN d.audit = new /\ d.risk = db.risk
    BY DbParts, BaseFacts
  <2> QED  BY <1>1, <2>1
<1>3. engine'.risk.killed = engine.risk.killed /\ engine'.log = engine.log
  BY EngineParts, BaseFacts DEF WriteFails, Changes
<1>4. /\ DOMAIN t = Batched /\ DOMAIN f = {"row", "seen"} /\ t.op \in 1 .. requests /\ t.since \in Nat
      /\ t.since + 1 <= version
  BY <1>1, BaseFacts DEF TaskOk, TaskBase, Numbered, Places, Ordering, Done
<1>5. /\ u.at = "saveKill" /\ u.op = t.op /\ u.snap = t.snap /\ u.since = t.since
      /\ u.row = Snapshot(engine'.risk) /\ u.seen = version'
      /\ {"at", "op", "snap", "since"} \subseteq DOMAIN u
  <2>1. "at" \in DOMAIN t /\ {"op", "snap", "since"} \subseteq DOMAIN t \ {"at"}
        /\ {"row", "seen"} \subseteq DOMAIN f \ DOMAIN t
    BY <1>4 DEF OrderFields, Snapped, Collected, Batched
  <2>2. /\ u.at = "saveKill" /\ DOMAIN u = DOMAIN t \cup DOMAIN f
        /\ \A x \in DOMAIN t \ {"at"} : u[x] = t[x]
        /\ \A x \in DOMAIN f \ DOMAIN t : u[x] = f[x]
    <3> HIDE DEF f
    <3> QED  BY <2>1 DEF Onward
  <2>3. f["row"] = Snapshot(engine'.risk) /\ f["seen"] = version'
    OBVIOUS
  <2> HIDE DEF u, f
  <2> QED  BY <2>1, <2>2, <2>3
<1> HIDE DEF u, new
<1>6. u.row.killed = engine'.risk.killed
  BY <1>5 DEF Snapshot
<1>7. /\ u.at \in Ordering /\ u.at \in Places /\ u.at \in Numbered /\ u.at \in Waiting
      /\ t.at \in Numbered /\ t.at \in Ordering /\ Done(u.at) = 2 /\ Done(t.at) = 1
  BY <1>1, <1>5 DEF Ordering, Places, Numbered, Waiting, Done
<1>8. clean' \in BOOLEAN /\ (clean' => clean /\ t.batch \subseteq ToSet(engine.log.records))
  BY <1>1
<1>9. BaseStep(h, u)
  <2>1. TaskBase(u, asker', requests', version')
    BY <1>1, <1>4, <1>5, <1>7, BaseFacts DEF TaskBase
  <2> QED  BY <1>1, <1>5, <1>7, <1>8, <2>1, BaseFacts DEF BaseStep
<1>10. StopStep(h, u)
  <2>1. Unmoved(t, version, engine.risk.killed)
    BY DEF All, StopInv
  <2>2. u.since + 2 = version' => t.since + 1 = version
    BY <1>1, <1>4, <1>5, BaseFacts
  <2>3. Unmoved(u, version', engine'.risk.killed)
    BY <1>3, <1>5, <1>7, <2>1, <2>2 DEF Unmoved
  <2> QED  BY <1>1, <1>2, <1>3, <1>5, <1>6, <1>8, <2>3 DEF StopStep
<1>11. TrailStep(h, u)
  <2> SUFFICES ASSUME clean, t.batch \subseteq ToSet(engine.log.records)
               PROVE  TrailStep(h, u)
    BY <1>8 DEF TrailStep
  <2>1. /\ RowsOk(new) /\ Begins(new, engine.log) /\ Extends(db.audit, new)
        /\ 1 .. persisted \subseteq DOMAIN new
    BY <1>1, WrittenOk DEF new
  <2>2. /\ LogOk(engine.log) /\ RowsOk(db.audit) /\ Begins(db.audit, engine.log)
        /\ persisted \in Nat /\ 1 .. persisted \subseteq DOMAIN db.audit
        /\ TrailTask(t, engine.log, version, db.audit)
    BY <1>1 DEF All, TrailInv
  <2>3. /\ RowsOk(db'.audit) /\ Begins(db'.audit, engine.log) /\ Extends(db.audit, db'.audit)
        /\ 1 .. persisted \subseteq DOMAIN db'.audit
    BY <1>2, <2>1, <2>2 DEF Extends
  <2>4. TrailTask(u, engine.log, version', db'.audit)
    <3>1. u.since + 2 = version' => t.since + 1 = version
      BY <1>1, <1>4, <1>5, BaseFacts
    <3> QED  BY <1>1, <1>5, <1>7, <2>2, <3>1 DEF TrailTask
  <2> QED  BY <1>1, <1>3, <2>2, <2>3, <2>4 DEF TrailStep
<1> QED  BY <1>9, <1>10, <1>11, StepHolds

LEMMA SaveKillHolds ==
  ASSUME All, OpsInv', NEW h \in Handlers, SaveKill(h)
  PROVE  All'
<1> DEFINE t == task[h]
           u == [t EXCEPT !.at = "rollback"]
<1>1. /\ up /\ up' = up /\ version' = version /\ requests' = requests
      /\ engine' = engine /\ persisted' = persisted /\ acked' = acked
      /\ asker' = asker /\ stopped' = stopped /\ t.at = "saveKill"
      /\ task' = [task EXCEPT ![h] = u]
  BY DEF SaveKill, At, memory, bounds, Works, Breaks, Goes
<1>2. PICK saved \in BOOLEAN, noted \in BOOLEAN :
        /\ IF saved THEN rowVersion' = t.seen /\ clean' = (clean /\ t.seen >= rowVersion)
           ELSE rowVersion' = rowVersion /\ clean' = clean
        /\ LET d == IF saved THEN Upserted(db, t) ELSE db
           IN  db' = IF noted THEN [d EXCEPT !.opsAudit = @ \cup {t.op}] ELSE d
  BY DEF SaveKill, Upserts
<1>3. db'.audit = db.audit /\ db'.risk = IF saved THEN {t.row} ELSE db.risk
  <2> DEFINE d == IF saved THEN Upserted(db, t) ELSE db
  <2>1. RowShape(t.row)
    BY <1>1, BaseFacts DEF TaskOk
  <2>2. DbOk(d) /\ d.audit = db.audit /\ d.risk = IF saved THEN {t.row} ELSE db.risk
    BY <2>1, DbShapes, DbParts, BaseFacts, ZenonT(60)
  <2>3. db' = IF noted THEN [d EXCEPT !.opsAudit = d.opsAudit \cup {t.op}] ELSE d
    BY <1>2
  <2> HIDE DEF d
  <2>4. \A x : LET g == [d EXCEPT !.opsAudit = x] IN g.audit = d.audit /\ g.risk = d.risk
    BY <2>2, DbParts
  <2> QED  BY <2>2, <2>3, <2>4
<1>4. /\ {"at", "op", "snap", "since"} \subseteq DOMAIN t /\ t.op \in 1 .. requests
      /\ t.seen \in Nat /\ t.seen <= version /\ t.since \in Nat /\ t.since + 2 <= version
  BY <1>1, BaseFacts DEF TaskBase, Numbered, Places, Ordering, Waiting, Done
<1>5. /\ u.at = "rollback" /\ u.op = t.op /\ u.snap = t.snap /\ u.since = t.since
      /\ {"at", "op", "snap", "since"} \subseteq DOMAIN u
  BY <1>4
<1> HIDE DEF u
<1>6. /\ u.at \in Ordering /\ u.at \in Places /\ u.at \in Numbered /\ u.at \notin Waiting
      /\ t.at \in Numbered /\ t.at \in Ordering /\ t.at \in Waiting /\ Done(u.at) = 2 /\ Done(t.at) = 2
  BY <1>1, <1>5 DEF Ordering, Places, Numbered, Waiting, Done
<1>7. /\ clean' \in BOOLEAN /\ (clean' => clean)
      /\ rowVersion' \in Nat /\ rowVersion' <= version
  BY <1>2, <1>4, BaseFacts
<1>8. BaseStep(h, u)
  <2>1. TaskBase(u, asker', requests', version')
    BY <1>1, <1>4, <1>5, <1>6, BaseFacts DEF TaskBase
  <2> QED  BY <1>1, <1>5, <1>6, <1>7, <2>1, BaseFacts DEF BaseStep
<1>9. StopStep(h, u)
  <2>1. Unmoved(t, version, engine.risk.killed)
    BY DEF All, StopInv
  <2>2. Unmoved(u, version', engine'.risk.killed)
    BY <1>1, <1>5, <1>6, <2>1 DEF Unmoved
  <2>3. \/ rowVersion' = rowVersion /\ db'.risk = db.risk
        \/ /\ db'.risk = {t.row} /\ rowVersion' = t.seen
           /\ clean' => rowVersion <= t.seen
    BY <1>2, <1>3, <1>4, BaseFacts
  <2> QED  BY <1>1, <1>5, <1>6, <1>7, <2>2, <2>3 DEF StopStep
<1>10. TrailStep(h, u)
  <2> SUFFICES ASSUME clean
               PROVE  TrailStep(h, u)
    BY <1>7 DEF TrailStep
  <2>1. TrailTask(t, engine.log, version, db.audit)
    BY DEF All, TrailInv
  <2>2. TrailTask(u, engine.log, version, db.audit)
    BY <1>1, <1>5, <1>6, <2>1 DEF TrailTask
  <2> QED  BY <1>1, <1>3, <2>2 DEF TrailStep, All, TrailInv, Extends
<1> QED  BY <1>8, <1>9, <1>10, StepHolds

LEMMA RollbackHolds ==
  ASSUME All, OpsInv', NEW h \in Handlers, Rollback(h)
  PROVE  All'
<1> DEFINE t == task[h]
<1>1. /\ up /\ up' = up /\ version' = version + 1 /\ requests' = requests
      /\ persisted' = persisted /\ acked' = acked /\ db' = db /\ rowVersion' = rowVersion
      /\ asker' = asker /\ stopped' = stopped /\ t.at = "rollback"
      /\ task' = [task EXCEPT ![h] = Idle]
      /\ clean' = (clean /\ version = t.since + 2 /\ LastSeq(db.audit) <= t.snap.log.next)
  BY DEF Rollback, At, bounds, Changes, Goes
<1>2. t.op \in 1 .. requests /\ EngineShape(t.snap) /\ t.at \in Numbered /\ t.at \in Ordering
      /\ Done(t.at) = 2 /\ t.since \in Nat
  BY <1>1, BaseFacts DEF TaskBase, TaskOk, Numbered, Places, Ordering, Done
<1>3. engine'.risk.killed = t.snap.risk.killed /\ engine'.log = t.snap.log
  BY <1>2, EngineParts DEF Rollback, Changes
<1>4. clean' => clean /\ version = t.since + 2 /\ LastSeq(db.audit) <= t.snap.log.next
  BY <1>1
<1>5. clean' => engine'.risk.killed = engine.risk.killed
  BY <1>2, <1>3, <1>4 DEF All, StopInv, Unmoved
<1>6. version' # version
  BY <1>1, BaseFacts
<1>7. BaseStep(h, Idle)
  <2>1. clean' \in BOOLEAN
    BY <1>1
  <2> QED  BY <1>1, <2>1, BaseFacts, IdleBase DEF BaseStep
<1>8. StopStep(h, Idle)
  <2>1. Idle.at \notin Waiting /\ Idle.at \notin {"upsert", "note"} /\ Unmoved(Idle, version', engine'.risk.killed)
    BY IdleBase DEF Unmoved, Idle
  <2> QED  BY <1>1, <1>4, <1>5, <1>6, <2>1 DEF StopStep
<1>9. TrailStep(h, Idle)
  <2> SUFFICES ASSUME clean, version = t.since + 2, LastSeq(db.audit) <= t.snap.log.next
               PROVE  TrailStep(h, Idle)
    BY <1>4 DEF TrailStep
  <2>1. /\ LogOk(engine.log) /\ RowsOk(db.audit) /\ Begins(db.audit, engine.log)
        /\ persisted \in Nat /\ 1 .. persisted \subseteq DOMAIN db.audit
        /\ TrailTask(t, engine.log, version, db.audit)
    BY <1>1 DEF All, TrailInv
  <2>2. LogOk(t.snap.log) /\ engine.log = Recorded(t.snap.log, t.op)
    BY <1>1, <1>2, <2>1 DEF TrailTask
  <2>3. /\ Extends(t.snap.log.records, engine.log.records)
        /\ \A x : Present(x, engine.log.records) => Present(x, t.snap.log.records) \/ x = t.op
    <3>1. t.op \in Nat
      BY <1>2
    <3> QED  BY <2>2, <3>1, RecordedOk
  <2>4. Begins(db.audit, t.snap.log)
    <3>1. 1 .. LastSeq(db.audit) = DOMAIN db.audit /\ LastSeq(db.audit) \in Nat
      BY <2>1, RestoredOk
    <3>2. DOMAIN t.snap.log.records = 1 .. t.snap.log.next /\ t.snap.log.next \in Nat
      BY <2>2 DEF LogOk
    <3>3. \A i \in DOMAIN db.audit : i \in DOMAIN t.snap.log.records
      BY <3>1, <3>2
    <3> QED  BY <2>1, <2>3, <3>3 DEF Begins, Extends
  <2>5. TrailTask(Idle, engine'.log, version', db'.audit)
    BY DEF TrailTask, Idle, Ordering
  <2> QED  BY <1>1, <1>2, <1>3, <1>6, <2>1, <2>2, <2>3, <2>4, <2>5 DEF TrailStep, Extends
<1> QED  BY <1>7, <1>8, <1>9, StepHolds

-----------------------------------------------------------------------------
(* The process, and all together.                                          *)

LEMMA AllInit == Init => All
<1> SUFFICES ASSUME Init
             PROVE  All
  OBVIOUS
<1>1. /\ \A h \in Handlers : task[h] = Idle
      /\ version = 0 /\ rowVersion = 0 /\ requests = 0 /\ up = TRUE /\ clean = TRUE /\ persisted = 0
      /\ asker \in [Accounts -> 0 .. 0] /\ stopped = {} /\ acked = {}
      /\ db.risk = {} /\ db.audit = NoRows /\ \A a \in Accounts : asker[a] = 0
  BY DEF Init
<1>2. Base
  BY <1>1, IdleBase DEF Base
<1>3. \A h \in Handlers : task[h].at = "idle"
  BY <1>1 DEF Idle
<1>4. StopInv
  BY <1>1, <1>3 DEF StopInv, Unmoved, Ordering
<1>5. RowsOk(db.audit) /\ DOMAIN db.audit = {}
  <2>1. NoRows \in [1 .. 0 -> Records]
    BY DEF NoRows
  <2>2. DOMAIN NoRows = {}
    BY DEF NoRows
  <2> QED  BY <1>1, <2>1, <2>2 DEF RowsOk, ChainOk
<1>6. LogOk(engine.log)
  <2>1. engine.log = [records |-> <<>>, next |-> 0, last |-> GENESIS]
    BY DEF Init, NewEngine, EmptyLog
  <2> QED  BY <2>1 DEF LogOk, ChainOk
<1>7. TrailInv
  BY <1>1, <1>3, <1>5, <1>6 DEF TrailInv, TrailTask, Ordering, Begins
<1> QED  BY <1>2, <1>4, <1>7, OpsInit DEF All

LEMMA CrashHolds ==
  ASSUME All, OpsInv', Crash
  PROVE  All'
<1>1. /\ up' = FALSE /\ up /\ task' = [h \in Handlers |-> Idle] /\ persisted' = 0
      /\ db' = db /\ requests' = requests /\ version' = version /\ rowVersion' = rowVersion
      /\ asker' = asker /\ stopped' = stopped /\ acked' = acked /\ clean' = clean
  BY DEF Crash, history
<1>2. \A h \in Handlers : task'[h] = Idle /\ task'[h].at = "idle"
  BY <1>1 DEF Idle
<1>3. Base'
  BY <1>1, <1>2, IdleBase, BaseFacts DEF Base, Numbered
<1>4. StopInv'
  <2>1. ASSUME NEW a \in Accounts, clean, a \in stopped
        PROVE  Backs(a, rowVersion, FALSE, engine'.risk.killed, task', db.risk, rowVersion)
    <3>1. rowVersion >= rowVersion
      BY BaseFacts
    <3> QED  BY <1>2, <2>1, <3>1 DEF All, StopInv, Backed, Backs, Waiting
  <2>2. \A row1, row2 \in db'.risk : row1 = row2
    BY <1>1 DEF All, StopInv
  <2>3. \A h \in Handlers : Unmoved(task'[h], version', engine'.risk.killed)
    BY <1>2 DEF Unmoved, Ordering
  <2> QED  BY <1>1, <1>2, <2>1, <2>2, <2>3 DEF StopInv, Backed
<1>5. TrailInv'
  <2>1. \A h \in Handlers : TrailTask(task'[h], engine'.log, version', db'.audit)
    BY <1>2 DEF TrailTask, Ordering
  <2> QED  BY <1>1, <2>1 DEF TrailInv, All
<1> QED  BY <1>3, <1>4, <1>5 DEF All

LEMMA RestartHolds ==
  ASSUME All, OpsInv', Restart
  PROVE  All'
<1> DEFINE Row(id) == db.approvals[id]
           granted == {<<Row(id).account, Row(id).instrument>> :
                         id \in {x \in DOMAIN db.approvals : Row(x).approved # "none"}}
           hydrated == IF db.risk = {} THEN NewEngine.risk
                       ELSE Restored(NewEngine.risk, CHOOSE row \in db.risk : TRUE)
           opened == [hydrated EXCEPT !.overrides = @ \cup granted]
<1>1. /\ ~up /\ up' = TRUE /\ task' = task /\ persisted' = LastSeq(db.audit)
      /\ db' = db /\ requests' = requests /\ version' = version + 1 /\ rowVersion' = rowVersion
      /\ asker' = asker /\ stopped' = stopped /\ acked' = acked /\ clean' = clean
      /\ engine' = [risk |-> opened, log |-> RestoredLog(db.audit)]
  BY DEF Restart, Changes, bounds
<1>2. engine'.log = RestoredLog(db.audit) /\ engine'.risk = opened
  BY <1>1
<1>3. \A row \in db.risk : engine'.risk.killed = row.killed
  <2> SUFFICES ASSUME NEW row \in db.risk
               PROVE  engine'.risk.killed = row.killed
    OBVIOUS
  <2>1. hydrated = Restored(NewEngine.risk, row)
    <3>1. db.risk # {} /\ (CHOOSE x \in db.risk : TRUE) = row
      BY DEF All, StopInv
    <3> QED  BY <3>1
  <2>2. hydrated.killed = row.killed /\ DOMAIN hydrated = {"kill", "killed", "restricted", "overrides", "limit"}
    BY <2>1 DEF Restored
  <2> HIDE DEF hydrated, granted
  <2> QED  BY <1>2, <2>2
<1> HIDE DEF opened
<1>4. \A h \in Handlers : task[h].at = "idle"
  BY <1>1 DEF All, Base
<1>5. Base'
  <2>1. \A h \in Handlers : TaskBase(task[h], asker, requests, version + 1)
    BY <1>4 DEF TaskBase, Places, Numbered, Ordering, Waiting
  <2>2. \A h \in Handlers : task[h].at \notin Numbered
    BY <1>4 DEF Numbered
  <2> QED  BY <1>1, <2>1, <2>2, BaseFacts DEF Base
<1>6. StopInv'
  <2>1. ASSUME NEW a \in Accounts, clean, a \in stopped
        PROVE  Backs(a, rowVersion, TRUE, engine'.risk.killed, task, db.risk, rowVersion)
    <3>1. rowVersion >= rowVersion
      BY BaseFacts
    <3>2. PICK row \in db.risk : a \in row.killed
      BY <2>1, <3>1 DEF All, StopInv, Backed, Backs
    <3> QED  BY <1>3, <1>4, <3>2 DEF Backs, Waiting
  <2>2. \A row1, row2 \in db'.risk : row1 = row2
    BY <1>1 DEF All, StopInv
  <2>3. \A h \in Handlers : Unmoved(task'[h], version', engine'.risk.killed)
    BY <1>1, <1>4 DEF Unmoved, Ordering
  <2> QED  BY <1>1, <1>4, <2>1, <2>2, <2>3 DEF StopInv, Backed
<1>7. TrailInv'
  <2> SUFFICES ASSUME clean
               PROVE  TrailInv'
    BY <1>1 DEF TrailInv
  <2>1. RowsOk(db.audit)
    BY DEF All, TrailInv
  <2>2. LogOk(engine'.log) /\ Begins(db.audit, engine'.log)
        /\ persisted' \in Nat /\ 1 .. persisted' \subseteq DOMAIN db.audit
    BY <1>1, <1>2, <2>1, RestoredOk
  <2>3. \A h \in Handlers : TrailTask(task[h], engine'.log, version', db.audit)
    BY <1>4 DEF TrailTask, Ordering
  <2> QED  BY <1>1, <2>1, <2>2, <2>3 DEF TrailInv, All
<1> QED  BY <1>5, <1>6, <1>7 DEF All

LEMMA AllNext == All /\ [Next]_vars => All'
<1> SUFFICES ASSUME All, [Next]_vars
             PROVE  All'
  OBVIOUS
<1>1. OpsInv'
  BY OpsNext DEF All
<1>2. ASSUME NEW h \in Handlers,
             \/ ArriveOrder(h) \/ TakeSnapshot(h) \/ SubmitOrder(h) \/ Collect(h) \/ Write(h)
             \/ WriteFails(h) \/ SaveKill(h) \/ Rollback(h)
      PROVE  All'
  BY <1>1, <1>2, ArriveOrderHolds, TakeSnapshotHolds, SubmitOrderHolds, CollectHolds, WriteHolds,
     WriteFailsHolds, SaveKillHolds, RollbackHolds
<1>3. ASSUME NEW h \in Handlers,
             \/ PatchRisk(h) \/ UpsertRisk(h) \/ Note(h)
             \/ RequestApproval(h) \/ FileApproval(h) \/ ApproveInMemory(h) \/ ApproveRow(h)
             \/ GrantOverride(h)
      PROVE  All'
  BY <1>1, <1>3, PatchRiskHolds, UpsertRiskHolds, NoteHolds, RequestApprovalHolds,
     FileApprovalHolds, ApproveInMemoryHolds, ApproveRowHolds, GrantOverrideHolds
<1>4. CASE Crash
  BY <1>1, <1>4, CrashHolds
<1>5. CASE Restart
  BY <1>1, <1>5, RestartHolds
<1>6. CASE UNCHANGED vars
  <2>1. /\ task' = task /\ version' = version /\ rowVersion' = rowVersion /\ requests' = requests
        /\ asker' = asker /\ stopped' = stopped /\ up' = up /\ clean' = clean /\ engine' = engine
        /\ db' = db /\ persisted' = persisted /\ acked' = acked
    BY <1>6 DEF vars, memory, bounds, history
  <2>2. Base'
    BY <2>1 DEF All, Base
  <2>3. StopInv'
    BY <2>1 DEF All, StopInv, Backed, Backs
  <2>4. TrailInv'
    BY <2>1 DEF All, TrailInv
  <2> QED  BY <1>1, <2>2, <2>3, <2>4 DEF All
<1> QED  BY <1>2, <1>3, <1>4, <1>5, <1>6 DEF Next

LEMMA AlwaysAll == Spec => []All
BY AllInit, AllNext, PTL DEF Spec

\* Operators' stops (post_risk, apply_store_hydrate): however requests, patches, late
\* risk rows, failed writes, crashes and restarts interleave, an account whose stop was
\* acknowledged does not trade until it is lifted, while nothing was overtaken or undone.
THEOREM StopsHold == Spec => []StopHolds
<1>1. All => StopHolds
  <2> SUFFICES ASSUME All, up, clean, NEW a \in stopped
               PROVE  a \in engine.risk.killed
    BY DEF StopHolds
  <2> QED  BY BaseFacts DEF All, StopInv, Backed, Backs
<1> QED  BY <1>1, AlwaysAll, PTL

\* The durable audit trail (must_persist, insert_audit_record_tx, load_audit_after): with
\* any number of requests writing overlapping batches, lost answers, rollbacks and
\* restarts, its numbers have no hole and its hashes link, under the same exception.
THEOREM TrailHolds == Spec => []TrailIntact
<1>1. All => TrailIntact
  BY RestoredOk DEF All, TrailInv, TrailIntact
<1> QED  BY <1>1, AlwaysAll, PTL

\* What a request was answered for is in that trail, whoever's batch carried it there.
THEOREM AckedOnRecord == Spec => []AckedIsOnRecord
<1>1. All => AckedIsOnRecord
  BY DEF All, TrailInv, AckedIsOnRecord, Present
<1> QED  BY <1>1, AlwaysAll, PTL
=============================================================================
