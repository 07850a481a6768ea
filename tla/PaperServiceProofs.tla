------------------------- MODULE PaperServiceProofs -------------------------
(***************************************************************************)
(* Proofs about the order gateway around a paper session, for any          *)
(* accounts, handlers, requests and venue faults: a failed write stops     *)
(* trading until an operator clears it; and while requests are served one  *)
(* at a time, what was acknowledged is in Postgres and in the engine, and  *)
(* Postgres never knows more than the engine.                              *)
(*                                                                         *)
(* Most of it is about the calls of the engine: whatever reports the venue *)
(* has queued and wherever a call stops, it keeps every order and every    *)
(* journal entry, takes back no fill, and never lowers the kill switch     *)
(* (Advances).                                                             *)
(***************************************************************************)
EXTENDS PaperService, NaturalsInduction, WellFoundedInduction, TLAPS

-----------------------------------------------------------------------------
(* What is well formed.                                                    *)

OrderFields ==
  {"account", "client", "side", "tif", "status", "qty", "price", "cum", "leaves", "avg",
   "acked", "execs"}

OrderOk(o) == DOMAIN o = OrderFields /\ o.qty \in Int /\ o.price \in Int /\ o.cum \in Int

ReportTypes == {"New", "Rejected", "Trade", "Canceled", "Replaced", "Expired", "CancelReject"}

Reports ==
  [order : Nat, type : ReportTypes, exec : Nat, qty : Int, price : Int, session : Nat, seq : Nat]

Sims == [qty : Int, price : Int, cum : Int, canceled : BOOLEAN]

VenueFields ==
  {"connected", "session", "nextSeq", "nextExec", "now", "faults", "inflight", "scheduled",
   "outbox", "history"}

FaultsOk(faults) == faults.first \in Int /\ faults.fillPolicy \in {"Rest", "Full", "Split"}

VenueOk(v) ==
  /\ DOMAIN v = VenueFields
  /\ v.session \in Nat /\ v.nextSeq \in Nat /\ v.nextExec \in Nat /\ FaultsOk(v.faults)
  /\ \A id \in DOMAIN v.inflight : v.inflight[id] \in Sims
  /\ v.outbox \in Seq(Reports) /\ v.history \in Seq(Reports)

FundsOps == {"deposit", "withdraw"}

Money(r) == IF r.op = "deposit" THEN r.amount ELSE -r.amount

\* An entry under the key of a deposit or withdrawal is that of a request.
EntryOk(e) ==
  e.key.kind \in FundsOps =>
    \E r \in Requests :
      /\ r.op \in FundsOps /\ e.key = FundsKey(r)
      /\ e.account = r.account /\ e.cash = Money(r)

BookFields ==
  {"entries", "cash", "reserved", "funding", "settlement", "fees", "position", "posReserved"}

BookOk(b) == DOMAIN b = BookFields /\ \A e \in b.entries : EntryOk(e)

EngFields ==
  {"orders", "byClient", "nextId", "book", "remCash", "remLots", "venue", "kill", "session",
   "nextSeq"}

OrdersOk(orders) == \A id \in DOMAIN orders : OrderOk(orders[id])

EngOk(e) ==
  /\ DOMAIN e = EngFields
  /\ e.nextId \in Nat /\ e.kill \in BOOLEAN
  /\ DOMAIN e.orders \subseteq 1 .. e.nextId /\ OrdersOk(e.orders)
  /\ \A k \in DOMAIN e.byClient : e.byClient[k] \in DOMAIN e.orders
  /\ BookOk(e.book) /\ VenueOk(e.venue)

\* Orders b knows every order of a at least as well.
Carries(a, b) == \A id \in DOMAIN a : Knows(b, id, a[id])

\* Book c is well formed and has the entries of b.
BookGrows(b, c) == BookOk(c) /\ b.entries \subseteq c.entries

\* What an engine call may do to the session e.
Advances(e, x) ==
  /\ EngOk(x)
  /\ e.kill => x.kill
  /\ Carries(e.orders, x.orders)
  /\ e.book.entries \subseteq x.book.entries
  /\ DOMAIN e.byClient \subseteq DOMAIN x.byClient

-----------------------------------------------------------------------------
(* Orders.                                                                 *)

\* A later version of an order, as Knows has it.
Grows(o, p) ==
  /\ SameClient(p, o)
  /\ o.execs \subseteq p.execs /\ o.cum <= p.cum
  /\ o.status \in IsTerminal => p = o

LEMMA AppliedGrows ==
  ASSUME NEW o, OrderOk(o), NEW ev, ev.qty \in Int, ev.price \in Int, ApplyError(o, ev) = "none"
  PROVE  OrderOk(Applied(o, ev)) /\ Grows(o, Applied(o, ev))
<1> DEFINE p == Applied(o, ev)
<1>1. LegalTransition(o.status, ev.type)
  BY DEF ApplyError
<1>2. o.status \notin IsTerminal /\ ev.type \in EventTypes
  BY <1>1 DEF LegalTransition, IsTerminal, IsWorking, EventTypes
<1>3. o.qty \in Int /\ o.price \in Int /\ o.cum \in Int /\ DOMAIN o = OrderFields
  BY DEF OrderOk
<1>4. /\ DOMAIN p = OrderFields /\ p.qty \in Int /\ p.price \in Int /\ p.cum \in Int
      /\ p.account = o.account /\ p.client = o.client
      /\ o.execs \subseteq p.execs /\ o.cum <= p.cum
  <2>1. CASE ev.type = "Accepted"
    <3>1. p = [o EXCEPT !.status = "New", !.acked = TRUE]
      BY <2>1 DEF Applied
    <3> HIDE DEF p
    <3> QED BY <1>3, <3>1 DEF OrderFields
  <2>2. CASE ev.type = "Rejected"
    BY <1>3, <2>2 DEF Applied, OrderFields
  <2>3. CASE ev.type = "Trade"
    <3>1. p = ApplyTrade(o, ev)
      BY <2>3 DEF Applied
    <3>2. ev.qty > 0
      BY <1>1, <1>3, <2>3 DEF ApplyError, TradeError
    <3> HIDE DEF p
    <3>3. /\ DOMAIN p = OrderFields /\ p.qty = o.qty /\ p.price = o.price
          /\ p.account = o.account /\ p.client = o.client /\ p.cum = o.cum + ev.qty
          /\ p.execs = o.execs \cup {ev.exec}
      BY <1>3, <3>1 DEF ApplyTrade, OrderFields
    <3> QED BY <1>3, <3>2, <3>3
  <2>4. CASE ev.type \in {"CancelRequested", "Canceled", "ReplaceRequested", "Expired"}
    BY <1>3, <2>4 DEF Applied, OrderFields
  <2>5. CASE ev.type = "Replaced"
    <3>1. p = ApplyReplaced(o, ev)
      BY <2>5 DEF Applied
    <3> HIDE DEF p
    <3> QED BY <1>3, <3>1 DEF ApplyReplaced, OrderFields
  <2> QED BY <1>2, <2>1, <2>2, <2>3, <2>4, <2>5 DEF EventTypes
<1> HIDE DEF p
<1> QED BY <1>2, <1>4 DEF OrderOk, Grows, SameClient, p

LEMMA GrowsRefl ==
  ASSUME NEW o, OrderOk(o)
  PROVE  Grows(o, o)
BY DEF Grows, OrderOk, SameClient

LEMMA GrowsTrans ==
  ASSUME NEW o, NEW p, NEW q, OrderOk(o), OrderOk(p), OrderOk(q), Grows(o, p), Grows(p, q)
  PROVE  Grows(o, q)
<1>1. o.cum \in Int /\ p.cum \in Int /\ q.cum \in Int
  BY DEF OrderOk
<1>2. o.status \in IsTerminal => q = o
  BY DEF Grows
<1> QED BY <1>1, <1>2 DEF Grows, SameClient

LEMMA KnowsIsGrows ==
  ASSUME NEW orders, NEW id, NEW o
  PROVE  Knows(orders, id, o) <=> id \in DOMAIN orders /\ Grows(o, orders[id])
BY DEF Knows, Grows

\* Knowing passes to a store that carries the orders known.
LEMMA KnowsOn ==
  ASSUME NEW a, NEW b, NEW id, NEW o, OrderOk(o), OrdersOk(a), OrdersOk(b),
         Knows(a, id, o), Carries(a, b)
  PROVE  Knows(b, id, o)
<1>1. id \in DOMAIN a /\ Grows(o, a[id]) /\ Knows(b, id, a[id])
  BY KnowsIsGrows DEF Carries
<1>2. id \in DOMAIN b /\ Grows(a[id], b[id])
  BY <1>1, KnowsIsGrows
<1> QED BY <1>1, <1>2, GrowsTrans, KnowsIsGrows DEF OrdersOk

LEMMA CarriesRefl ==
  ASSUME NEW a, OrdersOk(a)
  PROVE  Carries(a, a)
BY GrowsRefl, KnowsIsGrows DEF Carries, OrdersOk

LEMMA CarriesTrans ==
  ASSUME NEW a, NEW b, NEW c, Carries(a, b), Carries(b, c), OrdersOk(a), OrdersOk(b), OrdersOk(c)
  PROVE  Carries(a, c)
<1> SUFFICES ASSUME NEW i \in DOMAIN a PROVE Knows(c, i, a[i])
  BY DEF Carries
<1>1. Knows(b, i, a[i]) /\ OrderOk(a[i])
  BY DEF Carries, OrdersOk
<1> QED BY <1>1, KnowsOn

LEMMA AdvancesRefl ==
  ASSUME NEW e, EngOk(e)
  PROVE  Advances(e, e)
BY CarriesRefl DEF Advances, EngOk

LEMMA AdvancesTrans ==
  ASSUME NEW e, NEW x, NEW y, EngOk(e), Advances(e, x), Advances(x, y)
  PROVE  Advances(e, y)
<1>1. Carries(e.orders, y.orders)
  BY CarriesTrans DEF Advances, EngOk
<1> QED BY <1>1 DEF Advances

\* A call that leaves the orders alone.
LEMMA SameOrders ==
  ASSUME NEW e, NEW x, EngOk(e), DOMAIN x = EngFields,
         x.orders = e.orders, x.byClient = e.byClient, x.nextId = e.nextId,
         BookGrows(e.book, x.book), VenueOk(x.venue),
         x.kill \in BOOLEAN, e.kill => x.kill
  PROVE  Advances(e, x)
<1>1. EngOk(x)
  BY DEF EngOk, BookGrows
<1>2. Carries(e.orders, x.orders)
  BY CarriesRefl DEF EngOk
<1> QED BY <1>1, <1>2 DEF Advances, BookGrows

-----------------------------------------------------------------------------
(* The venue: its commands keep it well formed, and with it the reports    *)
(* it has queued and remembers.                                            *)

\* The venue after a step that takes no order in and none out.
VenueKeeps(v, w) == VenueOk(w) /\ DOMAIN w.inflight = DOMAIN v.inflight

LEMMA NextReportOk ==
  ASSUME NEW v, VenueOk(v), NEW id \in Nat, NEW type \in ReportTypes, NEW exec \in Nat,
         NEW qty \in Int, NEW price \in Int
  PROVE  NextReport(v, id, type, exec, qty, price) \in Reports
BY DEF NextReport, Reports, VenueOk

LEMMA RecordKeeps ==
  ASSUME NEW v, VenueOk(v), NEW r \in Reports
  PROVE  VenueKeeps(v, Record(v, r)) /\ Record(v, r).inflight = v.inflight
<1> DEFINE w == Record(v, r)
<1>1. w = [v EXCEPT !.nextSeq = @ + 1, !.history = Append(@, r),
                    !.nextExec = IF r.type = "Trade" THEN @ + 1 ELSE @]
  BY DEF Record
<1>2. DOMAIN v = VenueFields
  BY DEF VenueOk
<1> HIDE DEF w
<1>3. /\ DOMAIN w = VenueFields /\ w.session = v.session /\ w.nextSeq = v.nextSeq + 1
      /\ w.nextExec = (IF r.type = "Trade" THEN v.nextExec + 1 ELSE v.nextExec)
      /\ w.faults = v.faults /\ w.inflight = v.inflight /\ w.outbox = v.outbox
      /\ w.history = Append(v.history, r)
  BY <1>1, <1>2 DEF VenueFields
<1>4. Append(v.history, r) \in Seq(Reports)
  BY DEF VenueOk
<1>5. VenueKeeps(v, w)
  BY <1>3, <1>4 DEF VenueKeeps, VenueOk
<1> QED BY <1>3, <1>5 DEF w

LEMMA OutboxKeeps ==
  ASSUME NEW v, VenueOk(v), NEW s \in Seq(Reports)
  PROVE  VenueKeeps(v, [v EXCEPT !.outbox = s])
BY DEF VenueKeeps, VenueOk, VenueFields

LEMMA InflightOk ==
  ASSUME NEW v, VenueOk(v), NEW f, \A id \in DOMAIN f : f[id] \in Sims
  PROVE  /\ VenueOk([v EXCEPT !.inflight = f])
         /\ DOMAIN [v EXCEPT !.inflight = f].inflight = DOMAIN f
BY DEF VenueOk, VenueFields

LEMMA ScheduleKeeps ==
  ASSUME NEW v, VenueOk(v), NEW t, NEW reports
  PROVE  VenueKeeps(v, Schedule(v, t, reports))
BY DEF VenueKeeps, VenueOk, VenueFields, Schedule

LEMMA VenueKeepsTrans ==
  ASSUME NEW v, NEW w, NEW x, VenueKeeps(v, w), VenueKeeps(w, x)
  PROVE  VenueKeeps(v, x)
BY DEF VenueKeeps

LEMMA EmitKeeps ==
  ASSUME NEW v, VenueOk(v), NEW id \in Nat, NEW type \in ReportTypes, NEW qty \in Int, NEW price \in Int
  PROVE  VenueKeeps(v, Emit(v, id, type, qty, price))
<1> DEFINE r == NextReport(v, id, type, 0, qty, price)
           w == Record(v, r)
<1>1. r \in Reports
  BY NextReportOk
<1> HIDE DEF r
<1>2. VenueKeeps(v, w) /\ VenueOk(w)
  BY <1>1, RecordKeeps DEF VenueKeeps
<1>3. Emit(v, id, type, qty, price) = [w EXCEPT !.outbox = Append(w.outbox, r)]
  BY DEF Emit, r
<1> HIDE DEF w
<1>4. Append(w.outbox, r) \in Seq(Reports)
  BY <1>1, <1>2 DEF VenueOk
<1>5. VenueKeeps(w, [w EXCEPT !.outbox = Append(w.outbox, r)])
  BY <1>2, <1>4, OutboxKeeps
<1> QED BY <1>2, <1>3, <1>5, VenueKeepsTrans

LEMMA TradeReportOk ==
  ASSUME NEW v, VenueOk(v), NEW id \in Nat, id \in DOMAIN v.inflight, NEW qty \in Int
  PROVE  TradeReport(v, id, qty) \in Reports
<1>1. v.nextExec \in Nat /\ v.inflight[id].price \in Int
  BY DEF VenueOk, Sims
<1>2. "Trade" \in ReportTypes
  BY DEF ReportTypes
<1>3. NextReport(v, id, "Trade", v.nextExec, qty, v.inflight[id].price) \in Reports
  BY <1>1, <1>2, NextReportOk, Zenon
<1> QED BY <1>3 DEF TradeReport

LEMMA EnqueueKeeps ==
  ASSUME NEW v, VenueOk(v), NEW r \in Reports
  PROVE  VenueKeeps(v, EnqueueFill(v, r))
<1> DEFINE copies == IF v.faults.duplicateExec THEN <<r, r>> ELSE <<r>>
<1>1. copies \in Seq(Reports)
  OBVIOUS
<1>2. EnqueueFill(v, r) = [v EXCEPT !.outbox = v.outbox \o copies]
      \/ EnqueueFill(v, r) = Schedule(v, v.now + v.faults.delayTicks, copies)
  BY DEF EnqueueFill
<1> HIDE DEF copies
<1>3. v.outbox \o copies \in Seq(Reports)
  BY <1>1 DEF VenueOk
<1> QED BY <1>2, <1>3, OutboxKeeps, ScheduleKeeps, ZenonT(60)

LEMMA FillLaterKeeps ==
  ASSUME NEW v, VenueOk(v), NEW id \in Nat, id \in DOMAIN v.inflight, NEW qty \in Int, NEW t
  PROVE  VenueKeeps(v, FillLater(v, id, qty, t))
<1> DEFINE r == TradeReport(v, id, qty)
           w == Record(v, r)
<1>1. VenueKeeps(v, w)
  BY TradeReportOk, RecordKeeps
<1>2. FillLater(v, id, qty, t) = Schedule(w, t, <<r>>)
  BY DEF FillLater
<1> HIDE DEF w, r
<1> QED BY <1>1, <1>2, ScheduleKeeps, VenueKeepsTrans DEF VenueKeeps

LEMMA FillNowKeeps ==
  ASSUME NEW v, VenueOk(v), NEW id \in Nat, id \in DOMAIN v.inflight, NEW qty \in Int
  PROVE  VenueKeeps(v, FillNow(v, id, qty))
<1> DEFINE r == TradeReport(v, id, qty)
           w == Record(v, r)
           f == [w.inflight EXCEPT ![id].cum = IF v.faults.delayTicks = 0 THEN @ + qty ELSE @]
           x == [w EXCEPT !.inflight = f]
<1>1. r \in Reports
  BY TradeReportOk
<1> HIDE DEF r
<1>2. VenueKeeps(v, w) /\ VenueOk(w) /\ w.inflight = v.inflight
  BY <1>1, RecordKeeps DEF VenueKeeps
<1>3. FillNow(v, id, qty) = EnqueueFill(x, r)
  BY DEF FillNow, r
<1> HIDE DEF w
<1>4. ASSUME NEW i \in DOMAIN f PROVE f[i] \in Sims
  <2> DEFINE m == w.inflight[i]
             n == IF v.faults.delayTicks = 0 THEN m.cum + qty ELSE m.cum
  <2>1. m \in Sims
    BY <1>2 DEF VenueOk
  <2>2. n \in Int
    BY <2>1 DEF Sims
  <2>3. f[i] = IF i = id THEN [m EXCEPT !.cum = n] ELSE m
    OBVIOUS
  <2> HIDE DEF m, n
  <2>4. [m EXCEPT !.cum = n] \in Sims
    BY <2>1, <2>2 DEF Sims
  <2> QED BY <2>1, <2>3, <2>4
<1>5. DOMAIN f = DOMAIN v.inflight
  BY <1>2
<1> HIDE DEF f
<1>6. VenueKeeps(v, x)
  BY <1>2, <1>4, <1>5, InflightOk DEF VenueKeeps
<1> HIDE DEF x
<1> QED BY <1>1, <1>3, <1>6, EnqueueKeeps, VenueKeepsTrans DEF VenueKeeps

LEMMA ScheduleFillsKeeps ==
  ASSUME NEW v, VenueOk(v), NEW id \in Nat, id \in DOMAIN v.inflight, NEW qty \in Int
  PROVE  VenueKeeps(v, ScheduleFills(v, id, qty))
<1>1. VenueKeeps(v, v)
  BY DEF VenueKeeps
<1>2. CASE v.faults.fillPolicy = "Rest"
  BY <1>1, <1>2 DEF ScheduleFills
<1>3. CASE v.faults.fillPolicy = "Full"
  BY <1>3, FillNowKeeps DEF ScheduleFills
<1>4. CASE v.faults.fillPolicy = "Split"
  <2> DEFINE first == v.faults.first
             w     == FillNow(v, id, first)
             t     == v.now + IF v.faults.delayTicks > 1 THEN v.faults.delayTicks ELSE 1
  <2>1. first \in Int /\ qty - first \in Int
    BY DEF VenueOk, FaultsOk
  <2>2. VenueKeeps(v, w)
    BY <2>1, FillNowKeeps
  <2>3. ScheduleFills(v, id, qty) = IF SplitImpossible(v, qty) THEN v
                                    ELSE FillLater(w, id, qty - first, t)
    BY <1>4 DEF ScheduleFills
  <2> HIDE DEF w, t, first
  <2>4. VenueKeeps(w, FillLater(w, id, qty - first, t))
    BY <2>1, <2>2, FillLaterKeeps DEF VenueKeeps
  <2> QED BY <1>1, <2>2, <2>3, <2>4, VenueKeepsTrans
<1> QED BY <1>2, <1>3, <1>4 DEF VenueOk, FaultsOk

LEMMA FillOrExpireKeeps ==
  ASSUME NEW v, VenueOk(v), NEW id \in Nat, id \in DOMAIN v.inflight, NEW qty \in Int,
         NEW price \in Int
  PROVE  VenueKeeps(v, FillOrExpire(v, id, qty, price))
<1>1. VenueKeeps(v, v)
  BY DEF VenueKeeps
<1>2. ASSUME NEW w, VenueKeeps(v, w), NEW rest \in Int
      PROVE  VenueKeeps(v, Emit([w EXCEPT !.inflight[id].canceled = TRUE], id, "Expired", rest, price))
  <2> DEFINE f == [w.inflight EXCEPT ![id].canceled = TRUE]
             x == [w EXCEPT !.inflight = f]
  <2>1. \A i \in DOMAIN f : f[i] \in Sims
    BY <1>2 DEF VenueKeeps, VenueOk, Sims
  <2>2. DOMAIN f = DOMAIN v.inflight
    BY <1>2 DEF VenueKeeps
  <2>3. [w EXCEPT !.inflight[id].canceled = TRUE] = x
    OBVIOUS
  <2> HIDE DEF f
  <2>4. VenueKeeps(v, x)
    BY <1>2, <2>1, <2>2, InflightOk DEF VenueKeeps
  <2>5. "Expired" \in ReportTypes
    BY DEF ReportTypes
  <2> HIDE DEF x
  <2>6. VenueKeeps(x, Emit(x, id, "Expired", rest, price))
    BY <1>2, <2>4, <2>5, EmitKeeps DEF VenueKeeps
  <2>7. VenueKeeps(v, Emit(x, id, "Expired", rest, price))
    BY <2>4, <2>6, VenueKeepsTrans
  <2> QED BY <2>3, <2>7, Zenon
<1>3. CASE v.faults.fillPolicy = "Rest"
  BY <1>1, <1>2, <1>3 DEF FillOrExpire
<1>4. CASE v.faults.fillPolicy = "Full"
  BY <1>4, FillNowKeeps DEF FillOrExpire
<1>5. CASE v.faults.fillPolicy = "Split"
  <2>1. v.faults.first \in Int /\ qty - v.faults.first \in Int
    BY DEF VenueOk, FaultsOk
  <2>2. VenueKeeps(v, FillNow(v, id, v.faults.first))
    BY <2>1, FillNowKeeps
  <2> QED BY <1>1, <1>2, <1>5, <2>1, <2>2 DEF FillOrExpire
<1> QED BY <1>3, <1>4, <1>5 DEF VenueOk, FaultsOk

LEMMA VSubmitOk ==
  ASSUME NEW v, VenueOk(v), NEW id \in Nat, NEW tif, NEW qty \in Int, NEW price \in Int
  PROVE  VenueOk(VSubmit(v, id, tif, qty, price))
<1> DEFINE sim == [qty |-> qty, price |-> price, cum |-> 0, canceled |-> FALSE]
           f   == [x \in DOMAIN v.inflight \cup {id} |-> IF x = id THEN sim ELSE v.inflight[x]]
           w   == [v EXCEPT !.inflight = f]
           accepted == Emit(w, id, "New", qty, price)
<1>1. \A i \in DOMAIN f : f[i] \in Sims
  BY DEF VenueOk, Sims
<1>2. DOMAIN f = DOMAIN v.inflight \cup {id}
  OBVIOUS
<1>3. VSubmit(v, id, tif, qty, price) =
        IF ~v.connected \/ qty <= 0 \/ price <= 0 THEN v
        ELSE IF RejectsOrder(v, tif) THEN Emit(v, id, "Rejected", qty, price)
        ELSE IF tif = "IOC" THEN FillOrExpire(accepted, id, qty, price)
        ELSE ScheduleFills(accepted, id, qty)
  BY DEF VSubmit
<1> HIDE DEF f
<1>4. VenueOk(w) /\ DOMAIN w.inflight = DOMAIN f
  BY <1>1, InflightOk
<1> HIDE DEF w
<1>5. "New" \in ReportTypes /\ "Rejected" \in ReportTypes
  BY DEF ReportTypes
<1>6. VenueKeeps(w, accepted)
  BY <1>4, <1>5, EmitKeeps
<1> HIDE DEF accepted
<1>7. VenueOk(accepted) /\ id \in DOMAIN accepted.inflight
  BY <1>2, <1>4, <1>6 DEF VenueKeeps
<1>8. /\ VenueOk(FillOrExpire(accepted, id, qty, price))
      /\ VenueOk(ScheduleFills(accepted, id, qty))
  BY <1>7, FillOrExpireKeeps, ScheduleFillsKeeps DEF VenueKeeps
<1>9. VenueOk(Emit(v, id, "Rejected", qty, price))
  BY <1>5, EmitKeeps DEF VenueKeeps
<1> QED BY <1>3, <1>8, <1>9

LEMMA VCancelOk ==
  ASSUME NEW v, VenueOk(v), NEW id \in Nat
  PROVE  VenueOk(VCancel(v, id))
<1> SUFFICES ASSUME VCancelError(v, id) = "none" PROVE VenueOk(VCancel(v, id))
  BY DEF VCancel
<1> DEFINE sim    == v.inflight[id]
           leaves == sim.qty - sim.cum
           w      == Emit(v, id, "Canceled", leaves, sim.price)
           f      == [w.inflight EXCEPT ![id].canceled = TRUE]
           gone   == [w EXCEPT !.inflight = f]
<1>1. id \in DOMAIN v.inflight
  BY DEF VCancelError
<1>2. leaves \in Int /\ sim.price \in Int /\ 0 \in Int
  BY <1>1 DEF VenueOk, Sims
<1>3. VCancel(v, id) = IF leaves <= 0 THEN Emit(v, id, "CancelReject", 0, sim.price)
                       ELSE IF v.faults.lateFill THEN FillLater(gone, id, leaves, v.now + 1)
                       ELSE gone
  BY DEF VCancel
<1> HIDE DEF leaves, sim
<1>4. "Canceled" \in ReportTypes /\ "CancelReject" \in ReportTypes
  BY DEF ReportTypes
<1>5. VenueKeeps(v, w) /\ VenueOk(Emit(v, id, "CancelReject", 0, sim.price))
  BY <1>2, <1>4, EmitKeeps DEF VenueKeeps
<1> HIDE DEF w
<1>6. (\A i \in DOMAIN f : f[i] \in Sims) /\ DOMAIN f = DOMAIN v.inflight
  BY <1>5, ZenonT(60) DEF VenueKeeps, VenueOk, Sims
<1> HIDE DEF f
<1>7. VenueOk(gone) /\ DOMAIN gone.inflight = DOMAIN v.inflight
  BY <1>5, <1>6, InflightOk DEF VenueKeeps
<1> HIDE DEF gone
<1>8. VenueOk(FillLater(gone, id, leaves, v.now + 1))
  BY <1>1, <1>2, <1>7, FillLaterKeeps DEF VenueKeeps
<1> QED BY <1>3, <1>5, <1>7, <1>8

LEMMA VReplaceOk ==
  ASSUME NEW v, VenueOk(v), NEW id \in Nat, NEW qty \in Int, NEW price \in Int
  PROVE  VenueOk(VReplace(v, id, qty, price))
<1> SUFFICES ASSUME VReplaceError(v, id, qty, price) = "none" PROVE VenueOk(VReplace(v, id, qty, price))
  BY DEF VReplace
<1> DEFINE f == [[v.inflight EXCEPT ![id].qty = qty] EXCEPT ![id].price = price]
           w == [v EXCEPT !.inflight = f]
<1>1. (\A i \in DOMAIN f : f[i] \in Sims)
  BY DEF VenueOk, Sims
<1>2. VReplace(v, id, qty, price) = Emit(w, id, "Replaced", qty, price)
  BY DEF VReplace, VenueOk, VenueFields
<1> HIDE DEF f
<1>3. VenueOk(w)
  BY <1>1, InflightOk
<1>4. "Replaced" \in ReportTypes
  BY DEF ReportTypes
<1> HIDE DEF w
<1> QED BY <1>2, <1>3, <1>4, EmitKeeps DEF VenueKeeps

LEMMA DisconnectOk ==
  ASSUME NEW v, VenueOk(v)
  PROVE  VenueOk(VDisconnect(v))
BY DEF VenueOk, VenueFields, VDisconnect

LEMMA ReconnectOk ==
  ASSUME NEW v, VenueOk(v)
  PROVE  VenueOk(VReconnect(v))
<1> DEFINE w == VReconnect(v)
<1>1. w = [v EXCEPT !.connected = TRUE, !.session = @ + 1, !.nextSeq = 1,
                    !.history = <<>>, !.outbox = <<>>, !.scheduled = [t \in {} |-> <<>>]]
  BY DEF VReconnect
<1>2. DOMAIN v = VenueFields
  BY DEF VenueOk
<1> HIDE DEF w
<1>3. /\ DOMAIN w = VenueFields /\ w.session = v.session + 1 /\ w.nextSeq = 1
      /\ w.nextExec = v.nextExec /\ w.faults = v.faults /\ w.inflight = v.inflight
      /\ w.outbox = <<>> /\ w.history = <<>>
  BY <1>1, <1>2 DEF VenueFields
<1>4. <<>> \in Seq(Reports)
  OBVIOUS
<1>5. VenueOk(w)
  BY <1>3, <1>4 DEF VenueOk
<1> QED BY <1>5 DEF w

-----------------------------------------------------------------------------
(* Sequences built step by step.                                           *)

\* A property of numbers that fails somewhere fails somewhere first.
LEMMA LeastBad ==
  ASSUME NEW Bad \in SUBSET Nat, Bad # {}
  PROVE  \E n \in Bad : \A m \in Bad : n <= m
<1> DEFINE Less == {ss \in Nat \X Nat : ss[1] < ss[2]}
<1>1. IsWellFoundedOn(Less, Nat)
  BY NatLessThanWellFounded DEF OpToRel
<1>2. PICK n \in Bad : \A m \in Bad : <<m, n>> \notin Less
  <2> HIDE DEF Less
  <2> QED BY <1>1, WFMin
<1>3. ASSUME NEW m \in Bad, m < n PROVE <<m, n>> \in Less
  BY <1>3
<1> HIDE DEF Less
<1>4. \A m \in Bad : ~(m < n)
  BY <1>2, <1>3
<1> QED BY <1>4

\* What is kept of a sequence of reports is one.
LEMMA KeptIsSeq ==
  ASSUME NEW R, NEW s \in Seq(R), NEW I
  PROVE  Kept(s, I) \in Seq(R)
<1> DEFINE Step(g, k) == [n \in 0 .. k |->
             IF n = 0 THEN <<>> ELSE IF n \in I THEN Append(g[n - 1], s[n]) ELSE g[n - 1]]
           out == CHOOSE g : g = Step(g, Len(s))
           Exists(k) == \E g : g = Step(g, k)
           Bad == {k \in Nat : k <= Len(s) /\ ~Exists(k)}
           Worse == {k \in Nat : k <= Len(s) /\ out[k] \notin Seq(R)}
<1>1. Kept(s, I) = out[Len(s)]
  BY DEF Kept
<1>2. Len(s) \in Nat
  OBVIOUS
<1>3. ASSUME Bad # {} PROVE FALSE
  <2>1. PICK k \in Bad : \A m \in Bad : k <= m
    <3>1. Bad \in SUBSET Nat
      <4> HIDE DEF Exists
      <4> QED OBVIOUS
    <3> HIDE DEF Bad
    <3> QED BY <1>3, <3>1, LeastBad
  <2>a. k \in Nat /\ k <= Len(s) /\ ~Exists(k)
    <3> HIDE DEF Exists
    <3> QED OBVIOUS
  <2>2. k # 0
    <3> DEFINE g == [n \in 0 .. 0 |-> <<>>]
    <3>1. g = Step(g, 0)
      OBVIOUS
    <3> QED BY <2>a, <3>1
  <2>3. k - 1 \in Nat /\ k - 1 <= Len(s) /\ Exists(k - 1)
    <3> HIDE DEF Exists
    <3>1. k - 1 \in Nat /\ k - 1 <= Len(s) /\ ~(k <= k - 1)
      BY <1>2, <2>a, <2>2
    <3> QED BY <2>1, <3>1
  <2>4. PICK g : g = Step(g, k - 1)
    BY <2>3
  <2> DEFINE last == IF k \in I THEN Append(g[k - 1], s[k]) ELSE g[k - 1]
             h == [n \in 0 .. k |-> IF n = k THEN last ELSE g[n]]
  <2>5. \A n \in 0 .. k : h[n] = Step(h, k)[n]
    <3> TAKE n \in 0 .. k
    <3>1. CASE n = k
      BY <2>2, <2>3, <3>1
    <3>2. CASE n # k
      <4>1. n \in 0 .. k - 1 /\ (n # 0 => n - 1 \in 0 .. k - 1)
        BY <2>3, <3>2
      <4>2. g[n] = Step(g, k - 1)[n]
        BY <2>4
      <4> QED BY <3>2, <4>1, <4>2
    <3> QED BY <3>1, <3>2
  <2>6. h = Step(h, k)
    BY <2>5
  <2> QED BY <2>a, <2>6
<1>4. \E g : g = Step(g, Len(s))
  <2> HIDE DEF Exists
  <2>1. Exists(Len(s))
    BY <1>2, <1>3
  <2> QED BY <2>1 DEF Exists
<1>5. out = Step(out, Len(s))
  <2> HIDE DEF Step
  <2> QED BY <1>4
<1> HIDE DEF out
<1>6. ASSUME Worse # {} PROVE FALSE
  <2>1. PICK k \in Worse : \A m \in Worse : k <= m
    <3>1. Worse \in SUBSET Nat OBVIOUS
    <3> HIDE DEF Worse
    <3> QED BY <1>6, <3>1, LeastBad
  <2>2. k \in Nat /\ k \in 0 .. Len(s) /\ out[k] \notin Seq(R)
    BY <1>2, <2>1
  <2>3. out[k] = IF k = 0 THEN <<>>
                 ELSE IF k \in I THEN Append(out[k - 1], s[k]) ELSE out[k - 1]
    BY <1>5, <2>2
  <2>4. k # 0
    BY <2>2, <2>3
  <2>5. k - 1 \in Nat /\ k - 1 <= Len(s) /\ ~(k <= k - 1) /\ k \in 1 .. Len(s)
    BY <1>2, <2>2, <2>4
  <2>6. out[k - 1] \in Seq(R) /\ s[k] \in R
    BY <2>1, <2>5
  <2> QED BY <2>2, <2>3, <2>4, <2>6
<1> QED BY <1>1, <1>2, <1>6

LEMMA RecoveryOk ==
  ASSUME NEW v, VenueOk(v), NEW n
  PROVE  VRecovery(v, n) \in Seq(Reports)
BY KeptIsSeq DEF VRecovery, VenueOk

LEMMA DedupeOk ==
  ASSUME NEW reports \in Seq(Reports)
  PROVE  DedupeSessionSeq(reports) \in Seq(Reports)
BY KeptIsSeq DEF DedupeSessionSeq

-----------------------------------------------------------------------------
(* The book: whatever is posted or settled, it keeps its entries.          *)

LEMMA BookRefl ==
  ASSUME NEW b, BookOk(b)
  PROVE  BookGrows(b, b)
BY DEF BookGrows

LEMMA PostGrows ==
  ASSUME NEW b, BookOk(b), NEW e, EntryOk(e)
  PROVE  BookGrows(b, Post(b, e)) /\ Posted(Post(b, e), e.key)
<1> DEFINE c == Post(b, e)
<1>1. CASE Posted(b, e.key)
  BY <1>1 DEF Post, BookGrows
<1>2. CASE ~Posted(b, e.key)
  <2>1. c = [b EXCEPT !.entries = @ \cup {e}, !.cash[e.account] = @ + e.cash,
                      !.reserved[e.account] = @ + e.reserved, !.funding = @ + e.funding,
                      !.settlement = @ + e.settlement, !.fees = @ + e.fees]
    BY <1>2 DEF Post
  <2> HIDE DEF c
  <2>2. DOMAIN c = BookFields /\ c.entries = b.entries \cup {e}
    BY <2>1 DEF BookOk, BookFields
  <2>3. BookGrows(b, c) /\ Posted(c, e.key)
    BY <2>2 DEF BookOk, BookGrows, Posted
  <2> QED BY <2>3 DEF c
<1> QED BY <1>1, <1>2

LEMMA OwnEntryOk ==
  ASSUME NEW key, key.kind \notin FundsOps, NEW a, NEW m, NEW n, NEW f, NEW s, NEW x
  PROVE  EntryOk(Entry(key, a, m, n, f, s, x))
BY DEF EntryOk, Entry

\* Reserves and settlements are posted under keys of their own.
LEMMA MovesGrow ==
  ASSUME NEW b, BookOk(b), NEW key, key.kind \notin FundsOps, NEW a, NEW n, NEW qty
  PROVE  /\ BookGrows(b, Reserve(b, a, n, key)) /\ BookGrows(b, Release(b, a, n, key))
         /\ BookGrows(b, ReservePosition(b, a, qty)) /\ BookGrows(b, ReleasePosition(b, a, qty))
         /\ BookGrows(b, SettleBuy(b, a, qty, n, 0, key))
         /\ BookGrows(b, SettleSell(b, a, qty, n, 0, key))
<1>1. BookGrows(b, Reserve(b, a, n, key)) /\ BookGrows(b, Release(b, a, n, key))
  BY PostGrows, OwnEntryOk DEF Reserve, Release
<1>2. BookGrows(b, ReservePosition(b, a, qty)) /\ BookGrows(b, ReleasePosition(b, a, qty))
  BY DEF BookGrows, BookOk, BookFields, ReservePosition, ReleasePosition
<1>3. BookGrows(b, SettleBuy(b, a, qty, n, 0, key))
  <2> DEFINE c == Post(b, Entry(key, a, -0, -n, 0, n, 0))
  <2>1. BookGrows(b, c)
    BY PostGrows, OwnEntryOk
  <2>2. SettleBuy(b, a, qty, n, 0, key) = IF Posted(b, key) THEN b ELSE [c EXCEPT !.position[a] = @ + qty]
    BY DEF SettleBuy
  <2> HIDE DEF c
  <2>3. BookGrows(b, [c EXCEPT !.position[a] = @ + qty])
    BY <2>1 DEF BookGrows, BookOk, BookFields
  <2> QED BY <2>2, <2>3, BookRefl
<1>4. BookGrows(b, SettleSell(b, a, qty, n, 0, key))
  <2> DEFINE c == Post(b, SellEntry(a, n, 0, key))
  <2>1. BookGrows(b, c)
    BY PostGrows, OwnEntryOk DEF SellEntry
  <2>2. SettleSell(b, a, qty, n, 0, key)
          = IF Posted(b, key) THEN b
            ELSE [c EXCEPT !.position[a] = @ - qty, !.posReserved[a] = @ - qty]
    BY DEF SettleSell
  <2> HIDE DEF c
  <2>3. BookGrows(b, [c EXCEPT !.position[a] = @ - qty, !.posReserved[a] = @ - qty])
    BY <2>1 DEF BookGrows, BookOk, BookFields
  <2> QED BY <2>2, <2>3, BookRefl
<1> QED BY <1>1, <1>2, <1>3, <1>4

LEMMA BookTrans ==
  ASSUME NEW b, NEW c, NEW d, BookGrows(b, c), BookGrows(c, d)
  PROVE  BookGrows(b, d)
BY DEF BookGrows

-----------------------------------------------------------------------------
(* The effects of a report on reserves and book leave the rest alone.      *)

Settles(e, x) ==
  /\ DOMAIN x = EngFields
  /\ x.orders = e.orders /\ x.byClient = e.byClient /\ x.nextId = e.nextId
  /\ x.venue = e.venue /\ x.kill = e.kill /\ x.session = e.session
  /\ BookGrows(e.book, x.book)

LEMMA SettlesTrans ==
  ASSUME NEW e, NEW x, NEW y, Settles(e, x), Settles(x, y)
  PROVE  Settles(e, y)
BY BookTrans DEF Settles

\* The only fields an effect changes.
LEMMA SettlesFields ==
  ASSUME NEW e, DOMAIN e = EngFields, BookOk(e.book), NEW b, BookGrows(e.book, b), NEW f
  PROVE  /\ Settles(e, e)
         /\ Settles(e, [e EXCEPT !.book = b])
         /\ Settles(e, [e EXCEPT !.remCash = f]) /\ Settles(e, [e EXCEPT !.remLots = f])
         /\ Settles(e, [e EXCEPT !.book = b, !.remCash = f])
         /\ Settles(e, [e EXCEPT !.book = b, !.remLots = f])
<1>1. Settles(e, e) /\ BookGrows(e.book, e.book)
  BY BookRefl DEF Settles
<1>2. Settles(e, [e EXCEPT !.book = b])
  BY DEF Settles, EngFields
<1>3. Settles(e, [e EXCEPT !.remCash = f]) /\ Settles(e, [e EXCEPT !.remLots = f])
  BY <1>1 DEF Settles, EngFields
<1>4. Settles(e, [e EXCEPT !.book = b, !.remCash = f])
  BY DEF Settles, EngFields
<1>5. Settles(e, [e EXCEPT !.book = b, !.remLots = f])
  BY DEF Settles, EngFields
<1> QED BY <1>1, <1>2, <1>3, <1>4, <1>5

LEMMA KeysAreOwn ==
  ASSUME NEW kind \in {"rel", "rel-repl", "rsv", "rsv-repl", "fill", "bootstrap",
                       "cash-align", "cash-release"}, NEW a, NEW n
  PROVE  Key(kind, a, n).kind \notin FundsOps
BY DEF Key, FundsOps

LEMMA ReleaseSettles ==
  ASSUME NEW e, DOMAIN e = EngFields, BookOk(e.book), NEW id
  PROVE  Settles(e, ReleaseRemaining(e, id).eng)
<1> DEFINE a     == e.orders[id].account
           cash  == GetOrZero(e.remCash, id)
           lots  == GetOrZero(e.remLots, id)
           key   == Key("rel", a, id)
           noMap == [e EXCEPT !.remCash = Drop(@, id)]
           paid  == IF cash = 0 THEN noMap ELSE [noMap EXCEPT !.book = Release(@, a, cash, key)]
           free  == [paid EXCEPT !.remLots = Drop(@, id)]
           last  == [free EXCEPT !.book = ReleasePosition(@, a, lots)]
<1>1. Settles(e, noMap)
  BY SettlesFields, BookRefl, Zenon
<1>2. key.kind \notin FundsOps
  BY KeysAreOwn
<1>3. ReleaseRemaining(e, id).eng \in {noMap, free, last}
  BY DEF ReleaseRemaining, Ok, Fail
<1> HIDE DEF noMap, key, a, cash, lots
<1>4. Settles(noMap, paid)
  <2>1. DOMAIN noMap = EngFields /\ BookOk(noMap.book)
    BY <1>1 DEF Settles, BookGrows
  <2>2. BookGrows(noMap.book, Release(noMap.book, a, cash, key))
    BY <1>2, <2>1, MovesGrow
  <2> QED BY <2>1, <2>2, SettlesFields, Zenon
<1> HIDE DEF paid
<1>5. Settles(paid, free)
  <2>1. DOMAIN paid = EngFields /\ BookOk(paid.book)
    BY <1>4 DEF Settles, BookGrows
  <2> QED BY <2>1, SettlesFields, BookRefl, Zenon
<1> HIDE DEF free
<1>6. Settles(free, last)
  <2>1. DOMAIN free = EngFields /\ BookOk(free.book)
    BY <1>5 DEF Settles, BookGrows
  <2>2. BookGrows(free.book, ReleasePosition(free.book, a, lots))
    BY <1>2, <2>1, MovesGrow
  <2> QED BY <2>1, <2>2, SettlesFields, Zenon
<1> HIDE DEF last
<1> QED BY <1>1, <1>3, <1>4, <1>5, <1>6, SettlesTrans

LEMMA TradeSettles ==
  ASSUME NEW e, DOMAIN e = EngFields, BookOk(e.book), NEW id, NEW ev
  PROVE  Settles(e, SettleTrade(e, id, ev).eng)
<1> DEFINE o    == e.orders[id]
           n    == ev.price * ev.qty
           key  == FillKey(ev.exec)
           bc   == SettleBuy(e.book, o.account, ev.qty, n, 0, key)
           sc   == SettleSell(e.book, o.account, ev.qty, n, 0, key)
           buy  == [e EXCEPT !.book = bc, !.remCash = PutUnlessZero(@, id, GetOrZero(@, id) - n)]
           sell == [e EXCEPT !.book = sc, !.remLots = PutUnlessZero(@, id, GetOrZero(@, id) - ev.qty)]
<1>1. key.kind \notin FundsOps
  BY KeysAreOwn DEF FillKey
<1>2. SettleTrade(e, id, ev).eng \in {e, AfterFill(buy, id).eng, AfterFill(sell, id).eng}
  BY DEF SettleTrade, Fail
<1> HIDE DEF key, n, o
<1>3. BookGrows(e.book, bc) /\ BookGrows(e.book, sc)
  BY <1>1, MovesGrow
<1> HIDE DEF bc, sc
<1>4. Settles(e, buy) /\ Settles(e, sell) /\ Settles(e, e)
  BY <1>3, SettlesFields, Zenon
<1> HIDE DEF buy, sell
<1>5. ASSUME NEW x, Settles(e, x) PROVE Settles(e, AfterFill(x, id).eng)
  <2>1. AfterFill(x, id).eng \in {x, ReleaseRemaining(x, id).eng}
    BY DEF AfterFill, Ok
  <2>2. Settles(x, ReleaseRemaining(x, id).eng)
    BY <1>5, ReleaseSettles DEF Settles, BookGrows
  <2> QED BY <1>5, <2>1, <2>2, SettlesTrans
<1> QED BY <1>2, <1>4, <1>5

LEMMA ReplaceSettles ==
  ASSUME NEW e, DOMAIN e = EngFields, BookOk(e.book), NEW id, NEW ev
  PROVE  Settles(e, SettleReplace(e, id, ev).eng)
<1> DEFINE o      == e.orders[id]
           a      == o.account
           target == ev.price * o.leaves
           cash   == GetOrZero(e.remCash, id) - target
           lots   == GetOrZero(e.remLots, id) - o.leaves
           key    == Key("rel-repl", a, id)
           bb     == IF cash > 0 THEN Release(e.book, a, cash, key) ELSE e.book
           sb     == IF lots > 0 THEN ReleasePosition(e.book, a, lots) ELSE e.book
<1>1. key.kind \notin FundsOps
  BY KeysAreOwn
<1>2. SettleReplace(e, id, ev).eng \in
        {e, [e EXCEPT !.remCash = Drop(@, id)], [e EXCEPT !.remLots = Drop(@, id)],
         [e EXCEPT !.book = bb, !.remCash = PutUnlessZero(@, id, target)],
         [e EXCEPT !.book = sb, !.remLots = PutUnlessZero(@, id, o.leaves)]}
  BY DEF SettleReplace, Ok, Fail
<1> HIDE DEF key, target, cash, lots, a, o
<1>3. BookGrows(e.book, bb) /\ BookGrows(e.book, sb)
  BY <1>1, MovesGrow, BookRefl
<1> HIDE DEF bb, sb
<1>4. /\ Settles(e, e)
      /\ Settles(e, [e EXCEPT !.remCash = Drop(@, id)])
      /\ Settles(e, [e EXCEPT !.remLots = Drop(@, id)])
  BY BookRefl, SettlesFields, Zenon
<1>5. Settles(e, [e EXCEPT !.book = bb, !.remCash = PutUnlessZero(@, id, target)])
  BY <1>3, SettlesFields, Zenon
<1>6. Settles(e, [e EXCEPT !.book = sb, !.remLots = PutUnlessZero(@, id, o.leaves)])
  BY <1>3, SettlesFields, Zenon
<1> QED BY <1>2, <1>4, <1>5, <1>6, Zenon

LEMMA EffectsSettle ==
  ASSUME NEW e, DOMAIN e = EngFields, BookOk(e.book), NEW id, NEW ev
  PROVE  Settles(e, ApplyEffects(e, id, ev).eng)
<1>1. ApplyEffects(e, id, ev).eng \in
        {e, SettleTrade(e, id, ev).eng, SettleReplace(e, id, ev).eng, ReleaseRemaining(e, id).eng}
  BY DEF ApplyEffects, Ok
<1>2. Settles(e, e)
  BY SettlesFields, BookRefl, Zenon
<1> QED BY <1>1, <1>2, TradeSettles, ReplaceSettles, ReleaseSettles

-----------------------------------------------------------------------------
(* The calls of the engine advance it.                                     *)

LEMMA SettlesAdvances ==
  ASSUME NEW e, NEW x, EngOk(e), Settles(e, x)
  PROVE  Advances(e, x)
BY SameOrders DEF Settles, EngOk

LEMMA FlagsAdvance ==
  ASSUME NEW e, EngOk(e), NEW s, NEW n, NEW k \in BOOLEAN, e.kill => k
  PROVE  /\ Advances(e, [e EXCEPT !.session = s, !.nextSeq = n])
         /\ Advances(e, [e EXCEPT !.nextSeq = n])
         /\ Advances(e, [e EXCEPT !.kill = k])
<1>1. BookGrows(e.book, e.book) /\ DOMAIN e = EngFields /\ VenueOk(e.venue) /\ e.kill \in BOOLEAN
  BY BookRefl DEF EngOk
<1>2. ASSUME NEW x, x \in {[e EXCEPT !.session = s, !.nextSeq = n], [e EXCEPT !.nextSeq = n],
                           [e EXCEPT !.kill = k]}
      PROVE  /\ DOMAIN x = EngFields /\ x.orders = e.orders /\ x.byClient = e.byClient
             /\ x.nextId = e.nextId /\ x.book = e.book /\ x.venue = e.venue
             /\ x.kill \in {e.kill, k}
  BY <1>1, <1>2 DEF EngFields
<1>3. ASSUME NEW x, x \in {[e EXCEPT !.session = s, !.nextSeq = n], [e EXCEPT !.nextSeq = n],
                           [e EXCEPT !.kill = k]}
      PROVE  Advances(e, x)
  BY <1>1, <1>2, <1>3, SameOrders
<1> QED BY <1>3

LEMMA VenueAdvances ==
  ASSUME NEW e, EngOk(e), NEW v, VenueOk(v)
  PROVE  Advances(e, [e EXCEPT !.venue = v])
<1>1. BookGrows(e.book, e.book) /\ DOMAIN e = EngFields /\ e.kill \in BOOLEAN
  BY BookRefl DEF EngOk
<1> DEFINE x == [e EXCEPT !.venue = v]
<1>2. /\ DOMAIN x = EngFields /\ x.orders = e.orders /\ x.byClient = e.byClient
      /\ x.nextId = e.nextId /\ x.book = e.book /\ x.venue = v /\ x.kill = e.kill
  BY <1>1 DEF EngFields
<1> HIDE DEF x
<1>3. Advances(e, x)
  BY <1>1, <1>2, SameOrders
<1> QED BY <1>3 DEF x

\* An order moves on by an event its status accepts.
LEMMA OmsAdvances ==
  ASSUME NEW e, EngOk(e), NEW id \in DOMAIN e.orders, NEW ev, ev.qty \in Int, ev.price \in Int,
         ApplyError(e.orders[id], ev) = "none"
  PROVE  Advances(e, ApplyOms(e, id, ev))
<1> DEFINE p == Applied(e.orders[id], ev)
           x == ApplyOms(e, id, ev)
<1>1. OrderOk(p) /\ Grows(e.orders[id], p)
  BY AppliedGrows DEF EngOk, OrdersOk
<1>2. x.orders = [e.orders EXCEPT ![id] = p] /\ DOMAIN x = EngFields
  BY DEF ApplyOms, EngOk, EngFields
<1>3. /\ x.byClient = e.byClient /\ x.nextId = e.nextId /\ x.book = e.book
      /\ x.venue = e.venue /\ x.kill = e.kill
  BY DEF ApplyOms, EngOk, EngFields
<1> HIDE DEF x, p
<1>4. DOMAIN x.orders = DOMAIN e.orders /\ OrdersOk(x.orders)
  BY <1>1, <1>2 DEF EngOk, OrdersOk
<1>5. \A i \in DOMAIN e.orders : Grows(e.orders[i], x.orders[i])
  BY <1>1, <1>2, GrowsRefl DEF EngOk, OrdersOk
<1>6. Carries(e.orders, x.orders)
  BY <1>4, <1>5, KnowsIsGrows DEF Carries
<1>7. EngOk(x)
  BY <1>2, <1>3, <1>4 DEF EngOk
<1>8. Advances(e, x)
  BY <1>3, <1>6, <1>7 DEF Advances
<1> QED BY <1>8 DEF x

\* apply_report, on every one of its ways out.
LEMMA ReportAdvances ==
  ASSUME NEW e, EngOk(e), NEW r \in Reports
  PROVE  Advances(e, ApplyReport(e, r).eng)
<1> DEFINE here   == IF e.session = r.session THEN e
                     ELSE [e EXCEPT !.session = r.session, !.nextSeq = 1]
           ev     == ToOrderEvent(r)
           moved  == ApplyOms(here, r.order, ev)
           effect == ApplyEffects(moved, r.order, ev)
           error  == ApplyError(here.orders[r.order], ev)
           halt   == [here EXCEPT !.kill = TRUE]
           eaten  == [here EXCEPT !.nextSeq = r.seq + 1]
           done   == [effect.eng EXCEPT !.nextSeq = r.seq + 1]
<1>1. Advances(e, here)
  BY AdvancesRefl, FlagsAdvance, Zenon DEF EngOk
<1>2. EngOk(here)
  BY <1>1 DEF Advances
<1>3. ev.qty \in Int /\ ev.price \in Int
  BY DEF ToOrderEvent, Event, Reports
<1>4. \/ ApplyReport(e, r).eng \in {here, halt, eaten}
      \/ /\ r.order \in DOMAIN here.orders /\ error = "none"
         /\ ApplyReport(e, r).eng \in {effect.eng, done}
  BY DEF ApplyReport, Ok, Fail
<1> HIDE DEF here, ev
<1>5. Advances(here, here) /\ Advances(here, halt) /\ Advances(here, eaten)
  BY <1>2, AdvancesRefl, FlagsAdvance, Zenon
<1>6. ASSUME r.order \in DOMAIN here.orders, error = "none"
      PROVE  Advances(here, effect.eng) /\ Advances(here, done)
  <2>1. Advances(here, moved) /\ EngOk(moved)
    BY <1>2, <1>3, <1>6, OmsAdvances DEF Advances
  <2> HIDE DEF moved
  <2>2. Settles(moved, effect.eng)
    BY <2>1, EffectsSettle DEF EngOk
  <2> HIDE DEF effect
  <2>3. Advances(moved, effect.eng) /\ EngOk(effect.eng)
    BY <2>1, <2>2, SettlesAdvances DEF Advances
  <2>4. Advances(here, effect.eng)
    BY <1>2, <2>1, <2>3, AdvancesTrans
  <2>5. effect.eng.kill \in BOOLEAN
    BY <2>3 DEF EngOk
  <2>6. Advances(effect.eng, done)
    BY <2>3, <2>5, FlagsAdvance, Zenon
  <2> QED BY <1>2, <2>4, <2>6, AdvancesTrans
<1> HIDE DEF halt, eaten, done, effect, error
<1>7. Advances(here, ApplyReport(e, r).eng)
  BY <1>4, <1>5, <1>6
<1> QED BY <1>1, <1>7, AdvancesTrans

\* The loop of drain, wherever it stops.
LEMMA ApplyAllAdvances ==
  ASSUME NEW e, EngOk(e), NEW s \in Seq(Reports)
  PROVE  Advances(e, ApplyAll(e, s).eng)
<1> DEFINE Step(g, k) == [n \in 0 .. k |->
             IF n = 0 THEN Ok(e)
             ELSE IF g[n - 1].err # "none" THEN g[n - 1] ELSE ApplyReport(g[n - 1].eng, s[n])]
           out == CHOOSE g : g = Step(g, Len(s))
           Exists(k) == \E g : g = Step(g, k)
           Good(k) == Advances(e, out[k].eng)
           Bad == {k \in Nat : k <= Len(s) /\ ~Exists(k)}
           Worse == {k \in Nat : k <= Len(s) /\ ~Good(k)}
<1>1. ApplyAll(e, s) = out[Len(s)]
  BY DEF ApplyAll
<1>2. Len(s) \in Nat
  OBVIOUS
<1>3. ASSUME Bad # {} PROVE FALSE
  <2>1. PICK k \in Bad : \A m \in Bad : k <= m
    <3>1. Bad \in SUBSET Nat
      <4> HIDE DEF Exists
      <4> QED OBVIOUS
    <3> HIDE DEF Bad
    <3> QED BY <1>3, <3>1, LeastBad
  <2>2. k \in Nat /\ k <= Len(s) /\ ~Exists(k)
    <3> HIDE DEF Exists
    <3> QED OBVIOUS
  <2>3. k # 0
    <3> DEFINE g == [n \in 0 .. 0 |-> Ok(e)]
    <3>1. g = Step(g, 0)
      OBVIOUS
    <3> QED BY <2>2, <3>1
  <2>4. k - 1 \in Nat /\ k - 1 <= Len(s) /\ Exists(k - 1)
    <3> HIDE DEF Exists
    <3>1. k - 1 \in Nat /\ k - 1 <= Len(s) /\ ~(k <= k - 1)
      BY <1>2, <2>2, <2>3
    <3> QED BY <2>1, <3>1
  <2>5. PICK g : g = Step(g, k - 1)
    BY <2>4
  <2> DEFINE last == IF g[k - 1].err # "none" THEN g[k - 1] ELSE ApplyReport(g[k - 1].eng, s[k])
             h == [n \in 0 .. k |-> IF n = k THEN last ELSE g[n]]
  <2>6. \A n \in 0 .. k : h[n] = Step(h, k)[n]
    <3> TAKE n \in 0 .. k
    <3>1. CASE n = k
      BY <2>2, <2>3, <2>4, <3>1
    <3>2. CASE n # k
      <4>1. n \in 0 .. k - 1 /\ (n # 0 => n - 1 \in 0 .. k - 1)
        BY <2>2, <2>4, <3>2
      <4>2. g[n] = Step(g, k - 1)[n]
        BY <2>5
      <4> QED BY <3>2, <4>1, <4>2
    <3> QED BY <3>1, <3>2
  <2>7. h = Step(h, k)
    BY <2>6
  <2> QED BY <2>2, <2>7
<1>4. \E g : g = Step(g, Len(s))
  <2> HIDE DEF Exists
  <2>1. Exists(Len(s))
    BY <1>2, <1>3
  <2> QED BY <2>1 DEF Exists
<1>5. out = Step(out, Len(s))
  <2> HIDE DEF Step
  <2> QED BY <1>4
<1> HIDE DEF out
<1>6. ASSUME Worse # {} PROVE FALSE
  <2>1. PICK k \in Worse : \A m \in Worse : k <= m
    <3>1. Worse \in SUBSET Nat
      <4> HIDE DEF Good
      <4> QED OBVIOUS
    <3> HIDE DEF Worse
    <3> QED BY <1>6, <3>1, LeastBad
  <2>2. k \in Nat /\ k \in 0 .. Len(s) /\ ~Good(k)
    <3> HIDE DEF Good
    <3> QED BY <1>2
  <2>3. out[k] = IF k = 0 THEN Ok(e)
                 ELSE IF out[k - 1].err # "none" THEN out[k - 1]
                 ELSE ApplyReport(out[k - 1].eng, s[k])
    BY <1>5, <2>2
  <2>4. k # 0
    BY <2>2, <2>3, AdvancesRefl DEF Ok
  <2>5. k - 1 \in Nat /\ k - 1 <= Len(s) /\ ~(k <= k - 1) /\ k \in 1 .. Len(s)
    BY <1>2, <2>2, <2>4
  <2>6. Good(k - 1) /\ s[k] \in Reports
    <3>1. s[k] \in Reports
      BY <2>5
    <3> HIDE DEF Good
    <3> QED BY <2>1, <2>5, <3>1
  <2>7. Advances(out[k - 1].eng, ApplyReport(out[k - 1].eng, s[k]).eng)
    BY <2>6, ReportAdvances DEF Advances
  <2> QED BY <2>2, <2>3, <2>4, <2>6, <2>7, AdvancesTrans
<1>7. Good(Len(s))
  <2> HIDE DEF Good
  <2> QED BY <1>2, <1>6
<1> QED BY <1>1, <1>7

LEMMA DrainAdvances ==
  ASSUME NEW e, EngOk(e)
  PROVE  Advances(e, Drain(e).eng)
<1> DEFINE polled  == [e EXCEPT !.venue.outbox = <<>>]
           reports == e.venue.outbox
           first   == reports[1]
           at      == IF polled.session = first.session THEN polled
                      ELSE [polled EXCEPT !.session = first.session, !.nextSeq = 1]
           healed  == DedupeSessionSeq(VRecovery(e.venue, at.nextSeq) \o reports)
           rest    == Kept(reports, {i \in DOMAIN reports :
                             reports[i].session = at.session /\ reports[i].seq >= at.nextSeq})
<1>1. Drain(e).eng \in {polled, at, ApplyAll(at, healed).eng, ApplyAll(at, rest).eng}
  BY Zenon DEF Drain, DrainPolled, Ok, Fail
<1>2. reports \in Seq(Reports)
  BY DEF EngOk, VenueOk
<1>3. Advances(e, polled)
  <2> DEFINE v == [e.venue EXCEPT !.outbox = <<>>]
  <2>1. VenueOk(v)
    <3>1. <<>> \in Seq(Reports)
      OBVIOUS
    <3> QED BY <3>1, OutboxKeeps DEF EngOk, VenueKeeps
  <2>2. polled = [e EXCEPT !.venue = v]
    BY DEF EngOk, EngFields
  <2> HIDE DEF v, polled
  <2> QED BY <2>1, <2>2, VenueAdvances
<1> HIDE DEF polled
<1>4. Advances(polled, at)
  BY <1>3, AdvancesRefl, FlagsAdvance DEF Advances, EngOk
<1> HIDE DEF at
<1>5. VRecovery(e.venue, at.nextSeq) \in Seq(Reports)
  BY RecoveryOk DEF EngOk
<1>6. healed \in Seq(Reports) /\ rest \in Seq(Reports)
  <2>1. VRecovery(e.venue, at.nextSeq) \o reports \in Seq(Reports)
    BY <1>2, <1>5
  <2> QED BY <1>2, <2>1, DedupeOk, KeptIsSeq
<1> HIDE DEF healed, rest, reports
<1>7. Advances(e, at) /\ EngOk(at)
  BY <1>3, <1>4, AdvancesTrans DEF Advances
<1>8. Advances(at, ApplyAll(at, healed).eng) /\ Advances(at, ApplyAll(at, rest).eng)
  BY <1>6, <1>7, ApplyAllAdvances
<1> QED BY <1>1, <1>3, <1>7, <1>8, AdvancesTrans

LEMMA AfterVenueAdvances ==
  ASSUME NEW e, EngOk(e), NEW error
  PROVE  Advances(e, AfterVenue(e, error).eng)
<1>1. CASE error = "none"
  BY <1>1, DrainAdvances DEF AfterVenue
<1>2. CASE error # "none"
  <2>1. (e.kill \/ error = "Disconnected") \in BOOLEAN
    OBVIOUS
  <2>2. AfterVenue(e, error).eng = [e EXCEPT !.kill = e.kill \/ error = "Disconnected"]
    BY <1>2 DEF AfterVenue, Fail
  <2> QED BY <2>1, <2>2, FlagsAdvance, Zenon
<1> QED BY <1>1, <1>2

LEMMA NewOrderOk ==
  ASSUME NEW req, req.qty \in Int, req.price \in Int
  PROVE  /\ OrderOk(NewPending(req))
         /\ req.qty > 0 => ApplyError(NewPending(req), Event("Rejected", 0, 0, 0)) = "none"
<1> DEFINE o  == NewPending(req)
           ev == Event("Rejected", 0, 0, 0)
<1>1. /\ DOMAIN o = OrderFields /\ o.qty = req.qty /\ o.price = req.price /\ o.cum = 0
      /\ o.leaves = req.qty /\ o.status = "PendingNew"
  BY DEF NewPending, OrderFields
<1>2. ev.type = "Rejected"
  BY DEF Event
<1> HIDE DEF o, ev
<1>3. OrderOk(o)
  BY <1>1 DEF OrderOk
<1>4. Applied(o, ev) = [o EXCEPT !.status = "Rejected"]
  BY <1>2 DEF Applied
<1>5. req.qty > 0 => AssertInvariants(Applied(o, ev))
  BY <1>1, <1>4 DEF AssertInvariants, OrderFields
<1>6. LegalTransition(o.status, ev.type)
  BY <1>1, <1>2 DEF LegalTransition
<1>7. req.qty > 0 => ApplyError(o, ev) = "none"
  BY <1>2, <1>5, <1>6 DEF ApplyError
<1> QED BY <1>3, <1>7 DEF o, ev

\* The order store of an engine that has just created an order.
LEMMA CreatedAdvances ==
  ASSUME NEW e, EngOk(e), NEW key, NEW o, OrderOk(o), NEW x,
         DOMAIN x = EngFields, x.nextId = e.nextId + 1,
         x.byClient = Put(e.byClient, key, e.nextId + 1), x.orders = Put(e.orders, e.nextId + 1, o),
         x.book = e.book, x.venue = e.venue, x.kill = e.kill
  PROVE  /\ Advances(e, x)
         /\ e.nextId + 1 \in DOMAIN x.orders /\ x.orders[e.nextId + 1] = o
         /\ x.nextId = e.nextId + 1 /\ key \in DOMAIN x.byClient
<1> DEFINE id == e.nextId + 1
<1>1. /\ DOMAIN e = EngFields /\ e.nextId \in Nat /\ DOMAIN e.orders \subseteq 1 .. e.nextId
      /\ OrdersOk(e.orders) /\ e.kill \in BOOLEAN
  BY DEF EngOk
<1>2. /\ DOMAIN x = EngFields /\ x.nextId = id /\ x.byClient = Put(e.byClient, key, id)
      /\ x.orders = Put(e.orders, id, o) /\ x.book = e.book /\ x.venue = e.venue
      /\ x.kill = e.kill
  OBVIOUS
<1>3. id \in Nat /\ id \in 1 .. id /\ id \notin DOMAIN e.orders
  BY <1>1
<1> HIDE DEF id
<1>4. /\ DOMAIN x.orders = DOMAIN e.orders \cup {id} /\ x.orders[id] = o
      /\ \A i \in DOMAIN e.orders : x.orders[i] = e.orders[i]
  BY <1>2, <1>3 DEF Put
<1>5. /\ DOMAIN x.byClient = DOMAIN e.byClient \cup {key}
      /\ \A k \in DOMAIN x.byClient : x.byClient[k] \in {id} \cup {e.byClient[j] : j \in DOMAIN e.byClient}
  BY <1>2 DEF Put
<1>6. OrdersOk(x.orders)
  BY <1>1, <1>4 DEF OrdersOk
<1>7. Carries(e.orders, x.orders)
  <2> SUFFICES ASSUME NEW i \in DOMAIN e.orders PROVE Knows(x.orders, i, e.orders[i])
    BY DEF Carries
  <2>1. OrderOk(e.orders[i])
    BY <1>1 DEF OrdersOk
  <2> QED BY <1>4, <2>1, GrowsRefl, KnowsIsGrows
<1>8. DOMAIN x.orders \subseteq 1 .. x.nextId
  BY <1>1, <1>2, <1>3, <1>4 DEF id
<1>9. EngOk(x)
  <2>1. \A k \in DOMAIN x.byClient : x.byClient[k] \in DOMAIN x.orders
    BY <1>4, <1>5 DEF EngOk
  <2> QED BY <1>2, <1>3, <1>6, <1>8, <2>1 DEF EngOk
<1>10. Advances(e, x)
  BY <1>2, <1>5, <1>7, <1>9 DEF Advances
<1> QED BY <1>2, <1>4, <1>5, <1>10 DEF id

LEMMA PlaceAdvances ==
  ASSUME NEW e, EngOk(e), NEW req, req.qty \in Int, req.price \in Int
  PROVE  /\ Advances(e, PlaceOrder(e, req).eng)
         /\ PlaceOrder(e, req).err \in {"none", "Duplicate"} =>
              <<req.account, req.client>> \in DOMAIN PlaceOrder(e, req).eng.byClient
<1> DEFINE key     == <<req.account, req.client>>
           id      == e.nextId + 1
           n       == req.price * req.qty
           o       == NewPending(req)
           ev      == Event("Rejected", 0, 0, 0)
           created == [e EXCEPT !.nextId = id, !.byClient = Put(@, key, id), !.orders = Put(@, id, o)]
           refused == ApplyOms(created, id, ev)
           buy     == [created EXCEPT !.book = Reserve(@, req.account, n, Key("rsv", req.account, id)),
                                      !.remCash = Put(@, id, n)]
           sell    == [created EXCEPT !.book = ReservePosition(@, req.account, req.qty),
                                      !.remLots = Put(@, id, req.qty)]
           out     == PlaceOrder(e, req)
<1>1. \/ out.eng = e /\ out.err \in {"Order", "Risk"}
      \/ out.eng = e /\ out.err = "Duplicate" /\ key \in DOMAIN e.byClient
      \/ out.eng = refused /\ out.err = "Ledger" /\ ~(req.qty <= 0)
      \/ out.eng \in {buy, sell} /\ out.err = "none"
  BY DEF PlaceOrder, Ok, Fail
<1>2. OrderOk(o) /\ (req.qty > 0 => ApplyError(o, ev) = "none")
  BY NewOrderOk
<1>3. ev.qty \in Int /\ ev.price \in Int
  BY DEF Event
<1> HIDE DEF o, ev, key, out
<1>4. /\ Advances(e, created) /\ EngOk(created)
      /\ id \in DOMAIN created.orders /\ created.orders[id] = o
      /\ created.nextId = id /\ key \in DOMAIN created.byClient
  <2>1. /\ DOMAIN created = EngFields /\ created.nextId = e.nextId + 1
        /\ created.byClient = Put(e.byClient, key, e.nextId + 1)
        /\ created.orders = Put(e.orders, e.nextId + 1, o)
        /\ created.book = e.book /\ created.venue = e.venue /\ created.kill = e.kill
    BY DEF EngOk, EngFields
  <2> HIDE DEF created
  <2>2. /\ Advances(e, created)
        /\ e.nextId + 1 \in DOMAIN created.orders /\ created.orders[e.nextId + 1] = o
        /\ created.nextId = e.nextId + 1 /\ key \in DOMAIN created.byClient
    BY <1>2, <2>1, CreatedAdvances
  <2> QED BY <2>2 DEF Advances
<1> HIDE DEF created
<1>5. req.qty > 0 => Advances(e, refused)
  <2>1. req.qty > 0 => Advances(created, refused)
    BY <1>2, <1>3, <1>4, OmsAdvances
  <2> QED BY <1>4, <2>1, AdvancesTrans
<1>6. Key("rsv", req.account, id).kind \notin FundsOps
  BY KeysAreOwn
<1>7. DOMAIN created = EngFields /\ BookOk(created.book)
  BY <1>4 DEF EngOk
<1>8. Advances(created, buy)
  <2>1. BookGrows(created.book, Reserve(created.book, req.account, n, Key("rsv", req.account, id)))
    BY <1>6, <1>7, MovesGrow
  <2>2. Settles(created, buy)
    BY <1>7, <2>1, SettlesFields, Zenon
  <2> QED BY <1>4, <2>2, SettlesAdvances
<1>9. Advances(created, sell)
  <2>1. BookGrows(created.book, ReservePosition(created.book, req.account, req.qty))
    BY <1>6, <1>7, MovesGrow
  <2>2. Settles(created, sell)
    BY <1>7, <2>1, SettlesFields, Zenon
  <2> QED BY <1>4, <2>2, SettlesAdvances
<1> HIDE DEF buy, sell, refused
<1>10. Advances(e, buy) /\ Advances(e, sell) /\ Advances(e, e)
  BY <1>4, <1>8, <1>9, AdvancesRefl, AdvancesTrans
<1>11. key \in DOMAIN buy.byClient /\ key \in DOMAIN sell.byClient
  BY <1>4, <1>8, <1>9 DEF Advances
<1>12. /\ Advances(e, out.eng)
       /\ out.err \in {"none", "Duplicate"} => key \in DOMAIN out.eng.byClient
  BY <1>1, <1>5, <1>10, <1>11
<1> QED BY <1>12 DEF out, key

LEMMA SubmitAdvances ==
  ASSUME NEW e, EngOk(e), NEW req, req.qty \in Int, req.price \in Int
  PROVE  /\ Advances(e, Submit(e, req).eng)
         /\ Submit(e, req).err \in {"none", "Duplicate"} =>
              <<req.account, req.client>> \in DOMAIN Submit(e, req).eng.byClient
<1> DEFINE key    == <<req.account, req.client>>
           placed == PlaceOrder(e, req)
           v      == placed.eng.venue
           w      == VSubmit(v, placed.eng.nextId, req.tif, req.qty, req.price)
           x      == [placed.eng EXCEPT !.venue = w]
           out    == AfterVenue(x, VSubmitError(v, req.tif, req.qty, req.price))
<1>1. Submit(e, req) = IF placed.err # "none" THEN placed ELSE out
  BY DEF Submit
<1>2. /\ Advances(e, placed.eng) /\ EngOk(placed.eng)
      /\ placed.err \in {"none", "Duplicate"} => key \in DOMAIN placed.eng.byClient
  BY PlaceAdvances DEF Advances
<1> HIDE DEF placed, key
<1>3. VenueOk(w)
  BY <1>2, VSubmitOk DEF EngOk
<1> HIDE DEF w
<1>4. Advances(placed.eng, x) /\ EngOk(x)
  BY <1>2, <1>3, VenueAdvances DEF Advances
<1> HIDE DEF x
<1>5. Advances(x, out.eng)
  BY <1>4, AfterVenueAdvances
<1> HIDE DEF out
<1>6. Advances(placed.eng, out.eng) /\ Advances(e, out.eng)
  BY <1>2, <1>4, <1>5, AdvancesTrans
<1>7. placed.err = "none" => key \in DOMAIN out.eng.byClient
  BY <1>2, <1>6 DEF Advances
<1>8. /\ Advances(e, Submit(e, req).eng)
      /\ Submit(e, req).err \in {"none", "Duplicate"} => key \in DOMAIN Submit(e, req).eng.byClient
  BY <1>1, <1>2, <1>6, <1>7
<1> QED BY <1>8 DEF key

LEMMA CancelAdvances ==
  ASSUME NEW e, EngOk(e), NEW id \in DOMAIN e.orders
  PROVE  Advances(e, Cancel(e, id).eng)
<1> DEFINE ev == Event("CancelRequested", 0, 0, 0)
           y  == ApplyOms(e, id, ev)
           w  == VCancel(y.venue, id)
           x  == [y EXCEPT !.venue = w]
           out == AfterVenue(x, VCancelError(e.venue, id))
<1>1. Cancel(e, id).eng = IF ApplyError(e.orders[id], ev) # "none" THEN e ELSE out.eng
  BY DEF Cancel, RequestCancel, Ok, Fail
<1>2. ev.qty \in Int /\ ev.price \in Int
  BY DEF Event
<1>3. id \in Nat
  BY DEF EngOk
<1> HIDE DEF ev
<1>4. ASSUME ApplyError(e.orders[id], ev) = "none" PROVE Advances(e, out.eng)
  <2>1. Advances(e, y) /\ EngOk(y)
    BY <1>2, <1>4, OmsAdvances DEF Advances
  <2> HIDE DEF y
  <2>2. VenueOk(w)
    BY <1>3, <2>1, VCancelOk DEF EngOk
  <2> HIDE DEF w
  <2>3. Advances(y, x) /\ EngOk(x)
    BY <2>1, <2>2, VenueAdvances DEF Advances
  <2> HIDE DEF x
  <2>4. Advances(x, out.eng)
    BY <2>3, AfterVenueAdvances
  <2> HIDE DEF out
  <2> QED BY <2>1, <2>3, <2>4, AdvancesTrans
<1> HIDE DEF out
<1> QED BY <1>1, <1>4, AdvancesRefl

LEMMA RequestReplaceAdvances ==
  ASSUME NEW e, EngOk(e), NEW id \in DOMAIN e.orders, NEW qty \in Int, NEW price \in Int
  PROVE  Advances(e, RequestReplace(e, id, qty, price).eng)
<1> DEFINE o      == e.orders[id]
           a      == o.account
           leaves == qty - o.cum
           ev     == Event("ReplaceRequested", 0, qty, price)
           cash   == price * leaves - GetOrZero(e.remCash, id)
           lots   == leaves - GetOrZero(e.remLots, id)
           key    == Key("rsv-repl", a, id)
           buy    == [e EXCEPT !.book = Reserve(@, a, cash, key), !.remCash = Put(@, id, price * leaves)]
           sell   == [e EXCEPT !.book = ReservePosition(@, a, lots), !.remLots = Put(@, id, leaves)]
           out    == RequestReplace(e, id, qty, price).eng
<1>1. \/ out \in {e, buy, sell}
      \/ ApplyError(o, ev) = "none" /\ \E h \in {e, buy, sell} : out = ApplyOms(h, id, ev)
  BY DEF RequestReplace, Ok, Fail
<1>2. ev.qty \in Int /\ ev.price \in Int
  BY DEF Event
<1>3. key.kind \notin FundsOps
  BY KeysAreOwn
<1>4. DOMAIN e = EngFields /\ BookOk(e.book)
  BY DEF EngOk
<1> HIDE DEF ev, key, cash, leaves, lots, a, out
<1>5. Settles(e, buy)
  <2>1. BookGrows(e.book, Reserve(e.book, a, cash, key))
    BY <1>3, <1>4, MovesGrow
  <2> QED BY <1>4, <2>1, SettlesFields, Zenon
<1>6. Settles(e, sell)
  <2>1. BookGrows(e.book, ReservePosition(e.book, a, lots))
    BY <1>3, <1>4, MovesGrow
  <2> QED BY <1>4, <2>1, SettlesFields, Zenon
<1> HIDE DEF buy, sell
<1>7. ASSUME NEW h \in {e, buy, sell}
      PROVE  Advances(e, h) /\ (ApplyError(o, ev) = "none" => Advances(e, ApplyOms(h, id, ev)))
  <2>1. Settles(e, h)
    BY <1>4, <1>5, <1>6, BookRefl DEF Settles
  <2>2. Advances(e, h) /\ EngOk(h) /\ h.orders = e.orders
    BY <2>1, SettlesAdvances DEF Settles, Advances
  <2>3. ApplyError(o, ev) = "none" => Advances(h, ApplyOms(h, id, ev))
    BY <1>2, <2>2, OmsAdvances
  <2> QED BY <2>2, <2>3, AdvancesTrans
<1>8. Advances(e, out)
  BY <1>1, <1>7
<1> QED BY <1>8 DEF out

LEMMA ReplaceAdvances ==
  ASSUME NEW e, EngOk(e), NEW id \in DOMAIN e.orders, NEW qty \in Int, NEW price \in Int
  PROVE  Advances(e, Replace(e, id, qty, price).eng)
<1> DEFINE asked == RequestReplace(e, id, qty, price)
           y   == asked.eng
           w   == VReplace(y.venue, id, qty, price)
           x   == [y EXCEPT !.venue = w]
           out == AfterVenue(x, VReplaceError(e.venue, id, qty, price))
<1>1. Replace(e, id, qty, price).eng \in {y, out.eng}
  BY DEF Replace
<1>2. Advances(e, y) /\ EngOk(y) /\ id \in Nat
  BY RequestReplaceAdvances DEF Advances, EngOk
<1> HIDE DEF asked, y
<1>3. VenueOk(w)
  BY <1>2, VReplaceOk DEF EngOk
<1> HIDE DEF w
<1>4. Advances(y, x) /\ EngOk(x)
  BY <1>2, <1>3, VenueAdvances DEF Advances
<1> HIDE DEF x
<1>5. Advances(x, out.eng)
  BY <1>4, AfterVenueAdvances
<1> HIDE DEF out
<1> QED BY <1>1, <1>2, <1>4, <1>5, AdvancesTrans

\* An outage and its end leave orders and book alone.
LEMMA OutageAdvances ==
  ASSUME NEW e, EngOk(e)
  PROVE  /\ Advances(e, Disconnect(e)) /\ Advances(e, Reconnect(e))
         /\ Disconnect(e).orders = e.orders /\ Disconnect(e).book = e.book
         /\ Reconnect(e).orders = e.orders /\ Reconnect(e).book = e.book
         /\ Disconnect(e).kill = e.kill /\ Reconnect(e).kill = e.kill
<1>1. /\ DOMAIN e = EngFields /\ VenueOk(VDisconnect(e.venue)) /\ VenueOk(VReconnect(e.venue))
      /\ e.kill \in BOOLEAN /\ BookGrows(e.book, e.book)
  BY DisconnectOk, ReconnectOk, BookRefl DEF EngOk
<1>2. ASSUME NEW x, x \in {Disconnect(e), Reconnect(e)}
      PROVE  /\ DOMAIN x = EngFields /\ x.orders = e.orders /\ x.byClient = e.byClient
             /\ x.nextId = e.nextId /\ x.book = e.book /\ x.kill = e.kill
             /\ x.venue \in {VDisconnect(e.venue), VReconnect(e.venue)}
  BY <1>1, <1>2 DEF Disconnect, Reconnect, EngFields
<1>3. ASSUME NEW x, x \in {Disconnect(e), Reconnect(e)} PROVE Advances(e, x)
  BY <1>1, <1>2, <1>3, SameOrders
<1> QED BY <1>2, <1>3

-----------------------------------------------------------------------------
(* Boot and hydration.                                                     *)

DbOk(d) ==
  /\ DOMAIN d = {"rows", "ledger", "positions", "risk"}
  /\ OrdersOk(d.rows) /\ \E n \in Nat : DOMAIN d.rows \subseteq 1 .. n
  /\ \A e \in d.ledger : EntryOk(e)

LEMMA MaxOfIds ==
  ASSUME NEW ids, NEW n \in Nat, ids \subseteq 1 .. n, ids # {}
  PROVE  Max(ids) \in Nat /\ ids \subseteq 1 .. Max(ids)
<1> DEFINE Above == {m \in Nat : \A i \in ids : i <= m}
<1>1. Above \in SUBSET Nat /\ n \in Above
  OBVIOUS
<1>2. PICK m \in Above : \A k \in Above : m <= k
  <2> HIDE DEF Above
  <2> QED BY <1>1, LeastBad
<1>3. m \in ids
  <2>1. SUFFICES ASSUME m \notin ids PROVE FALSE
    OBVIOUS
  <2>2. PICK i \in ids : TRUE
    OBVIOUS
  <2>3. m \in Nat /\ m - 1 \in Nat
    BY <1>2, <2>1, <2>2
  <2>4. \A j \in ids : j <= m - 1
    BY <1>2, <2>1, <2>3
  <2>5. m - 1 \in Above
    BY <2>3, <2>4
  <2> QED BY <1>2, <2>3, <2>5
<1>4. \E x \in ids : \A y \in ids : x >= y
  BY <1>2, <1>3
<1> DEFINE top == Max(ids)
<1>5. top \in ids /\ \A y \in ids : top >= y
  BY <1>4 DEF Max
<1> HIDE DEF top
<1>6. top \in Nat
  BY <1>5
<1>7. \A y \in ids : y \in 1 .. top
  BY <1>5, <1>6
<1> QED BY <1>6, <1>7 DEF top

LEMMA NewVenueOk ==
  ASSUME NEW faults, FaultsOk(faults)
  PROVE  VenueOk(NewVenue(faults))
<1> DEFINE v == NewVenue(faults)
<1>1. /\ DOMAIN v = VenueFields /\ v.session = 1 /\ v.nextSeq = 1 /\ v.nextExec = 1
      /\ v.faults = faults /\ DOMAIN v.inflight = {} /\ v.outbox = <<>> /\ v.history = <<>>
  BY DEF NewVenue, VenueFields, NoInflight
<1>2. <<>> \in Seq(Reports)
  OBVIOUS
<1> HIDE DEF v
<1>3. VenueOk(v)
  BY <1>1, <1>2 DEF VenueOk
<1> QED BY <1>3 DEF v

LEMMA ReplayOk ==
  ASSUME NEW entries, \A e \in entries : EntryOk(e)
  PROVE  BookOk(Replay(entries, Accounts)) /\ Replay(entries, Accounts).entries = entries
<1> DEFINE b == Replay(entries, Accounts)
<1>1. DOMAIN b = BookFields /\ b.entries = entries
  BY DEF Replay, EmptyBook, BookFields
<1> HIDE DEF b
<1>2. BookOk(b)
  BY <1>1 DEF BookOk
<1> QED BY <1>1, <1>2 DEF b

LEMMA BootOk ==
  ASSUME NEW faults, FaultsOk(faults)
  PROVE  EngOk(Boot(faults)) /\ Boot(faults).kill = FALSE
<1> DEFINE S == {Entry(Key("bootstrap", a, 0), a, StartCash, 0, -StartCash, 0, 0) : a \in Accounts}
           b == Replay(S, Accounts)
           x == Boot(faults)
<1>1. BookOk(b)
  <2>1. \A e \in S : EntryOk(e)
    BY KeysAreOwn, OwnEntryOk
  <2> HIDE DEF S
  <2> QED BY <2>1, ReplayOk
<1>2. x = [NewEngine(faults) EXCEPT !.book = b]
  BY DEF Boot
<1> HIDE DEF S, b, x
<1>3. /\ DOMAIN x = EngFields /\ x.nextId = 0 /\ x.kill = FALSE /\ DOMAIN x.orders = {}
      /\ DOMAIN x.byClient = {} /\ x.book = b /\ x.venue = NewVenue(faults)
  BY <1>2 DEF NewEngine, EngFields
<1>4. OrdersOk(x.orders) /\ \A k \in DOMAIN x.byClient : x.byClient[k] \in DOMAIN x.orders
  BY <1>3 DEF OrdersOk
<1>5. VenueOk(x.venue)
  BY <1>3, NewVenueOk
<1>6. x.nextId \in Nat /\ DOMAIN x.orders \subseteq 1 .. x.nextId
  BY <1>3
<1>7. x.kill \in BOOLEAN
  <2>1. x.kill = FALSE
    BY <1>3
  <2> QED BY <2>1, Zenon
<1>8. EngOk(x)
  BY <1>1, <1>3, <1>4, <1>5, <1>6, <1>7 DEF EngOk
<1> QED BY <1>3, <1>8 DEF x

LEMMA HydratedBookOk ==
  ASSUME NEW d, DbOk(d)
  PROVE  BookOk(HydratedBook(d)) /\ d.ledger \subseteq HydratedBook(d).entries
<1> DEFINE journal == Replay(d.ledger, Accounts)
           aligned == AlignEntries(d.rows, journal)
           b == Replay(d.ledger \cup aligned, Accounts)
           c == HydratedBook(d)
<1>1. \A e \in aligned : EntryOk(e)
  BY KeysAreOwn, OwnEntryOk DEF AlignEntries
<1> HIDE DEF journal, aligned
<1>2. BookOk(b) /\ b.entries = d.ledger \cup aligned
  BY <1>1, ReplayOk DEF DbOk
<1>3. DOMAIN c = DOMAIN b /\ c.entries = b.entries
  BY <1>2 DEF HydratedBook, BookOk, BookFields, journal, aligned
<1> HIDE DEF b, c
<1>4. BookOk(c) /\ d.ledger \subseteq c.entries
  BY <1>2, <1>3 DEF BookOk
<1> QED BY <1>4 DEF c

LEMMA RestoreOk ==
  ASSUME NEW v, VenueOk(v), NEW orders, OrdersOk(orders)
  PROVE  VenueOk(VRestoreWorking(v, orders))
<1> DEFINE Sim(o) == [qty |-> o.qty, price |-> o.price, cum |-> o.cum, canceled |-> FALSE]
           f == [id \in DOMAIN v.inflight \cup DOMAIN orders |->
                   IF id \in DOMAIN orders THEN Sim(orders[id]) ELSE v.inflight[id]]
<1>1. \A id \in DOMAIN orders : Sim(orders[id]) \in Sims
  BY DEF OrdersOk, OrderOk, Sims
<1>2. VRestoreWorking(v, orders) = [v EXCEPT !.inflight = f]
  BY DEF VRestoreWorking
<1> HIDE DEF Sim
<1>3. \A id \in DOMAIN f : f[id] \in Sims
  BY <1>1 DEF VenueOk
<1> HIDE DEF f
<1> QED BY <1>2, <1>3, InflightOk

LEMMA HydratedOk ==
  ASSUME NEW d, DbOk(d), NEW faults, FaultsOk(faults)
  PROVE  /\ EngOk(HydratedFromStore(d, faults))
         /\ HydratedFromStore(d, faults).orders = d.rows
         /\ d.ledger \subseteq HydratedFromStore(d, faults).book.entries
<1> DEFINE rows  == d.rows
           ids   == [k \in {<<rows[id].account, rows[id].client>> : id \in DOMAIN rows} |->
                       CHOOSE id \in DOMAIN rows : <<rows[id].account, rows[id].client>> = k]
           top   == IF DOMAIN rows = {} THEN 0 ELSE Max(DOMAIN rows)
           sent  == [id \in {i \in DOMAIN rows : AtVenue(rows[i])} |-> rows[id]]
           v     == VRestoreWorking(NewVenue(faults), sent)
           b     == HydratedBook(d)
           halt  == \/ \E a \in Accounts : Underfunded(rows, Replay(d.ledger, Accounts), a)
                    \/ \E id \in DOMAIN rows : IsPending(rows[id])
           cash  == [id \in UNION {OpenOf(rows, a, "Buy") : a \in Accounts} |->
                       rows[id].price * rows[id].leaves]
           lots  == [id \in UNION {OpenOf(rows, a, "Sell") : a \in Accounts} |-> rows[id].leaves]
           new   == NewEngine(faults)
           e     == Hydrated(d, faults)
           x     == HydratedFromStore(d, faults)
<1>1. OrdersOk(rows) /\ \E n \in Nat : DOMAIN rows \subseteq 1 .. n
  BY DEF DbOk
<1>2. \A k \in DOMAIN ids : ids[k] \in DOMAIN rows
  OBVIOUS
<1>3. top \in Nat /\ DOMAIN rows \subseteq 1 .. top
  BY <1>1, MaxOfIds
<1>4. VenueOk(v)
  <2>1. OrdersOk(sent)
    BY <1>1 DEF OrdersOk
  <2> HIDE DEF sent
  <2> QED BY <2>1, NewVenueOk, RestoreOk
<1>5. BookOk(b) /\ d.ledger \subseteq b.entries
  BY HydratedBookOk
<1>6. halt \in BOOLEAN
  OBVIOUS
<1>7. e = [new EXCEPT !.orders = rows, !.byClient = ids, !.nextId = top, !.book = b,
                      !.venue = v, !.remCash = cash, !.remLots = lots, !.kill = halt]
  BY DEF Hydrated, NewEngine
<1>8. DOMAIN new = EngFields
  BY DEF NewEngine, EngFields
<1>9. x = IF d.risk = "none" THEN e ELSE [e EXCEPT !.kill = d.risk = "on"]
  BY DEF HydratedFromStore
<1> HIDE DEF ids, top, sent, v, b, halt, cash, lots, new, e, x, rows
<1>10. /\ DOMAIN e = EngFields /\ e.orders = rows /\ e.byClient = ids /\ e.nextId = top
       /\ e.book = b /\ e.venue = v /\ e.kill = halt
  BY <1>7, <1>8 DEF EngFields
<1>11. /\ DOMAIN x = EngFields /\ x.orders = rows /\ x.byClient = ids /\ x.nextId = top
       /\ x.book = b /\ x.venue = v
  BY <1>9, <1>10 DEF EngFields
<1>12. x.kill \in BOOLEAN
  <2>1. x.kill = halt \/ x.kill = (d.risk = "on")
    BY <1>9, <1>10 DEF EngFields
  <2>2. (d.risk = "on") \in BOOLEAN
    OBVIOUS
  <2> QED BY <1>6, <2>1, <2>2
<1>13. EngOk(x)
  BY <1>1, <1>2, <1>3, <1>4, <1>5, <1>11, <1>12 DEF EngOk
<1> QED BY <1>5, <1>11, <1>13 DEF rows, x

-----------------------------------------------------------------------------
(* The gateway.                                                            *)

\* Every key of a deposit or withdrawal is used for one account and one amount.
OwnKeys ==
  \A r, s \in Requests :
    r.op \in FundsOps /\ s.op = r.op /\ s.key = r.key => s.account = r.account /\ s.amount = r.amount

\* A request is being served, an operator's change of the kill switch is not one.
Serving(t) == t.pc # "idle" /\ t.req.op # "ops"

NoteOk(n) == n # NoOrder => n.id \in Nat \ {0} /\ OrderOk(n.order)

TaskOk(t) ==
  /\ t.pc \in {"handling", "persisting", "writing", "rollback"} => Serving(t)
  /\ Serving(t) => t.req \in Requests /\ EngOk(t.snap)
  /\ t.pc = "persisting" => NoteOk(t.order)
  /\ t.pc = "writing" => NoteOk(t.batch.order) /\ \A e \in t.batch.ledger : EntryOk(e)

AcksOk(acks) == \A ack \in acks : ack.op = "order" => OrderOk(ack.order)

\* What is in store d is in engine e.
Within(d, e) == Carries(d.rows, e.orders) /\ d.ledger \subseteq e.book.entries

\* The order version n that is to be written is at least as new as the row of
\* store d and at most as new as the order of engine e.
Between(d, e, n) ==
  n # NoOrder => /\ Knows(e.orders, n.id, n.order)
                 /\ n.id \in DOMAIN d.rows => Grows(d.rows[n.id], n.order)

FundsIn(entries, r) == OwnKeys /\ r.op \in FundsOps => Holds(entries, r)

\* A request that is served alone: its clone of the engine is no older than the
\* store, and what it will write is no older than the store and no newer than the
\* engine.
TaskOrderly(d, e, t) ==
  Serving(t) =>
    /\ Within(d, t.snap)
    /\ t.pc = "persisting" => Between(d, e, t.order) /\ FundsIn(e.book.entries, t.req)
    /\ t.pc = "writing" => /\ Between(d, e, t.batch.order)
                           /\ t.batch.ledger \subseteq e.book.entries
                           /\ FundsIn(t.batch.ledger, t.req)

AckDurable(d, ack) ==
  IF ack.op = "order" THEN Knows(d.rows, ack.id, ack.order) ELSE OwnKeys => Holds(d.ledger, ack)

Orderly(d, e, ts, acks) ==
  /\ \A g, h \in Handlers : Serving(ts[g]) /\ Serving(ts[h]) => g = h
  /\ Within(d, e)
  /\ \A ack \in acks : AckDurable(d, ack)
  /\ \A h \in Handlers : TaskOrderly(d, e, ts[h])

Inv ==
  /\ EngOk(eng) /\ DbOk(db) /\ AcksOk(acked)
  /\ DOMAIN tasks = Handlers /\ \A h \in Handlers : TaskOk(tasks[h])
  /\ alone \in BOOLEAN /\ (alone => Orderly(db, eng, tasks, acked))
  /\ FailedWriteHalts

LEMMA IdleServesNothing == ~Serving(Idle) /\ TaskOk(Idle)
BY DEF Serving, Idle, TaskOk

\* Stores and engines with the same orders and entries say the same.
LEMMA SameStores ==
  ASSUME NEW d, NEW e, NEW d2, NEW e2,
         d2.rows = d.rows, d2.ledger = d.ledger, e2.orders = e.orders, e2.book = e.book
  PROVE  /\ Within(d, e) => Within(d2, e2)
         /\ \A t : TaskOrderly(d, e, t) => TaskOrderly(d2, e2, t)
         /\ \A ack : AckDurable(d, ack) => AckDurable(d2, ack)
<1>1. Within(d, e) => Within(d2, e2)
  BY DEF Within
<1>2. ASSUME NEW t PROVE TaskOrderly(d, e, t) => TaskOrderly(d2, e2, t)
  BY DEF TaskOrderly, Within, Between
<1>3. ASSUME NEW ack PROVE AckDurable(d, ack) => AckDurable(d2, ack)
  BY DEF AckDurable
<1> QED BY <1>1, <1>2, <1>3

\* A step of one handler: what has to be shown of it.
LEMMA TaskStep ==
  ASSUME Inv, NEW h \in Handlers, NEW t, tasks' = [tasks EXCEPT ![h] = t], TaskOk(t),
         EngOk(eng'), DbOk(db'), AcksOk(acked'), alone' \in BOOLEAN, FailedWriteHalts',
         alone' =>
           /\ alone /\ Within(db', eng') /\ TaskOrderly(db', eng', t)
           /\ \A ack \in acked' : AckDurable(db', ack)
           /\ \A g \in Handlers \ {h} : TaskOrderly(db', eng', tasks[g])
           /\ Serving(t) => \A g \in Handlers \ {h} : ~Serving(tasks[g])
  PROVE  Inv'
<1>1. DOMAIN tasks' = Handlers /\ tasks'[h] = t /\ \A g \in Handlers \ {h} : tasks'[g] = tasks[g]
  BY DEF Inv
<1>2. \A g \in Handlers : TaskOk(tasks'[g])
  BY <1>1 DEF Inv
<1>3. ASSUME alone' PROVE Orderly(db', eng', tasks', acked')
  <2>1. \A g, k \in Handlers : Serving(tasks[g]) /\ Serving(tasks[k]) => g = k
    BY <1>3 DEF Inv, Orderly
  <2>2. \A g, k \in Handlers : Serving(tasks'[g]) /\ Serving(tasks'[k]) => g = k
    BY <1>1, <1>3, <2>1
  <2>3. \A g \in Handlers : TaskOrderly(db', eng', tasks'[g])
    BY <1>1, <1>3
  <2> QED BY <1>3, <2>2, <2>3 DEF Orderly
<1> QED BY <1>1, <1>2, <1>3 DEF Inv

\* While requests are served one at a time, the other handlers serve none.
LEMMA OthersIdle ==
  ASSUME Inv, alone, NEW h \in Handlers, Serving(tasks[h])
  PROVE  /\ \A g \in Handlers \ {h} : ~Serving(tasks[g])
         /\ \A d, e : \A g \in Handlers \ {h} : TaskOrderly(d, e, tasks[g])
<1>1. \A g \in Handlers \ {h} : ~Serving(tasks[g])
  BY DEF Inv, Orderly
<1> QED BY <1>1 DEF TaskOrderly

LEMMA ArriveInv ==
  ASSUME Inv, NEW h \in Handlers, NEW r \in Requests, Arrive(h, r)
  PROVE  Inv'
<1> DEFINE t == [pc |-> "handling", req |-> r, snap |-> eng]
<1>1. tasks' = [tasks EXCEPT ![h] = t] /\ UNCHANGED <<eng, db, acked, halted>>
  BY DEF Arrive
<1>2. alone' = (alone /\ \A other \in Handlers : tasks[other] = Idle \/ tasks[other].req.op = "ops")
  BY DEF Arrive
<1>3. t.pc = "handling" /\ t.req = r /\ t.snap = eng /\ r.op # "ops"
  BY RequestAssumption
<1> HIDE DEF t
<1>4. TaskOk(t)
  BY <1>3 DEF TaskOk, Serving, Inv
<1>5. alone' \in BOOLEAN /\ FailedWriteHalts'
  BY <1>1, <1>2 DEF Inv, FailedWriteHalts
<1>6. ASSUME alone'
      PROVE  /\ alone /\ Within(db', eng') /\ TaskOrderly(db', eng', t)
             /\ \A ack \in acked' : AckDurable(db', ack)
             /\ \A g \in Handlers \ {h} : TaskOrderly(db', eng', tasks[g])
             /\ Serving(t) => \A g \in Handlers \ {h} : ~Serving(tasks[g])
  <2>1. alone /\ Orderly(db, eng, tasks, acked)
    BY <1>2, <1>6 DEF Inv
  <2>2. \A g \in Handlers : ~Serving(tasks[g])
    BY <1>2, <1>6, IdleServesNothing DEF Serving
  <2>3. TaskOrderly(db, eng, t)
    BY <1>3, <2>1 DEF TaskOrderly, Orderly
  <2> QED BY <1>1, <2>1, <2>2, <2>3 DEF Orderly
<1> QED BY <1>1, <1>4, <1>5, <1>6, TaskStep DEF Inv

-----------------------------------------------------------------------------
(* An engine call that advances the engine.                                *)

\* The order a handler hands on is one of the engine before or after the call.
Noted(e, x, n) ==
  n # NoOrder =>
    \/ n.id \in DOMAIN x.orders /\ n.order = x.orders[n.id]
    \/ n.id \in DOMAIN e.orders /\ n.order = e.orders[n.id]

LEMMA NotedBetween ==
  ASSUME NEW d, NEW e, NEW x, NEW n, EngOk(e), Advances(e, x), Noted(e, x, n)
  PROVE  /\ NoteOk(n)
         /\ DbOk(d) /\ Within(d, e) => Between(d, x, n)
<1> SUFFICES ASSUME n # NoOrder
             PROVE  /\ n.id \in Nat \ {0} /\ OrderOk(n.order)
                    /\ DbOk(d) /\ Within(d, e) =>
                         /\ Knows(x.orders, n.id, n.order)
                         /\ n.id \in DOMAIN d.rows => Grows(d.rows[n.id], n.order)
  BY DEF NoteOk, Between
<1>1. EngOk(x) /\ Carries(e.orders, x.orders)
  BY DEF Advances
<1>2. OrdersOk(e.orders) /\ OrdersOk(x.orders)
  BY <1>1 DEF EngOk
<1>3. CASE n.id \in DOMAIN x.orders /\ n.order = x.orders[n.id]
  <2>1. n.id \in Nat \ {0} /\ OrderOk(n.order)
    BY <1>1, <1>3 DEF EngOk, OrdersOk
  <2>2. Knows(x.orders, n.id, n.order)
    BY <1>3, <2>1, GrowsRefl, KnowsIsGrows
  <2>3. ASSUME DbOk(d), Within(d, e), n.id \in DOMAIN d.rows PROVE Grows(d.rows[n.id], n.order)
    <3>1. Carries(d.rows, x.orders)
      BY <1>1, <1>2, <2>3, CarriesTrans DEF DbOk, Within
    <3> QED BY <1>3, <2>3, <3>1, KnowsIsGrows DEF Carries
  <2> QED BY <2>1, <2>2, <2>3
<1>4. CASE n.id \in DOMAIN e.orders /\ n.order = e.orders[n.id]
  <2>1. n.id \in Nat \ {0} /\ OrderOk(n.order)
    BY <1>4 DEF EngOk, OrdersOk
  <2>2. Knows(x.orders, n.id, n.order)
    BY <1>1, <1>4 DEF Carries
  <2>3. ASSUME DbOk(d), Within(d, e), n.id \in DOMAIN d.rows PROVE Grows(d.rows[n.id], n.order)
    BY <1>4, <2>3, KnowsIsGrows DEF Carries, Within
  <2> QED BY <2>1, <2>2, <2>3
<1> QED BY <1>3, <1>4 DEF Noted

LEMMA WithinOn ==
  ASSUME NEW d, NEW e, NEW x, DbOk(d), EngOk(e), Advances(e, x), Within(d, e)
  PROVE  Within(d, x)
<1>1. Carries(d.rows, x.orders)
  BY CarriesTrans DEF Advances, Within, EngOk, DbOk
<1> QED BY <1>1 DEF Advances, Within

LEMMA HandledInv ==
  ASSUME Inv, NEW h \in Handlers, tasks[h].pc = "handling", NEW e, NEW persists \in BOOLEAN,
         NEW n, Handled(h, e, persists, n), Advances(eng, e), Noted(eng, e, n),
         persists => FundsIn(e.book.entries, tasks[h].req)
  PROVE  Inv'
<1> DEFINE req  == tasks[h].req
           snap == tasks[h].snap
           on   == [pc |-> "persisting", req |-> req, snap |-> snap, order |-> n]
           t    == IF persists THEN on ELSE Idle
<1>1. /\ tasks' = [tasks EXCEPT ![h] = t] /\ eng' = e
      /\ UNCHANGED <<db, acked, halted, alone, count>>
  BY DEF Handled
<1>2. Serving(tasks[h]) /\ req \in Requests /\ EngOk(snap)
  BY DEF Inv, TaskOk
<1>3. /\ on.pc = "persisting" /\ on.req = req /\ on.snap = snap /\ on.order = n
  OBVIOUS
<1>4. EngOk(eng) /\ EngOk(e) /\ (eng.kill => e.kill) /\ DbOk(db) /\ AcksOk(acked) /\ alone \in BOOLEAN
  BY DEF Inv, Advances
<1>5. NoteOk(n)
  BY <1>4, NotedBetween
<1> HIDE DEF on
<1>6. TaskOk(on) /\ Serving(on)
  BY <1>2, <1>3, <1>5 DEF TaskOk, Serving
<1>7. TaskOk(t)
  BY <1>6, IdleServesNothing
<1>8. FailedWriteHalts'
  BY <1>1, <1>4 DEF FailedWriteHalts, Inv
<1>9. ASSUME alone'
      PROVE  /\ alone /\ Within(db', eng') /\ TaskOrderly(db', eng', t)
             /\ \A ack \in acked' : AckDurable(db', ack)
             /\ \A g \in Handlers \ {h} : TaskOrderly(db', eng', tasks[g])
             /\ Serving(t) => \A g \in Handlers \ {h} : ~Serving(tasks[g])
  <2>1. alone /\ Orderly(db, eng, tasks, acked)
    BY <1>1, <1>9 DEF Inv
  <2>2. Within(db, eng) /\ TaskOrderly(db, eng, tasks[h])
    BY <2>1 DEF Orderly
  <2>3. Within(db, e) /\ Within(db, snap) /\ Between(db, e, n)
    BY <1>2, <1>4, <2>2, WithinOn, NotedBetween DEF TaskOrderly
  <2>4. persists => TaskOrderly(db, e, on)
    BY <1>3, <2>3 DEF TaskOrderly
  <2>5. TaskOrderly(db, e, t)
    BY <2>4, IdleServesNothing DEF TaskOrderly
  <2> HIDE DEF t
  <2>6. /\ \A g \in Handlers \ {h} : ~Serving(tasks[g])
        /\ \A g \in Handlers \ {h} : TaskOrderly(db, e, tasks[g])
    BY <1>2, <2>1, OthersIdle
  <2> QED BY <1>1, <2>1, <2>3, <2>5, <2>6 DEF Orderly
<1> HIDE DEF t
<1> QED BY <1>1, <1>4, <1>7, <1>8, <1>9, TaskStep

LEMMA SubmitInv ==
  ASSUME Inv, NEW h \in Handlers, HandleSubmit(h)
  PROVE  Inv'
<1> DEFINE req  == tasks[h].req
           out  == Submit(eng, req)
           x    == out.eng
           key  == <<req.account, req.client>>
           kept == out.err \in {"none", "Duplicate", "Risk"}
           n    == IF out.err \in {"none", "Duplicate"} THEN Clone(x, x.byClient[key]) ELSE NoOrder
<1>1. tasks[h].pc = "handling" /\ req.op = "submit" /\ Handled(h, x, kept, n) /\ kept \in BOOLEAN
  BY DEF HandleSubmit, Handling
<1>2. EngOk(eng) /\ req \in Requests
  BY <1>1 DEF Inv, TaskOk
<1>3. req.qty \in Int /\ req.price \in Int
  BY <1>1, <1>2, RequestAssumption
<1>4. /\ Advances(eng, x)
      /\ out.err \in {"none", "Duplicate"} => key \in DOMAIN x.byClient
  BY <1>2, <1>3, SubmitAdvances
<1> HIDE DEF out, key
<1>5. out.err \in {"none", "Duplicate"} => x.byClient[key] \in DOMAIN x.orders
  BY <1>4 DEF Advances, EngOk
<1>6. Noted(eng, x, n)
  BY <1>5 DEF Noted, Clone
<1>7. FundsIn(x.book.entries, req)
  BY <1>1 DEF FundsIn, FundsOps
<1> HIDE DEF kept, n
<1> QED BY <1>1, <1>4, <1>6, <1>7, HandledInv

LEMMA CancelInv ==
  ASSUME Inv, NEW h \in Handlers, HandleCancel(h)
  PROVE  Inv'
<1> DEFINE r    == tasks[h].req
           out  == Cancel(eng, r.id)
           x    == out.eng
           kept == out.err \in {"none", "Order"}
           n    == IF out.err = "none" THEN Clone(x, r.id) ELSE Clone(eng, r.id)
<1>1. tasks[h].pc = "handling" /\ r.op = "cancel"
  BY DEF HandleCancel, Handling
<1>2. EngOk(eng) /\ \A es : FundsIn(es, r)
  BY <1>1 DEF Inv, FundsIn, FundsOps
<1>3. CASE Owns(r)
  <2>1. Handled(h, x, kept, n) /\ kept \in BOOLEAN /\ r.id \in DOMAIN eng.orders
    BY <1>3 DEF HandleCancel, Owns
  <2>2. Advances(eng, x)
    BY <1>2, <2>1, CancelAdvances
  <2> HIDE DEF out
  <2>3. r.id \in DOMAIN x.orders
    BY <2>1, <2>2, KnowsIsGrows DEF Advances, Carries
  <2>4. Noted(eng, x, n)
    BY <2>1, <2>3 DEF Noted, Clone
  <2> HIDE DEF kept, n
  <2> QED BY <1>1, <1>2, <2>1, <2>2, <2>4, HandledInv
<1>4. CASE ~Owns(r)
  <2>1. Handled(h, eng, FALSE, NoOrder)
    BY <1>4 DEF HandleCancel
  <2>2. Advances(eng, eng) /\ Noted(eng, eng, NoOrder)
    BY <1>2, AdvancesRefl DEF Noted
  <2> QED BY <1>1, <1>2, <2>1, <2>2, HandledInv
<1> QED BY <1>3, <1>4

LEMMA ReplaceInv ==
  ASSUME Inv, NEW h \in Handlers, HandleReplace(h)
  PROVE  Inv'
<1> DEFINE r    == tasks[h].req
           out  == Replace(eng, r.id, r.qty, r.price)
           x    == out.eng
           kept == out.err = "none"
           n    == IF out.err = "none" THEN Clone(x, r.id) ELSE NoOrder
<1>1. tasks[h].pc = "handling" /\ r.op = "replace"
  BY DEF HandleReplace, Handling
<1>2. EngOk(eng) /\ r \in Requests /\ \A es : FundsIn(es, r)
  BY <1>1 DEF Inv, TaskOk, FundsIn, FundsOps
<1>3. CASE Owns(r)
  <2>1. Handled(h, x, kept, n) /\ kept \in BOOLEAN /\ r.id \in DOMAIN eng.orders
    BY <1>3 DEF HandleReplace, Owns
  <2>2. Advances(eng, x)
    BY <1>1, <1>2, <2>1, ReplaceAdvances, RequestAssumption
  <2> HIDE DEF out
  <2>3. r.id \in DOMAIN x.orders
    BY <2>1, <2>2, KnowsIsGrows DEF Advances, Carries
  <2>4. Noted(eng, x, n)
    BY <2>1, <2>3 DEF Noted, Clone
  <2> HIDE DEF kept, n
  <2> QED BY <1>1, <1>2, <2>1, <2>2, <2>4, HandledInv
<1>4. CASE ~Owns(r)
  <2>1. Handled(h, eng, FALSE, NoOrder)
    BY <1>4 DEF HandleReplace
  <2>2. Advances(eng, eng) /\ Noted(eng, eng, NoOrder)
    BY <1>2, AdvancesRefl DEF Noted
  <2> QED BY <1>1, <1>2, <2>1, <2>2, HandledInv
<1> QED BY <1>3, <1>4

\* A book that has the key of a deposit or withdrawal has its movement.
LEMMA HoldsByKey ==
  ASSUME OwnKeys, NEW r \in Requests, r.op \in FundsOps, NEW entries,
         NEW e \in entries, EntryOk(e), e.key = FundsKey(r)
  PROVE  Holds(entries, r)
<1>1. e.key.kind = r.op /\ e.key.n = r.key
  BY DEF FundsKey, Key
<1>2. PICK s \in Requests : /\ s.op \in FundsOps /\ e.key = FundsKey(s)
                            /\ e.account = s.account /\ e.cash = Money(s)
  BY <1>1 DEF EntryOk
<1>3. s.op = r.op /\ s.key = r.key
  BY <1>1, <1>2 DEF FundsKey, Key
<1>4. s.account = r.account /\ s.amount = r.amount
  BY <1>3 DEF OwnKeys
<1>5. e.account = r.account /\ e.cash = Money(r)
  BY <1>2, <1>3, <1>4 DEF Money
<1> QED BY <1>5 DEF Holds, Money

LEMMA FundsInv ==
  ASSUME Inv, NEW h \in Handlers, HandleFunds(h)
  PROVE  Inv'
<1> DEFINE r   == tasks[h].req
           in  == Entry(FundsKey(r), r.account, r.amount, 0, -r.amount, 0, 0)
           out == Entry(FundsKey(r), r.account, -r.amount, 0, r.amount, 0, 0)
           e   == IF r.op = "deposit" THEN in ELSE out
           new == Post(eng.book, e)
           ok  == IF r.op = "deposit" THEN DepositError(eng.book, r.account, r.amount) = "none"
                  ELSE WithdrawError(eng.book, r.account, r.amount) = "none"
           x   == IF ok THEN [eng EXCEPT !.book = new] ELSE eng
<1>1. tasks[h].pc = "handling" /\ r.op \in FundsOps
  BY DEF HandleFunds, FundsOps
<1>2. Handled(h, x, ok, NoOrder) /\ ok \in BOOLEAN
  BY DEF HandleFunds, Deposit, Withdraw
<1>3. EngOk(eng) /\ r \in Requests
  BY <1>1 DEF Inv, TaskOk
<1>4. e.key = FundsKey(r) /\ EntryOk(e)
  BY <1>1, <1>3 DEF Entry, EntryOk, Money, FundsOps
<1> HIDE DEF e
<1>5. BookOk(eng.book) /\ DOMAIN eng = EngFields
  BY <1>3 DEF EngOk
<1>6. BookGrows(eng.book, new) /\ Posted(new, FundsKey(r))
  BY <1>4, <1>5, PostGrows
<1> HIDE DEF new, ok
<1>7. FundsIn(new.entries, r)
  BY <1>1, <1>3, <1>6, HoldsByKey DEF FundsIn, BookGrows, BookOk, Posted
<1>8. Settles(eng, x)
  BY <1>5, <1>6, SettlesFields, BookRefl, Zenon
<1>9. Advances(eng, x)
  BY <1>3, <1>8, SettlesAdvances
<1>10. ok => FundsIn(x.book.entries, r)
  BY <1>5, <1>7 DEF EngFields
<1>11. Noted(eng, x, NoOrder)
  BY DEF Noted
<1> HIDE DEF x
<1> QED BY <1>1, <1>2, <1>9, <1>10, <1>11, HandledInv

-----------------------------------------------------------------------------
(* must_persist and the rest.                                              *)

LEMMA CollectInv ==
  ASSUME Inv, NEW h \in Handlers, Collect(h)
  PROVE  Inv'
<1> DEFINE req   == tasks[h].req
           snap  == tasks[h].snap
           n     == tasks[h].order
           batch == CollectBatch(eng, n)
           t     == [pc |-> "writing", req |-> req, snap |-> snap, batch |-> batch]
<1>1. /\ tasks[h].pc = "persisting" /\ tasks' = [tasks EXCEPT ![h] = t]
      /\ UNCHANGED <<eng, db, acked, halted, alone, count>>
  BY DEF Collect
<1>2. Serving(tasks[h]) /\ req \in Requests /\ EngOk(snap) /\ NoteOk(n)
  BY <1>1 DEF Inv, TaskOk
<1>3. batch.order = n /\ batch.ledger = eng.book.entries
  BY DEF CollectBatch
<1> HIDE DEF batch
<1>4. t.pc = "writing" /\ t.req = req /\ t.snap = snap /\ t.batch = batch
  OBVIOUS
<1> HIDE DEF t
<1>5. \A e \in batch.ledger : EntryOk(e)
  BY <1>3 DEF Inv, EngOk, BookOk
<1>6. TaskOk(t) /\ Serving(t)
  BY <1>2, <1>3, <1>4, <1>5 DEF TaskOk, Serving
<1>7. ASSUME alone'
      PROVE  /\ alone /\ Within(db', eng') /\ TaskOrderly(db', eng', t)
             /\ \A ack \in acked' : AckDurable(db', ack)
             /\ \A g \in Handlers \ {h} : TaskOrderly(db', eng', tasks[g])
             /\ Serving(t) => \A g \in Handlers \ {h} : ~Serving(tasks[g])
  <2>1. alone /\ Orderly(db, eng, tasks, acked)
    BY <1>1, <1>7 DEF Inv
  <2>2. TaskOrderly(db, eng, tasks[h])
    BY <2>1 DEF Orderly
  <2>3. TaskOrderly(db, eng, t)
    BY <1>1, <1>2, <1>3, <1>4, <2>2 DEF TaskOrderly
  <2>4. /\ \A g \in Handlers \ {h} : ~Serving(tasks[g])
        /\ \A g \in Handlers \ {h} : TaskOrderly(db, eng, tasks[g])
    BY <1>2, <2>1, OthersIdle
  <2> QED BY <1>1, <2>1, <2>3, <2>4 DEF Orderly
<1>8. alone' \in BOOLEAN /\ FailedWriteHalts'
  BY <1>1 DEF Inv, FailedWriteHalts
<1> QED BY <1>1, <1>6, <1>7, <1>8, TaskStep DEF Inv

\* persist_trading_batch leaves a store that knows what it knew, and the batch.
LEMMA PersistedOk ==
  ASSUME NEW d, DbOk(d), NEW batch, NoteOk(batch.order), \A x \in batch.ledger : EntryOk(x),
         NEW e, EngOk(e), Within(d, e), Between(d, e, batch.order),
         batch.ledger \subseteq e.book.entries
  PROVE  LET p == Persisted(d, batch)
         IN  /\ Within(p, e) /\ Carries(d.rows, p.rows) /\ d.ledger \subseteq p.ledger
             /\ batch.order # NoOrder => Knows(p.rows, batch.order.id, batch.order.order)
<1> DEFINE n == batch.order
           p == Persisted(d, batch)
<1>1. /\ p.rows = IF n = NoOrder THEN d.rows ELSE Put(d.rows, n.id, n.order)
      /\ p.ledger = d.ledger \cup {x \in batch.ledger : \A f \in d.ledger : f.key # x.key}
  BY DEF Persisted, DbOk
<1> HIDE DEF p
<1>2. OrdersOk(d.rows) /\ Carries(d.rows, e.orders)
  BY DEF DbOk, Within
<1>3. CASE n = NoOrder
  <2>1. p.rows = d.rows
    BY <1>1, <1>3
  <2>2. Within(p, e) /\ Carries(d.rows, p.rows) /\ d.ledger \subseteq p.ledger
    BY <1>1, <1>2, <2>1, CarriesRefl DEF Within
  <2> QED BY <1>3, <2>2 DEF p
<1>4. CASE n # NoOrder
  <2>1. OrderOk(n.order) /\ Knows(e.orders, n.id, n.order)
    BY <1>4 DEF NoteOk, Between
  <2>2. /\ DOMAIN p.rows = DOMAIN d.rows \cup {n.id} /\ p.rows[n.id] = n.order
        /\ \A i \in DOMAIN d.rows \ {n.id} : p.rows[i] = d.rows[i]
    BY <1>1, <1>4 DEF Put
  <2>3. Carries(p.rows, e.orders)
    BY <1>2, <2>1, <2>2 DEF Carries
  <2>4. Carries(d.rows, p.rows)
    <3> SUFFICES ASSUME NEW i \in DOMAIN d.rows PROVE Knows(p.rows, i, d.rows[i])
      BY DEF Carries
    <3>1. CASE i = n.id
      <4>1. Grows(d.rows[i], n.order)
        BY <1>4, <3>1 DEF Between
      <4> QED BY <2>2, <3>1, <4>1, KnowsIsGrows
    <3>2. CASE i # n.id
      <4>1. OrderOk(d.rows[i])
        BY <1>2 DEF OrdersOk
      <4> QED BY <2>2, <3>2, <4>1, GrowsRefl, KnowsIsGrows
    <3> QED BY <3>1, <3>2
  <2>5. Knows(p.rows, n.id, n.order)
    BY <2>1, <2>2, GrowsRefl, KnowsIsGrows
  <2>6. Within(p, e) /\ d.ledger \subseteq p.ledger
    BY <1>1, <2>3 DEF Within
  <2> QED BY <2>4, <2>5, <2>6 DEF p
<1> QED BY <1>3, <1>4

LEMMA PersistedDbOk ==
  ASSUME NEW d, DbOk(d), NEW batch, NoteOk(batch.order), \A x \in batch.ledger : EntryOk(x)
  PROVE  DbOk(Persisted(d, batch))
<1> DEFINE n == batch.order
           p == Persisted(d, batch)
<1>1. /\ p.rows = IF n = NoOrder THEN d.rows ELSE Put(d.rows, n.id, n.order)
      /\ p.ledger = d.ledger \cup {x \in batch.ledger : \A f \in d.ledger : f.key # x.key}
      /\ DOMAIN p = {"rows", "ledger", "positions", "risk"}
  BY DEF Persisted, DbOk
<1> HIDE DEF p
<1>2. PICK k \in Nat : DOMAIN d.rows \subseteq 1 .. k
  BY DEF DbOk
<1>3. OrdersOk(p.rows)
  <2>1. CASE n = NoOrder
    BY <1>1, <2>1 DEF DbOk
  <2>2. CASE n # NoOrder
    <3>1. p.rows = Put(d.rows, n.id, n.order) /\ OrderOk(n.order) /\ OrdersOk(d.rows)
      BY <1>1, <2>2 DEF DbOk, NoteOk
    <3> QED BY <3>1 DEF Put, OrdersOk
  <2> QED BY <2>1, <2>2
<1>4. \E m \in Nat : DOMAIN p.rows \subseteq 1 .. m
  <2>1. CASE n = NoOrder
    BY <1>1, <1>2, <2>1
  <2>2. CASE n # NoOrder
    <3>1. p.rows = Put(d.rows, n.id, n.order) /\ n.id \in Nat \ {0}
      BY <1>1, <2>2 DEF NoteOk
    <3>2. DOMAIN p.rows = DOMAIN d.rows \cup {n.id}
      BY <3>1 DEF Put
    <3>3. n.id + k \in Nat /\ DOMAIN p.rows \subseteq 1 .. n.id + k
      BY <1>2, <3>1, <3>2
    <3> QED BY <3>3
  <2> QED BY <2>1, <2>2
<1>5. \A x \in p.ledger : EntryOk(x)
  BY <1>1 DEF DbOk
<1>6. DbOk(p)
  BY <1>1, <1>3, <1>4, <1>5 DEF DbOk
<1> QED BY <1>6 DEF p

LEMMA DurableOn ==
  ASSUME NEW d, NEW p, NEW ack, DbOk(d), DbOk(p), ack.op = "order" => OrderOk(ack.order),
         Carries(d.rows, p.rows), d.ledger \subseteq p.ledger, AckDurable(d, ack)
  PROVE  AckDurable(p, ack)
<1>1. CASE ack.op = "order"
  <2>1. Knows(p.rows, ack.id, ack.order)
    BY <1>1, KnowsOn DEF AckDurable, DbOk
  <2> QED BY <1>1, <2>1 DEF AckDurable
<1>2. CASE ack.op # "order"
  BY <1>2 DEF AckDurable, Holds
<1> QED BY <1>1, <1>2

LEMMA CommitInv ==
  ASSUME Inv, NEW h \in Handlers, Commit(h)
  PROVE  Inv'
<1> DEFINE req   == tasks[h].req
           batch == tasks[h].batch
           n     == batch.order
           p     == Persisted(db, batch)
           acks  == Acks(tasks[h])
<1>1. /\ tasks[h].pc = "writing" /\ tasks' = [tasks EXCEPT ![h] = Idle]
      /\ db' = p /\ acked' = acked \cup acks /\ UNCHANGED <<eng, halted, alone, count>>
  BY DEF Commit
<1>2. /\ Serving(tasks[h]) /\ req \in Requests /\ NoteOk(n)
      /\ \A e \in batch.ledger : EntryOk(e)
  BY <1>1 DEF Inv, TaskOk
<1>3. EngOk(eng) /\ DbOk(db) /\ DbOk(p) /\ AcksOk(acked)
  BY <1>2, PersistedDbOk DEF Inv
<1>4. \A ack \in acks :
        \/ ack.op = "order" /\ n # NoOrder /\ ack.id = n.id /\ ack.order = n.order
        \/ ack = req /\ req.op \in FundsOps
  BY DEF Acks, FundsOps
<1> HIDE DEF acks
<1>5. AcksOk(acked')
  <2>1. \A ack \in acks : ack.op = "order" => OrderOk(ack.order)
    BY <1>2, <1>4 DEF NoteOk, FundsOps
  <2> QED BY <1>1, <1>3, <2>1 DEF AcksOk
<1>6. alone' \in BOOLEAN /\ FailedWriteHalts'
  BY <1>1 DEF Inv, FailedWriteHalts
<1>7. ASSUME alone'
      PROVE  /\ alone /\ Within(db', eng') /\ TaskOrderly(db', eng', Idle)
             /\ \A ack \in acked' : AckDurable(db', ack)
             /\ \A g \in Handlers \ {h} : TaskOrderly(db', eng', tasks[g])
             /\ Serving(Idle) => \A g \in Handlers \ {h} : ~Serving(tasks[g])
  <2>1. alone /\ Orderly(db, eng, tasks, acked)
    BY <1>1, <1>7 DEF Inv
  <2>2. Within(db, eng) /\ TaskOrderly(db, eng, tasks[h])
    BY <2>1 DEF Orderly
  <2>3. /\ Between(db, eng, n) /\ batch.ledger \subseteq eng.book.entries
        /\ FundsIn(batch.ledger, req)
    BY <1>1, <1>2, <2>2 DEF TaskOrderly
  <2>4. /\ Within(p, eng) /\ Carries(db.rows, p.rows) /\ db.ledger \subseteq p.ledger
        /\ n # NoOrder => Knows(p.rows, n.id, n.order)
    BY <1>2, <1>3, <2>2, <2>3, PersistedOk
  <2>5. \A ack \in acked : AckDurable(p, ack)
    <3> SUFFICES ASSUME NEW ack \in acked PROVE AckDurable(p, ack)
      OBVIOUS
    <3>1. AckDurable(db, ack) /\ (ack.op = "order" => OrderOk(ack.order))
      BY <1>3, <2>1 DEF Orderly, AcksOk
    <3> HIDE DEF p
    <3> QED BY <1>3, <2>4, <3>1, DurableOn
  <2>6. ASSUME OwnKeys, req.op \in FundsOps PROVE Holds(p.ledger, req)
    <3>1. PICK e \in batch.ledger : e.key = FundsKey(req)
      BY <2>3, <2>6 DEF FundsIn, Holds
    <3>2. p.ledger = db.ledger \cup {x \in batch.ledger : \A f \in db.ledger : f.key # x.key}
      BY <1>3 DEF Persisted, DbOk
    <3>3. PICK f \in p.ledger : f.key = FundsKey(req)
      BY <3>1, <3>2
    <3>4. EntryOk(f)
      BY <1>3 DEF DbOk
    <3> HIDE DEF p
    <3> QED BY <1>2, <2>6, <3>3, <3>4, HoldsByKey
  <2>7. \A ack \in acks : AckDurable(p, ack)
    <3> SUFFICES ASSUME NEW ack \in acks PROVE AckDurable(p, ack)
      OBVIOUS
    <3>1. CASE ack.op = "order" /\ n # NoOrder /\ ack.id = n.id /\ ack.order = n.order
      BY <2>4, <3>1 DEF AckDurable
    <3>2. CASE ack = req /\ req.op \in FundsOps
      <4>1. ack.op # "order"
        BY <3>2 DEF FundsOps
      <4> QED BY <2>6, <3>2, <4>1 DEF AckDurable
    <3> QED BY <1>4, <3>1, <3>2
  <2> HIDE DEF p
  <2>8. \A g \in Handlers \ {h} : TaskOrderly(p, eng, tasks[g])
    BY <1>2, <2>1, OthersIdle
  <2>9. TaskOrderly(p, eng, Idle) /\ ~Serving(Idle)
    BY IdleServesNothing DEF TaskOrderly
  <2> QED BY <1>1, <2>1, <2>4, <2>5, <2>7, <2>8, <2>9
<1> HIDE DEF p
<1> QED BY <1>1, <1>3, <1>5, <1>6, <1>7, IdleServesNothing, TaskStep

\* A step after which orders, book and rows are as they were, and handler h goes on
\* with the same request, or with none.
LEMMA SameStoresStep ==
  ASSUME Inv, NEW h \in Handlers, NEW t, tasks' = [tasks EXCEPT ![h] = t], TaskOk(t),
         Serving(t) => Serving(tasks[h]) /\ t.snap = tasks[h].snap,
         t.pc \notin {"persisting", "writing"},
         EngOk(eng'), eng'.orders = eng.orders, eng'.book = eng.book,
         DbOk(db'), db'.rows = db.rows, db'.ledger = db.ledger,
         acked' = acked, alone' = alone, FailedWriteHalts'
  PROVE  Inv'
<1>1. ASSUME alone'
      PROVE  /\ alone /\ Within(db', eng') /\ TaskOrderly(db', eng', t)
             /\ \A ack \in acked' : AckDurable(db', ack)
             /\ \A g \in Handlers \ {h} : TaskOrderly(db', eng', tasks[g])
             /\ Serving(t) => \A g \in Handlers \ {h} : ~Serving(tasks[g])
  <2>1. alone /\ Orderly(db, eng, tasks, acked)
    BY <1>1 DEF Inv
  <2>2. TaskOrderly(db, eng, t)
    BY <2>1 DEF Orderly, TaskOrderly
  <2>3. Serving(t) => \A g \in Handlers \ {h} : ~Serving(tasks[g])
    BY <2>1, OthersIdle
  <2>4. /\ Within(db, eng) => Within(db', eng')
        /\ \A k : TaskOrderly(db, eng, k) => TaskOrderly(db', eng', k)
        /\ \A ack : AckDurable(db, ack) => AckDurable(db', ack)
    BY SameStores
  <2> QED BY <2>1, <2>2, <2>3, <2>4 DEF Orderly
<1>2. AcksOk(acked') /\ alone' \in BOOLEAN
  BY DEF Inv
<1> QED BY <1>1, <1>2, TaskStep

\* The kill switch may be set on any engine.
LEMMA KillOk ==
  ASSUME NEW e, EngOk(e), NEW k \in BOOLEAN
  PROVE  LET x == [e EXCEPT !.kill = k]
         IN  EngOk(x) /\ x.orders = e.orders /\ x.book = e.book /\ x.kill = k
<1> DEFINE x == [e EXCEPT !.kill = k]
<1>1. /\ DOMAIN x = EngFields /\ x.orders = e.orders /\ x.byClient = e.byClient
      /\ x.nextId = e.nextId /\ x.book = e.book /\ x.venue = e.venue /\ x.kill = k
  BY DEF EngOk, EngFields
<1> HIDE DEF x
<1>2. EngOk(x)
  BY <1>1 DEF EngOk
<1> QED BY <1>1, <1>2 DEF x

LEMMA WriteFailsInv ==
  ASSUME Inv, NEW h \in Handlers, WriteFails(h)
  PROVE  Inv'
<1> DEFINE req  == tasks[h].req
           snap == tasks[h].snap
           t    == [pc |-> "saving", req |-> req, snap |-> snap, kill |-> "on"]
           x    == [eng EXCEPT !.kill = TRUE]
<1>1. /\ tasks[h].pc = "writing" /\ tasks' = [tasks EXCEPT ![h] = t] /\ eng' = x
      /\ UNCHANGED <<db, acked, alone>>
  BY DEF WriteFails
<1>2. Serving(tasks[h]) /\ req \in Requests /\ EngOk(snap)
  BY <1>1 DEF Inv, TaskOk
<1>3. t.pc = "saving" /\ t.req = req /\ t.snap = snap
  OBVIOUS
<1>4. EngOk(x) /\ x.orders = eng.orders /\ x.book = eng.book /\ x.kill = TRUE
  BY KillOk DEF Inv
<1> HIDE DEF t, x
<1>5. TaskOk(t) /\ Serving(t)
  BY <1>2, <1>3 DEF TaskOk, Serving
<1>6. FailedWriteHalts'
  BY <1>1, <1>4 DEF FailedWriteHalts
<1>7. DbOk(db')
  BY <1>1 DEF Inv
<1> QED BY <1>1, <1>2, <1>3, <1>4, <1>5, <1>6, <1>7, SameStoresStep

LEMMA SaveRiskInv ==
  ASSUME Inv, NEW h \in Handlers, SaveRisk(h)
  PROVE  Inv'
<1> DEFINE req  == tasks[h].req
           snap == tasks[h].snap
           back == [pc |-> "rollback", req |-> req, snap |-> snap]
           t    == IF req.op = "ops" THEN Idle ELSE back
<1>1. /\ tasks[h].pc = "saving" /\ tasks' = [tasks EXCEPT ![h] = t]
      /\ db' \in {db, [db EXCEPT !.risk = tasks[h].kill]}
      /\ UNCHANGED <<eng, acked, halted, alone, count>>
  BY DEF SaveRisk
<1>2. req.op # "ops" => Serving(tasks[h]) /\ req \in Requests /\ EngOk(snap)
  BY <1>1 DEF Inv, TaskOk, Serving
<1>3. back.pc = "rollback" /\ back.req = req /\ back.snap = snap
  OBVIOUS
<1> HIDE DEF back
<1>4. req.op # "ops" => TaskOk(back) /\ Serving(back)
  BY <1>2, <1>3 DEF TaskOk, Serving
<1>5. /\ TaskOk(t) /\ t.pc \notin {"persisting", "writing"}
      /\ Serving(t) => Serving(tasks[h]) /\ t.snap = snap
  BY <1>2, <1>3, <1>4, IdleServesNothing DEF Idle
<1>6. DbOk(db') /\ db'.rows = db.rows /\ db'.ledger = db.ledger
  BY <1>1 DEF Inv, DbOk
<1>7. FailedWriteHalts' /\ EngOk(eng')
  BY <1>1 DEF FailedWriteHalts, Inv
<1> HIDE DEF t
<1> QED BY <1>1, <1>5, <1>6, <1>7, SameStoresStep

LEMMA RollbackInv ==
  ASSUME Inv, NEW h \in Handlers, Rollback(h)
  PROVE  Inv'
<1> DEFINE snap == tasks[h].snap
           x    == [snap EXCEPT !.kill = TRUE]
<1>1. /\ tasks[h].pc = "rollback" /\ eng' = x /\ tasks' = [tasks EXCEPT ![h] = Idle]
      /\ UNCHANGED <<db, acked, halted, alone, count>>
  BY DEF Rollback
<1>2. Serving(tasks[h]) /\ EngOk(snap)
  BY <1>1 DEF Inv, TaskOk
<1>3. EngOk(x) /\ x.orders = snap.orders /\ x.book = snap.book /\ x.kill = TRUE
  BY <1>2, KillOk
<1> HIDE DEF x
<1>4. ASSUME alone'
      PROVE  /\ alone /\ Within(db', eng') /\ TaskOrderly(db', eng', Idle)
             /\ \A ack \in acked' : AckDurable(db', ack)
             /\ \A g \in Handlers \ {h} : TaskOrderly(db', eng', tasks[g])
             /\ Serving(Idle) => \A g \in Handlers \ {h} : ~Serving(tasks[g])
  <2>1. alone /\ Orderly(db, eng, tasks, acked)
    BY <1>1, <1>4 DEF Inv
  <2>2. Within(db, snap)
    BY <1>2, <2>1 DEF Orderly, TaskOrderly
  <2>3. Within(db, x)
    BY <1>3, <2>2 DEF Within
  <2>4. \A g \in Handlers \ {h} : TaskOrderly(db, x, tasks[g])
    BY <1>2, <2>1, OthersIdle
  <2>5. TaskOrderly(db, x, Idle) /\ ~Serving(Idle)
    BY IdleServesNothing DEF TaskOrderly
  <2> QED BY <1>1, <2>1, <2>3, <2>4, <2>5 DEF Orderly
<1>5. /\ DbOk(db') /\ AcksOk(acked') /\ alone' \in BOOLEAN /\ FailedWriteHalts'
  BY <1>1, <1>3 DEF Inv, FailedWriteHalts
<1> QED BY <1>1, <1>3, <1>4, <1>5, IdleServesNothing, TaskStep

LEMMA SetKillInv ==
  ASSUME Inv, NEW h \in Handlers, NEW on \in BOOLEAN, SetKill(h, on)
  PROVE  Inv'
<1> DEFINE x == [eng EXCEPT !.kill = on]
           t == [pc |-> "saving", req |-> [op |-> "ops"], kill |-> IF on THEN "on" ELSE "off"]
<1>1. /\ eng' = x /\ tasks' = [tasks EXCEPT ![h] = t] /\ halted' = (halted /\ on)
      /\ UNCHANGED <<db, acked, alone>>
  BY DEF SetKill
<1>2. EngOk(x) /\ x.orders = eng.orders /\ x.book = eng.book /\ x.kill = on
  BY KillOk DEF Inv
<1>3. t.pc = "saving" /\ t.req.op = "ops"
  OBVIOUS
<1> HIDE DEF x, t
<1>4. TaskOk(t) /\ ~Serving(t) /\ t.pc \notin {"persisting", "writing"}
  BY <1>3 DEF TaskOk, Serving
<1>5. FailedWriteHalts'
  BY <1>1, <1>2 DEF FailedWriteHalts
<1>6. DbOk(db')
  BY <1>1 DEF Inv
<1> QED BY <1>1, <1>2, <1>4, <1>5, <1>6, SameStoresStep

LEMMA OutageInv ==
  ASSUME Inv, VenueDown \/ VenueBack
  PROVE  Inv'
<1>1. eng' \in {Disconnect(eng), Reconnect(eng)} /\ UNCHANGED <<db, tasks, acked, halted, alone>>
  BY DEF VenueDown, VenueBack
<1>2. EngOk(eng') /\ eng'.orders = eng.orders /\ eng'.book = eng.book /\ eng'.kill = eng.kill
  BY <1>1, OutageAdvances DEF Inv, Advances
<1>3. FailedWriteHalts'
  BY <1>1, <1>2 DEF Inv, FailedWriteHalts
<1>4. ASSUME alone' PROVE Orderly(db', eng', tasks', acked')
  <2>1. Orderly(db, eng, tasks, acked)
    BY <1>1, <1>4 DEF Inv
  <2>2. /\ Within(db, eng) => Within(db', eng')
        /\ \A k : TaskOrderly(db, eng, k) => TaskOrderly(db', eng', k)
        /\ \A ack : AckDurable(db, ack) => AckDurable(db', ack)
    BY <1>1, <1>2, SameStores
  <2> QED BY <1>1, <2>1, <2>2 DEF Orderly
<1> QED BY <1>1, <1>2, <1>3, <1>4 DEF Inv

LEMMA RestartInv ==
  ASSUME Inv, Restart
  PROVE  Inv'
<1> DEFINE x == HydratedFromStore(db, eng.venue.faults)
<1>1. /\ eng' = x /\ tasks' = [h \in Handlers |-> Idle] /\ halted' = FALSE
      /\ UNCHANGED <<db, acked, alone>>
  BY DEF Restart
<1>2. DbOk(db) /\ FaultsOk(eng.venue.faults)
  BY DEF Inv, EngOk, VenueOk
<1>3. EngOk(x) /\ x.orders = db.rows /\ db.ledger \subseteq x.book.entries
  BY <1>2, HydratedOk
<1> HIDE DEF x
<1>4. Within(db, x)
  BY <1>2, <1>3, CarriesRefl DEF Within, DbOk
<1>5. ASSUME alone' PROVE Orderly(db', eng', tasks', acked')
  <2>1. Orderly(db, eng, tasks, acked)
    BY <1>1, <1>5 DEF Inv
  <2>2. \A h \in Handlers : ~Serving(tasks'[h])
    BY <1>1, IdleServesNothing
  <2>3. \A h \in Handlers : TaskOrderly(db', eng', tasks'[h])
    BY <2>2 DEF TaskOrderly
  <2> QED BY <1>1, <1>4, <2>1, <2>2, <2>3 DEF Orderly
<1>6. DOMAIN tasks' = Handlers /\ \A h \in Handlers : TaskOk(tasks'[h])
  BY <1>1, IdleServesNothing
<1>7. FailedWriteHalts'
  BY <1>1 DEF FailedWriteHalts
<1> QED BY <1>1, <1>3, <1>5, <1>6, <1>7 DEF Inv

LEMMA InitInv ==
  ASSUME Init
  PROVE  Inv
<1>1. PICK faults \in FaultConfigs : eng = Boot(faults)
  BY DEF Init
<1>2. EngOk(eng) /\ db = Bootstrapped(eng) /\ tasks = [h \in Handlers |-> Idle]
      /\ acked = {} /\ halted = FALSE /\ alone = TRUE
  BY <1>1, BootOk, RequestAssumption DEF Init, FaultsOk
<1>3. /\ DOMAIN db = {"rows", "ledger", "positions", "risk"}
      /\ DOMAIN db.rows = {} /\ db.ledger = eng.book.entries
  BY <1>2 DEF Bootstrapped
<1>4. DbOk(db)
  <2>1. OrdersOk(db.rows) /\ \A e \in db.ledger : EntryOk(e)
    BY <1>2, <1>3 DEF OrdersOk, EngOk, BookOk
  <2>2. DOMAIN db.rows \subseteq 1 .. 0 /\ 0 \in Nat
    BY <1>3
  <2> QED BY <1>3, <2>1, <2>2 DEF DbOk
<1>5. Within(db, eng)
  BY <1>3 DEF Within, Carries
<1>6. \A h \in Handlers : ~Serving(tasks[h]) /\ TaskOk(tasks[h])
  BY <1>2, IdleServesNothing
<1>7. Orderly(db, eng, tasks, acked)
  BY <1>2, <1>5, <1>6 DEF Orderly, TaskOrderly
<1>8. AcksOk(acked) /\ FailedWriteHalts
  BY <1>2 DEF AcksOk, FailedWriteHalts
<1>9. DOMAIN tasks = Handlers /\ alone \in BOOLEAN
  BY <1>2
<1> QED BY <1>2, <1>4, <1>6, <1>7, <1>8, <1>9 DEF Inv

LEMMA NextInv ==
  ASSUME Inv, [Next]_vars
  PROVE  Inv'
<1>1. CASE UNCHANGED vars
  BY <1>1 DEF vars, Inv, FailedWriteHalts
<1>2. ASSUME NEW h \in Handlers, NEW r \in Requests, Arrive(h, r) PROVE Inv'
  BY <1>2, ArriveInv
<1>3. ASSUME NEW h \in Handlers,
             HandleSubmit(h) \/ HandleCancel(h) \/ HandleReplace(h) \/ HandleFunds(h)
      PROVE  Inv'
  BY <1>3, SubmitInv, CancelInv, ReplaceInv, FundsInv
<1>4. ASSUME NEW h \in Handlers,
             Collect(h) \/ Commit(h) \/ WriteFails(h) \/ SaveRisk(h) \/ Rollback(h)
      PROVE  Inv'
  BY <1>4, CollectInv, CommitInv, WriteFailsInv, SaveRiskInv, RollbackInv
<1>5. ASSUME NEW h \in Handlers, NEW on \in BOOLEAN, SetKill(h, on) PROVE Inv'
  BY <1>5, SetKillInv
<1>6. CASE VenueDown \/ VenueBack
  BY <1>6, OutageInv
<1>7. CASE Restart
  BY <1>7, RestartInv
<1> QED BY <1>1, <1>2, <1>3, <1>4, <1>5, <1>6, <1>7 DEF Next

-----------------------------------------------------------------------------
\* The invariant all of this rests on, of every reachable state: the gateway is well
\* formed, and while requests are served one at a time the store is within the engine,
\* within the clone of the request being served and below what it will write.
THEOREM ServiceInvariant == Spec => []Inv
<1>1. Init => Inv
  BY InitInv
<1>2. Inv /\ [Next]_vars => Inv'
  BY NextInv
<1> QED BY <1>1, <1>2, PTL DEF Spec

\* A failed write stops trading until an operator clears the kill switch, whatever
\* handlers run, roll back or crash in between (must_persist, rollback_engine).
THEOREM WritesHalt == Spec => []FailedWriteHalts
<1>1. Inv => FailedWriteHalts
  BY DEF Inv
<1> QED BY <1>1, ServiceInvariant, PTL

\* While requests are served one at a time, Postgres never knows an order version or
\* an entry that the engine does not (persist_trading_batch, rollback_engine).
THEOREM StoreIsWithin == Spec => []StoreWithinMemory
<1>1. Inv => StoreWithinMemory
  BY DEF Inv, Orderly, Within, Carries, StoreWithinMemory
<1> QED BY <1>1, ServiceInvariant, PTL

\* While requests are served one at a time, and each funds key belongs to one account
\* and amount, what was acknowledged is in Postgres after any crash and any failed
\* write (must_persist: "ack only after a successful transactional persist").
THEOREM AckedDurable ==
  ASSUME OwnKeys
  PROVE  Spec => []AckedIsDurable
<1>1. Inv => AckedIsDurable
  BY DEF Inv, Orderly, AckDurable, AckedIsDurable, EveryAckIsDurable
<1> QED BY <1>1, ServiceInvariant, PTL

\* Under the same conditions the running engine knows it too: no rollback and no
\* restart takes back what was acknowledged.
THEOREM AckedKnown ==
  ASSUME OwnKeys
  PROVE  Spec => []AckedInMemory
<1>1. Inv => AckedInMemory
  <2> SUFFICES ASSUME Inv, alone PROVE EveryAckInMemory
    BY DEF AckedInMemory
  <2> SUFFICES ASSUME NEW ack \in acked
               PROVE  IF ack.op = "order" THEN Knows(eng.orders, ack.id, ack.order)
                      ELSE Holds(eng.book.entries, ack)
    BY DEF EveryAckInMemory
  <2>1. AckDurable(db, ack) /\ Within(db, eng) /\ (ack.op = "order" => OrderOk(ack.order))
    BY DEF Inv, Orderly, AcksOk
  <2>2. CASE ack.op = "order"
    <3>1. Knows(eng.orders, ack.id, ack.order)
      BY <2>1, <2>2, KnowsOn DEF AckDurable, Within, Inv, DbOk, EngOk
    <3> QED BY <2>2, <3>1
  <2>3. CASE ack.op # "order"
    BY <2>1, <2>3 DEF AckDurable, Within, Holds
  <2> QED BY <2>2, <2>3
<1> QED BY <1>1, ServiceInvariant, PTL

=============================================================================
