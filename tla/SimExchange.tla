----------------------------- MODULE SimExchange -----------------------------
(***************************************************************************)
(* The simulated venue of crates/testing/exchange-simulator as pure        *)
(* operators on a venue record: it acknowledges, rejects, fills, cancels   *)
(* and replaces orders under a fault configuration, numbers its execution  *)
(* reports, delivers some of them late, and drops what it has queued when  *)
(* the session is re-established.                                          *)
(*                                                                         *)
(* A report takes its sequence number and enters the session's history     *)
(* when it is built, even if its delivery is scheduled for a later tick.   *)
(* VOp(v, ...) is the venue after a command, VOpError the error it returns *)
(* (the engine looks only at "Disconnected").  Venue order ids are left    *)
(* out: nothing decides on them.                                           *)
(***************************************************************************)
EXTENDS Integers, Sequences, SequencesExt, FiniteSets

\* FaultConfig; first is FillPolicy::Split's first_lots.
Faults(rejectAll, duplicateExec, delayTicks, fillPolicy, first, lateFill) ==
  [rejectAll |-> rejectAll, duplicateExec |-> duplicateExec, delayTicks |-> delayTicks,
   fillPolicy |-> fillPolicy, first |-> first, lateFill |-> lateFill]

NoInflight == [id \in {} |-> [qty |-> 0, price |-> 0, cum |-> 0, canceled |-> FALSE]]

NewVenue(faults) ==
  [connected |-> TRUE, session |-> 1, nextSeq |-> 1, nextExec |-> 1, now |-> 0,
   faults |-> faults, inflight |-> NoInflight,
   scheduled |-> [t \in {} |-> <<>>], outbox |-> <<>>, history |-> <<>>]

-----------------------------------------------------------------------------
\* build_report: the report the venue builds next, and the venue after building it.
NextReport(v, id, type, exec, qty, price) ==
  [order |-> id, type |-> type, exec |-> exec, qty |-> qty, price |-> price,
   session |-> v.session, seq |-> v.nextSeq]

Record(v, report) ==
  [v EXCEPT !.nextSeq = @ + 1, !.history = Append(@, report),
            !.nextExec = IF report.type = "Trade" THEN @ + 1 ELSE @]

\* Builds a report without execution id and queues it for delivery.
Emit(v, id, type, qty, price) ==
  LET report == NextReport(v, id, type, 0, qty, price)
  IN  [Record(v, report) EXCEPT !.outbox = Append(@, report)]

TradeReport(v, id, qty) ==
  NextReport(v, id, "Trade", v.nextExec, qty, v.inflight[id].price)

\* Queues reports for delivery at clock time t.
Schedule(v, t, reports) ==
  [v EXCEPT !.scheduled =
     [x \in DOMAIN @ \cup {t} |-> (IF x \in DOMAIN @ THEN @[x] ELSE <<>>)
                                    \o (IF x = t THEN reports ELSE <<>>)]]

EnqueueFill(v, report) ==
  LET copies == IF v.faults.duplicateExec THEN <<report, report>> ELSE <<report>>
  IN  IF v.faults.delayTicks = 0
      THEN [v EXCEPT !.outbox = @ \o copies]
      ELSE Schedule(v, v.now + v.faults.delayTicks, copies)

\* Builds and enqueues a fill; the venue counts it at once only if it is not delayed.
FillNow(v, id, qty) ==
  LET report  == TradeReport(v, id, qty)
      counted == [Record(v, report) EXCEPT
                    !.inflight[id].cum = IF v.faults.delayTicks = 0 THEN @ + qty ELSE @]
  IN  EnqueueFill(counted, report)

\* Builds a fill delivered later, which the venue never counts.
FillLater(v, id, qty, t) ==
  LET report == TradeReport(v, id, qty)
  IN  Schedule(Record(v, report), t, <<report>>)

SplitImpossible(v, qty) ==
  v.faults.fillPolicy = "Split" /\ (v.faults.first <= 0 \/ v.faults.first >= qty)

\* schedule_fills, for an order without fills (the only caller is submit).
ScheduleFills(v, id, qty) ==
  CASE v.faults.fillPolicy = "Rest" -> v
    [] v.faults.fillPolicy = "Full" -> FillNow(v, id, qty)
    [] v.faults.fillPolicy = "Split" ->
         IF SplitImpossible(v, qty) THEN v
         ELSE LET delay == IF v.faults.delayTicks > 1 THEN v.faults.delayTicks ELSE 1
              IN  FillLater(FillNow(v, id, v.faults.first), id, qty - v.faults.first,
                            v.now + delay)

\* An immediate-or-cancel order: what does not fill at once expires.
FillOrExpire(v, id, qty, price) ==
  LET Expire(w, rest) == Emit([w EXCEPT !.inflight[id].canceled = TRUE], id, "Expired", rest, price)
  IN  CASE v.faults.fillPolicy = "Rest"  -> Expire(v, qty)
        [] v.faults.fillPolicy = "Full"  -> FillNow(v, id, qty)
        [] v.faults.fillPolicy = "Split" ->
             IF SplitImpossible(v, qty) THEN v
             ELSE Expire(FillNow(v, id, v.faults.first), qty - v.faults.first)

-----------------------------------------------------------------------------
\* submit rejects everything, or a fill-or-kill order it could not fill at once.
RejectsOrder(v, tif) ==
  v.faults.rejectAll \/ (tif = "FOK" /\ v.faults.fillPolicy \in {"Rest", "Split"})

VSubmitError(v, tif, qty, price) ==
  IF ~v.connected THEN "Disconnected"
  ELSE IF qty <= 0 \/ price <= 0 THEN "InvalidQuantity"
  ELSE IF ~RejectsOrder(v, tif) /\ SplitImpossible(v, qty) THEN "InvalidQuantity" ELSE "none"

\* An impossible split is noticed only after the order was accepted.
VSubmit(v, id, tif, qty, price) ==
  IF ~v.connected \/ qty <= 0 \/ price <= 0 THEN v
  ELSE IF RejectsOrder(v, tif) THEN Emit(v, id, "Rejected", qty, price)
  ELSE LET sim      == [qty |-> qty, price |-> price, cum |-> 0, canceled |-> FALSE]
           accepted == Emit([v EXCEPT !.inflight = [x \in DOMAIN @ \cup {id} |->
                                                      IF x = id THEN sim ELSE @[x]]],
                            id, "New", qty, price)
       IN  IF tif = "IOC" THEN FillOrExpire(accepted, id, qty, price)
           ELSE ScheduleFills(accepted, id, qty)

VCancelError(v, id) ==
  IF ~v.connected THEN "Disconnected"
  ELSE IF id \notin DOMAIN v.inflight THEN "UnknownOrder"
  ELSE IF v.inflight[id].canceled THEN "InvalidState" ELSE "none"

VCancel(v, id) ==
  IF VCancelError(v, id) # "none" THEN v
  ELSE LET sim    == v.inflight[id]
           leaves == sim.qty - sim.cum
           acked  == [Emit(v, id, "Canceled", leaves, sim.price)
                        EXCEPT !.inflight[id].canceled = TRUE]
       IN  IF leaves <= 0 THEN Emit(v, id, "CancelReject", 0, sim.price)
           ELSE IF v.faults.lateFill THEN FillLater(acked, id, leaves, v.now + 1)
           ELSE acked

VReplaceError(v, id, qty, price) ==
  IF ~v.connected THEN "Disconnected"
  ELSE IF qty <= 0 \/ price <= 0 THEN "InvalidQuantity"
  ELSE IF id \notin DOMAIN v.inflight THEN "UnknownOrder"
  ELSE IF v.inflight[id].canceled THEN "InvalidState"
  ELSE IF qty < v.inflight[id].cum THEN "InvalidQuantity" ELSE "none"

VReplace(v, id, qty, price) ==
  IF VReplaceError(v, id, qty, price) # "none" THEN v
  ELSE Emit([v EXCEPT !.inflight[id].qty = qty, !.inflight[id].price = price],
            id, "Replaced", qty, price)

\* tick: what is due moves to the outbox, earliest first.
VTick(v, ticks) ==
  LET due == {t \in DOMAIN v.scheduled : t <= v.now + ticks}
      deliveries == [i \in 1 .. Cardinality(due) |->
                       v.scheduled[CHOOSE t \in due : Cardinality({u \in due : u <= t}) = i]]
  IN  [v EXCEPT !.now = @ + ticks,
                !.scheduled = [t \in DOMAIN @ \ due |-> @[t]],
                !.outbox = @ \o FlattenSeq(deliveries)]

VDisconnect(v) == [v EXCEPT !.connected = FALSE]

VReconnect(v) ==
  [v EXCEPT !.connected = TRUE, !.session = @ + 1, !.nextSeq = 1,
            !.history = <<>>, !.outbox = <<>>, !.scheduled = [t \in {} |-> <<>>]]

\* The reports of a sequence at the places in kept, in order.
Kept(reports, kept) ==
  LET upTo[n \in 0 .. Len(reports)] ==
        IF n = 0 THEN <<>>
        ELSE IF n \in kept THEN Append(upTo[n - 1], reports[n]) ELSE upTo[n - 1]
  IN  upTo[Len(reports)]

\* poll_recovery, of a connected venue.
VRecovery(v, fromSeq) ==
  Kept(v.history, {i \in DOMAIN v.history : v.history[i].seq >= fromSeq})

\* restore_working, of each of these orders: taken over without a report.
VRestoreWorking(v, orders) ==
  [v EXCEPT !.inflight = [id \in DOMAIN @ \cup DOMAIN orders |->
     IF id \in DOMAIN orders
     THEN [qty |-> orders[id].qty, price |-> orders[id].price, cum |-> orders[id].cum,
           canceled |-> FALSE]
     ELSE @[id]]]
=============================================================================
