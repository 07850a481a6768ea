----------------------------- MODULE PaperEngine -----------------------------
(***************************************************************************)
(* The paper-trading session of crates/domain/paper/src/engine.rs: OMS,    *)
(* ledger, per-order reserves, risk kill switch and the consumer side of   *)
(* the venue's report stream, wired to the simulated venue.                *)
(*                                                                         *)
(* The session is one record.  An engine call is an operator that yields   *)
(* [eng, err]: the session it leaves behind and the error it returns.  An  *)
(* error does not undo what the call did before it; that is the point of   *)
(* modelling it.  One instrument, multiplier 1: the notional of qty lots   *)
(* at a price is their product.  The audit log is left out, no decision    *)
(* reads it, and so are the risk checks the default limits switch off      *)
(* (collar, market hours, daily loss, asset class) with the marks they use.*)
(***************************************************************************)
EXTENDS Orders, Ledger, SimExchange

\* RiskLimits: [maxQty, maxNotional, maxPosition, allowShort, maxShort].
CONSTANT Limits

NewEngine(faults) ==
  [orders |-> [id \in {} |-> 0], byClient |-> [k \in {} |-> 0], nextId |-> 0,
   book |-> EmptyBook(Accounts),
   remCash |-> [id \in {} |-> 0],      \* remaining_cash_reserve
   remLots |-> [id \in {} |-> 0],      \* remaining_position_reserve
   venue |-> NewVenue(faults),
   kill |-> FALSE,                     \* the risk engine's global kill switch
   session |-> 0,                      \* applied_session, 0 for None
   nextSeq |-> 1]                      \* next_expected_seq

Ok(eng) == [eng |-> eng, err |-> "none"]
Fail(eng, err) == [eng |-> eng, err |-> err]

Put(f, k, v) == [x \in DOMAIN f \cup {k} |-> IF x = k THEN v ELSE f[x]]
Drop(f, k) == [x \in DOMAIN f \ {k} |-> f[x]]
\* Mutant of PutUnlessZero: an exhausted reserve stays in the map.
PutAlways(f, k, v) == Put(f, k, v)
PutUnlessZero(f, k, v) == IF v = 0 THEN Drop(f, k) ELSE Put(f, k, v)
GetOrZero(f, k) == IF k \in DOMAIN f THEN f[k] ELSE 0

\* Idempotency keys: "<kind>:<account>:<order>", or "fill:<exec>".
Key(kind, account, n) == [kind |-> kind, account |-> account, n |-> n]
\* Mutant of FillKey: all fills share a key.
FillKeyShared(exec) == Key("fill", "any", 0)
FillKey(exec) == Key("fill", "any", exec)

-----------------------------------------------------------------------------
\* release_remaining: gives back what the order still holds.
ReleaseRemaining(e, id) ==
  LET a     == e.orders[id].account
      cash  == GetOrZero(e.remCash, id)
      lots  == GetOrZero(e.remLots, id)
      noMap == [e EXCEPT !.remCash = Drop(@, id)]
      paid  == IF cash = 0 THEN noMap
               ELSE [noMap EXCEPT !.book = Release(@, a, cash, Key("rel", a, id))]
      free  == [paid EXCEPT !.remLots = Drop(@, id)]
  IN  IF cash # 0 /\ ReleaseError(e.book, a, cash) # "none" THEN Fail(noMap, "Ledger")
      ELSE IF lots <= 0 THEN Ok(free)
      ELSE IF ReleasePositionError(free.book, a, lots) # "none" THEN Fail(free, "Ledger")
      ELSE Ok([free EXCEPT !.book = ReleasePosition(@, a, lots)])

\* A filled order gives back what it holds.  Mutant: after every fill.
AfterAnyFill(e, id) == ReleaseRemaining(e, id)
AfterFill(e, id) == IF e.orders[id].status = "Filled" THEN ReleaseRemaining(e, id) ELSE Ok(e)

\* The Trade arm of apply_effects: settle the fill against the order's reserve.
SettleTrade(e, id, ev) ==
  LET o      == e.orders[id]
      n      == ev.price * ev.qty
      key    == FillKey(ev.exec)
      after  == IF o.side = "Buy"
                THEN [e EXCEPT !.book = SettleBuy(@, o.account, ev.qty, n, 0, key),
                               !.remCash = PutUnlessZero(@, id, GetOrZero(@, id) - n)]
                ELSE [e EXCEPT !.book = SettleSell(@, o.account, ev.qty, n, 0, key),
                               !.remLots = PutUnlessZero(@, id, GetOrZero(@, id) - ev.qty)]
      short  == IF o.side = "Buy" THEN GetOrZero(e.remCash, id) < n
                ELSE GetOrZero(e.remLots, id) < ev.qty
      ledger == IF o.side = "Buy" THEN SettleBuyError(e.book, o.account, ev.qty, n, 0)
                ELSE SettleSellError(e.book, o.account, ev.qty, n, 0, key)
  IN  IF short THEN Fail(e, "ReservationShortfall")
      ELSE IF ledger # "none" THEN Fail(e, "Ledger")
      ELSE AfterFill(after, id)

\* Mutant of SettleReplace: the surplus is not released.
KeepSurplus(e, id, ev) ==
  LET o == e.orders[id]
  IN  Ok(IF o.side = "Buy" THEN [e EXCEPT !.remCash = PutUnlessZero(@, id, ev.price * o.leaves)]
         ELSE [e EXCEPT !.remLots = PutUnlessZero(@, id, o.leaves)])

\* The Replaced arm of apply_effects: release the surplus of the reserve.
SettleReplace(e, id, ev) ==
  LET o      == e.orders[id]
      a      == o.account
      target == ev.price * o.leaves
      cash   == GetOrZero(e.remCash, id) - target
      lots   == GetOrZero(e.remLots, id) - o.leaves
  IN  IF o.side = "Buy"
      THEN IF o.leaves <= 0 THEN Fail(e, "Order")
           ELSE IF cash > 0 /\ ReleaseError(e.book, a, cash) # "none"
           THEN Fail([e EXCEPT !.remCash = Drop(@, id)], "Ledger")
           ELSE Ok([e EXCEPT !.book = IF cash > 0 THEN Release(@, a, cash, Key("rel-repl", a, id))
                                      ELSE @,
                             !.remCash = PutUnlessZero(@, id, target)])
      ELSE IF lots > 0 /\ ReleasePositionError(e.book, a, lots) # "none"
           THEN Fail([e EXCEPT !.remLots = Drop(@, id)], "Ledger")
           ELSE Ok([e EXCEPT !.book = IF lots > 0 THEN ReleasePosition(@, a, lots) ELSE @,
                             !.remLots = PutUnlessZero(@, id, o.leaves)])

\* Mutant of ApplyEffects: an expired order is not released.
EffectsButExpired(e, id, ev) ==
  CASE ev.type = "Trade" -> SettleTrade(e, id, ev)
    [] ev.type = "Replaced" -> SettleReplace(e, id, ev)
    [] ev.type \in {"Rejected", "Canceled"} -> ReleaseRemaining(e, id)
    [] OTHER -> Ok(e)

ApplyEffects(e, id, ev) ==
  CASE ev.type = "Trade" -> SettleTrade(e, id, ev)
    [] ev.type = "Replaced" -> SettleReplace(e, id, ev)
    [] ev.type \in {"Rejected", "Canceled", "Expired"} -> ReleaseRemaining(e, id)
    [] OTHER -> Ok(e)

\* OrderStore::apply_event on the session's OMS.
ApplyOms(e, id, ev) == [e EXCEPT !.orders[id] = Applied(@, ev)]

\* ExecutionReport::to_order_event, for the reports that have one.
ToOrderEvent(r) ==
  Event(IF r.type = "New" THEN "Accepted" ELSE r.type, r.exec, r.qty, r.price)

-----------------------------------------------------------------------------
\* apply_report.
ApplyReport(e, r) ==
  LET here == IF e.session = r.session THEN e
              ELSE [e EXCEPT !.session = r.session, !.nextSeq = 1]
      Consumed(x) == [x EXCEPT !.nextSeq = r.seq + 1]
      error  == ApplyError(here.orders[r.order], ToOrderEvent(r))
      effect == ApplyEffects(ApplyOms(here, r.order, ToOrderEvent(r)), r.order, ToOrderEvent(r))
  IN  IF r.seq < here.nextSeq THEN Ok(here)
      ELSE IF r.seq > here.nextSeq THEN Fail([here EXCEPT !.kill = TRUE], "SeqGap")
      ELSE IF r.type = "CancelReject" THEN Ok(Consumed(here))
      ELSE IF r.order \notin DOMAIN here.orders THEN Fail(here, "Order")
      ELSE IF error \in {"IllegalTransition", "DuplicateExec"} THEN Ok(Consumed(here))
      ELSE IF error # "none" THEN Fail(here, "Order")
      ELSE IF effect.err # "none" THEN effect
      ELSE Ok(Consumed(effect.eng))

\* The loop of drain: applies the reports in order and stops at the first error.
ApplyAll(e, reports) ==
  LET upTo[n \in 0 .. Len(reports)] ==
        IF n = 0 THEN Ok(e)
        ELSE IF upTo[n - 1].err # "none" THEN upTo[n - 1]
        ELSE ApplyReport(upTo[n - 1].eng, reports[n])
  IN  upTo[Len(reports)]

\* dedupe_session_seq: the first report of each sequence number.
DedupeSessionSeq(reports) ==
  Kept(reports, {i \in DOMAIN reports : \A j \in 1 .. i - 1 :
                   <<reports[j].session, reports[j].seq>> # <<reports[i].session, reports[i].seq>>})

\* drain after the adapter's poll gave it reports: heals a gap at the front
\* (ensure_contiguous) with what Recovered(fromSeq) yields, if the adapter can
\* recover, applies in order and stops at the first error; what was polled after
\* it is gone.
DrainPolled(polled, reports, recovers, Recovered(_)) ==
  LET first == reports[1]
      e     == IF polled.session = first.session THEN polled
               ELSE [polled EXCEPT !.session = first.session, !.nextSeq = 1]
      batch == IF first.seq > e.nextSeq
               THEN DedupeSessionSeq(Recovered(e.nextSeq) \o reports)
               ELSE Kept(reports, {i \in DOMAIN reports :
                                     reports[i].session = e.session /\ reports[i].seq >= e.nextSeq})
  IN  IF reports = <<>> THEN Ok(polled)
      ELSE IF first.seq > e.nextSeq /\ ~recovers THEN Fail(e, "Venue")
      ELSE ApplyAll(e, batch)

\* drain, of an adapter that polls its outbox and recovers from its history.
Drain(e) ==
  DrainPolled([e EXCEPT !.venue.outbox = <<>>], e.venue.outbox, e.venue.connected,
              LAMBDA fromSeq : VRecovery(e.venue, fromSeq))

\* Mutant of AfterVenue: the reports are not drained.
AfterVenueNoDrain(e, error) ==
  IF error = "none" THEN Ok(e)
  ELSE Fail([e EXCEPT !.kill = @ \/ error = "Disconnected"], "Venue")

\* What follows a venue command: engage the kill switch if the venue is gone.
AfterVenue(e, error) ==
  IF error = "none" THEN Drain(e)
  ELSE Fail([e EXCEPT !.kill = @ \/ error = "Disconnected"], "Venue")

-----------------------------------------------------------------------------
\* available_position.  Mutant: lots reserved for sells count.
AllLots(b, a) == b.position[a]
AvailablePosition(b, a) == b.position[a] - b.posReserved[a]

\* RiskEngine::check in the context submit builds: the position is the lots that
\* are not reserved for sells.
RiskError(e, req) ==
  LET n    == req.price * req.qty
      free == AvailablePosition(e.book, req.account)
  IN  IF e.kill THEN "KillSwitch"
      ELSE IF req.qty > Limits.maxQty THEN "MaxQuantity"
      ELSE IF n > Limits.maxNotional THEN "MaxNotional"
      ELSE IF req.side = "Buy" /\ e.book.cash[req.account] < n THEN "InsufficientBuyingPower"
      ELSE IF req.side = "Buy" /\ free + req.qty > Limits.maxPosition THEN "MaxPosition"
      ELSE IF req.side = "Sell" /\ free < req.qty /\ ~Limits.allowShort THEN "InsufficientPosition"
      ELSE IF req.side = "Sell" /\ req.qty - free > Limits.maxShort /\ free < req.qty THEN "MaxShort"
      ELSE "none"

\* submit, up to the venue: the order enters the OMS and its reserve is held.
PlaceOrder(e, req) ==
  LET key     == <<req.account, req.client>>
      id      == e.nextId + 1
      n       == req.price * req.qty
      created == [e EXCEPT !.nextId = id, !.byClient = Put(@, key, id),
                           !.orders = Put(@, id, NewPending(req))]
      error   == IF req.side = "Buy" THEN ReserveError(e.book, req.account, n)
                 ELSE ReservePositionError(e.book, req.account, req.qty)
      held    == IF req.side = "Buy"
                 THEN [created EXCEPT !.book = Reserve(@, req.account, n, Key("rsv", req.account, id)),
                                      !.remCash = Put(@, id, n)]
                 ELSE [created EXCEPT !.book = ReservePosition(@, req.account, req.qty),
                                      !.remLots = Put(@, id, req.qty)]
  IN  IF req.qty <= 0 \/ req.price <= 0 THEN Fail(e, "Order")
      ELSE IF key \in DOMAIN e.byClient THEN Fail(e, "Duplicate")
      ELSE IF RiskError(e, req) # "none" THEN Fail(e, "Risk")
      ELSE IF error # "none"
      THEN Fail(ApplyOms(created, id, Event("Rejected", 0, 0, 0)), "Ledger")
      ELSE Ok(held)

Submit(e, req) ==
  LET placed == PlaceOrder(e, req)
      v      == placed.eng.venue
  IN  IF placed.err # "none" THEN placed
      ELSE AfterVenue([placed.eng EXCEPT !.venue = VSubmit(v, placed.eng.nextId, req.tif,
                                                          req.qty, req.price)],
                      VSubmitError(v, req.tif, req.qty, req.price))

\* cancel, up to the venue.
RequestCancel(e, id) ==
  LET ev == Event("CancelRequested", 0, 0, 0)
  IN  IF ApplyError(e.orders[id], ev) # "none" THEN Fail(e, "Order") ELSE Ok(ApplyOms(e, id, ev))

Cancel(e, id) ==
  LET asked == RequestCancel(e, id)
  IN  IF asked.err # "none" THEN asked
      ELSE AfterVenue([asked.eng EXCEPT !.venue = VCancel(@, id)], VCancelError(e.venue, id))

\* replace, up to the venue: the reserve is topped up before the OMS is asked.
RequestReplace(e, id, qty, price) ==
  LET o       == e.orders[id]
      a       == o.account
      leaves  == qty - o.cum
      ev      == Event("ReplaceRequested", 0, qty, price)
      cash    == price * leaves - GetOrZero(e.remCash, id)
      lots    == leaves - GetOrZero(e.remLots, id)
      more    == IF o.side = "Buy" THEN cash > 0 ELSE lots > 0
      error   == IF ~more THEN "none"
                 ELSE IF o.side = "Buy" THEN ReserveError(e.book, a, cash)
                 ELSE ReservePositionError(e.book, a, lots)
      held    == IF ~more THEN e
                 ELSE IF o.side = "Buy"
                 THEN [e EXCEPT !.book = Reserve(@, a, cash, Key("rsv-repl", a, id)),
                                !.remCash = Put(@, id, price * leaves)]
                 ELSE [e EXCEPT !.book = ReservePosition(@, a, lots),
                                !.remLots = Put(@, id, leaves)]
  IN  IF leaves < 0 \/ (o.side = "Buy" /\ leaves = 0) THEN Fail(e, "Order")
      ELSE IF error # "none" THEN Fail(e, "Ledger")
      ELSE IF ApplyError(o, ev) # "none" THEN Fail(held, "Order")
      ELSE Ok(ApplyOms(held, id, ev))

Replace(e, id, qty, price) ==
  LET asked == RequestReplace(e, id, qty, price)
  IN  IF asked.err # "none" THEN asked
      ELSE AfterVenue([asked.eng EXCEPT !.venue = VReplace(@, id, qty, price)],
                      VReplaceError(e.venue, id, qty, price))

\* tick.
Tick(e, ticks) == Drain([e EXCEPT !.venue = VTick(@, ticks)])

\* disconnect_venue, and reconnect_venue, which also resets the consumer's cursor.
Disconnect(e) == [e EXCEPT !.venue = VDisconnect(@)]
Reconnect(e)  == [e EXCEPT !.venue = VReconnect(@), !.session = 0, !.nextSeq = 1]
-----------------------------------------------------------------------------
(* reconcile: what an adapter that tracks orders and reports (the simulator) *)
(* is asked, compared with the OMS and the ledger.                          *)

OrderMismatches(e) ==
  LET o == e.orders  at == e.venue.inflight
      Both == DOMAIN o \cap DOMAIN at
  IN  {<<"FillQtyMismatch", i>> : i \in {j \in Both : at[j].cum # o[j].cum}}
      \cup {<<"VenueCanceledOmsWorking", i>> :
              i \in {j \in Both : at[j].canceled /\ o[j].status \in IsWorking}}
      \cup {<<"OmsWorkingNotAtVenue", i>> :
              i \in {j \in DOMAIN o \ DOMAIN at :
                       o[j].acked /\ o[j].status \in IsWorking \cup {"PendingCancel"}}}
      \cup {<<"VenueOrderUnknownToOms", i>> : i \in DOMAIN at \ DOMAIN o}

\* venue_trade_execs: the trades of the venue's session.
VenueTrades(v) == {r \in ToSet(v.history) : r.type = "Trade"}

\* seen_execs of every order.
SeenExecs(e) == UNION {e.orders[i].execs : i \in DOMAIN e.orders}

Seen(e, r) == r.order \in DOMAIN e.orders /\ r.exec \in e.orders[r.order].execs

\* Mutant of DropCopyMismatches: trades the OMS has not seen are not looked for.
DropCopyOneWay(e) ==
  LET trades == VenueTrades(e.venue)
  IN  IF trades = {} THEN {}
      ELSE {<<"OmsExecMissingAtVenue", x>> : x \in SeenExecs(e) \ {r.exec : r \in trades}}

\* reconcile_drop_copy
DropCopyMismatches(e) ==
  LET trades == VenueTrades(e.venue)
  IN  {<<"VenueExecMissingInOms", r.order>> : r \in {u \in trades : ~Seen(e, u)}}
      \cup IF trades = {} THEN {}
            ELSE {<<"OmsExecMissingAtVenue", x>> : x \in SeenExecs(e) \ {r.exec : r \in trades}}

\* reconcile_ledger_fills
LedgerMismatches(e) ==
  LET fills == {x.key.n : x \in {y \in e.book.entries : y.key.kind = "fill"}}
  IN  {<<"OmsExecMissingInLedger", x>> : x \in SeenExecs(e) \ fills}
      \cup {<<"LedgerFillWithoutOmsExec", x>> : x \in fills \ SeenExecs(e)}

Reconcile(e) == OrderMismatches(e) \cup DropCopyMismatches(e) \cup LedgerMismatches(e)
=============================================================================
