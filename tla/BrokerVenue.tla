----------------------------- MODULE BrokerVenue -----------------------------
(***************************************************************************)
(* The broker adapters of crates/protocols/execution/src as pure operators:*)
(* the in-process sandbox (sandbox.rs), the licensed sandbox with its      *)
(* session timeout (licensed.rs), the REST paper broker (rest.rs) and the  *)
(* Alpaca paper client (alpaca.rs).                                        *)
(*                                                                         *)
(* The two sandboxes and the broker behind REST run the same book of       *)
(* working orders, so one set of operators models them: on the adapter's   *)
(* record v for the sandboxes, on the broker's record b for REST, whose    *)
(* outbox is then the response being built.  The Alpaca client keeps a row *)
(* per order with what it has reported of it, and asks the broker, whose   *)
(* orders are [qty, price, filled, open], for the rest.  Venue order ids,  *)
(* JSON and the outbound message store (only tests read it) are left out.  *)
(***************************************************************************)
EXTENDS VenueClient

\* heartbeat_timeout_ticks, in heartbeat intervals.
SilenceAllowed == 3

NewBroker(auto) ==
  [connected |-> TRUE, session |-> 1, nextSeq |-> 1, nextExec |-> 1, autoFill |-> auto,
   inflight |-> NoInflight, outbox |-> <<>>, history |-> <<>>,
   silence |-> 0]           \* heartbeats since the last report, licensed only

\* push_report also notes that the venue was heard.
Says(v, id, type, exec, qty, price) ==
  [Queue(v, id, type, exec, qty, price) EXCEPT !.silence = 0]

-----------------------------------------------------------------------------
(* The paper broker.                                                       *)

\* submit, cancel and replace refuse: nothing changes.
Refusal(v, m) ==
  LET row == v.inflight[m.id]
  IN  IF ~v.connected THEN "Disconnected"
      ELSE IF m.type = "New" THEN "none"
      ELSE IF m.id \notin DOMAIN v.inflight THEN "UnknownOrder"
      ELSE IF row.canceled THEN "InvalidState"
      ELSE IF m.type = "Cancel" /\ row.cum >= row.qty THEN "InvalidState"
      ELSE IF m.type = "Replace" /\ m.qty < row.cum THEN "InvalidQuantity" ELSE "none"

FillsOrder(v, id, qty) ==
  [Says(v, id, "Trade", v.nextExec, qty, v.inflight[id].price)
     EXCEPT !.nextExec = @ + 1, !.inflight[id].cum = @ + qty]

\* submit: an order that may not rest is rejected, or expires once acknowledged.
PaperSubmit(v, m) ==
  LET row   == [qty |-> m.qty, price |-> m.price, cum |-> 0, canceled |-> FALSE]
      acked == Says([v EXCEPT !.inflight = Put(@, m.id, row)], m.id, "New", 0, m.qty, m.price)
  IN  IF m.tif = "FOK" /\ ~v.autoFill THEN Says(v, m.id, "Rejected", 0, m.qty, m.price)
      ELSE IF v.autoFill THEN FillsOrder(acked, m.id, m.qty)
      ELSE IF m.tif = "IOC"
      THEN Says([acked EXCEPT !.inflight[m.id].canceled = TRUE], m.id, "Expired", 0, m.qty, m.price)
      ELSE acked

PaperCancel(v, id) ==
  LET row == v.inflight[id]
  IN  Says([v EXCEPT !.inflight[id].canceled = TRUE], id, "Canceled", 0, row.qty - row.cum, row.price)

PaperReplace(v, m) ==
  Says([v EXCEPT !.inflight[m.id].qty = m.qty, !.inflight[m.id].price = m.price],
       m.id, "Replaced", 0, m.qty, m.price)

\* A command the broker does not refuse.
PaperDoes(v, m) ==
  CASE m.type = "New"    -> PaperSubmit(v, m)
    [] m.type = "Cancel" -> PaperCancel(v, m.id)
    [] OTHER             -> PaperReplace(v, m)

PaperDisconnect(v) == [v EXCEPT !.connected = FALSE]
PaperReconnect(v) ==
  [v EXCEPT !.connected = TRUE, !.session = @ + 1, !.nextSeq = 1, !.history = <<>>,
            !.outbox = <<>>, !.silence = 0]

\* tick of the licensed sandbox, a heartbeat interval long (maybe_timeout).
LicensedTick(v) ==
  IF ~v.connected THEN v
  ELSE [v EXCEPT !.silence = @ + 1, !.connected = v.silence + 1 < SilenceAllowed]

-----------------------------------------------------------------------------
(* The REST client: what comes with a response goes to its outbox.         *)

RestTakes(v, response) == [v EXCEPT !.outbox = @ \o response]

-----------------------------------------------------------------------------
(* The Alpaca client.  Its rows have reported_cum for cum.                 *)

NoBroker == [id \in {} |-> [qty |-> 0, price |-> 0, filled |-> 0, open |-> FALSE]]

AlpacaRow(qty, price, reported) ==
  [qty |-> qty, price |-> price, cum |-> reported, canceled |-> FALSE]

\* What the client refuses without asking.
AlpacaRefusal(v, m) ==
  LET row == v.inflight[m.id]
  IN  IF ~v.connected THEN "Disconnected"
      ELSE IF m.type = "New" THEN "none"
      ELSE IF m.id \notin DOMAIN v.inflight THEN "UnknownOrder"
      ELSE IF row.canceled THEN "InvalidState"
      ELSE IF m.type = "Replace" /\ m.qty < row.cum THEN "InvalidQuantity" ELSE "none"

\* submit after the broker accepted, with what it filled at once.
AlpacaSubmitted(v, m, filled) ==
  LET acked == Queue([v EXCEPT !.inflight = Put(@, m.id, AlpacaRow(m.qty, m.price, 0))],
                     m.id, "New", 0, m.qty, m.price)
  IN  IF filled = 0 THEN acked
      ELSE [Queue(acked, m.id, "Trade", v.nextExec, filled, m.price)
              EXCEPT !.nextExec = @ + 1, !.inflight[m.id].cum = filled]

\* cancel after the broker agreed: the leaves are those the client knows of.
AlpacaCanceled(v, id) ==
  LET row == v.inflight[id]
  IN  Queue([v EXCEPT !.inflight[id].canceled = TRUE], id, "Canceled", 0, row.qty - row.cum, row.price)

AlpacaReplaced(v, m) ==
  Queue([v EXCEPT !.inflight[m.id].qty = m.qty, !.inflight[m.id].price = m.price],
        m.id, "Replaced", 0, m.qty, m.price)

\* The Alpaca client's side of a command the broker did.
AlpacaDoes(v, m, filled) ==
  CASE m.type = "New"    -> AlpacaSubmitted(v, m, filled)
    [] m.type = "Cancel" -> AlpacaCanceled(v, m.id)
    [] OTHER             -> AlpacaReplaced(v, m)

\* Mutant of RefreshRow: what was reported is not noted.
RefreshRowForgets(v, b, id) ==
  LET row    == v.inflight[id]
      filled == IF b[id].filled > row.qty THEN row.qty ELSE b[id].filled
  IN  IF row.canceled \/ row.cum >= row.qty THEN v
      ELSE IF filled > row.cum
      THEN [Queue(v, id, "Trade", v.nextExec, filled - row.cum, row.price) EXCEPT !.nextExec = @ + 1]
      ELSE v

\* refresh_open_fills for one order: what it filled since the last report, or, when
\* it filled nothing and is closed, that it is canceled.  An order that filled and
\* closed in between is only reported to have filled.
RefreshRow(v, b, id) ==
  LET row    == v.inflight[id]
      filled == IF b[id].filled > row.qty THEN row.qty ELSE b[id].filled
      closed == ~b[id].open /\ b[id].filled < b[id].qty
  IN  IF row.canceled \/ row.cum >= row.qty THEN v
      ELSE IF filled > row.cum
      THEN [Queue(v, id, "Trade", v.nextExec, filled - row.cum, row.price)
              EXCEPT !.nextExec = @ + 1, !.inflight[id].cum = filled,
                     !.inflight[id].canceled = closed]
      ELSE IF closed THEN AlpacaCanceled(v, id)
      ELSE v

\* refresh_open_fills: every open order the broker answers for; the map's order is
\* arbitrary, here it is that of the ids.
Refreshed(v, b) ==
  FoldLeft(LAMBDA w, id : RefreshRow(w, b, id), v,
           SetToSortSeq(DOMAIN v.inflight \cap DOMAIN b, LAMBDA x, y : x < y))

\* reconnect: the rows are what the broker has open, if it answers; what it filled
\* so far counts as reported (rehydrate_open_orders).
AlpacaReconnect(v, b, answered) ==
  LET open == {id \in DOMAIN b : b[id].open}
  IN  [v EXCEPT !.connected = TRUE, !.session = @ + 1, !.nextSeq = 1, !.history = <<>>,
                !.outbox = <<>>,
                !.inflight = IF answered
                             THEN [id \in open |-> AlpacaRow(b[id].qty, b[id].price, b[id].filled)]
                             ELSE NoInflight]

\* The broker's side, as far as the client relies on it.
BrokerTakes(b, m, filled) ==
  CASE m.type = "New"    -> Put(b, m.id, [qty |-> m.qty, price |-> m.price, filled |-> filled,
                                          open |-> filled < m.qty])
    [] m.type = "Cancel" -> [b EXCEPT ![m.id].open = FALSE]
    [] OTHER             -> [b EXCEPT ![m.id].qty = m.qty, ![m.id].price = m.price,
                                      ![m.id].open = @ /\ b[m.id].filled < m.qty]
=============================================================================
