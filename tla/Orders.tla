------------------------------- MODULE Orders -------------------------------
(***************************************************************************)
(* The order lifecycle of crates/domain/orders as pure operators: what an  *)
(* order is, which events each status accepts, the error an event is       *)
(* refused with and the order it leaves behind.  The state machines        *)
(* OrderStore and PaperEngine are built on these operators.                *)
(*                                                                         *)
(* Quantities are lots and prices are ticks (integers).  An absent average *)
(* price (None) is 0, which no priced trade can produce.  The parameters   *)
(* of a pending replace are left out: the code stores them and never reads *)
(* them back (the confirmation carries its own).                           *)
(***************************************************************************)
EXTENDS Integers

CONSTANTS
  Accounts,    \* account ids
  ClientIds,   \* client order ids
  ExecIds      \* execution ids a venue may report

Sides == {"Buy", "Sell"}
TimesInForce == {"GTC", "IOC", "FOK"}

Statuses == {"PendingNew", "New", "PartiallyFilled", "Filled", "PendingCancel",
             "Canceled", "PendingReplace", "Rejected", "Expired"}

IsTerminal == {"Filled", "Canceled", "Rejected", "Expired"}
IsWorking  == {"New", "PartiallyFilled"}

Order == [account : Accounts, client : ClientIds, side : Sides, tif : TimesInForce,
          status : Statuses, qty : Int, price : Int, cum : Int, leaves : Int,
          avg : Int, acked : BOOLEAN, execs : SUBSET ExecIds]

\* Order::new_pending_typed, after its two checks.
NewPending(req) ==
  [account |-> req.account, client |-> req.client, side |-> req.side, tif |-> req.tif,
   status |-> "PendingNew", qty |-> req.qty, price |-> req.price, cum |-> 0,
   leaves |-> req.qty, avg |-> 0, acked |-> FALSE, execs |-> {}]

NewPendingError(req) ==
  IF req.qty <= 0 THEN "InvalidQuantity"
  ELSE IF req.price <= 0 THEN "InvalidPrice" ELSE "none"

\* Order::assert_invariants.
AssertInvariants(o) ==
  /\ o.cum >= 0
  /\ o.leaves >= 0
  /\ o.cum <= o.qty
  /\ o.cum + o.leaves = o.qty

-----------------------------------------------------------------------------
(* Events.  Every event carries the same fields so that one set holds them *)
(* all; exec, qty and price are read by Trade and the replace events only. *)

EventTypes == {"Accepted", "Rejected", "Trade", "CancelRequested", "Canceled",
               "ReplaceRequested", "Replaced", "Expired"}

NoExec == "-"   \* the execution id of an event that has none

Event(type, exec, qty, price) ==
  [type |-> type, exec |-> exec, qty |-> qty, price |-> price]

\* Mutant of LegalTransition: a late fill is booked on a canceled order.
LateFillLegal(status, type) ==
  \/ status = "PendingNew" /\ type \in {"Accepted", "Rejected"}
  \/ status \in IsWorking
       /\ type \in {"Trade", "CancelRequested", "Canceled", "ReplaceRequested", "Expired"}
  \/ status = "PendingCancel" /\ type = "Canceled"
  \/ status = "PendingReplace" /\ type = "Replaced"
  \/ status = "Canceled" /\ type = "Trade"

\* The (status, event) pairs the match of apply accepts; everything else
\* falls into its last arm.
LegalTransition(status, type) ==
  \/ status = "PendingNew" /\ type \in {"Accepted", "Rejected"}
  \/ status \in IsWorking
       /\ type \in {"Trade", "CancelRequested", "Canceled", "ReplaceRequested", "Expired"}
  \/ status = "PendingCancel" /\ type = "Canceled"
  \/ status = "PendingReplace" /\ type = "Replaced"

\* Mutant of TradeError: executions are not deduplicated.
TradeErrorNoDedupe(o, ev) ==
  IF ev.qty <= 0 THEN "InvalidQuantity"
  ELSE IF ev.price <= 0 THEN "InvalidPrice"
  ELSE IF ev.qty > o.leaves THEN "Overfill" ELSE "none"

TradeError(o, ev) ==
  IF ev.exec \in o.execs THEN "DuplicateExec"
  ELSE IF ev.qty <= 0 THEN "InvalidQuantity"
  ELSE IF ev.price <= 0 THEN "InvalidPrice"
  ELSE IF ev.qty > o.leaves THEN "Overfill" ELSE "none"

ReplaceError(o, ev) ==
  IF ev.qty < o.cum THEN "ReplaceBelowFilled"
  ELSE IF ev.qty <= 0 THEN "InvalidQuantity"
  ELSE IF ev.price <= 0 THEN "InvalidPrice" ELSE "none"

\* Mutant of ApplyTrade: the average divides by the last quantity only.
ApplyTradeWrongAverage(o, ev) ==
  [o EXCEPT !.cum    = o.cum + ev.qty,
            !.leaves = o.qty - (o.cum + ev.qty),
            !.avg    = (o.avg * o.cum + ev.price * ev.qty) \div ev.qty,
            !.execs  = o.execs \cup {ev.exec},
            !.status = IF o.qty - (o.cum + ev.qty) = 0 THEN "Filled" ELSE "PartiallyFilled"]

\* Order::apply_trade: the average price is the weighted mean, truncated.
ApplyTrade(o, ev) ==
  [o EXCEPT !.cum    = o.cum + ev.qty,
            !.leaves = o.qty - (o.cum + ev.qty),
            !.avg    = (o.avg * o.cum + ev.price * ev.qty) \div (o.cum + ev.qty),
            !.execs  = o.execs \cup {ev.exec},
            !.status = IF o.qty - (o.cum + ev.qty) = 0 THEN "Filled" ELSE "PartiallyFilled"]

\* Mutant of ApplyReplaced: an order cut down to what is filled stays open.
ApplyReplacedNeverFills(o, ev) ==
  [o EXCEPT !.qty    = ev.qty,
            !.price  = ev.price,
            !.leaves = ev.qty - o.cum,
            !.status = IF o.cum = 0 THEN "New" ELSE "PartiallyFilled"]

\* Order::apply_replaced.
ApplyReplaced(o, ev) ==
  [o EXCEPT !.qty    = ev.qty,
            !.price  = ev.price,
            !.leaves = ev.qty - o.cum,
            !.status = IF o.cum = 0 THEN "New"
                       ELSE IF ev.qty - o.cum = 0 THEN "Filled" ELSE "PartiallyFilled"]

\* The order an accepted event leaves behind (the arms of apply).
Applied(o, ev) ==
  CASE ev.type = "Accepted"         -> [o EXCEPT !.status = "New", !.acked = TRUE]
    [] ev.type = "Rejected"         -> [o EXCEPT !.status = "Rejected"]
    [] ev.type = "Trade"            -> ApplyTrade(o, ev)
    [] ev.type = "CancelRequested"  -> [o EXCEPT !.status = "PendingCancel"]
    [] ev.type = "Canceled"         -> [o EXCEPT !.status = "Canceled"]
    [] ev.type = "ReplaceRequested" -> [o EXCEPT !.status = "PendingReplace"]
    [] ev.type = "Replaced"         -> ApplyReplaced(o, ev)
    [] ev.type = "Expired"          -> [o EXCEPT !.status = "Expired"]

\* The error apply returns, "none" when the event is accepted.  The closing
\* assert_invariants runs on the order the arm produced.
ApplyError(o, ev) ==
  LET armError == IF ~LegalTransition(o.status, ev.type) THEN "IllegalTransition"
                  ELSE IF ev.type = "Trade" THEN TradeError(o, ev)
                  ELSE IF ev.type \in {"ReplaceRequested", "Replaced"} THEN ReplaceError(o, ev)
                  ELSE "none"
  IN  IF armError # "none" THEN armError
      ELSE IF AssertInvariants(Applied(o, ev)) THEN "none" ELSE "InvalidQuantity"
=============================================================================
