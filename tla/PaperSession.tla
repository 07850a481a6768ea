---------------------------- MODULE PaperSession ----------------------------
(***************************************************************************)
(* One paper-trading session in memory: clients submit, cancel and replace *)
(* orders, the venue's clock advances, its connection drops and comes      *)
(* back, and an operator clears the kill switch, in any order.             *)
(***************************************************************************)
EXTENDS PaperEngine

CONSTANTS
  FaultConfigs,  \* fault configurations of the venue; a session runs under one
  Requests,      \* the orders clients may ask for
  Lots,          \* quantities of replaces
  Prices,        \* prices of replaces
  StartCash,     \* the deposit each account starts with
  MaxOrders,     \* bound: orders created
  MaxReplaces,   \* bound: replaces asked for
  MaxTicks,      \* bound: clock of the venue
  MaxSessions,   \* bound: venue sessions
  ReplaceEach,   \* how often clients ask for a replace of one order
  ReplaceStatuses  \* the statuses in which they do

ASSUME SessionAssumption ==
  /\ Requests \subseteq [account : Accounts, client : ClientIds, side : Sides,
                          tif : TimesInForce, qty : Nat, price : Nat]
  /\ FaultConfigs \subseteq [rejectAll : BOOLEAN, duplicateExec : BOOLEAN, delayTicks : Nat,
                              fillPolicy : {"Rest", "Full", "Split"}, first : Int,
                              lateFill : BOOLEAN]
  /\ Lots \subseteq Nat /\ Prices \subseteq Nat /\ StartCash \in Nat \ {0}
  /\ {MaxOrders, MaxReplaces, ReplaceEach, MaxTicks, MaxSessions} \subseteq Nat
  /\ ReplaceStatuses \subseteq Statuses

VARIABLES
  eng,       \* the session
  call,      \* the last call
  err,       \* the error it returned
  replaces   \* how often a replace of each order was asked for

vars == <<eng, call, err, replaces>>

\* What the deposits leave of an empty book.
Funded(e) ==
  [e EXCEPT !.book.entries = {Entry(Key("dep", a, 0), a, StartCash, 0, -StartCash, 0, 0) :
                                a \in Accounts},
            !.book.cash    = [a \in Accounts |-> StartCash],
            !.book.funding = -(StartCash * Cardinality(Accounts))]

Init ==
  /\ \E f \in FaultConfigs : eng = Funded(NewEngine(f))
  /\ call = "none" /\ err = "none"
  /\ replaces = [id \in 1 .. MaxOrders |-> 0]

\* Call c of the engine ends with result r.
Returns(c, r) == call' = c /\ eng' = r.eng /\ err' = r.err

SubmitCall(req) ==
  /\ eng.nextId < MaxOrders
  /\ Returns("submit", Submit(eng, req)) /\ UNCHANGED replaces

CancelCall(id) ==
  /\ id \in DOMAIN eng.orders
  /\ Returns("cancel", Cancel(eng, id)) /\ UNCHANGED replaces

ReplaceCall(id, qty, price) ==
  /\ id \in DOMAIN eng.orders /\ replaces[id] < ReplaceEach /\ SumFunction(replaces) < MaxReplaces
  /\ eng.orders[id].status \in ReplaceStatuses
  /\ Returns("replace", Replace(eng, id, qty, price))
  /\ replaces' = [replaces EXCEPT ![id] = @ + 1]

TickCall ==
  /\ eng.venue.now < MaxTicks
  /\ Returns("tick", Tick(eng, 1)) /\ UNCHANGED replaces

\* disconnect_venue and reconnect_venue
DisconnectVenue ==
  /\ eng.venue.connected
  /\ Returns("other", Ok(Disconnect(eng))) /\ UNCHANGED replaces

ReconnectVenue ==
  /\ ~eng.venue.connected /\ eng.venue.session < MaxSessions
  /\ Returns("other", Ok(Reconnect(eng))) /\ UNCHANGED replaces

\* An operator clears the kill switch.
ClearKill ==
  /\ eng.kill
  /\ Returns("other", Ok([eng EXCEPT !.kill = FALSE])) /\ UNCHANGED replaces

Next ==
  \/ \E req \in Requests : SubmitCall(req)
  \/ \E id \in 1 .. MaxOrders : CancelCall(id)
  \/ \E id \in 1 .. MaxOrders, qty \in Lots, price \in Prices : ReplaceCall(id, qty, price)
  \/ TickCall
  \/ DisconnectVenue
  \/ ReconnectVenue
  \/ ClearKill

Spec == Init /\ [][Next]_vars
-----------------------------------------------------------------------------
(* Properties.                                                             *)

\* Type invariant: orders are well formed, reserves are positive amounts held
\* for known orders, and the consumer never runs ahead of the venue.
TypeOK ==
  /\ DOMAIN eng.orders = 1 .. eng.nextId
  /\ \A id \in DOMAIN eng.orders : eng.orders[id] \in Order /\ AssertInvariants(eng.orders[id])
  /\ DOMAIN eng.remCash \cup DOMAIN eng.remLots \subseteq DOMAIN eng.orders
  /\ \A id \in DOMAIN eng.remCash : eng.remCash[id] > 0
  /\ \A id \in DOMAIN eng.remLots : eng.remLots[id] > 0
  /\ eng.session \in 0 .. eng.venue.session
  /\ eng.session = eng.venue.session => eng.nextSeq \in 1 .. eng.venue.nextSeq

OrdersOf(a) == {id \in DOMAIN eng.orders : eng.orders[id].account = a}

\* What each order holds, by the maps.
HeldCash == [id \in DOMAIN eng.orders |-> GetOrZero(eng.remCash, id)]
HeldLots == [id \in DOMAIN eng.orders |-> GetOrZero(eng.remLots, id)]

\* The book's reserved cash and lots are exactly what the open orders hold: no
\* interleaving of fills, cancels, replaces and venue errors leaks a reserve or
\* spends one twice (submit, replace, apply_effects, release_remaining).
ReserveBacked ==
  \A a \in Accounts :
    /\ eng.book.reserved[a] = SumFunctionOnSet(HeldCash, OrdersOf(a))
    /\ eng.book.posReserved[a] = SumFunctionOnSet(HeldLots, OrdersOf(a))

\* Lots of an order, counted with its side.
Signed(id, lots) == IF eng.orders[id].side = "Buy" THEN lots ELSE -lots

NetFills(a) ==
  SumFunctionOnSet([id \in DOMAIN eng.orders |-> Signed(id, eng.orders[id].cum)], OrdersOf(a))

\* The position is the net of the orders' fills (the assertion of
\* tests/proptest_invariants.rs): no fill is recorded without being settled.
PositionIsNetFills == \A a \in Accounts : eng.book.position[a] = NetFills(a)

\* A terminal order holds no reserve (cancel "releases leftover reserve").
TerminalHoldsNothing ==
  \A id \in DOMAIN eng.orders :
    eng.orders[id].status \in IsTerminal => id \notin DOMAIN eng.remCash \cup DOMAIN eng.remLots

\* An order that can still trade holds exactly what its leaves cost, so every
\* fill the venue can send will settle.
WorkingIsCovered ==
  \A id \in DOMAIN eng.orders :
    LET o == eng.orders[id]
    IN  o.status \in IsWorking \cup {"PendingNew"} =>
          IF o.side = "Buy" THEN GetOrZero(eng.remCash, id) = o.price * o.leaves
          ELSE GetOrZero(eng.remLots, id) = o.leaves

\* Reserves are held for open orders only, and each holds what it needs.
HeldIsNeeded == TerminalHoldsNothing /\ WorkingIsCovered

\* Reports still waiting at the venue for a later tick.
Waiting == {eng.venue.scheduled[t] : t \in DOMAIN eng.venue.scheduled}
IsWaiting(r) == \E s \in Waiting : \E i \in DOMAIN s : s[i] = r

\* Gap healing works: when a command succeeds, every report of the session has
\* been consumed or is still waiting for its tick, whatever was dropped before
\* (ensure_contiguous, poll_recovery).
CaughtUp ==
  (call \in {"submit", "cancel", "replace"} /\ err = "none") =>
    \A i \in DOMAIN eng.venue.history :
      LET r == eng.venue.history[i] IN r.seq >= eng.nextSeq => IsWaiting(r)

\* The lots the venue's session traded of the account's orders.
VenueNet(a) ==
  LET trades == {r \in VenueTrades(eng.venue) : r.order \in OrdersOf(a)}
  IN  SumFunctionOnSet([r \in trades |-> Signed(r.order, r.qty)], trades)

\* A clean reconciliation means that every trade of the venue's session was booked
\* and nothing else was, also where the stream itself lost one (a fill that is
\* reported after a cancel is dropped).  A session without trades is not compared.
CleanMeansSettled ==
  (Reconcile(eng) = {} /\ (eng.venue.session = 1 \/ VenueTrades(eng.venue) # {})) =>
    \A a \in Accounts : eng.book.position[a] = VenueNet(a)

\* The converse: a session whose fills were neither delayed nor late, and whose
\* reports are drained, is clean while it is the first.
QuietIsClean ==
  (/\ eng.venue.session = 1 /\ eng.venue.outbox = <<>>
   /\ eng.venue.faults.delayTicks = 0 /\ ~eng.venue.faults.lateFill
   /\ eng.venue.faults.fillPolicy # "Split") => Reconcile(eng) = {}

\* The report of GET /v1/reconciliation raises an alarm when something was lost
\* and none when nothing could be.
ReconcileIsRight == CleanMeansSettled /\ QuietIsClean

\* The checks before an order is created are enough for what follows: once risk
\* approved it, reserving cash or lots for it cannot fail, so no order dies
\* between the OMS and the venue (RiskEngine::check, submit).
ApprovedIsReserved == call = "submit" => err # "Ledger"

\* max_position_lots is the "maximum absolute position in lots after the fill".
PositionLimit == \A a \in Accounts : eng.book.position[a] <= Limits.maxPosition

\* A gap in the report stream is "healed by ensure_contiguous" (apply_report) as
\* long as the venue is connected and still has the missing report.
GapsAreHealed == err = "SeqGap" => ~eng.venue.connected

\* A replace "tops up cash/position reserves when the new leaves require more
\* margin": once it succeeded, the book holds what the maps say is held.
ReplaceTopsUp == (call = "replace" /\ err = "none") => ReserveBacked
=============================================================================
