------------------------------- MODULE Venues -------------------------------
(***************************************************************************)
(* A trading session on any of the venue adapters: the gateway is started  *)
(* with one of them (services/order-gateway/src/app.rs, from_config;       *)
(* domain/paper/src/venue.rs, PaperVenue) and keeps it.  The properties say*)
(* what the session may rely on whichever it is.                           *)
(***************************************************************************)
EXTENDS FixSession, BrokerSession

vars == <<clientVars, fixVars, brokerVars>>

Init ==
  /\ kind \in Kinds
  /\ eng = StartedWith(IF FixKind THEN NewInitiator(kind = "fix")
                       ELSE NewBroker(kind \in {"sandbox", "licensed"}))
  /\ err = "none" /\ commands = 0 /\ changed = {}
  /\ FixInit /\ BrokerInit

Next ==
  \/ FixKind /\ FixNext /\ UNCHANGED brokerVars
  \/ ~FixKind /\ BrokerNext /\ UNCHANGED fixVars
  \/ ClearKill /\ UNCHANGED <<fixVars, brokerVars>>

Spec == Init /\ [][Next]_vars /\ FixFairness

-----------------------------------------------------------------------------
(* Properties.                                                             *)

OrdersOf(a) == {id \in DOMAIN eng.orders : eng.orders[id].account = a}

\* The book's reserves are exactly what the orders hold, whatever the adapter and
\* however its calls failed, were answered late or not at all.  FIX is asked for its
\* first connection only: the next one reuses execution ids (README, section 7).
ReserveBacked ==
  (FixKind => eng.venue.session = 1) =>
    \A a \in Accounts :
      /\ eng.book.reserved[a] = MapThenSumSet(LAMBDA id : GetOrZero(eng.remCash, id), OrdersOf(a))
      /\ eng.book.posReserved[a] = MapThenSumSet(LAMBDA id : GetOrZero(eng.remLots, id), OrdersOf(a))

\* What the venue filled of order id.
Filled(id) ==
  IF FixKind /\ eng.venue.session > 1 THEN eng.orders[id].cum
  ELSE IF FixKind THEN IF id \in DOMAIN acc.working THEN acc.working[id].cum ELSE 0
  ELSE IF kind = "alpaca" THEN IF id \in DOMAIN broker THEN broker[id].filled ELSE 0
  ELSE LET rows == IF kind = "rest" THEN broker.inflight ELSE eng.venue.inflight
       IN  IF id \in DOMAIN rows THEN rows[id].cum ELSE 0

\* No order is booked for more than the venue executed: a fill that is answered late,
\* recovered, resent or polled again is booked once.
NoPhantomFills == \A id \in DOMAIN eng.orders : eng.orders[id].cum <= Filled(id)

\* In the venue's first session: it has consumed what the venue issued and no call
\* is on its way.  Alpaca has no report stream to catch up with.
CaughtUp ==
  LET source == IF kind = "rest" THEN broker ELSE eng.venue
  IN  /\ kind # "alpaca" /\ source.session = 1 /\ eng.nextSeq = source.nextSeq
      /\ FixKind => call = "none" /\ eng.venue.tcp /\ eng.venue.expect = Len(acc.store) + 1

\* Once it has caught up, an order is filled in the session as far as at the venue,
\* whatever was lost, garbled, resent or recovered on the way.  An order a client
\* asked to cancel or replace is excepted.
AgreesWithVenue ==
  CaughtUp => \A id \in DOMAIN eng.orders \ changed : eng.orders[id].cum = Filled(id)

\* The same of every order that waits for no answer.
FillsSurviveChanges ==
  CaughtUp =>
    \A id \in DOMAIN eng.orders :
      eng.orders[id].status \notin {"PendingCancel", "PendingReplace"} =>
        eng.orders[id].cum = Filled(id)

\* "Polls the venue and applies reports to OMS + ledger" (domain/paper/src/engine.rs,
\* drain): between two calls of a FIX session no report is left behind that was polled.
PolledIsApplied ==
  FixKind /\ call = "none" /\ eng.session = eng.venue.session /\ eng.venue.outbox = <<>>
    => eng.nextSeq = eng.venue.nextSeq

\* The FIX session as a report stream: what the acceptor issued on this connection,
\* and what the initiator took in.  Without a connection it issues its own reports.
Received == [i \in DOMAIN eng.venue.history |->
               <<eng.venue.history[i].order, eng.venue.history[i].type>>]
Issued ==
  IF ~FixKind THEN <<>>
  ELSE IF acc.store # <<>>
  THEN LET sent == SelectSeq(acc.store, LAMBDA m : m.type \in Business)
       IN  [i \in DOMAIN sent |-> <<sent[i].id, sent[i].type>>]
  ELSE Received

Stream == INSTANCE ReportStream WITH issued <- Issued,
                                     received <- IF FixKind THEN Received ELSE <<>>

\* The FIX session implements the report stream: in order, none twice, none skipped.
StreamInOrder == Stream!Spec

\* A call to the FIX venue does not wait forever for its answers, whatever the link
\* does: recv_execution_reports and recv_admin give up on a message that does not come.
CallReturns == FixKind /\ need > 0 ~> need = 0
=============================================================================
