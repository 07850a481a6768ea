------------------------------ MODULE FixVenue ------------------------------
(***************************************************************************)
(* The FIX 4.2 venue of crates/protocols/execution/src/fix.rs and the      *)
(* paper acceptor it talks to over TCP (fix_tcp.rs), as pure operators: on *)
(* the initiator's record v, which is the engine's venue, and on the       *)
(* acceptor's record a.                                                    *)
(*                                                                         *)
(* Two numberings run side by side.  The acceptor numbers every message it *)
(* sends (MsgSeqNum); the initiator accepts them in that order, skips what *)
(* it has seen and asks for a resend when one is missing.  The execution   *)
(* reports it takes out of them get numbers of their own, which are the    *)
(* ones the engine's drain counts.  Tags are named: last is LastShares     *)
(* (32), px LastPx (31), cum CumQty (14), leaves LeavesQty (151).          *)
(* Wire encoding is left out but for what can go wrong with it: a message  *)
(* can be garbled.  SequenceReset is left out: the paper acceptor keeps    *)
(* all it sent and never fills a gap.                                      *)
(***************************************************************************)
EXTENDS VenueClient

\* Messages of the acceptor before they are numbered.
Report(type, id, exec, last, px, cum, leaves) ==
  [type |-> type, id |-> id, exec |-> exec, last |-> last, px |-> px, cum |-> cum,
   leaves |-> leaves]
Admin(type) == Report(type, 0, 0, 0, 0, 0, 0)
Garbage == Admin("garbage")
Business == {"New", "Trade", "Canceled", "Replaced", "Rejected", "CancelReject"}

\* What the initiator sends of its own accord; its commands are Asks.
ResendFrom(begin) == [Asks("ResendRequest", 0, "GTC", 0, 0) EXCEPT !.begin = begin]

-----------------------------------------------------------------------------
(* The paper acceptor: one record per connection.                          *)

NewAcceptor(auto) ==
  [store |-> <<>>,     \* outbound: what it sent, message i has MsgSeqNum i
   working |-> NoInflight, nextExec |-> 1, autoFill |-> auto]

\* send_acceptor, for a list of messages: what it leaves and what goes out.
Send(a, bodies) ==
  [acc |-> [a EXCEPT !.store = @ \o bodies],
   sent |-> [i \in 1 .. Len(bodies) |-> [seq |-> Len(a.store) + i, body |-> bodies[i]]]]
Silent(a) == [acc |-> a, sent |-> <<>>]

\* handle_new.  The acknowledgement has LastShares and LastPx zero; an
\* immediate-or-cancel order that does not fill rests.
HandleNew(a, m) ==
  LET row(cum) == [qty |-> m.qty, price |-> m.price, cum |-> cum, canceled |-> FALSE]
      ack  == Report("New", m.id, 0, 0, 0, 0, m.qty)
      fill == Report("Trade", m.id, a.nextExec, m.qty, m.price, m.qty, 0)
  IN  IF m.tif = "FOK" /\ ~a.autoFill
      THEN Send(a, <<Report("Rejected", m.id, 0, 0, 0, 0, 0)>>)
      ELSE IF a.autoFill
      THEN Send([a EXCEPT !.working = Put(@, m.id, row(m.qty)), !.nextExec = @ + 1], <<ack, fill>>)
      ELSE Send([a EXCEPT !.working = Put(@, m.id, row(0))], <<ack>>)

\* handle_cancel.
HandleCancel(a, m) ==
  LET row == a.working[m.id]
  IN  IF m.id \notin DOMAIN a.working \/ row.canceled \/ row.qty <= row.cum
      THEN Send(a, <<Report("CancelReject", m.id, 0, 0, 0, 0, 0)>>)
      ELSE Send([a EXCEPT !.working[m.id].canceled = TRUE],
                <<Report("Canceled", m.id, 0, row.qty - row.cum, row.price, row.cum, 0)>>)

\* handle_replace.  It is silent when it refuses, and reports LastShares zero
\* when it agrees.
HandleReplace(a, m) ==
  LET row == a.working[m.id]
  IN  IF m.id \notin DOMAIN a.working \/ row.canceled \/ m.qty < row.cum THEN Silent(a)
      ELSE Send([a EXCEPT !.working[m.id].qty = m.qty, !.working[m.id].price = m.price],
                <<Report("Replaced", m.id, 0, 0, m.price, row.cum, m.qty - row.cum)>>)

\* Mutant of HandleResend: it starts behind the message asked for.
HandleResendLate(a, begin) ==
  [acc |-> a, sent |-> [i \in 1 .. Len(a.store) - begin |->
                          [seq |-> begin + i, body |-> a.store[begin + i]]]]

\* handle_resend_request: everything from begin on, once more.
HandleResend(a, begin) ==
  [acc |-> a, sent |-> [i \in 1 .. Len(a.store) - begin + 1 |->
                          [seq |-> begin + i - 1, body |-> a.store[begin + i - 1]]]]

\* dispatch_inbound.
Answer(a, m) ==
  CASE m.type = "New"           -> HandleNew(a, m)
    [] m.type = "Cancel"        -> HandleCancel(a, m)
    [] m.type = "Replace"       -> HandleReplace(a, m)
    [] m.type = "Heartbeat"     -> Send(a, <<Admin("Heartbeat")>>)
    [] m.type = "ResendRequest" -> HandleResend(a, m.begin)
    [] OTHER                    -> Silent(a)

-----------------------------------------------------------------------------
(* The initiator.                                                          *)

\* A venue after its first logon, whose answer was message 1.
NewInitiator(auto) ==
  [connected |-> TRUE, tcp |-> TRUE, session |-> 1, nextSeq |-> 1, nextExec |-> 1,
   expect |-> 2,                        \* expect_inbound_seq
   autoFill |-> auto, inflight |-> NoInflight, outbox |-> <<>>, history |-> <<>>]

\* accept_inbound_seq.  Mutant: a gap is accepted like the message expected.
SeqVerdictLax(v, m) == IF m.seq < v.expect THEN "seen" ELSE "next"
SeqVerdict(v, m) ==
  IF m.seq = v.expect THEN "next" ELSE IF m.seq < v.expect THEN "seen" ELSE "gap"

\* The inflight rows after an execution report.
RowsAfter(v, m) ==
  LET id   == m.id
      rows == v.inflight
      here == id \in DOMAIN rows
      row  == IF here THEN rows[id]
              ELSE [qty |-> m.leaves + m.cum, price |-> m.px, cum |-> m.cum, canceled |-> FALSE]
  IN  CASE m.type = "Trade" /\ here    -> Put(rows, id, [row EXCEPT !.cum = m.cum])
        [] m.type = "Canceled" /\ here -> Put(rows, id, [row EXCEPT !.canceled = TRUE])
        [] m.type = "Rejected"         -> Drop(rows, id)
        [] m.type \in {"New", "Replaced"} ->
             Put(rows, id, [row EXCEPT !.price = IF m.px > 0 THEN m.px ELSE @,
                                       !.qty = IF m.type = "Replaced" THEN m.cum + m.leaves ELSE @])
        [] OTHER -> rows

\* Mutant of Ingest: what came in is not queued for the engine.
IngestUnqueued(v, m) == [v EXCEPT !.inflight = RowsAfter(v, m)]

\* ingest_execution_report and ingest_cancel_reject: the report's quantity is
\* LastShares; its price LastPx or the order's.
Ingest(v, m) ==
  LET rows  == RowsAfter(v, m)
      price == IF m.px > 0 THEN m.px
               ELSE IF m.id \in DOMAIN rows THEN rows[m.id].price ELSE 0
  IN  Queue([v EXCEPT !.inflight = rows], m.id, m.type, m.exec, m.last, price)

\* A message accepted in its turn.
Take(v, body) ==
  LET counted == [v EXCEPT !.expect = @ + 1]
  IN  IF body.type \in Business THEN Ingest(counted, body) ELSE counted

-----------------------------------------------------------------------------
(* Commands.  SubmitTo, CancelTo and ReplaceTo are what they do without    *)
(* TCP, the in-process acceptor answering at once.                         *)

CommandError(v, type, id, qty) ==
  LET row == v.inflight[id]
  IN  IF ~v.connected THEN "Disconnected"
      ELSE IF type \in {"Cancel", "Replace"} /\ id \notin DOMAIN v.inflight THEN "UnknownOrder"
      ELSE IF type = "Replace" /\ row.canceled THEN "InvalidState"
      ELSE IF type = "Replace" /\ qty < row.cum THEN "InvalidQuantity" ELSE "none"

Seeded(v, id, qty, price) ==
  [v EXCEPT !.inflight = Put(@, id, [qty |-> qty, price |-> price, cum |-> 0, canceled |-> FALSE])]

SubmitTo(v, id, tif, qty, price) ==
  LET acked == Queue(Seeded(v, id, qty, price), id, "New", 0, qty, price)
  IN  IF tif = "FOK" /\ ~v.autoFill THEN Queue(v, id, "Rejected", 0, 0, price)
      ELSE IF v.autoFill
      THEN [Queue(acked, id, "Trade", v.nextExec, qty, price)
              EXCEPT !.nextExec = @ + 1, !.inflight[id].cum = qty]
      ELSE acked

CancelTo(v, id) ==
  LET row == v.inflight[id]
  IN  IF row.canceled \/ row.qty <= row.cum THEN Queue(v, id, "CancelReject", 0, 0, row.price)
      ELSE Queue([v EXCEPT !.inflight[id].canceled = TRUE], id, "Canceled", 0,
                 row.qty - row.cum, row.price)

\* The report of a replace carries the leaves, not the new quantity.
ReplaceTo(v, id, qty, price) ==
  Queue([v EXCEPT !.inflight[id].qty = qty, !.inflight[id].price = price],
        id, "Replaced", 0, qty - v.inflight[id].cum, price)

\* What the venue does without TCP for message m.
Local(v, m) ==
  CASE m.type = "New"     -> SubmitTo(v, m.id, m.tif, m.qty, m.price)
    [] m.type = "Cancel"  -> CancelTo(v, m.id)
    [] m.type = "Replace" -> ReplaceTo(v, m.id, m.qty, m.price)
    [] OTHER              -> v

\* disconnect; reconnect, whose logon may fail: then the session goes on in
\* process.  Orders stay inflight, execution ids go on, reports start over.
FixDisconnect(v) == [v EXCEPT !.connected = FALSE, !.tcp = FALSE]
FixReconnect(v, logon) ==
  [v EXCEPT !.connected = TRUE, !.tcp = logon, !.session = @ + 1, !.nextSeq = 1, !.expect = 2,
            !.history = <<>>, !.outbox = <<>>]
=============================================================================
