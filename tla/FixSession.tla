----------------------------- MODULE FixSession -----------------------------
(***************************************************************************)
(* A trading session on a FIX connection (crates/protocols/execution/src/  *)
(* fix.rs, FixPaperVenue with TCP, and fix_tcp.rs): the commands of the    *)
(* clients and the heartbeats of the clock, each a call that writes one    *)
(* message and reads until its answers are there; the paper acceptor, a    *)
(* thread of its own; and the connection between them.                     *)
(*                                                                         *)
(* read_fix_message throws away what its last read brought beyond the      *)
(* message it returns, so either side may lose the message that follows or *)
(* find its rest in front of the next one, which garbles it.  The acceptor *)
(* hangs up when it has had nothing to read for half a second.             *)
(***************************************************************************)
EXTENDS FixVenue

CONSTANT MaxLost   \* bound: messages lost or garbled

VARIABLES
  acc,     \* the acceptor's end of the connection
  toAcc,   \* messages on their way to the acceptor
  toIni,   \* messages on their way to the initiator
  link,    \* "up", or "down" once the acceptor hung up
  call,    \* the call in progress: its message type, "none" between calls
  need,    \* answers it still waits for; at 0 it polls what else has come
  lost     \* messages lost or garbled so far

fixVars == <<acc, toAcc, toIni, link, call, need, lost>>

FixKind == kind \in {"fix", "fixAckOnly"}

\* Logged on: the acceptor's first message was its answer.
FixInit ==
  /\ acc = [NewAcceptor(kind = "fix") EXCEPT !.store = <<Admin("Logon")>>]
  /\ toAcc = <<>> /\ toIni = <<>> /\ link = "up"
  /\ call = "none" /\ need = 0 /\ lost = 0

-----------------------------------------------------------------------------
\* Reads the next message of channel c into c' and, maybe, spoils the one behind.
TakeFrom(c, rest, garbage) ==
  \/ rest = Tail(c) /\ UNCHANGED lost
  \/ /\ Len(c) > 1 /\ lost < MaxLost /\ lost' = lost + 1
     /\ rest = Tail(Tail(c)) \/ rest = <<garbage>> \o Tail(Tail(c))

\* submit waits for an acknowledgement and, with auto-fill, for the fill.
AnswersTo(m) == IF m.type = "New" /\ eng.venue.autoFill THEN 2 ELSE 1

\* A command: the whole handler without TCP, or the message out.  The write fails
\* at once only when the acceptor has hung up.
FixAsk(placed, m) ==
  LET v       == placed.eng.venue
      problem == CommandError(v, m.type, m.id, m.qty)
      sent    == IF m.type = "New" THEN Seeded(v, m.id, m.qty, m.price) ELSE v
  IN  IF placed.err # "none"
      THEN Returns(placed) /\ UNCHANGED fixVars
      ELSE IF problem # "none"
      THEN Returns(AfterVenue(placed.eng, problem)) /\ UNCHANGED fixVars
      ELSE IF ~v.tcp
      THEN Returns(AfterVenue([placed.eng EXCEPT !.venue = Local(@, m)], "none"))
           /\ UNCHANGED fixVars
      ELSE \/ /\ link = "down"
              /\ Returns(Fail(placed.eng, "Venue")) /\ UNCHANGED fixVars
           \/ /\ eng' = [placed.eng EXCEPT !.venue = sent]
              /\ toAcc' = Append(toAcc, m) /\ call' = m.type /\ need' = AnswersTo(m)
              /\ UNCHANGED <<err, acc, toIni, link, lost>>

Command == call = "none" /\ Wants(FixAsk) /\ UNCHANGED kind

\* tick, when a heartbeat is due: it waits for the heartbeat of the acceptor.
Heartbeat ==
  /\ call = "none" /\ commands < MaxCommands /\ commands' = commands + 1
  /\ call' = "Heartbeat"
  /\ IF eng.venue.tcp
     THEN /\ toAcc' = IF link = "down" THEN toAcc
                       ELSE Append(toAcc, Asks("Heartbeat", 0, "GTC", 0, 0))
          /\ need' = 1
     ELSE need' = 0 /\ UNCHANGED toAcc
  /\ UNCHANGED <<kind, eng, err, changed, acc, toIni, link, lost>>

\* The acceptor's loop: one message read, decoded and answered.
AcceptorReads ==
  /\ link = "up" /\ toAcc # <<>>
  /\ LET answer == Answer(acc, Head(toAcc))
     IN  acc' = answer.acc /\ toIni' = toIni \o answer.sent
  /\ TakeFrom(toAcc, toAcc', Asks("Garbage", 0, "GTC", 0, 0))
  /\ UNCHANGED <<clientVars, link, call, need>>

\* Mutant of AcceptorHangsUp: no read timeout, it waits until the initiator is gone.
AcceptorStays ==
  /\ link = "up" /\ toAcc = <<>> /\ ~eng.venue.tcp
  /\ link' = "down"
  /\ UNCHANGED <<clientVars, acc, toAcc, toIni, call, need, lost>>

\* Its read times out.
AcceptorHangsUp ==
  /\ link = "up" /\ toAcc = <<>> /\ eng.venue.tcp
  /\ link' = "down"
  /\ UNCHANGED <<clientVars, acc, toAcc, toIni, call, need, lost>>

-----------------------------------------------------------------------------
\* The initiator reads message m: it is taken in, or skipped; a gap is answered by
\* a resend request.
Reads(m) ==
  LET verdict == SeqVerdict(eng.venue, m)
  IN  /\ eng' = IF verdict = "next" THEN [eng EXCEPT !.venue = Take(@, m.body)] ELSE eng
      /\ toAcc' = IF verdict = "gap" /\ link = "up"
                  THEN Append(toAcc, ResendFrom(eng.venue.expect)) ELSE toAcc

\* Is m what the call waits for?
Counts(m) ==
  /\ SeqVerdict(eng.venue, m) = "next"
  /\ m.body.type \in (IF call = "Heartbeat" THEN {"Heartbeat"} ELSE Business)

\* The call ends with a transport error: a command gives up without draining, a
\* tick goes on.
GivesUp ==
  IF call = "Heartbeat" THEN need' = 0 /\ UNCHANGED <<eng, err, call>>
  ELSE need' = 0 /\ call' = "none" /\ Returns(Fail(eng, "Venue"))

\* recv_execution_reports and recv_admin read one message.
InitiatorReads ==
  /\ call # "none" /\ need > 0 /\ toIni # <<>>
  /\ IF Head(toIni).body = Garbage
     THEN GivesUp /\ UNCHANGED toAcc
     ELSE /\ Reads(Head(toIni))
          /\ need' = IF Counts(Head(toIni)) THEN need - 1 ELSE need
          /\ UNCHANGED <<err, call>>
  /\ TakeFrom(toIni, toIni', [seq |-> 0, body |-> Garbage])
  /\ UNCHANGED <<kind, commands, changed, acc, link>>

\* They read the end of the stream.
ReadFails ==
  /\ call # "none" /\ need > 0 /\ toIni = <<>> /\ link = "down"
  /\ GivesUp
  /\ UNCHANGED <<kind, commands, changed, acc, toAcc, toIni, link, lost>>

\* poll: drain_tcp_available reads what has come and ignores what it cannot read.
PollReads ==
  /\ call # "none" /\ need = 0 /\ toIni # <<>>
  /\ IF Head(toIni).body = Garbage THEN UNCHANGED <<eng, toAcc>> ELSE Reads(Head(toIni))
  /\ TakeFrom(toIni, toIni', [seq |-> 0, body |-> Garbage])
  /\ UNCHANGED <<kind, err, commands, changed, acc, link, call, need>>

\* It finds nothing for a millisecond, though more may be on its way; the reports
\* are applied and the call is over.
PollEnds ==
  /\ call # "none" /\ need = 0
  /\ Returns(Drain(eng)) /\ call' = "none"
  /\ UNCHANGED <<kind, commands, changed, acc, toAcc, toIni, link, need, lost>>

-----------------------------------------------------------------------------
NoConnection == toAcc' = <<>> /\ toIni' = <<>> /\ UNCHANGED lost

\* disconnect_venue
FixDisconnectVenue ==
  /\ call = "none" /\ eng.venue.connected
  /\ eng' = [eng EXCEPT !.venue = FixDisconnect(@)]
  /\ link' = "down" /\ NoConnection
  /\ UNCHANGED <<kind, err, commands, changed, acc, call, need>>

\* reconnect_venue: a new connection, whose acceptor knows no order, or, when the
\* logon fails, none.
FixReconnectVenue ==
  /\ call = "none" /\ ~eng.venue.connected /\ eng.venue.session <= MaxReconnects
  /\ \E logon \in BOOLEAN :
       /\ eng' = [eng EXCEPT !.venue = FixReconnect(@, logon), !.session = 0, !.nextSeq = 1]
       /\ link' = IF logon THEN "up" ELSE "down"
       /\ acc' = [NewAcceptor(kind = "fix")
                    EXCEPT !.store = IF logon THEN <<Admin("Logon")>> ELSE <<>>]
  /\ NoConnection
  /\ UNCHANGED <<kind, err, commands, changed, call, need>>

FixNext ==
  \/ Command
  \/ Heartbeat
  \/ AcceptorReads
  \/ AcceptorHangsUp
  \/ InitiatorReads
  \/ ReadFails
  \/ PollReads
  \/ PollEnds
  \/ FixDisconnectVenue
  \/ FixReconnectVenue

\* The threads run, and a read that fails returns.
FixFairness ==
  WF_<<clientVars, fixVars>>(FixKind /\ (\/ AcceptorReads \/ AcceptorHangsUp
                                           \/ InitiatorReads \/ ReadFails))
=============================================================================
