----------------------------- MODULE VenueClient -----------------------------
(***************************************************************************)
(* What every venue adapter is driven by: one trading session (PaperEngine)*)
(* whose venue is the adapter, clients that submit, cancel and replace     *)
(* orders, and the adapter the gateway was started with                    *)
(* (SHINRAI_OG_VENUE).  FixSession and BrokerSession extend this module    *)
(* with the adapters; Venues composes them.                                *)
(***************************************************************************)
EXTENDS PaperEngine

CONSTANTS
  Kinds,         \* the adapters a gateway may be started with
  Requests,      \* the orders clients may ask for
  Lots, Prices,  \* quantities and prices of replaces
  StartCash,     \* the deposit each account starts with
  MaxCommands,   \* bound: commands clients send
  MaxReconnects  \* bound: reconnects of the venue

ASSUME ClientAssumption ==
  /\ Requests \subseteq [account : Accounts, client : ClientIds, side : Sides,
                          tif : TimesInForce, qty : Nat, price : Nat]
  /\ Lots \subseteq Nat /\ Prices \subseteq Nat /\ StartCash \in Nat
  /\ MaxCommands \in Nat /\ MaxReconnects \in Nat

VARIABLES
  kind,      \* the adapter
  eng,       \* the session
  err,       \* the error the last finished call returned
  commands,  \* commands sent so far
  changed    \* history: orders a client asked to cancel or replace

clientVars == <<kind, eng, err, commands, changed>>

NoFaults == Faults(FALSE, FALSE, 0, "Full", 0, FALSE)

StartedWith(venue) ==
  LET e == [NewEngine(NoFaults) EXCEPT !.venue = venue]
  IN  [e EXCEPT !.book = FoldSet(LAMBDA a, b : Deposit(b, a, StartCash, Key("dep", a, 0)),
                                 @, Accounts)]

\* push_report of every adapter: a report gets the next number of the session and
\* is queued for poll.
Queue(v, id, type, exec, qty, price) ==
  LET report == NextReport(v, id, type, exec, qty, price)
  IN  [v EXCEPT !.nextSeq = @ + 1, !.history = Append(@, report), !.outbox = Append(@, report)]

\* A client's command to the venue.
Asks(type, id, tif, qty, price) ==
  [type |-> type, id |-> id, tif |-> tif, qty |-> qty, price |-> price, begin |-> 0]

\* The command Ask(placed, message) for each thing a client may want: placed is
\* what the session did before it turned to the venue.  An order is replaced at most
\* once, while it works (PaperSession models the other replaces).
Wants(Ask(_, _)) ==
  /\ commands < MaxCommands /\ commands' = commands + 1
  /\ \/ \E req \in Requests :
          LET placed == PlaceOrder(eng, req)
          IN  /\ Ask(placed, Asks("New", placed.eng.nextId, req.tif, req.qty, req.price))
              /\ UNCHANGED changed
     \/ \E id \in DOMAIN eng.orders :
          /\ changed' = changed \cup {id}
          /\ \/ Ask(RequestCancel(eng, id), Asks("Cancel", id, "GTC", 0, 0))
             \/ \E qty \in Lots, price \in Prices :
                  /\ id \notin changed /\ eng.orders[id].status \in IsWorking
                  /\ Ask(RequestReplace(eng, id, qty, price), Asks("Replace", id, "GTC", qty, price))

\* A call ends with result r.
Returns(r) == eng' = r.eng /\ err' = r.err

\* An operator clears the kill switch.
ClearKill ==
  /\ eng.kill
  /\ eng' = [eng EXCEPT !.kill = FALSE]
  /\ UNCHANGED <<kind, err, commands, changed>>
=============================================================================
