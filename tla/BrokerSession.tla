---------------------------- MODULE BrokerSession ----------------------------
(***************************************************************************)
(* A trading session on a broker adapter: the two sandboxes, which live in *)
(* the session, and the REST and Alpaca clients, whose broker is elsewhere,*)
(* fills orders when it likes and may not get a request, or not get its    *)
(* answer through (ExecutionError::Transport).                             *)
(***************************************************************************)
EXTENDS BrokerVenue

CONSTANT MaxFaults   \* bound: requests or answers lost

VARIABLES
  broker,   \* the broker behind the REST client, or the orders at Alpaca
  faults    \* requests or answers lost so far

brokerVars == <<broker, faults>>

Sandboxes == {"sandbox", "sandboxAckOnly", "licensed"}

BrokerInit ==
  /\ faults = 0
  /\ broker = IF kind = "alpaca" THEN NoBroker
              ELSE IF kind = "rest" THEN NewBroker(FALSE) ELSE "none"

\* A request of the client is served, lost, or served with its answer lost.
Outcome(o) ==
  /\ o \in {"ok", "lost", "late"}
  /\ IF o = "ok" THEN UNCHANGED faults ELSE faults < MaxFaults /\ faults' = faults + 1

\* drain with the recovery of the REST client, which is a request too.
RestDrain(e, b, answered) ==
  DrainPolled([e EXCEPT !.venue.outbox = <<>>], e.venue.outbox, answered /\ b.connected,
              LAMBDA fromSeq : VRecovery(b, fromSeq))

RestDrained(e, b) ==
  \/ Returns(RestDrain(e, b, TRUE))
  \/ /\ RestDrain(e, b, FALSE) # RestDrain(e, b, TRUE)
     /\ faults < MaxFaults
     /\ Returns(RestDrain(e, b, FALSE))

-----------------------------------------------------------------------------
\* A command to a sandbox.
SandboxAsk(placed, m) ==
  LET refused == Refusal(placed.eng.venue, m)
      done    == [placed.eng EXCEPT !.venue = PaperDoes(@, m)]
  IN  /\ IF placed.err # "none" THEN Returns(placed)
         ELSE Returns(AfterVenue(IF refused = "none" THEN done ELSE placed.eng, refused))
      /\ UNCHANGED brokerVars

\* A command over REST.
RestAsk(placed, m) ==
  LET refused  == Refusal(broker, m)
      done     == IF refused = "none" THEN PaperDoes(broker, m) ELSE broker
      answered == [placed.eng EXCEPT !.venue = RestTakes(@, done.outbox)]
  IN  IF placed.err # "none" THEN Returns(placed) /\ UNCHANGED brokerVars
      ELSE \E o \in {"ok", "lost", "late"} :
             /\ Outcome(o)
             /\ broker' = IF o = "lost" THEN broker ELSE [done EXCEPT !.outbox = <<>>]
             /\ IF o # "ok" THEN Returns(Fail(placed.eng, "Venue"))
                ELSE IF refused # "none" THEN Returns(AfterVenue(placed.eng, refused))
                ELSE RestDrained(answered, done)

OpenThere(id) == id \in DOMAIN broker /\ broker[id].open

\* A command to Alpaca.  The broker refuses to cancel or replace what is closed, and
\* any order it does not like; it may fill an order at once.
AlpacaAsk(placed, m) ==
  LET v       == placed.eng.venue
      problem == AlpacaRefusal(v, m)
      reject  == Queue(v, m.id, "Rejected", 0, m.qty, m.price)
  IN  IF placed.err # "none" THEN Returns(placed) /\ UNCHANGED brokerVars
      ELSE IF problem # "none" THEN Returns(AfterVenue(placed.eng, problem)) /\ UNCHANGED brokerVars
      ELSE \/ /\ m.type = "New"
              /\ Returns(Drain([placed.eng EXCEPT !.venue = reject])) /\ UNCHANGED brokerVars
           \/ /\ m.type # "New" /\ ~OpenThere(m.id)
              /\ Returns(Fail(placed.eng, "Venue")) /\ UNCHANGED brokerVars
           \/ /\ m.type # "New" => OpenThere(m.id)
              /\ \E o \in {"ok", "lost", "late"}, filled \in {0, m.qty} :
                   /\ m.type # "New" => filled = 0
                   /\ Outcome(o)
                   /\ broker' = IF o = "lost" THEN broker ELSE BrokerTakes(broker, m, filled)
                   /\ Returns(IF o = "ok"
                              THEN Drain([placed.eng EXCEPT !.venue = AlpacaDoes(@, m, filled)])
                              ELSE Fail(placed.eng, "Venue"))

BrokerAsk(placed, m) ==
  \/ kind \in Sandboxes /\ SandboxAsk(placed, m)
  \/ kind = "rest" /\ RestAsk(placed, m)
  \/ kind = "alpaca" /\ AlpacaAsk(placed, m)

BrokerCommand == Wants(BrokerAsk) /\ UNCHANGED kind

\* tick: the engine polls.  Alpaca is asked about open orders if nothing is queued.
BrokerTick ==
  /\ commands < MaxCommands /\ commands' = commands + 1
  /\ \/ /\ kind \in Sandboxes
        /\ Returns(Drain(IF kind = "licensed" THEN [eng EXCEPT !.venue = LicensedTick(@)] ELSE eng))
        /\ UNCHANGED faults
     \/ /\ kind = "rest"
        /\ RestDrained(eng, broker) /\ UNCHANGED faults
     \/ /\ kind = "alpaca"
        /\ IF eng.venue.outbox = <<>> /\ eng.venue.connected
           THEN \E o \in {"ok", "lost"} :
                  /\ Outcome(o)
                  /\ Returns(Drain(IF o = "ok" THEN [eng EXCEPT !.venue = Refreshed(@, broker)]
                                   ELSE eng))
           ELSE Returns(Drain(eng)) /\ UNCHANGED faults
  /\ UNCHANGED <<kind, changed, broker>>

-----------------------------------------------------------------------------
\* The broker fills part of an order, or closes it.
BrokerFills ==
  /\ \/ /\ kind = "rest"
        /\ \E id \in DOMAIN broker.inflight :
             LET row == broker.inflight[id]
             IN  /\ ~row.canceled
                 /\ \E qty \in 1 .. row.qty - row.cum :
                      broker' = [FillsOrder(broker, id, qty) EXCEPT !.outbox = <<>>]
     \/ /\ kind = "alpaca"
        /\ \E id \in {x \in DOMAIN broker : broker[x].open} :
             \E qty \in 1 .. broker[id].qty - broker[id].filled :
               broker' = [broker EXCEPT ![id].filled = @ + qty,
                                        ![id].open = broker[id].filled + qty < broker[id].qty]
  /\ UNCHANGED <<clientVars, faults>>

BrokerCloses ==
  /\ kind = "alpaca"
  /\ \E id \in {x \in DOMAIN broker : broker[x].open} : broker' = [broker EXCEPT ![id].open = FALSE]
  /\ UNCHANGED <<clientVars, faults>>

\* disconnect_venue and reconnect_venue.  Over REST they are requests.
BrokerDisconnectVenue ==
  /\ \/ /\ kind # "rest" /\ eng.venue.connected
        /\ eng' = [eng EXCEPT !.venue = PaperDisconnect(@)] /\ UNCHANGED brokerVars
     \/ /\ kind = "rest" /\ broker.connected
        /\ broker' = PaperDisconnect(broker) /\ UNCHANGED <<eng, faults>>
  /\ UNCHANGED <<kind, err, commands, changed>>

Rewound(e) == [e EXCEPT !.session = 0, !.nextSeq = 1]

BrokerReconnectVenue ==
  /\ \/ /\ kind \in Sandboxes /\ ~eng.venue.connected /\ eng.venue.session <= MaxReconnects
        /\ eng' = Rewound([eng EXCEPT !.venue = PaperReconnect(@)]) /\ UNCHANGED brokerVars
     \/ /\ kind = "rest" /\ ~broker.connected /\ broker.session <= MaxReconnects
        /\ eng' = Rewound([eng EXCEPT !.venue.outbox = <<>>])
        /\ \E o \in {"ok", "lost"} :
             Outcome(o) /\ broker' = IF o = "ok" THEN PaperReconnect(broker) ELSE broker
     \/ /\ kind = "alpaca" /\ ~eng.venue.connected /\ eng.venue.session <= MaxReconnects
        /\ \E o \in {"ok", "lost"} :
             /\ Outcome(o)
             /\ eng' = Rewound([eng EXCEPT !.venue = AlpacaReconnect(@, broker, o = "ok")])
        /\ UNCHANGED broker
  /\ UNCHANGED <<kind, err, commands, changed>>

BrokerNext ==
  \/ BrokerCommand
  \/ BrokerTick
  \/ BrokerFills
  \/ BrokerCloses
  \/ BrokerDisconnectVenue
  \/ BrokerReconnectVenue
=============================================================================
