---------------------------- MODULE FeedSession ----------------------------
(***************************************************************************)
(* The gateway's feed task of one vendor                                   *)
(* (crates/services/market-data-gateway/src/coinbase_feed.rs,              *)
(* alpaca_feed.rs and the live task of futures_feed.rs, alike but where    *)
(* vendor is asked): connect, subscribe, fetch a snapshot over HTTP,       *)
(* ingest frames, fetch again on a gap, reconnect when the socket ends.    *)
(*                                                                         *)
(*   coinbase   trades, and book deltas without a sequence of their own    *)
(*   databento  sequenced book deltas (the mbp-10 schema)                  *)
(*   alpaca     trades, and quotes whose sequence is the receiver's clock; *)
(*              no book                                                    *)
(*                                                                         *)
(* The venue is external.  Its events take consecutive sequences; a frame  *)
(* for each goes to the socket, in order, and some are lost.  The HTTP     *)
(* request is awaited inside the task's loop: frames queue meanwhile, and  *)
(* the answer is the venue's state at a moment between the two ends.       *)
(***************************************************************************)
EXTENDS VendorFrames

CONSTANTS
  Vendors,     \* adapters of the runs
  ClockSeq,    \* the receiver's clock, as the sequence of a quote
  Sla,         \* silence before a stale alert
  MaxSeq,      \* bound: events of the venue
  MaxQuotes,   \* bound: quotes
  MaxDrops,    \* bound: frames lost
  MaxCloses,   \* bound: sockets that end
  MaxBad       \* bound: HTTP requests that fail, and answers that do not decode

ASSUME FeedAssumption ==
  /\ Vendors \subseteq {"coinbase", "databento", "alpaca"}
  /\ ClockSeq \in Nat /\ ClockSeq > MaxSeq + 1
  /\ {Sla, MaxQuotes, MaxDrops, MaxCloses, MaxBad} \subseteq Nat /\ MaxSeq \in Nat \ {0}

VARIABLES
  vendor,   \* the adapter of this behaviour
  venue,    \* [seq, levels]: the venue's last sequence and its book
  link,     \* is the socket up
  wire,     \* frames sent and not read
  sup,      \* the session's FeedSupervisor
  task,     \* where the task is, and the answer it waits for
  ticks,    \* sequences of the ticks published, in order
  told,     \* the last word clients had on the book
  lost,     \* history: sequences of the deltas this socket lost
  count     \* how often each bounded thing has happened

vars == <<vendor, venue, link, wire, sup, task, ticks, told, lost, count>>

NoAnswer == [seq |-> NoSeq, levels |-> NoLevels]

At(where) == [at |-> where, answer |-> NoAnswer]

Init ==
  /\ vendor \in Vendors
  /\ venue = [seq |-> 1, levels |-> NoLevels]
  /\ link = "down" /\ wire = <<>>
  /\ sup = NewSupervisor /\ task = At("sleep")
  /\ ticks = <<>> /\ told = "none" /\ lost = {}
  /\ count = [quotes |-> 0, drops |-> 0, closes |-> 0, bad |-> 0]

Count(what) == count' = [count EXCEPT ![what] = @ + 1]

-----------------------------------------------------------------------------
(* The venue and the socket.                                               *)

\* A frame on a socket that is up arrives, or is lost; a lost delta without a
\* sequence nobody could notice, and the model loses none.
Send(frame) ==
  \/ link = "up" /\ wire' = Append(wire, frame) /\ UNCHANGED <<lost, count>>
  \/ /\ link = "up" /\ count.drops < MaxDrops /\ Count("drops")
     /\ frame.seq # NoSeq /\ UNCHANGED wire
     /\ lost' = IF frame.type = "delta" THEN lost \cup {frame.seq} ELSE lost
  \/ link = "down" /\ UNCHANGED <<wire, lost, count>>

VenueTrade ==
  /\ vendor \in {"coinbase", "alpaca"} /\ venue.seq < MaxSeq
  /\ venue' = [venue EXCEPT !.seq = @ + 1]
  /\ Send(IF vendor = "coinbase" THEN CoinbaseTrade(venue.seq + 1) ELSE AlpacaTrade(venue.seq + 1))
  /\ UNCHANGED <<vendor, link, sup, task, ticks, told>>

VenueBook(l) ==
  /\ vendor \in {"coinbase", "databento"} /\ venue.seq < MaxSeq
  /\ venue' = [seq |-> venue.seq + 1, levels |-> [venue.levels EXCEPT ![l] = 1 - @]]
  /\ Send(IF vendor = "coinbase" THEN CoinbaseChange(l, 1 - venue.levels[l])
          ELSE DatabentoChange(venue.seq + 1, l, 1 - venue.levels[l]))
  /\ UNCHANGED <<vendor, link, sup, task, ticks, told>>

VenueQuote ==
  /\ vendor = "alpaca" /\ count.quotes < MaxQuotes /\ Count("quotes")
  /\ link = "up" /\ wire' = Append(wire, AlpacaQuote(ClockSeq))
  /\ UNCHANGED <<vendor, venue, link, sup, task, ticks, told, lost>>

\* The socket ends; frames not read yet may go with it.
Close ==
  /\ link = "up" /\ count.closes < MaxCloses /\ Count("closes")
  /\ link' = "down"
  /\ \E n \in 0 .. Len(wire) : wire' = SubSeq(wire, 1, n)
  /\ UNCHANGED <<vendor, venue, sup, task, ticks, told, lost>>

-----------------------------------------------------------------------------
(* What the task does with what the supervisor returns: dispatch_outcome,  *)
(* then execute_commands.                                                  *)

\* dispatch_event: the hub's publish.
Dispatch(events) ==
  /\ ticks' = ticks \o Ticks(events)
  /\ told' = LastWord(events, told)

\* A snapshot asked for is fetched at once.  (TLC computes a bound value once.)
Follow(result) ==
  \E done \in {result} :
    /\ sup' = done.sup
    /\ Dispatch(done.events)
    /\ task' = At(IF done.snapshot THEN "fetch" ELSE "read")

\* run_loop: the session is over, and its supervisor with it; the task starts another.
Ended == task' = At("sleep") /\ link' = "down" /\ wire' = <<>> /\ lost' = {}

-----------------------------------------------------------------------------
(* The task.                                                               *)

\* A socket is open: a new supervisor, on_connected, subscribe.
Opened(frames) ==
  /\ task.at = "sleep"
  /\ link' = "up" /\ lost' = {} /\ wire' = frames
  /\ Follow(OnConnected(NewSupervisor))
  /\ UNCHANGED <<vendor, venue, count>>

\* session and live_session; Alpaca's waits for "connected" and "authenticated" in
\* between, and starts over when they do not come.
CoinbaseConnect ==
  /\ vendor = "coinbase"
  /\ Opened(<<CoinbaseOpening(venue.levels), CoinbaseTrade(venue.seq)>>)
AlpacaConnect    == vendor = "alpaca" /\ Opened(<<>>)
DatabentoConnect == vendor = "databento" /\ Opened(<<>>)
VendorConnects == CoinbaseConnect \/ AlpacaConnect \/ DatabentoConnect

\* The venue's REST side answers the request.
Answer ==
  /\ task.at = "fetch"
  /\ task' = [at |-> "answered", answer |-> venue]
  /\ UNCHANGED <<vendor, venue, link, wire, sup, ticks, told, lost, count>>

\* Mutant of TakeSnapshot: the answer's book is dropped.
TakeRecord ==
  /\ task.at = "answered"
  /\ Follow(IngestSnapshot(sup, Record("Snapshot", task.answer.seq), <<>>))
  /\ UNCHANGED <<vendor, venue, link, wire, lost, count>>

\* The answer decoded: one sequence for the record and the book.
Decoded(answer) ==
  CASE vendor = "coinbase"  -> CoinbaseAnswer(answer.seq, answer.levels)
    [] vendor = "databento" -> DatabentoAnswer(answer.seq, answer.levels)
    [] OTHER                -> AlpacaAnswer(answer.seq)

\* ingest_snapshot of the answer.
TakeSnapshot ==
  /\ task.at = "answered"
  /\ LET it == Decoded(task.answer) IN Follow(IngestSnapshot(sup, it.record, it.books))
  /\ UNCHANGED <<vendor, venue, link, wire, lost, count>>

\* A request that fails and a session that goes on without a snapshot.
WithoutSnapshot ==
  /\ task.at = "fetch" /\ count.bad < MaxBad /\ Count("bad")
  /\ task' = At("read")
  /\ UNCHANGED <<vendor, venue, link, wire, sup, ticks, told, lost>>

\* Mutant of CoinbaseHttpFails: the error is swallowed.
CoinbaseGoesOn == vendor = "coinbase" /\ WithoutSnapshot

\* Its error ends Coinbase's session, the others go on.
CoinbaseHttpFails ==
  /\ vendor = "coinbase" /\ task.at = "fetch" /\ count.bad < MaxBad /\ Count("bad")
  /\ Ended
  /\ UNCHANGED <<vendor, venue, sup, ticks, told>>

AlpacaHttpFails    == vendor = "alpaca" /\ WithoutSnapshot
DatabentoHttpFails == vendor = "databento" /\ WithoutSnapshot

\* One frame of the socket (ws.next() in the select; Alpaca's arrays frame by frame).
ReadFrame ==
  /\ task.at = "read" /\ wire # <<>>
  /\ wire' = Tail(wire)
  /\ Follow(Ingest(sup, Head(wire)))
  /\ UNCHANGED <<vendor, venue, link, lost, count>>

\* Mutant of Tick: the clock goes on after the alert.
TickOn ==
  /\ task.at = "read" /\ wire = <<>> /\ link = "up"
  /\ sup' = [sup EXCEPT !.age = @ + 1]
  /\ Dispatch(OnClock(sup', Sla))
  /\ UNCHANGED <<vendor, venue, link, wire, task, lost, count>>

\* The clock of the select: time passes while the socket is silent.
Tick ==
  /\ task.at = "read" /\ wire = <<>> /\ link = "up" /\ sup.age <= Sla
  /\ sup' = [sup EXCEPT !.age = @ + 1]
  /\ Dispatch(OnClock(sup', Sla))
  /\ UNCHANGED <<vendor, venue, link, wire, task, lost, count>>

\* The socket's end is read (handle_disconnect): on_disconnect, and clients
\* are told; the Reconnect command only makes the task wait.
Disconnected ==
  /\ task.at = "read" /\ wire = <<>> /\ link = "down"
  /\ sup' = OnDisconnect(sup).sup
  /\ Dispatch(<<Event("Stale", 0)>>)
  /\ Ended
  /\ UNCHANGED <<vendor, venue, count>>

\* A pong cannot be sent any more: the session ends with the error.
PongFails ==
  /\ task.at = "read" /\ link = "down"
  /\ Ended
  /\ UNCHANGED <<vendor, venue, sup, ticks, told, count>>

\* A body that does not decode is reported on stderr (Err of ingest_snapshot).
BadBody == WithoutSnapshot

\* What every session does once it is connected.
Session == Answer \/ TakeSnapshot \/ ReadFrame \/ Tick \/ Disconnected \/ PongFails

CoinbaseSession  == vendor = "coinbase" /\ (CoinbaseConnect \/ CoinbaseHttpFails \/ Session)
AlpacaSession    == vendor = "alpaca" /\ (AlpacaConnect \/ AlpacaHttpFails \/ Session)
DatabentoSession == vendor = "databento" /\ (DatabentoConnect \/ DatabentoHttpFails \/ Session)

Next ==
  \/ VenueTrade \/ VenueQuote \/ \E l \in Levels : VenueBook(l)
  \/ Close
  \/ CoinbaseSession \/ AlpacaSession \/ DatabentoSession

\* A venue whose answers do not always decode (an error body).
NextBad == Next \/ BadBody

\* The task's loop is scheduled, a request is answered, time passes: at each
\* place of the task one of these is enabled at a time.
Loop == VendorConnects \/ Answer \/ TakeSnapshot \/ ReadFrame \/ Tick \/ Disconnected

Fairness == WF_vars(Loop)

Spec == Init /\ [][Next]_vars /\ Fairness
SpecBad == Init /\ [][NextBad]_vars /\ Fairness

-----------------------------------------------------------------------------
(* Properties.                                                             *)

Frames ==
  [type : {"record"}, kind : {"Trade", "Bbo"}, seq : 1 .. MaxSeq \cup {ClockSeq}]
    \cup [type : {"book"}, seq : {1}, levels : [Levels -> 0 .. 1]]
    \cup [type : {"delta"}, seq : {NoSeq} \cup 1 .. MaxSeq, level : Levels, qty : 0 .. 1]

\* Every variable has its type.
TypeOK ==
  /\ vendor \in Vendors
  /\ venue \in [seq : 1 .. MaxSeq, levels : [Levels -> 0 .. 1]]
  /\ link \in {"up", "down"} /\ wire \in Seq(Frames)
  /\ sup \in [connected : BOOLEAN, attempt : 0 .. 1, age : 0 .. Sla + 1,
              consumer : [next : {NoSeq} \cup 2 .. MaxSeq + 1, degraded : BOOLEAN],
              book : [status : {"Empty", "Healthy", "Invalidated"}, seq : 0 .. MaxSeq,
                      levels : [Levels -> 0 .. 1]]]
  /\ task.at \in {"sleep", "fetch", "answered", "read"}
  /\ IF task.at = "answered" THEN task.answer \in [seq : 1 .. MaxSeq, levels : [Levels -> 0 .. 1]]
     ELSE task = At(task.at)
  /\ ticks \in Seq(1 .. MaxSeq) /\ told \in {"none", "Degraded", "BookReady"}
  /\ lost \subseteq 1 .. MaxSeq

CaughtUp == task.at = "read" /\ link = "up" /\ wire = <<>>

\* A lost delta the session cannot know of yet: it has read no later one.
Unnoticed == \E n \in lost : n > sup.book.seq

\* When nothing is left to read, a healthy book is the venue's book: the
\* snapshot of an answer and the frames queued behind it add up, whatever was
\* sent between the subscription, the answer and its arrival.
BookAgrees == CaughtUp /\ sup.book.status = "Healthy" /\ ~Unnoticed => sup.book.levels = venue.levels

\* MarketEvent::BookReady, "client may trust the book again": while a session
\* reads, clients were last told so only of a book that is healthy.
EveryReadyIsHealthy ==
  task.at = "read" /\ link = "up" /\ told = "BookReady" => sup.book.status = "Healthy"

\* Coinbase's session, which a failed request ends, never leaves them with the
\* word of an earlier session on a book it could not fetch.
ReadyIsHealthy == vendor = "coinbase" => EveryReadyIsHealthy

Well == task.at = "read" /\ ~sup.consumer.degraded /\ sup.book.status = "Healthy"

\* "gap -> snapshot" (supervisor.rs): a gap, a lost frame, a failed request and
\* a lost socket all heal, and a Coinbase feed is healthy again and again,
\* consumer and book.
FeedHeals == vendor = "coinbase" => []<>Well

\* The same of every adapter.
EveryFeedHeals == []<>Well

\* Silence is over when ticks flow: clients told that the feed is degraded
\* hear that the book is ready once it is.
DegradedIsLifted == []<>(told # "Degraded")

\* The promise to clients.
Promise == INSTANCE TickStream WITH issued <- venue.seq, ticks <- ticks
TicksInOrder == Promise!Spec
=============================================================================
