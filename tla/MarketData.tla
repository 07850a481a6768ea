----------------------------- MODULE MarketData -----------------------------
(***************************************************************************)
(* Market data of one instrument, from a decoded vendor frame to the event *)
(* clients see: the consumer's sequence policy                             *)
(* (crates/domain/market-data/src/consumer.rs), the L2 book (book.rs), the *)
(* feed supervisor (crates/protocols/market-data/src/supervisor.rs) and    *)
(* to_market_event (services/market-data-gateway/src/map.rs).              *)
(*                                                                         *)
(* The code keeps maps by instrument and no instrument looks at another's  *)
(* entry.  A book is a function from price levels to quantities, where 0   *)
(* is no level; its checksum is the book itself.  Prices of records, the   *)
(* counters and the raw journal decide nothing and are left out.           *)
(***************************************************************************)
EXTENDS Integers, Sequences

CONSTANT Levels   \* price levels of the book, both sides

NoSeq == -1   \* a record never applied, or a delta without a sequence

NoLevels == [l \in Levels |-> 0]

-----------------------------------------------------------------------------
(* Frames a vendor adapter decodes (DecodedFrame).                         *)

Record(kind, seq) == [type |-> "record", kind |-> kind, seq |-> seq]
BookSnapshot(seq, levels) == [type |-> "book", seq |-> seq, levels |-> levels]
BookDelta(seq, level, qty) == [type |-> "delta", seq |-> seq, level |-> level, qty |-> qty]
Heartbeat == [type |-> "heartbeat"]
Control == [type |-> "control"]

-----------------------------------------------------------------------------
(* MdConsumerState: the next sequence expected and whether the feed waits  *)
(* for a snapshot.                                                         *)

NewConsumer == [next |-> NoSeq, degraded |-> FALSE]

MarkDegraded(consumer) == [consumer EXCEPT !.degraded = TRUE]

Outcome(state, what) == [state |-> state, what |-> what]

\* Mutant of ConsumerApply: a sequence seen before is applied again.
ConsumerApplyTwice(consumer, record) ==
  CASE record.seq = 0 -> Outcome(consumer, "InvalidSequence")
    [] record.seq # 0 /\ consumer.degraded /\ record.kind # "Snapshot" ->
         Outcome(consumer, "IgnoredDegraded")
    [] record.seq # 0 /\ consumer.degraded /\ record.kind = "Snapshot" ->
         Outcome([next |-> record.seq + 1, degraded |-> FALSE], "SnapshotRecovered")
    [] record.seq # 0 /\ ~consumer.degraded /\ consumer.next # NoSeq /\ record.seq > consumer.next ->
         Outcome(MarkDegraded(consumer), "GapDetected")
    [] OTHER -> Outcome([consumer EXCEPT !.next = record.seq + 1], "Applied")

\* apply and apply_unsynced: a sequence below the expected one is a duplicate
\* even of a degraded feed, and only a snapshot ends the degradation.
ConsumerApply(consumer, record) ==
  CASE record.seq = 0 -> Outcome(consumer, "InvalidSequence")
    [] record.seq # 0 /\ record.seq < consumer.next -> Outcome(consumer, "Duplicate")
    [] record.seq # 0 /\ record.seq >= consumer.next /\ consumer.degraded ->
         IF record.kind = "Snapshot"
         THEN Outcome([next |-> record.seq + 1, degraded |-> FALSE], "SnapshotRecovered")
         ELSE Outcome(consumer, "IgnoredDegraded")
    [] record.seq # 0 /\ ~consumer.degraded /\ consumer.next # NoSeq /\ record.seq > consumer.next ->
         Outcome(MarkDegraded(consumer), "GapDetected")
    [] OTHER -> Outcome([consumer EXCEPT !.next = record.seq + 1], "Applied")

-----------------------------------------------------------------------------
(* L2Book.                                                                 *)

NewBook == [status |-> "Empty", seq |-> 0, levels |-> NoLevels]

\* invalidate keeps the sequence.
Invalidate(book) == [book EXCEPT !.status = "Invalidated", !.levels = NoLevels]

\* apply_snapshot: whatever the book held and whatever its sequence was.
BookReplace(book, snap) ==
  IF snap.seq = 0 THEN Outcome(book, "Error")
  ELSE Outcome([status |-> "Healthy", seq |-> snap.seq, levels |-> snap.levels], "Applied")

\* Mutant of BookDeltaApply: a quantity of zero does not remove its level.
BookDeltaKeep(book, delta) ==
  CASE book.status # "Healthy" -> Outcome(book, "IgnoredInvalidated")
    [] book.status = "Healthy" /\ delta.qty = 0 -> Outcome(book, "Applied")
    [] book.status = "Healthy" /\ delta.qty # 0 ->
         Outcome([book EXCEPT !.levels[delta.level] = delta.qty,
                              !.seq = IF delta.seq = NoSeq THEN @ ELSE delta.seq], "Applied")

\* apply_delta: a delta without a sequence applies to any healthy book.
BookDeltaApply(book, delta) ==
  LET set == [book EXCEPT !.levels[delta.level] = delta.qty]
  IN  CASE delta.qty < 0 -> Outcome(book, "Error")
        [] delta.qty >= 0 /\ book.status # "Healthy" -> Outcome(book, "IgnoredInvalidated")
        [] delta.qty >= 0 /\ book.status = "Healthy" /\ delta.seq = NoSeq -> Outcome(set, "Applied")
        [] delta.qty >= 0 /\ book.status = "Healthy" /\ delta.seq # NoSeq ->
             CASE delta.seq = 0 -> Outcome(book, "Error")
               [] delta.seq \in 1 .. book.seq -> Outcome(book, "Duplicate")
               [] delta.seq > book.seq + 1 -> Outcome(Invalidate(book), "GapInvalidated")
               [] delta.seq = book.seq + 1 -> Outcome([set EXCEPT !.seq = delta.seq], "Applied")

-----------------------------------------------------------------------------
(* FeedSupervisor: one subscription.  age stands for the clock minus       *)
(* last_seen.                                                              *)

NewSupervisor ==
  [connected |-> FALSE, attempt |-> 0, consumer |-> NewConsumer, book |-> NewBook, age |-> 0]

\* What a call leaves: the supervisor, the events it emits and whether it
\* asks for a snapshot (RequestSnapshot is the only command of an ingest).
Result(sup, events, snapshot) == [sup |-> sup, events |-> events, snapshot |-> snapshot]

Event(type, value) == [type |-> type, value |-> value]

Distrust(sup) ==
  [sup EXCEPT !.consumer = MarkDegraded(@), !.book = Invalidate(@)]

OnConnected(sup) ==
  Result([Distrust(sup) EXCEPT !.connected = TRUE, !.attempt = 0, !.age = 0], <<>>, TRUE)

OnDisconnect(sup) ==
  Result([Distrust(sup) EXCEPT !.connected = FALSE, !.attempt = @ + 1], <<>>, FALSE)

\* reconnect_delay
ReconnectDelay(attempt) == 2 ^ (IF attempt < 5 THEN attempt ELSE 5)

\* apply_record: a gap of the records distrusts the book too and asks for a
\* snapshot; a record the journal refuses (sequence 0) is skipped.
ApplyRecord(sup, record) ==
  LET applied == ConsumerApply(sup.consumer, record)
      seen == [sup EXCEPT !.age = 0, !.consumer = applied.state]
  IN  CASE applied.what = "InvalidSequence" -> Result(sup, <<Event("Skipped", 0)>>, FALSE)
        [] applied.what = "GapDetected" ->
             Result([seen EXCEPT !.book = Invalidate(@)], <<Event("Gap", record.seq)>>, TRUE)
        [] applied.what = "Applied" -> Result(seen, <<Event("Applied", record.seq)>>, FALSE)
        [] applied.what \in {"Duplicate", "IgnoredDegraded", "SnapshotRecovered"} ->
             Result(seen, <<Event(applied.what, record.seq)>>, FALSE)

\* apply_book_event: a gap of the book is an event without a command.
ApplyBookEvent(sup, frame) ==
  LET applied == IF frame.type = "book" THEN BookReplace(sup.book, frame)
                 ELSE BookDeltaApply(sup.book, frame)
      left == [sup EXCEPT !.book = applied.state]
  IN  CASE applied.what = "Applied" ->
             Result(left, <<Event(IF frame.type = "book" THEN "BookRebuilt" ELSE "BookDeltaApplied",
                                  left.book)>>, FALSE)
        [] applied.what = "GapInvalidated" -> Result(left, <<Event("Gap", frame.seq)>>, FALSE)
        [] applied.what \in {"Error", "Duplicate", "IgnoredInvalidated"} ->
             Result(left, <<Event("Skipped", 0)>>, FALSE)

\* ingest
Ingest(sup, frame) ==
  CASE frame.type = "control" -> Result(sup, <<Event("Skipped", 0)>>, FALSE)
    [] frame.type = "heartbeat" -> Result([sup EXCEPT !.age = 0], <<Event("Heartbeat", 0)>>, FALSE)
    [] frame.type = "record" -> ApplyRecord(sup, frame)
    [] frame.type \in {"book", "delta"} -> ApplyBookEvent([sup EXCEPT !.age = 0], frame)

\* ingest_snapshot: the book of the answer is taken whatever became of its
\* record; books is <<>> when the body holds no levels.
IngestSnapshot(sup, record, books) ==
  LET first == ApplyRecord(sup, record)
      second == ApplyBookEvent(first.sup, books[1])
  IN  IF books = <<>> THEN first
      ELSE Result(second.sup, first.events \o second.events, first.snapshot)

\* on_clock
OnClock(sup, sla) ==
  IF sup.connected /\ sup.age > sla THEN <<Event("Stale", 0)>> ELSE <<>>

-----------------------------------------------------------------------------
(* to_market_event: what clients see of an event.                          *)

\* A tick, the news that the feed is degraded, or that the book is ready.
ToMarketEvent(event) ==
  CASE event.type = "Applied" -> "Tick"
    [] event.type \in {"Gap", "Stale"} -> "Degraded"
    [] event.type = "BookRebuilt" -> "BookReady"
    [] OTHER -> "none"

\* The positions of the events clients see as one of kinds.
Seen(events, kinds) == {i \in DOMAIN events : ToMarketEvent(events[i]) \in kinds}

\* The sequence of the tick among a call's events (a call applies one record at
\* most), and the last other news in them.
Ticks(events) ==
  LET applied == Seen(events, {"Tick"})
  IN  IF applied = {} THEN <<>> ELSE <<events[CHOOSE i \in applied : TRUE].value>>

LastWord(events, before) ==
  LET words == Seen(events, {"Degraded", "BookReady"})
  IN  IF words = {} THEN before
      ELSE ToMarketEvent(events[CHOOSE i \in words : \A j \in words : j <= i])
=============================================================================
