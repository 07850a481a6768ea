-------------------------- MODULE MdGatewayProofs --------------------------
(***************************************************************************)
(* Proofs about the market-data gateway: the feed task of FeedSession,     *)
(* the hub of FanoutHub, and the archive of MdArchive.                     *)
(*                                                                         *)
(* The feed, for any vendors, any levels and any bounds: the ticks it      *)
(* publishes refine TickStream, a healthy book that has read everything it *)
(* was sent is the venue's book, and Coinbase clients are never left with  *)
(* a BookReady on a book that is not healthy.  The invariant says of a     *)
(* session what its three sources of truth, the answer, the book and the   *)
(* frames still queued, owe each other:                                    *)
(*   Numbered   the consumer expects a number past every tick published    *)
(*              and at most one past the venue's last, and is degraded     *)
(*              until a snapshot is applied;                               *)
(*   Shaped     which frames a vendor queues, and in which order;          *)
(*   NewestWins the last queued frame that sets a level sets it to what    *)
(*              the venue has, unless a later delta was lost;              *)
(*   Covered    a level no queued frame will still set, and no lost delta  *)
(*              could have set, is already what the venue has, in the book *)
(*              and in an answer not taken yet.                            *)
(*                                                                         *)
(* The hub, for any number of token pairs, sessions and instruments, any   *)
(* queue capacity and any clock: a family never has two refresh tokens     *)
(* that work, a session whose token was found bad is never published to    *)
(* again, and a client reads the newest of what was queued, in order.      *)
(*                                                                         *)
(* The archive, for any intervals, prices, quantities and page size and a  *)
(* clock set back at will: its bars are those of its journal, and a client *)
(* that pages through them misses none and sees none twice.  The invariant *)
(* says that an interval's open bar is the one of its newest bucket and    *)
(* that, with none open, all that is stored is older than the feed; of a   *)
(* client, that its cursor separates what it has seen from the rest.       *)
(***************************************************************************)
EXTENDS FeedSession, FanoutHub, MdArchive, SequenceTheorems, FiniteSetTheorems,
  NaturalsInduction, WellFoundedInduction, TLAPS

-----------------------------------------------------------------------------
(* The invariant.                                                          *)

SomeLast == IF ticks = <<>> THEN 0 ELSE ticks[Len(ticks)]

Numbered ==
  /\ SomeLast \in 0 .. venue.seq
  /\ task.at # "sleep" /\ ~sup.consumer.degraded => sup.consumer.next \in SomeLast + 1 .. venue.seq + 1
  /\ task.at \in {"fetch", "answered"} => sup.consumer.degraded
  /\ task.at = "answered" => task.answer.seq \in SomeLast .. venue.seq
  /\ task.at = "sleep" \/ sup.attempt = 0
  /\ \A i \in 1 .. Len(wire) : wire[i].type = "record" => wire[i].seq \in 1 .. venue.seq \cup {ClockSeq}

\* A frame sets level l.
SetsLevel(f, l) == f.type = "book" \/ (f.type = "delta" /\ f.level = l)

ValueSet(f, l) == IF f.type = "book" THEN f.levels[l] ELSE f.qty

\* It still sets l for a book at base: a numbered delta it has passed does not.
Pending(f, l, base) == SetsLevel(f, l) /\ (f.type = "delta" /\ f.seq # NoSeq => f.seq > base)

Shaped ==
  /\ vendor = "coinbase" => \A i \in 1 .. Len(wire) : wire[i].type = "delta" => wire[i].seq = NoSeq
  /\ vendor = "alpaca" =>
       venue.levels = NoLevels /\ \A i \in 1 .. Len(wire) : wire[i].type = "record"
  /\ vendor = "databento" =>
       /\ \A i \in 1 .. Len(wire) :
            wire[i].type = "delta" /\ wire[i].seq \in 1 .. venue.seq /\ wire[i].seq \notin lost
       /\ \A i, j \in 1 .. Len(wire) : i < j => wire[i].seq < wire[j].seq
  /\ vendor # "databento" => lost = {}
  /\ lost \subseteq 1 .. venue.seq
  /\ sup.book.seq <= venue.seq

NewestWins ==
  link = "up" =>
    \A l \in Levels : \A i \in 1 .. Len(wire) :
      /\ SetsLevel(wire[i], l)
      /\ \A j \in 1 .. Len(wire) : SetsLevel(wire[j], l) => j <= i
      /\ \A n \in lost : n <= wire[i].seq
      => ValueSet(wire[i], l) = venue.levels[l]

Agrees(levels, base) ==
  \A l \in Levels :
    /\ \A n \in lost : n <= base
    /\ \A i \in 1 .. Len(wire) : ~Pending(wire[i], l, base)
    => levels[l] = venue.levels[l]

Covered ==
  /\ link = "up" /\ sup.book.status = "Healthy" /\ task.at # "sleep" =>
       Agrees(sup.book.levels, sup.book.seq)
  /\ link = "up" /\ task.at = "answered" => Agrees(task.answer.levels, task.answer.seq)

ReadyInv ==
  vendor = "coinbase" /\ task.at = "read" /\ told = "BookReady" => sup.book.status = "Healthy"

FeedInv == TypeOK /\ Numbered /\ Shaped /\ NewestWins /\ Covered /\ ReadyInv

-----------------------------------------------------------------------------
(* What the supervisor's calls return.                                     *)

LevelsT == [Levels -> 0 .. 1]

BookT == [status : {"Empty", "Healthy", "Invalidated"}, seq : 0 .. MaxSeq, levels : LevelsT]

ConsumerT == [next : {NoSeq} \cup 2 .. MaxSeq + 1, degraded : BOOLEAN]

SupT ==
  [connected : BOOLEAN, attempt : 0 .. 1, age : 0 .. Sla + 1, consumer : ConsumerT, book : BookT]

RecordT == [type : {"record"}, kind : {"Trade", "Bbo", "Snapshot"}, seq : 1 .. MaxSeq \cup {ClockSeq}]

\* An event that is no tick and says nothing about the book.
Quiet == {"Skipped", "Duplicate", "IgnoredDegraded", "SnapshotRecovered", "BookDeltaApplied"}

\* What one event, and what a record's event followed by a book's, publish.
LEMMA OneEvent ==
  ASSUME NEW type, NEW value, NEW before
  PROVE  /\ type = "Applied" => /\ Ticks(<<Event(type, value)>>) = <<value>>
                                /\ LastWord(<<Event(type, value)>>, before) = before
         /\ type \in {"Gap", "Stale"} => /\ Ticks(<<Event(type, value)>>) = <<>>
                                         /\ LastWord(<<Event(type, value)>>, before) = "Degraded"
         /\ type = "BookRebuilt" => /\ Ticks(<<Event(type, value)>>) = <<>>
                                    /\ LastWord(<<Event(type, value)>>, before) = "BookReady"
         /\ type \in Quiet => /\ Ticks(<<Event(type, value)>>) = <<>>
                              /\ LastWord(<<Event(type, value)>>, before) = before
<1> DEFINE e == Event(type, value)
           what == ToMarketEvent(e)
<1>1. /\ e.type = type /\ e.value = value
      /\ DOMAIN <<e>> = {1} /\ <<e>>[1] = e
  BY DEF Event
<1>2. /\ type = "Applied" => what = "Tick"
      /\ type \in {"Gap", "Stale"} => what = "Degraded"
      /\ type = "BookRebuilt" => what = "BookReady"
      /\ type \in Quiet => what = "none"
  BY <1>1 DEF ToMarketEvent, Quiet
<1> HIDE DEF e
<1>3. /\ Seen(<<e>>, {"Tick"}) = IF what = "Tick" THEN {1} ELSE {}
      /\ Seen(<<e>>, {"Degraded", "BookReady"}) = IF what \in {"Degraded", "BookReady"} THEN {1} ELSE {}
  BY <1>1 DEF Seen
<1> HIDE DEF what
<1>4. /\ what = "Tick" => Ticks(<<e>>) = <<value>>
      /\ what # "Tick" => Ticks(<<e>>) = <<>>
  <2>1. CASE what = "Tick"
    <3>1. Seen(<<e>>, {"Tick"}) = {1} BY <1>3, <2>1
    <3>2. (CHOOSE i \in {1} : TRUE) = 1 OBVIOUS
    <3> QED BY <1>1, <2>1, <3>1, <3>2 DEF Ticks
  <2>2. CASE what # "Tick"
    <3>1. Seen(<<e>>, {"Tick"}) = {} BY <1>3, <2>2
    <3> QED BY <2>2, <3>1 DEF Ticks
  <2> QED BY <2>1, <2>2
<1>5. /\ what \in {"Degraded", "BookReady"} => LastWord(<<e>>, before) = what
      /\ what \notin {"Degraded", "BookReady"} => LastWord(<<e>>, before) = before
  <2>1. (CHOOSE i \in {1} : \A j \in {1} : j <= i) = 1 OBVIOUS
  <2>2. CASE what \in {"Degraded", "BookReady"}
    <3>1. Seen(<<e>>, {"Degraded", "BookReady"}) = {1} BY <1>3, <2>2
    <3> QED BY <1>1, <2>1, <2>2, <3>1 DEF LastWord, what
  <2>3. CASE what \notin {"Degraded", "BookReady"}
    <3>1. Seen(<<e>>, {"Degraded", "BookReady"}) = {} BY <1>3, <2>3
    <3> QED BY <2>3, <3>1 DEF LastWord
  <2> QED BY <2>2, <2>3
<1>6. /\ type = "Applied" => Ticks(<<e>>) = <<value>> /\ LastWord(<<e>>, before) = before
      /\ type \in {"Gap", "Stale"} => Ticks(<<e>>) = <<>> /\ LastWord(<<e>>, before) = "Degraded"
      /\ type = "BookRebuilt" => Ticks(<<e>>) = <<>> /\ LastWord(<<e>>, before) = "BookReady"
      /\ type \in Quiet => Ticks(<<e>>) = <<>> /\ LastWord(<<e>>, before) = before
  BY <1>2, <1>4, <1>5
<1> QED BY <1>6, Zenon DEF e

LEMMA QuietEvent ==
  ASSUME NEW type, type \in Quiet, NEW value, NEW before
  PROVE  Ticks(<<Event(type, value)>>) = <<>> /\ LastWord(<<Event(type, value)>>, before) = before
BY OneEvent

LEMMA TickEvent ==
  ASSUME NEW value, NEW before
  PROVE  /\ Ticks(<<Event("Applied", value)>>) = <<value>>
         /\ LastWord(<<Event("Applied", value)>>, before) = before
BY OneEvent

LEMMA GapEvent ==
  ASSUME NEW value, NEW before
  PROVE  /\ Ticks(<<Event("Gap", value)>>) = <<>>
         /\ LastWord(<<Event("Gap", value)>>, before) = "Degraded"
BY OneEvent, ZenonT(60)

LEMMA StaleEvent ==
  ASSUME NEW value, NEW before
  PROVE  /\ Ticks(<<Event("Stale", value)>>) = <<>>
         /\ LastWord(<<Event("Stale", value)>>, before) = "Degraded"
BY OneEvent

LEMMA RebuiltEvent ==
  ASSUME NEW value, NEW before
  PROVE  /\ Ticks(<<Event("BookRebuilt", value)>>) = <<>>
         /\ LastWord(<<Event("BookRebuilt", value)>>, before) = "BookReady"
<1> DEFINE e == Event("BookRebuilt", value)
<1>1. ToMarketEvent(e) = "BookReady" /\ DOMAIN <<e>> = {1} /\ <<e>>[1] = e
  BY DEF ToMarketEvent, Event
<1> HIDE DEF e
<1>2. Seen(<<e>>, {"Tick"}) = {} /\ Seen(<<e>>, {"Degraded", "BookReady"}) = {1}
  BY <1>1 DEF Seen
<1>3. (CHOOSE i \in {1} : \A j \in {1} : j <= i) = 1 OBVIOUS
<1>4. Ticks(<<e>>) = <<>> BY <1>2 DEF Ticks
<1>5. LastWord(<<e>>, before) = "BookReady" BY <1>1, <1>2, <1>3 DEF LastWord
<1> QED BY <1>4, <1>5 DEF e

LEMMA TwoEvents ==
  ASSUME NEW type \in Quiet, NEW value, NEW books, NEW before
  PROVE  LET both == <<Event(type, value)>> \o <<Event("BookRebuilt", books)>>
         IN  /\ Ticks(both) = <<>>
             /\ LastWord(both, before) = "BookReady"
<1> DEFINE e == Event(type, value)
           b == Event("BookRebuilt", books)
           both == <<e>> \o <<b>>
<1>1. /\ DOMAIN both = {1, 2} /\ both[1] = e /\ both[2] = b
  <2>1. /\ <<e>> \in Seq({e, b}) /\ Len(<<e>>) = 1 /\ <<e>>[1] = e
        /\ <<b>> \in Seq({e, b}) /\ Len(<<b>>) = 1 /\ <<b>>[1] = b
    OBVIOUS
  <2>2. both \in Seq({e, b}) /\ Len(both) = 2 /\ both[1] = e /\ both[2] = b
    BY <2>1, ConcatProperties
  <2> QED BY <2>2
<1>2. ToMarketEvent(e) = "none" /\ ToMarketEvent(b) = "BookReady"
  BY DEF ToMarketEvent, Quiet, Event
<1> HIDE DEF e, b, both
<1>3. Seen(both, {"Tick"}) = {} /\ Seen(both, {"Degraded", "BookReady"}) = {2}
  BY <1>1, <1>2 DEF Seen
<1>4. (CHOOSE i \in {2} : \A j \in {2} : j <= i) = 2 OBVIOUS
<1>5. Ticks(both) = <<>> BY <1>3 DEF Ticks
<1>6. LastWord(both, before) = "BookReady" BY <1>1, <1>2, <1>3, <1>4 DEF LastWord
<1> QED BY <1>5, <1>6 DEF both, e, b

\* A supervisor after a frame: the clock restarts.
SupOf(s, c, b) ==
  [connected |-> s.connected, attempt |-> s.attempt, age |-> 0, consumer |-> c, book |-> b]

LEMMA SupSet ==
  ASSUME NEW s, s \in SupT
  PROVE  /\ \A c : c \in ConsumerT => [s EXCEPT !.consumer = c] \in SupT
         /\ \A b : b \in BookT => [s EXCEPT !.book = b] \in SupT
         /\ [s EXCEPT !.age = 0] \in SupT
<1>1. Sla \in Nat BY FeedAssumption
<1>2. ASSUME NEW c, c \in ConsumerT PROVE [s EXCEPT !.consumer = c] \in SupT
  BY <1>2 DEF SupT
<1>3. ASSUME NEW b, b \in BookT PROVE [s EXCEPT !.book = b] \in SupT
  BY <1>3 DEF SupT
<1>4. [s EXCEPT !.age = 0] \in SupT
  BY <1>1 DEF SupT
<1> QED BY <1>2, <1>3, <1>4

LEMMA SupEq ==
  ASSUME NEW x, NEW y, x \in SupT, y \in SupT,
         x.connected = y.connected, x.attempt = y.attempt, x.age = y.age,
         x.consumer = y.consumer, x.book = y.book
  PROVE  x = y
BY DEF SupT

LEMMA SupOfFacts ==
  ASSUME NEW s, s \in SupT, NEW c, c \in ConsumerT, NEW b, b \in BookT
  PROVE  /\ SupOf(s, c, b) \in SupT
         /\ SupOf(s, c, b).attempt = s.attempt
         /\ SupOf(s, c, b).consumer = c /\ SupOf(s, c, b).book = b
BY FeedAssumption DEF SupOf, SupT

LEMMA SupOfSeen ==
  ASSUME NEW s, s \in SupT, NEW c, c \in ConsumerT
  PROVE  [s EXCEPT !.age = 0, !.consumer = c] = SupOf(s, c, s.book)
<1> DEFINE aged == [s EXCEPT !.age = 0]
<1>1. s.book \in BookT
  BY DEF SupT
<1>2. SupOf(s, c, s.book) \in SupT
  BY <1>1, SupOfFacts
<1>3. /\ aged \in SupT /\ aged.age = 0 /\ aged.connected = s.connected /\ aged.attempt = s.attempt
      /\ aged.consumer = s.consumer /\ aged.book = s.book
  BY SupSet DEF SupT
<1> HIDE DEF aged
<1> DEFINE seen == [aged EXCEPT !.consumer = c]
<1>4. /\ seen \in SupT /\ seen.age = 0 /\ seen.connected = s.connected
      /\ seen.attempt = s.attempt /\ seen.consumer = c /\ seen.book = s.book
  BY <1>3, SupSet DEF SupT
<1> HIDE DEF seen
<1>5. seen = SupOf(s, c, s.book)
  BY <1>2, <1>4, SupEq DEF SupOf
<1> QED BY <1>5 DEF aged, seen

LEMMA SupOfBook ==
  ASSUME NEW s, s \in SupT, NEW c, c \in ConsumerT, NEW b, b \in BookT,
         NEW x, x = SupOf(s, c, s.book)
  PROVE  [x EXCEPT !.book = b] = SupOf(s, c, b)
<1> DEFINE y == [x EXCEPT !.book = b]
<1>1. s.book \in BookT
  BY DEF SupT
<1>2. SupOf(s, c, b) \in SupT
  BY SupOfFacts
<1>3. /\ x \in SupT /\ x.age = 0 /\ x.connected = s.connected
      /\ x.attempt = s.attempt /\ x.consumer = c
  BY <1>1, SupOfFacts DEF SupOf
<1>4. /\ y \in SupT /\ y.age = 0 /\ y.connected = s.connected
      /\ y.attempt = s.attempt /\ y.consumer = c /\ y.book = b
  BY <1>3, SupSet DEF SupT
<1> HIDE DEF y
<1>5. y = SupOf(s, c, b)
  BY <1>2, <1>4, SupEq DEF SupOf
<1> QED BY <1>5 DEF y

\* apply_book_event's supervisor: seen, with the book as it became.
LEMMA SupOfAged ==
  ASSUME NEW s, s \in SupT, NEW b, b \in BookT
  PROVE  LET aged == [s EXCEPT !.age = 0]
         IN  aged.book = s.book /\ [aged EXCEPT !.book = b] = SupOf(s, s.consumer, b)
<1> DEFINE aged == [s EXCEPT !.age = 0]
           y == [aged EXCEPT !.book = b]
<1>1. s.consumer \in ConsumerT
  BY DEF SupT
<1>2. SupOf(s, s.consumer, b) \in SupT
  BY <1>1, SupOfFacts
<1>3. /\ aged \in SupT /\ aged.age = 0 /\ aged.connected = s.connected /\ aged.attempt = s.attempt
      /\ aged.consumer = s.consumer /\ aged.book = s.book
  BY SupSet DEF SupT
<1> HIDE DEF aged
<1>4. /\ y \in SupT /\ y.age = 0 /\ y.connected = s.connected
      /\ y.attempt = s.attempt /\ y.consumer = s.consumer /\ y.book = b
  BY <1>3, SupSet DEF SupT
<1> HIDE DEF y
<1>5. y = SupOf(s, s.consumer, b)
  BY <1>2, <1>4, SupEq DEF SupOf
<1> QED BY <1>3, <1>5 DEF y, aged

LEMMA DistrustFacts ==
  ASSUME NEW c, c \in ConsumerT, NEW b, b \in BookT
  PROVE  /\ MarkDegraded(c) = [next |-> c.next, degraded |-> TRUE] /\ MarkDegraded(c) \in ConsumerT
         /\ Invalidate(b) \in BookT /\ Invalidate(b).status = "Invalidated"
         /\ Invalidate(b).levels = NoLevels /\ Invalidate(b).seq = b.seq
<1>1. ASSUME NEW x, NEW y, x \in ConsumerT, y \in ConsumerT, x.next = y.next, x.degraded = y.degraded
      PROVE  x = y
  BY <1>1 DEF ConsumerT
<1>2. MarkDegraded(c) \in ConsumerT /\ MarkDegraded(c).next = c.next /\ MarkDegraded(c).degraded = TRUE
  BY DEF MarkDegraded, ConsumerT
<1>3. [next |-> c.next, degraded |-> TRUE] \in ConsumerT
  BY DEF ConsumerT
<1>4. MarkDegraded(c) = [next |-> c.next, degraded |-> TRUE]
  <2> DEFINE r == [next |-> c.next, degraded |-> TRUE]
  <2>1. r.next = c.next /\ r.degraded = TRUE OBVIOUS
  <2> HIDE DEF r
  <2> QED BY <1>1, <1>2, <1>3, <2>1 DEF r
<1>5. NoLevels \in LevelsT BY DEF NoLevels, LevelsT
<1> DEFINE off == [b EXCEPT !.status = "Invalidated"]
<1>6. off \in BookT /\ off.status = "Invalidated" /\ off.seq = b.seq
  BY DEF BookT
<1> HIDE DEF off
<1> DEFINE empty == [off EXCEPT !.levels = NoLevels]
<1>7. empty \in BookT /\ empty.status = "Invalidated" /\ empty.seq = b.seq /\ empty.levels = NoLevels
  BY <1>5, <1>6 DEF BookT
<1>8. Invalidate(b) = empty
  BY DEF Invalidate, off
<1> QED BY <1>2, <1>4, <1>7, <1>8

\* apply of the consumer and the supervisor's answer to it.
LEMMA RecordApplied ==
  ASSUME NEW s \in SupT, NEW rec \in RecordT,
         s.consumer.degraded \/ s.consumer.next # NoSeq,
         rec.kind = "Snapshot" => rec.seq \in 1 .. MaxSeq
  PROVE  LET r == ApplyRecord(s, rec)
         IN  /\ r.sup \in SupT /\ r.snapshot \in BOOLEAN
             /\ r.sup.attempt = s.attempt
             /\ r.sup.book = IF r.snapshot THEN Invalidate(s.book) ELSE s.book
             /\ \/ /\ ~s.consumer.degraded /\ rec.seq = s.consumer.next /\ ~r.snapshot
                   /\ r.sup.consumer = [next |-> rec.seq + 1, degraded |-> FALSE]
                   /\ r.events = <<Event("Applied", rec.seq)>>
                \/ /\ ~s.consumer.degraded /\ r.snapshot
                   /\ r.sup.consumer = [next |-> s.consumer.next, degraded |-> TRUE]
                   /\ r.events = <<Event("Gap", rec.seq)>>
                \/ /\ ~r.snapshot
                   /\ \/ r.sup.consumer = s.consumer
                      \/ /\ s.consumer.degraded /\ rec.kind = "Snapshot"
                         /\ r.sup.consumer = [next |-> rec.seq + 1, degraded |-> FALSE]
                   /\ \E type \in Quiet : r.events = <<Event(type, rec.seq)>>
<1> DEFINE a == ConsumerApply(s.consumer, rec)
           seen == [s EXCEPT !.age = 0, !.consumer = a.state]
           gapped == [seen EXCEPT !.book = Invalidate(@)]
           r == ApplyRecord(s, rec)
<1>0. MaxSeq \in Nat \ {0} /\ ClockSeq \in Nat /\ ClockSeq > MaxSeq + 1 /\ Sla \in Nat
  BY FeedAssumption
<1>1. rec.seq \in Nat \ {0} /\ s.consumer \in ConsumerT /\ s.book \in BookT
  BY <1>0 DEF RecordT, SupT
<1>2. s.consumer.next \in Int
  BY <1>0, <1>1 DEF ConsumerT, NoSeq
<1>3. r = CASE a.what = "InvalidSequence" -> Result(s, <<Event("Skipped", 0)>>, FALSE)
            [] a.what = "GapDetected" -> Result(gapped, <<Event("Gap", rec.seq)>>, TRUE)
            [] a.what = "Applied" -> Result(seen, <<Event("Applied", rec.seq)>>, FALSE)
            [] a.what \in {"Duplicate", "IgnoredDegraded", "SnapshotRecovered"} ->
                 Result(seen, <<Event(a.what, rec.seq)>>, FALSE)
  BY Zenon DEF ApplyRecord
<1>4. ASSUME NEW c, c \in ConsumerT, a.state = c
      PROVE  seen = SupOf(s, c, s.book) /\ gapped = SupOf(s, c, Invalidate(s.book))
  <2> DEFINE x == [s EXCEPT !.age = 0, !.consumer = c]
             y == [x EXCEPT !.book = Invalidate(s.book)]
  <2>1. Invalidate(s.book) \in BookT
    BY <1>1, DistrustFacts
  <2>2. x = SupOf(s, c, s.book)
    BY <1>4, SupOfSeen, Zenon
  <2> HIDE DEF x
  <2>6. y = SupOf(s, c, Invalidate(s.book))
    BY <1>4, <2>1, <2>2, SupOfBook, ZenonT(60)
  <2>3. x.book = s.book
    BY <2>2 DEF SupOf
  <2> HIDE DEF a
  <2>4. seen = x
    BY <1>4, Zenon DEF x
  <2> HIDE DEF seen
  <2>5. gapped = y
    BY <2>3, <2>4, Zenon
  <2> QED BY <2>2, <2>4, <2>5, <2>6, Zenon
<1>5. ASSUME NEW c, c \in ConsumerT
      PROVE  /\ SupOf(s, c, s.book) \in SupT /\ SupOf(s, c, s.book).attempt = s.attempt
             /\ SupOf(s, c, s.book).consumer = c /\ SupOf(s, c, s.book).book = s.book
             /\ SupOf(s, c, Invalidate(s.book)) \in SupT
             /\ SupOf(s, c, Invalidate(s.book)).attempt = s.attempt
             /\ SupOf(s, c, Invalidate(s.book)).consumer = c
             /\ SupOf(s, c, Invalidate(s.book)).book = Invalidate(s.book)
  <2>1. Invalidate(s.book) \in BookT
    BY <1>1, DistrustFacts
  <2> QED BY <1>1, <1>5, <2>1, SupOfFacts, SMTT(60)
<1> HIDE DEF seen, gapped, r
<1>6. CASE rec.seq < s.consumer.next
  <2>1. a.state = s.consumer /\ a.what = "Duplicate"
    BY <1>1, <1>2, <1>6 DEF ConsumerApply, Outcome
  <2> HIDE DEF a
  <2>2. r = Result(SupOf(s, s.consumer, s.book), <<Event("Duplicate", rec.seq)>>, FALSE)
    BY <1>1, <1>3, <1>4, <2>1
  <2>3. r.sup = SupOf(s, s.consumer, s.book) /\ r.snapshot = FALSE
        /\ r.events = <<Event("Duplicate", rec.seq)>>
    BY <2>2 DEF Result
  <2>4. /\ r.sup \in SupT /\ r.sup.attempt = s.attempt /\ r.sup.book = s.book
        /\ r.sup.consumer = s.consumer
    BY <1>1, <1>5, <2>3
  <2> QED BY <2>3, <2>4 DEF Quiet, r
<1>7. CASE rec.seq >= s.consumer.next /\ s.consumer.degraded /\ rec.kind = "Snapshot"
  <2> DEFINE c == [next |-> rec.seq + 1, degraded |-> FALSE]
  <2>1. a.state = c /\ a.what = "SnapshotRecovered"
    BY <1>1, <1>2, <1>7 DEF ConsumerApply, Outcome
  <2>2. c \in ConsumerT
    BY <1>0, <1>7 DEF ConsumerT
  <2> HIDE DEF a, c
  <2>3. r = Result(SupOf(s, c, s.book), <<Event("SnapshotRecovered", rec.seq)>>, FALSE)
    BY <1>3, <1>4, <2>1, <2>2
  <2>4. r.sup = SupOf(s, c, s.book) /\ r.snapshot = FALSE
        /\ r.events = <<Event("SnapshotRecovered", rec.seq)>>
    BY <2>3 DEF Result
  <2>5. /\ r.sup \in SupT /\ r.sup.attempt = s.attempt /\ r.sup.book = s.book /\ r.sup.consumer = c
    BY <1>5, <2>2, <2>4
  <2> QED BY <1>7, <2>4, <2>5 DEF Quiet, r, c
<1>8. CASE rec.seq >= s.consumer.next /\ s.consumer.degraded /\ rec.kind # "Snapshot"
  <2>1. a.state = s.consumer /\ a.what = "IgnoredDegraded"
    BY <1>1, <1>2, <1>8 DEF ConsumerApply, Outcome
  <2> HIDE DEF a
  <2>2. r = Result(SupOf(s, s.consumer, s.book), <<Event("IgnoredDegraded", rec.seq)>>, FALSE)
    BY <1>1, <1>3, <1>4, <2>1
  <2>3. r.sup = SupOf(s, s.consumer, s.book) /\ r.snapshot = FALSE
        /\ r.events = <<Event("IgnoredDegraded", rec.seq)>>
    BY <2>2 DEF Result
  <2>4. /\ r.sup \in SupT /\ r.sup.attempt = s.attempt /\ r.sup.book = s.book
        /\ r.sup.consumer = s.consumer
    BY <1>1, <1>5, <2>3
  <2> QED BY <2>3, <2>4 DEF Quiet, r
<1>9. CASE rec.seq > s.consumer.next /\ ~s.consumer.degraded
  <2> DEFINE c == MarkDegraded(s.consumer)
  <2>1. a.state = c /\ a.what = "GapDetected"
    BY <1>1, <1>2, <1>9 DEF ConsumerApply, Outcome
  <2>2. c \in ConsumerT /\ c = [next |-> s.consumer.next, degraded |-> TRUE]
    BY <1>1, DistrustFacts
  <2> HIDE DEF a, c
  <2>3. r = Result(SupOf(s, c, Invalidate(s.book)), <<Event("Gap", rec.seq)>>, TRUE)
    BY <1>3, <1>4, <2>1, <2>2
  <2>4. r.sup = SupOf(s, c, Invalidate(s.book)) /\ r.snapshot = TRUE
        /\ r.events = <<Event("Gap", rec.seq)>>
    BY <2>3 DEF Result
  <2>5. /\ r.sup \in SupT /\ r.sup.attempt = s.attempt /\ r.sup.book = Invalidate(s.book)
        /\ r.sup.consumer = c
    BY <1>5, <2>2, <2>4
  <2> QED BY <1>9, <2>2, <2>4, <2>5 DEF r
<1>10. CASE rec.seq = s.consumer.next /\ ~s.consumer.degraded
  <2> DEFINE c == [next |-> rec.seq + 1, degraded |-> FALSE]
             t == [s.consumer EXCEPT !.next = rec.seq + 1]
  <2>1. a.state = t /\ a.what = "Applied"
    <3>1. /\ rec.seq # 0 /\ ~(rec.seq < s.consumer.next) /\ ~(rec.seq > s.consumer.next)
          /\ ~s.consumer.degraded
      BY <1>1, <1>2, <1>10
    <3> QED BY <3>1, Zenon DEF ConsumerApply, Outcome
  <2>2. rec.seq + 1 \in 2 .. MaxSeq + 1
    BY <1>0, <1>1, <1>10 DEF ConsumerT, RecordT, NoSeq
  <2>3. t \in ConsumerT /\ t.next = rec.seq + 1 /\ t.degraded = FALSE
    BY <1>1, <1>10, <2>2 DEF ConsumerT
  <2>4. c \in ConsumerT /\ c.next = rec.seq + 1 /\ c.degraded = FALSE
    BY <2>2 DEF ConsumerT
  <2> HIDE DEF a, c, t
  <2>5. t = c
    BY <2>3, <2>4 DEF ConsumerT
  <2>6. r = Result(SupOf(s, c, s.book), <<Event("Applied", rec.seq)>>, FALSE)
    BY <1>3, <1>4, <2>1, <2>4, <2>5
  <2>7. r.sup = SupOf(s, c, s.book) /\ r.snapshot = FALSE /\ r.events = <<Event("Applied", rec.seq)>>
    BY <2>6 DEF Result
  <2>8. /\ r.sup \in SupT /\ r.sup.attempt = s.attempt /\ r.sup.book = s.book /\ r.sup.consumer = c
    BY <1>5, <2>4, <2>7
  <2> QED BY <1>10, <2>7, <2>8 DEF r, c
<1> QED BY <1>1, <1>2, <1>6, <1>7, <1>8, <1>9, <1>10

BooksT == [type : {"book"}, seq : 1 .. MaxSeq, levels : LevelsT]

DeltasT == [type : {"delta"}, seq : {NoSeq} \cup 1 .. MaxSeq, level : Levels, qty : 0 .. 1]

\* A delta's two changes to a book.
LEMMA LevelSet ==
  ASSUME NEW b, b \in BookT, NEW l \in Levels, NEW q \in 0 .. 1
  PROVE  LET set == [b EXCEPT !.levels[l] = q]
         IN  /\ set \in BookT /\ set.status = b.status /\ set.seq = b.seq
             /\ \A k \in Levels : set.levels[k] = IF k = l THEN q ELSE b.levels[k]
<1> DEFINE set == [b EXCEPT !.levels[l] = q]
<1>1. [b.levels EXCEPT ![l] = q] \in LevelsT
  BY DEF BookT, LevelsT
<1>2. set \in BookT /\ set.status = b.status /\ set.seq = b.seq /\ set.levels = [b.levels EXCEPT ![l] = q]
  BY <1>1 DEF BookT
<1>3. \A k \in Levels : set.levels[k] = IF k = l THEN q ELSE b.levels[k]
  BY <1>2 DEF BookT, LevelsT
<1> QED BY <1>2, <1>3

LEMMA SeqSet ==
  ASSUME NEW b, b \in BookT, NEW n \in 0 .. MaxSeq
  PROVE  LET set == [b EXCEPT !.seq = n]
         IN  set \in BookT /\ set.status = b.status /\ set.seq = n /\ set.levels = b.levels
BY DEF BookT

\* apply_book_event.
LEMMA BookApplied ==
  ASSUME NEW x, x \in SupT, NEW f \in BooksT \cup DeltasT
  PROVE  LET r == ApplyBookEvent(x, f)
             b == r.sup.book
         IN  /\ r.sup \in SupT /\ r.snapshot = FALSE
             /\ r.sup.attempt = x.attempt /\ r.sup.consumer = x.consumer
             /\ \/ /\ f.type = "book" /\ b.status = "Healthy" /\ b.seq = f.seq /\ b.levels = f.levels
                   /\ r.events = <<Event("BookRebuilt", b)>>
                \/ /\ f.type = "delta" /\ x.book.status = "Healthy" /\ b.status = "Healthy"
                   /\ \/ f.seq = NoSeq /\ b.seq = x.book.seq
                      \/ f.seq = x.book.seq + 1 /\ b.seq = f.seq
                   /\ \A k \in Levels : b.levels[k] = IF k = f.level THEN f.qty ELSE x.book.levels[k]
                   /\ r.events = <<Event("BookDeltaApplied", b)>>
                \/ /\ f.type = "delta" /\ f.seq # NoSeq
                   /\ b = Invalidate(x.book) /\ r.events = <<Event("Gap", f.seq)>>
                \/ /\ f.type = "delta" /\ b = x.book /\ r.events = <<Event("Skipped", 0)>>
                   /\ x.book.status = "Healthy" => f.seq \in 1 .. x.book.seq
<1> DEFINE a == IF f.type = "book" THEN BookReplace(x.book, f) ELSE BookDeltaApply(x.book, f)
           left == [x EXCEPT !.book = a.state]
           r == ApplyBookEvent(x, f)
<1>0. MaxSeq \in Nat \ {0}
  BY FeedAssumption
<1>1. /\ x.book \in BookT
      /\ f \in BooksT => f.type = "book" /\ f.seq \in Nat \ {0} /\ f.levels \in LevelsT /\ f.seq \in 1 .. MaxSeq
      /\ f \in DeltasT => /\ f.type = "delta" /\ f.level \in Levels /\ f.qty \in 0 .. 1
                          /\ f.seq \in {NoSeq} \cup 1 .. MaxSeq
  BY <1>0 DEF SupT, BooksT, DeltasT
<1>2. r = CASE a.what = "Applied" ->
                 Result(left, <<Event(IF f.type = "book" THEN "BookRebuilt" ELSE "BookDeltaApplied",
                                      left.book)>>, FALSE)
            [] a.what = "GapInvalidated" -> Result(left, <<Event("Gap", f.seq)>>, FALSE)
            [] a.what \in {"Error", "Duplicate", "IgnoredInvalidated"} ->
                 Result(left, <<Event("Skipped", 0)>>, FALSE)
  BY Zenon DEF ApplyBookEvent
<1>3. ASSUME NEW b, b \in BookT, a.state = b
      PROVE  left \in SupT /\ left.attempt = x.attempt /\ left.consumer = x.consumer /\ left.book = b
  <2> HIDE DEF a
  <2>1. /\ [x EXCEPT !.book = b] \in SupT /\ [x EXCEPT !.book = b].attempt = x.attempt
        /\ [x EXCEPT !.book = b].consumer = x.consumer /\ [x EXCEPT !.book = b].book = b
    BY <1>3, SupSet DEF SupT
  <2>2. left = [x EXCEPT !.book = b]
    BY <1>3, Zenon
  <2> HIDE DEF left
  <2> QED BY <2>1, <2>2, Zenon
<1> HIDE DEF left, r
<1>4. CASE f \in BooksT
  <2> DEFINE b == [status |-> "Healthy", seq |-> f.seq, levels |-> f.levels]
  <2>1. a.state = b /\ a.what = "Applied"
    BY <1>1, <1>4 DEF BookReplace, Outcome
  <2>2. b \in BookT
    BY <1>0, <1>1, <1>4 DEF BookT
  <2>3. b.status = "Healthy" /\ b.seq = f.seq /\ b.levels = f.levels
    OBVIOUS
  <2> HIDE DEF a, b
  <2>4. left \in SupT /\ left.attempt = x.attempt /\ left.consumer = x.consumer /\ left.book = b
    BY <1>3, <2>1, <2>2
  <2>5. r = Result(left, <<Event("BookRebuilt", b)>>, FALSE)
    BY <1>1, <1>2, <1>4, <2>1, <2>4
  <2>6. r.sup = left /\ r.snapshot = FALSE /\ r.events = <<Event("BookRebuilt", b)>>
    BY <2>5 DEF Result
  <2> QED BY <1>1, <1>4, <2>3, <2>4, <2>6 DEF r
<1>5. CASE f \in DeltasT
  <2>0. /\ f.type = "delta" /\ f.level \in Levels /\ f.qty \in 0 .. 1 /\ ~(f.qty < 0) /\ f.qty >= 0
        /\ f.seq \in {NoSeq} \cup 1 .. MaxSeq /\ f.seq # 0 /\ f.seq \in Int
        /\ x.book.seq \in Nat
    BY <1>0, <1>1, <1>5 DEF NoSeq, BookT
  <2>1. a = BookDeltaApply(x.book, f)
    BY <2>0
  <2> HIDE DEF a
  <2> DEFINE set == [x.book EXCEPT !.levels[f.level] = f.qty]
  <2>2. /\ set \in BookT /\ set.status = x.book.status /\ set.seq = x.book.seq
        /\ \A k \in Levels : set.levels[k] = IF k = f.level THEN f.qty ELSE x.book.levels[k]
    <3>1. x.book \in BookT BY <1>1
    <3>2. f.level \in Levels /\ f.qty \in 0 .. 1 BY <2>0
    <3> QED BY <3>1, <3>2, LevelSet, ZenonT(60)
  <2>3. CASE x.book.status # "Healthy" \/ f.seq \in 1 .. x.book.seq
    <3>1. a.state = x.book /\ a.what \in {"IgnoredInvalidated", "Duplicate"}
      <4>1. CASE x.book.status # "Healthy"
        <5>1. a = Outcome(x.book, "IgnoredInvalidated")
          BY <2>0, <2>1, <4>1, Zenon DEF BookDeltaApply
        <5> QED BY <5>1 DEF Outcome
      <4>2. CASE x.book.status = "Healthy" /\ f.seq \in 1 .. x.book.seq
        <5>1. f.seq # NoSeq /\ ~(f.seq > x.book.seq + 1) /\ f.seq # x.book.seq + 1
          BY <2>0, <4>2 DEF NoSeq
        <5>2. a = Outcome(x.book, "Duplicate")
          BY <2>0, <2>1, <4>2, <5>1, Zenon DEF BookDeltaApply
        <5> QED BY <5>2 DEF Outcome
      <4> QED BY <2>3, <4>1, <4>2
    <3>2. left \in SupT /\ left.attempt = x.attempt /\ left.consumer = x.consumer /\ left.book = x.book
      BY <1>1, <1>3, <3>1
    <3>3. r = Result(left, <<Event("Skipped", 0)>>, FALSE)
      BY <1>2, <3>1
    <3>4. r.sup = left /\ r.snapshot = FALSE /\ r.events = <<Event("Skipped", 0)>>
      BY <3>3 DEF Result
    <3> QED BY <2>0, <2>3, <3>2, <3>4 DEF r
  <2>4. CASE x.book.status = "Healthy" /\ f.seq = NoSeq
    <3>1. a = Outcome(set, "Applied")
      BY <2>0, <2>1, <2>4, Zenon DEF BookDeltaApply
    <3>2. a.state = set /\ a.what = "Applied"
      BY <3>1, Zenon DEF Outcome
    <3> HIDE DEF set
    <3>3. left \in SupT /\ left.attempt = x.attempt /\ left.consumer = x.consumer /\ left.book = set
      BY <1>3, <2>2, <3>2
    <3>4. r = Result(left, <<Event("BookDeltaApplied", set)>>, FALSE)
      BY <1>2, <2>0, <3>2, <3>3
    <3>5. r.sup = left /\ r.snapshot = FALSE /\ r.events = <<Event("BookDeltaApplied", set)>>
      BY <3>4 DEF Result
    <3> QED BY <2>0, <2>2, <2>4, <3>3, <3>5 DEF r
  <2>5. CASE x.book.status = "Healthy" /\ f.seq = x.book.seq + 1
    <3> DEFINE new == [set EXCEPT !.seq = f.seq]
    <3>1. f.seq # NoSeq /\ ~(f.seq > x.book.seq + 1) /\ ~(f.seq \in 1 .. x.book.seq) /\ f.seq \in 0 .. MaxSeq
      BY <1>0, <2>0, <2>5 DEF NoSeq
    <3>2. a = Outcome(new, "Applied")
      BY <2>0, <2>1, <2>5, <3>1, Zenon DEF BookDeltaApply
    <3> HIDE DEF set
    <3>3. /\ new \in BookT /\ new.status = "Healthy" /\ new.seq = f.seq
          /\ new.levels = set.levels
      BY <2>0, <2>2, <2>5, <3>1, SeqSet, Zenon
    <3>4. a.state = new /\ a.what = "Applied"
      BY <3>2, Zenon DEF Outcome
    <3> HIDE DEF new
    <3>5. left \in SupT /\ left.attempt = x.attempt /\ left.consumer = x.consumer /\ left.book = new
      BY <1>3, <3>3, <3>4
    <3>6. r = Result(left, <<Event("BookDeltaApplied", new)>>, FALSE)
      BY <1>2, <2>0, <3>4, <3>5
    <3>7. r.sup = left /\ r.snapshot = FALSE /\ r.events = <<Event("BookDeltaApplied", new)>>
      BY <3>6 DEF Result
    <3> QED BY <2>0, <2>2, <2>5, <3>3, <3>5, <3>7 DEF r
  <2>6. CASE x.book.status = "Healthy" /\ f.seq > x.book.seq + 1
    <3>1. f.seq # NoSeq /\ f.seq # x.book.seq + 1 /\ ~(f.seq \in 1 .. x.book.seq)
      BY <2>0, <2>6 DEF NoSeq
    <3>2. a = Outcome(Invalidate(x.book), "GapInvalidated")
      BY <2>0, <2>1, <2>6, <3>1, Zenon DEF BookDeltaApply
    <3>3. a.state = Invalidate(x.book) /\ a.what = "GapInvalidated"
      BY <3>2 DEF Outcome
    <3>4. Invalidate(x.book) \in BookT
      <4>1. x.consumer \in ConsumerT BY DEF SupT
      <4> QED BY <1>1, <4>1, DistrustFacts
    <3>5. left \in SupT /\ left.attempt = x.attempt /\ left.consumer = x.consumer
          /\ left.book = Invalidate(x.book)
      BY <1>3, <3>3, <3>4
    <3>6. r = Result(left, <<Event("Gap", f.seq)>>, FALSE)
      BY <1>2, <3>3
    <3>7. r.sup = left /\ r.snapshot = FALSE /\ r.events = <<Event("Gap", f.seq)>>
      BY <3>6 DEF Result
    <3> QED BY <2>0, <3>1, <3>5, <3>7 DEF r
  <2>7. f.seq = NoSeq \/ f.seq \in 1 .. x.book.seq \/ f.seq = x.book.seq + 1 \/ f.seq > x.book.seq + 1
    BY <1>0, <2>0
  <2> QED BY <2>3, <2>4, <2>5, <2>6, <2>7
<1> QED BY <1>4, <1>5

-----------------------------------------------------------------------------
(* What a step of the task leaves.                                         *)

LEMMA Typed ==
  ASSUME TypeOK
  PROVE  /\ sup \in SupT /\ wire \in Seq(Frames) /\ ticks \in Seq(1 .. MaxSeq)
         /\ venue.seq \in 1 .. MaxSeq /\ venue.levels \in LevelsT
         /\ venue = [seq |-> venue.seq, levels |-> venue.levels]
BY DEF TypeOK, SupT, ConsumerT, BookT, LevelsT

\* The queue, read from its head.
LEMMA WireRead ==
  ASSUME wire \in Seq(Frames), wire # <<>>
  PROVE  /\ Head(wire) = wire[1] /\ wire[1] \in Frames
         /\ Tail(wire) \in Seq(Frames) /\ Len(wire) \in Nat \ {0} /\ Len(Tail(wire)) = Len(wire) - 1
         /\ \A i \in 1 .. Len(Tail(wire)) : i + 1 \in 1 .. Len(wire) /\ Tail(wire)[i] = wire[i + 1]
BY HeadTailProperties

LEMMA NoTicks ==
  ASSUME ticks \in Seq(1 .. MaxSeq)
  PROVE  ticks \o <<>> = ticks
BY ConcatEmptySeq

\* A record read: it is the next one, or shows a gap, or is passed over.
LEMMA RecordRead ==
  ASSUME TypeOK, Numbered, ReadFrame, wire[1].type = "record"
  PROVE  /\ sup' \in SupT /\ sup'.attempt = sup.attempt
         /\ \/ /\ ~sup.consumer.degraded /\ wire[1].seq = sup.consumer.next
               /\ sup'.consumer = [next |-> wire[1].seq + 1, degraded |-> FALSE]
               /\ sup'.book = sup.book /\ task' = At("read")
               /\ ticks' = Append(ticks, wire[1].seq) /\ told' = told
            \/ /\ sup'.consumer = [next |-> sup.consumer.next, degraded |-> TRUE]
               /\ sup'.book = Invalidate(sup.book) /\ task' = At("fetch")
               /\ ticks' = ticks /\ told' = "Degraded"
            \/ /\ sup'.consumer = sup.consumer
               /\ sup'.book = sup.book /\ task' = At("read")
               /\ ticks' = ticks /\ told' = told
<1> DEFINE f == wire[1]
           r == ApplyRecord(sup, f)
<1>0. FeedAssumption /\ TypeOK /\ MaxSeq \in Nat
  BY FeedAssumption DEF FeedAssumption
<1>1. /\ task.at = "read" /\ wire # <<>> /\ Follow(Ingest(sup, Head(wire)))
      /\ sup \in SupT /\ wire \in Seq(Frames) /\ ticks \in Seq(1 .. MaxSeq)
  BY Typed DEF ReadFrame
<1>2. f \in Frames /\ Head(wire) = f
  BY <1>1, WireRead
<1>3. f \in RecordT /\ f.kind # "Snapshot"
  BY <1>2 DEF Frames, RecordT
<1>4. Ingest(sup, Head(wire)) = r
  BY <1>2 DEF Ingest
<1>5. sup' = r.sup /\ ticks' = ticks \o Ticks(r.events) /\ told' = LastWord(r.events, told)
      /\ task' = At(IF r.snapshot THEN "fetch" ELSE "read")
  BY <1>1, <1>4 DEF Follow, Dispatch
<1>6. sup.consumer.degraded \/ sup.consumer.next # NoSeq
  <2>1. SomeLast \in 0 .. venue.seq /\ venue.seq \in 1 .. MaxSeq
    BY Typed DEF Numbered
  <2>2. ~sup.consumer.degraded => sup.consumer.next \in SomeLast + 1 .. venue.seq + 1
    BY <1>1 DEF Numbered
  <2> DEFINE last == SomeLast
             top  == venue.seq
  <2>3. last \in 0 .. top /\ top \in 1 .. MaxSeq
        /\ (~sup.consumer.degraded => sup.consumer.next \in last + 1 .. top + 1)
    BY <2>1, <2>2
  <2> HIDE DEF last, top
  <2> QED BY <1>0, <2>3 DEF NoSeq
<1> HIDE DEF r
<1>7. /\ r.sup \in SupT /\ r.sup.attempt = sup.attempt
      /\ r.sup.book = IF r.snapshot THEN Invalidate(sup.book) ELSE sup.book
      /\ \/ /\ ~sup.consumer.degraded /\ f.seq = sup.consumer.next /\ ~r.snapshot
            /\ r.sup.consumer = [next |-> f.seq + 1, degraded |-> FALSE]
            /\ r.events = <<Event("Applied", f.seq)>>
         \/ /\ ~sup.consumer.degraded /\ r.snapshot
            /\ r.sup.consumer = [next |-> sup.consumer.next, degraded |-> TRUE]
            /\ r.events = <<Event("Gap", f.seq)>>
         \/ /\ ~r.snapshot /\ r.sup.consumer = sup.consumer
            /\ \E type \in Quiet : r.events = <<Event(type, f.seq)>>
  BY <1>1, <1>3, <1>6, RecordApplied DEF r
<1>8. CASE /\ ~sup.consumer.degraded /\ f.seq = sup.consumer.next /\ ~r.snapshot
           /\ r.sup.consumer = [next |-> f.seq + 1, degraded |-> FALSE]
           /\ r.events = <<Event("Applied", f.seq)>>
  <2>1. Ticks(r.events) = <<f.seq>> /\ LastWord(r.events, told) = told
    BY <1>8, TickEvent, Zenon
  <2>2. f.seq \in 1 .. MaxSeq
    BY <1>0, <1>1, <1>3, <1>8, FeedAssumption, SMTT(60) DEF RecordT, SupT, ConsumerT, NoSeq
  <2>3. ticks \o <<f.seq>> = Append(ticks, f.seq)
    BY <1>1, <2>2, AppendIsConcat
  <2> QED BY <1>5, <1>7, <1>8, <2>1, <2>3
<1>9. CASE /\ ~sup.consumer.degraded /\ r.snapshot
           /\ r.sup.consumer = [next |-> sup.consumer.next, degraded |-> TRUE]
           /\ r.events = <<Event("Gap", f.seq)>>
  <2>1. Ticks(r.events) = <<>> /\ LastWord(r.events, told) = "Degraded"
    BY <1>9, GapEvent
  <2> QED BY <1>1, <1>5, <1>7, <1>9, <2>1, NoTicks
<1>10. CASE /\ ~r.snapshot /\ r.sup.consumer = sup.consumer
            /\ \E type \in Quiet : r.events = <<Event(type, f.seq)>>
  <2>1. Ticks(r.events) = <<>> /\ LastWord(r.events, told) = told
    <3>1. PICK type \in Quiet : r.events = <<Event(type, f.seq)>> BY <1>10
    <3> QED BY <3>1, QuietEvent
  <2> QED BY <1>1, <1>5, <1>7, <1>10, <2>1, NoTicks
<1> QED BY <1>7, <1>8, <1>9, <1>10

\* A book frame read.
LEMMA BookRead ==
  ASSUME TypeOK, ReadFrame, wire[1].type # "record"
  PROVE  /\ wire[1] \in BooksT \cup DeltasT
         /\ sup' \in SupT /\ sup'.attempt = sup.attempt /\ sup'.consumer = sup.consumer
         /\ task' = At("read") /\ ticks' = ticks
         /\ \/ /\ wire[1].type = "book" /\ sup'.book.status = "Healthy"
               /\ sup'.book.seq = wire[1].seq /\ sup'.book.levels = wire[1].levels
               /\ told' = "BookReady"
            \/ /\ wire[1].type = "delta" /\ sup.book.status = "Healthy" /\ sup'.book.status = "Healthy"
               /\ \/ wire[1].seq = NoSeq /\ sup'.book.seq = sup.book.seq
                  \/ wire[1].seq = sup.book.seq + 1 /\ sup'.book.seq = wire[1].seq
               /\ \A k \in Levels :
                    sup'.book.levels[k] = IF k = wire[1].level THEN wire[1].qty ELSE sup.book.levels[k]
               /\ told' = told
            \/ /\ wire[1].type = "delta" /\ wire[1].seq # NoSeq
               /\ sup'.book = Invalidate(sup.book) /\ told' = "Degraded"
            \/ /\ wire[1].type = "delta" /\ sup'.book = sup.book /\ told' = told
               /\ sup.book.status = "Healthy" => wire[1].seq \in 1 .. sup.book.seq
<1> DEFINE f == wire[1]
           x == [sup EXCEPT !.age = 0]
           r == ApplyBookEvent(x, f)
           b == r.sup.book
<1>0. MaxSeq \in Nat \ {0}
  BY FeedAssumption
<1>1. /\ task.at = "read" /\ wire # <<>> /\ Follow(Ingest(sup, Head(wire)))
      /\ sup \in SupT /\ wire \in Seq(Frames) /\ ticks \in Seq(1 .. MaxSeq)
  BY Typed DEF ReadFrame
<1>2. f \in Frames /\ Head(wire) = f
  BY <1>1, WireRead
<1>3. f \in BooksT \cup DeltasT /\ f.type \in {"book", "delta"}
  BY <1>0, <1>2 DEF Frames, BooksT, DeltasT, LevelsT
<1>4. Ingest(sup, Head(wire)) = r
  BY <1>2, <1>3, Zenon DEF Ingest
<1>5. sup' = r.sup /\ ticks' = ticks \o Ticks(r.events) /\ told' = LastWord(r.events, told)
      /\ task' = At(IF r.snapshot THEN "fetch" ELSE "read")
  BY <1>1, <1>4 DEF Follow, Dispatch
<1>6. x \in SupT /\ x.attempt = sup.attempt /\ x.consumer = sup.consumer /\ x.book = sup.book
  BY <1>1, SupSet DEF SupT
<1> HIDE DEF x
<1>7. /\ r.sup \in SupT /\ r.snapshot = FALSE
      /\ r.sup.attempt = x.attempt /\ r.sup.consumer = x.consumer
      /\ \/ /\ f.type = "book" /\ b.status = "Healthy" /\ b.seq = f.seq /\ b.levels = f.levels
            /\ r.events = <<Event("BookRebuilt", b)>>
         \/ /\ f.type = "delta" /\ x.book.status = "Healthy" /\ b.status = "Healthy"
            /\ \/ f.seq = NoSeq /\ b.seq = x.book.seq
               \/ f.seq = x.book.seq + 1 /\ b.seq = f.seq
            /\ \A k \in Levels : b.levels[k] = IF k = f.level THEN f.qty ELSE x.book.levels[k]
            /\ r.events = <<Event("BookDeltaApplied", b)>>
         \/ /\ f.type = "delta" /\ f.seq # NoSeq
            /\ b = Invalidate(x.book) /\ r.events = <<Event("Gap", f.seq)>>
         \/ /\ f.type = "delta" /\ b = x.book /\ r.events = <<Event("Skipped", 0)>>
            /\ x.book.status = "Healthy" => f.seq \in 1 .. x.book.seq
  BY <1>3, <1>6, BookApplied
<1> HIDE DEF r
<1>8. /\ r.events = <<Event("BookRebuilt", b)>> =>
           Ticks(r.events) = <<>> /\ LastWord(r.events, told) = "BookReady"
      /\ r.events = <<Event("Gap", f.seq)>> =>
           Ticks(r.events) = <<>> /\ LastWord(r.events, told) = "Degraded"
      /\ r.events = <<Event("BookDeltaApplied", b)>> =>
           Ticks(r.events) = <<>> /\ LastWord(r.events, told) = told
      /\ r.events = <<Event("Skipped", 0)>> =>
           Ticks(r.events) = <<>> /\ LastWord(r.events, told) = told
  <2> HIDE DEF b
  <2>1. r.events = <<Event("BookRebuilt", b)>> =>
          Ticks(r.events) = <<>> /\ LastWord(r.events, told) = "BookReady"
    BY RebuiltEvent, Zenon
  <2>2. r.events = <<Event("Gap", f.seq)>> =>
          Ticks(r.events) = <<>> /\ LastWord(r.events, told) = "Degraded"
    BY GapEvent, Zenon
  <2>3. \A type \in {"BookDeltaApplied", "Skipped"} : \A value :
          r.events = <<Event(type, value)>> => Ticks(r.events) = <<>> /\ LastWord(r.events, told) = told
    <3>1. {"BookDeltaApplied", "Skipped"} \subseteq Quiet
      BY DEF Quiet
    <3> QED BY <3>1, QuietEvent
  <2> QED BY <2>1, <2>2, <2>3, Zenon
<1> HIDE DEF b
<1>9. ticks' = ticks /\ task' = At("read")
  BY <1>1, <1>5, <1>7, <1>8, NoTicks
<1>10. sup'.book = b
  BY <1>5 DEF b
<1> QED BY <1>3, <1>5, <1>6, <1>7, <1>8, <1>9, <1>10

\* The answer's levels as the vendor's decoder leaves them.
AnswerLevels == IF vendor = "alpaca" THEN NoLevels ELSE task.answer.levels

\* A snapshot taken: the book is the answer's whatever became of its record.
LEMMA SnapshotTaken ==
  ASSUME TypeOK, Numbered, TakeSnapshot
  PROVE  /\ sup' \in SupT /\ sup'.attempt = sup.attempt
         /\ sup'.consumer \in {sup.consumer, [next |-> task.answer.seq + 1, degraded |-> FALSE]}
         /\ sup'.book.status = "Healthy" /\ sup'.book.seq = task.answer.seq
         /\ sup'.book.levels = AnswerLevels
         /\ task' = At("read") /\ ticks' = ticks /\ told' = "BookReady"
<1> DEFINE n == task.answer.seq
           rec == Record("Snapshot", n)
           snap == BookSnapshot(n, AnswerLevels)
           first == ApplyRecord(sup, rec)
           second == ApplyBookEvent(first.sup, snap)
           b == second.sup.book
           r == Result(second.sup, first.events \o second.events, first.snapshot)
<1>0. MaxSeq \in Nat \ {0}
  BY FeedAssumption
<1>1. /\ task.at = "answered" /\ sup \in SupT /\ ticks \in Seq(1 .. MaxSeq)
      /\ vendor \in {"coinbase", "databento", "alpaca"}
      /\ n \in 1 .. MaxSeq /\ task.answer.levels \in LevelsT /\ sup.consumer.degraded
  BY Typed, FeedAssumption DEF TakeSnapshot, TypeOK, LevelsT, Numbered
<1>2. AnswerLevels \in LevelsT
  BY <1>1 DEF AnswerLevels, NoLevels, LevelsT
<1>3. rec \in RecordT /\ rec.kind = "Snapshot" /\ rec.seq = n
  BY <1>0, <1>1 DEF Record, RecordT
<1>4. snap \in BooksT \cup DeltasT /\ snap.type = "book" /\ snap.seq = n /\ snap.levels = AnswerLevels
  BY <1>1, <1>2 DEF BookSnapshot, BooksT
<1>5. Decoded(task.answer).record = rec /\ Decoded(task.answer).books = <<snap>>
  BY <1>1 DEF Decoded, CoinbaseAnswer, DatabentoAnswer, AlpacaAnswer, Snapshots, AnswerLevels
<1>6. IngestSnapshot(sup, rec, <<snap>>) = r
  <2>1. <<snap>> # <<>> /\ <<snap>>[1] = snap
    OBVIOUS
  <2> QED BY <2>1, Zenon DEF IngestSnapshot
<1>7. Follow(r)
  BY <1>5, <1>6, Zenon DEF TakeSnapshot
<1> HIDE DEF rec, snap
<1>8. /\ first.sup \in SupT /\ first.snapshot = FALSE /\ first.sup.attempt = sup.attempt
      /\ first.sup.consumer \in {sup.consumer, [next |-> n + 1, degraded |-> FALSE]}
      /\ \E type \in Quiet : first.events = <<Event(type, n)>>
  <2>1. /\ first.sup \in SupT /\ first.snapshot \in BOOLEAN /\ first.sup.attempt = sup.attempt
        /\ ~first.snapshot
        /\ \/ first.sup.consumer = sup.consumer
           \/ first.sup.consumer = [next |-> rec.seq + 1, degraded |-> FALSE]
        /\ \E type \in Quiet : first.events = <<Event(type, rec.seq)>>
    BY <1>1, <1>3, RecordApplied
  <2> HIDE DEF first
  <2> QED BY <1>3, <2>1
<1> HIDE DEF first
<1>9. /\ second.sup \in SupT /\ second.snapshot = FALSE
      /\ second.sup.attempt = first.sup.attempt /\ second.sup.consumer = first.sup.consumer
      /\ b.status = "Healthy" /\ b.seq = n /\ b.levels = AnswerLevels
      /\ second.events = <<Event("BookRebuilt", b)>>
  BY <1>4, <1>8, BookApplied
<1> HIDE DEF second
<1>10. PICK type \in Quiet : first.events = <<Event(type, n)>>
  BY <1>8
<1>11. /\ Ticks(first.events \o second.events) = <<>>
       /\ LastWord(first.events \o second.events, told) = "BookReady"
  <2> DEFINE both == <<Event(type, n)>> \o <<Event("BookRebuilt", b)>>
  <2>1. first.events \o second.events = both
    BY <1>9, <1>10, Zenon
  <2>2. Ticks(both) = <<>> /\ LastWord(both, told) = "BookReady"
    BY TwoEvents, ZenonT(60)
  <2> HIDE DEF both
  <2> QED BY <2>1, <2>2, Zenon
<1>12. /\ sup' = second.sup /\ ticks' = ticks \o <<>> /\ told' = "BookReady"
       /\ task' = At("read")
  <2>1. /\ r.sup = second.sup /\ r.events = first.events \o second.events /\ r.snapshot = FALSE
    BY <1>8 DEF Result
  <2> HIDE DEF r
  <2> QED BY <1>7, <1>11, <2>1 DEF Follow, Dispatch
<1> QED BY <1>1, <1>8, <1>9, <1>12, NoTicks

\* Distrust, and the fields its two callers set.
LEMMA Distrusted ==
  ASSUME NEW s, s \in SupT
  PROVE  LET x == Distrust(s)
         IN  /\ x \in SupT /\ x.attempt = s.attempt
             /\ x.consumer = MarkDegraded(s.consumer) /\ x.book = Invalidate(s.book)
<1> DEFINE m == [s EXCEPT !.consumer = MarkDegraded(@)]
           x == [m EXCEPT !.book = Invalidate(@)]
<1>1. s.consumer \in ConsumerT /\ s.book \in BookT
  BY DEF SupT
<1>2. MarkDegraded(s.consumer) \in ConsumerT /\ Invalidate(s.book) \in BookT
  BY <1>1, DistrustFacts
<1>3. m \in SupT /\ m.attempt = s.attempt /\ m.consumer = MarkDegraded(s.consumer) /\ m.book = s.book
  BY <1>2, SupSet DEF SupT
<1> HIDE DEF m
<1>4. x \in SupT /\ x.attempt = m.attempt /\ x.consumer = m.consumer /\ x.book = Invalidate(s.book)
  BY <1>2, <1>3, SupSet DEF SupT
<1>5. Distrust(s) = x
  BY Zenon DEF Distrust, m
<1> HIDE DEF x
<1> QED BY <1>3, <1>4, <1>5

LEMMA SessionSet ==
  ASSUME NEW s, s \in SupT, NEW c \in BOOLEAN, NEW n \in 0 .. 1
  PROVE  LET x == [s EXCEPT !.connected = c, !.attempt = n]
             y == [s EXCEPT !.connected = c, !.attempt = n, !.age = 0]
         IN  /\ x \in SupT /\ x.attempt = n /\ x.consumer = s.consumer /\ x.book = s.book
             /\ y \in SupT /\ y.attempt = n /\ y.consumer = s.consumer /\ y.book = s.book
<1> DEFINE m == [s EXCEPT !.connected = c]
           x == [m EXCEPT !.attempt = n]
           y == [x EXCEPT !.age = 0]
<1>1. m \in SupT /\ m.consumer = s.consumer /\ m.book = s.book
  BY DEF SupT
<1> HIDE DEF m
<1>2. x \in SupT /\ x.attempt = n /\ x.consumer = s.consumer /\ x.book = s.book
  BY <1>1 DEF SupT
<1> HIDE DEF x
<1>3. y \in SupT /\ y.attempt = n /\ y.consumer = s.consumer /\ y.book = s.book
  BY <1>2, SupSet DEF SupT
<1> QED BY <1>2, <1>3 DEF m, x

\* A connection: a new supervisor that trusts nothing yet.
LEMMA ConnectionOpened ==
  ASSUME TypeOK, NEW frames, Opened(frames)
  PROVE  /\ task.at = "sleep" /\ link' = "up" /\ lost' = {} /\ wire' = frames
         /\ UNCHANGED <<vendor, venue, count, ticks, told>>
         /\ sup' \in SupT /\ sup'.attempt = 0 /\ sup'.consumer.degraded
         /\ sup'.book.status = "Invalidated" /\ sup'.book.seq = 0
         /\ sup'.book.levels = NoLevels /\ task' = At("fetch")
<1> DEFINE r == OnConnected(NewSupervisor)
           x == Distrust(NewSupervisor)
           y == [x EXCEPT !.connected = TRUE, !.attempt = 0, !.age = 0]
<1>0. MaxSeq \in Nat \ {0} /\ Sla \in Nat
  BY FeedAssumption
<1>1. NewConsumer \in ConsumerT /\ NewBook \in BookT /\ NewBook.seq = 0
  BY <1>0 DEF NewConsumer, NewBook, ConsumerT, BookT, NoLevels, LevelsT
<1>2. /\ MarkDegraded(NewConsumer) = [next |-> NewConsumer.next, degraded |-> TRUE]
      /\ Invalidate(NewBook).status = "Invalidated"
      /\ Invalidate(NewBook).levels = NoLevels /\ Invalidate(NewBook).seq = 0
  BY <1>1, DistrustFacts
<1>3. NewSupervisor \in SupT /\ NewSupervisor.consumer = NewConsumer /\ NewSupervisor.book = NewBook
  <2> HIDE DEF r, x, y
  <2> QED BY <1>0, <1>1 DEF NewSupervisor, SupT
<1>4. x \in SupT /\ x.consumer = MarkDegraded(NewConsumer) /\ x.book = Invalidate(NewBook)
  BY <1>3, Distrusted, Zenon
<1> HIDE DEF x
<1>5. y \in SupT /\ y.attempt = 0 /\ y.consumer = x.consumer /\ y.book = x.book
  <2>1. TRUE \in BOOLEAN /\ 0 \in 0 .. 1
    OBVIOUS
  <2> QED BY <1>4, <2>1, SessionSet, ZenonT(60)
<1>6. r = Result(y, <<>>, TRUE)
  BY Zenon DEF OnConnected, x
<1> HIDE DEF y, r
<1>7. r.sup = y /\ r.events = <<>> /\ r.snapshot = TRUE
  BY <1>6 DEF Result
<1>8. Ticks(<<>>) = <<>> /\ LastWord(<<>>, told) = told
  <2>1. Seen(<<>>, {"Tick"}) = {} /\ Seen(<<>>, {"Degraded", "BookReady"}) = {}
    BY DEF Seen
  <2> QED BY <2>1 DEF Ticks, LastWord
<1>9. /\ sup' = y /\ ticks' = ticks \o <<>> /\ told' = told /\ task' = At("fetch")
  BY <1>7, <1>8 DEF Opened, Follow, Dispatch, r
<1>10. ticks' = ticks
  BY <1>9, Typed, NoTicks
<1> QED BY <1>2, <1>4, <1>5, <1>9, <1>10 DEF Opened

-----------------------------------------------------------------------------
(* The steps of the venue and of the socket keep the invariant.            *)

LEMMA FrameKinds ==
  /\ \A f \in Frames : f.type \in {"record", "book", "delta"}
  /\ \A f \in Frames : f.type = "record" => f.seq \in 1 .. MaxSeq \cup {ClockSeq}
  /\ \A f \in Frames : f.type = "book" => f \in BooksT
  /\ \A f \in Frames : f.type = "delta" => f \in DeltasT
<1>1. MaxSeq \in Nat \ {0} BY FeedAssumption
<1> QED BY <1>1 DEF Frames, BooksT, DeltasT, LevelsT

LEMMA WireGrows ==
  ASSUME wire \in Seq(Frames), NEW f \in Frames, wire' = Append(wire, f)
  PROVE  /\ wire' \in Seq(Frames) /\ Len(wire') = Len(wire) + 1 /\ Len(wire) \in Nat
         /\ \A i \in 1 .. Len(wire) : wire'[i] = wire[i]
         /\ wire'[Len(wire) + 1] = f
BY AppendProperties

\* A record queued, lost or never sent, with the venue's number moved on or not.
LEMMA RecordSentKeeps ==
  ASSUME FeedInv, UNCHANGED <<vendor, link, sup, task, ticks, told, lost>>,
         venue'.levels = venue.levels, venue' \in [seq : 1 .. MaxSeq, levels : LevelsT],
         venue'.seq \in {venue.seq, venue.seq + 1},
         vendor # "databento",
         NEW f \in Frames, f.type = "record", f.seq \in 1 .. venue'.seq \cup {ClockSeq},
         wire' = Append(wire, f) \/ wire' = wire
  PROVE  FeedInv'
<1>0. TypeOK /\ Numbered /\ Shaped /\ NewestWins /\ Covered /\ ReadyInv
  BY DEF FeedInv
<1>1. /\ wire \in Seq(Frames) /\ wire' \in Seq(Frames) /\ Len(wire) \in Nat /\ Len(wire') \in Nat
      /\ venue.seq \in 1 .. MaxSeq /\ venue'.seq \in 1 .. MaxSeq /\ venue.seq <= venue'.seq
      /\ MaxSeq \in Nat
  <2>1. wire \in Seq(Frames) /\ venue.seq \in 1 .. MaxSeq /\ venue'.seq \in 1 .. MaxSeq /\ MaxSeq \in Nat
    BY <1>0, Typed, FeedAssumption
  <2>2. wire' \in Seq(Frames)
    BY <2>1, AppendProperties
  <2> QED BY <2>1, <2>2, LenProperties
<1>2. /\ Len(wire) <= Len(wire')
      /\ \A i \in 1 .. Len(wire) : wire'[i] = wire[i]
      /\ \A i \in 1 .. Len(wire') : i \in 1 .. Len(wire) \/ wire'[i] = f
  <2>1. CASE wire' = wire BY <1>1, <2>1
  <2>2. CASE wire' = Append(wire, f) BY <1>1, <2>2, WireGrows
  <2> QED BY <2>1, <2>2
<1>3. \A l : ~SetsLevel(f, l)
  BY DEF SetsLevel
<1>4. TypeOK'
  BY <1>0, <1>1 DEF TypeOK, LevelsT
<1>5. Numbered'
  <2>1. SomeLast' = SomeLast
    BY DEF SomeLast
  <2>2. \A i \in 1 .. Len(wire') : wire'[i].type = "record" => wire'[i].seq \in 1 .. venue'.seq \cup {ClockSeq}
    BY <1>0, <1>1, <1>2, SMTT(60) DEF Numbered
  <2>3. SomeLast' \in 0 .. venue'.seq
    BY <1>0, <1>1, <2>1 DEF Numbered
  <2>4. task.at # "sleep" /\ ~sup.consumer.degraded =>
          sup.consumer.next \in SomeLast' + 1 .. venue'.seq + 1
    BY <1>0, <1>1, <2>1, <2>3, SMTT(60) DEF Numbered
  <2>5. task.at = "answered" => task.answer.seq \in SomeLast' .. venue'.seq
    BY <1>0, <1>1, <2>1, <2>3 DEF Numbered
  <2> QED BY <1>0, <2>2, <2>3, <2>4, <2>5 DEF Numbered
<1>6. Shaped'
  <2>1. vendor = "coinbase" => \A i \in 1 .. Len(wire') : wire'[i].type = "delta" => wire'[i].seq = NoSeq
    BY <1>0, <1>1, <1>2 DEF Shaped
  <2>2. vendor = "alpaca" =>
          venue'.levels = NoLevels /\ \A i \in 1 .. Len(wire') : wire'[i].type = "record"
    BY <1>0, <1>1, <1>2 DEF Shaped
  <2>3. sup.book.seq \in Nat /\ sup.book.seq <= venue'.seq
    BY <1>0, <1>1, Typed DEF Shaped, SupT, BookT
  <2>4. lost \subseteq 1 .. venue'.seq
    BY <1>0, <1>1 DEF Shaped
  <2> QED BY <1>0, <2>1, <2>2, <2>3, <2>4 DEF Shaped
<1>7. NewestWins'
  <2> SUFFICES ASSUME link' = "up", NEW l \in Levels, NEW i \in 1 .. Len(wire'),
                      SetsLevel(wire'[i], l),
                      \A j \in 1 .. Len(wire') : SetsLevel(wire'[j], l) => j <= i,
                      \A n \in lost' : n <= wire'[i].seq
               PROVE  ValueSet(wire'[i], l) = venue'.levels[l]
    BY DEF NewestWins
  <2>1. i \in 1 .. Len(wire) /\ wire'[i] = wire[i]
    BY <1>2, <1>3
  <2>2. \A j \in 1 .. Len(wire) : SetsLevel(wire[j], l) => j <= i
    BY <1>1, <1>2
  <2>3. \A n \in lost : n <= wire[i].seq
    BY <2>1
  <2>4. SetsLevel(wire[i], l) /\ link = "up"
    BY <2>1
  <2> QED BY <1>0, <2>1, <2>2, <2>3, <2>4 DEF NewestWins
<1>8. ASSUME NEW levels, NEW base, Agrees(levels, base)
      PROVE  \A l \in Levels :
               /\ \A n \in lost' : n <= base
               /\ \A i \in 1 .. Len(wire') : ~Pending(wire'[i], l, base)
               => levels[l] = venue'.levels[l]
  <2> SUFFICES ASSUME NEW l \in Levels, \A n \in lost' : n <= base,
                      \A i \in 1 .. Len(wire') : ~Pending(wire'[i], l, base)
               PROVE  levels[l] = venue.levels[l]
    OBVIOUS
  <2>1. \A i \in 1 .. Len(wire) : ~Pending(wire[i], l, base)
    BY <1>1, <1>2
  <2>2. \A n \in lost : n <= base
    OBVIOUS
  <2> QED BY <1>8, <2>1, <2>2 DEF Agrees
<1>9. Covered'
  <2>1. ASSUME link' = "up", sup'.book.status = "Healthy", task'.at # "sleep"
        PROVE  Agrees(sup.book.levels, sup.book.seq)'
    <3>1. Agrees(sup.book.levels, sup.book.seq)
      BY <1>0, <2>1 DEF Covered
    <3>2. \A l \in Levels :
            /\ \A n \in lost' : n <= sup.book.seq
            /\ \A i \in 1 .. Len(wire') : ~Pending(wire'[i], l, sup.book.seq)
            => sup.book.levels[l] = venue'.levels[l]
      BY <1>8, <3>1
    <3> QED BY <3>2 DEF Agrees
  <2>2. ASSUME link' = "up", task'.at = "answered"
        PROVE  Agrees(task.answer.levels, task.answer.seq)'
    <3>1. Agrees(task.answer.levels, task.answer.seq)
      BY <1>0, <2>2 DEF Covered
    <3>2. \A l \in Levels :
            /\ \A n \in lost' : n <= task.answer.seq
            /\ \A i \in 1 .. Len(wire') : ~Pending(wire'[i], l, task.answer.seq)
            => task.answer.levels[l] = venue'.levels[l]
      BY <1>8, <3>1
    <3> QED BY <3>2 DEF Agrees
  <2> QED BY <2>1, <2>2 DEF Covered
<1>10. ReadyInv'
  BY <1>0 DEF ReadyInv
<1> QED BY <1>4, <1>5, <1>6, <1>7, <1>9, <1>10 DEF FeedInv

LEMMA TradeKeeps ==
  ASSUME FeedInv, VenueTrade
  PROVE  FeedInv'
<1> DEFINE f == IF vendor = "coinbase" THEN CoinbaseTrade(venue.seq + 1) ELSE AlpacaTrade(venue.seq + 1)
<1>0. TypeOK /\ MaxSeq \in Nat
  BY FeedAssumption DEF FeedInv
<1>1. /\ venue.seq < MaxSeq /\ venue' = [venue EXCEPT !.seq = venue.seq + 1] /\ Send(f)
      /\ UNCHANGED <<vendor, link, sup, task, ticks, told>> /\ vendor # "databento"
  BY DEF VenueTrade
<1>2. venue.seq \in 1 .. MaxSeq /\ venue.levels \in LevelsT /\ venue = [seq |-> venue.seq, levels |-> venue.levels]
  BY <1>0, Typed
<1>3. /\ venue' \in [seq : 1 .. MaxSeq, levels : LevelsT] /\ venue'.levels = venue.levels
      /\ venue'.seq = venue.seq + 1
  <2>1. venue \in [seq : 1 .. MaxSeq, levels : LevelsT]
    BY <1>0 DEF TypeOK, LevelsT
  <2>2. venue.seq + 1 \in 1 .. MaxSeq
    BY <1>0, <1>1, <1>2
  <2> QED BY <1>1, <2>1, <2>2
<1>4. f = Record("Trade", venue.seq + 1)
  BY DEF CoinbaseTrade, AlpacaTrade
<1>5. f \in Frames /\ f.type = "record" /\ f.seq = venue.seq + 1
  BY <1>0, <1>1, <1>2, <1>4 DEF Record, Frames
<1> HIDE DEF f
<1>6. UNCHANGED lost /\ (wire' = Append(wire, f) \/ wire' = wire)
  BY <1>1, <1>5 DEF Send
<1>7. f.seq \in 1 .. venue'.seq \cup {ClockSeq} /\ venue'.seq \in {venue.seq, venue.seq + 1}
  BY <1>2, <1>3, <1>5
<1> QED BY <1>1, <1>3, <1>5, <1>6, <1>7, RecordSentKeeps

LEMMA QuoteKeeps ==
  ASSUME FeedInv, VenueQuote
  PROVE  FeedInv'
<1> DEFINE f == AlpacaQuote(ClockSeq)
<1>0. TypeOK /\ MaxSeq \in Nat
  BY FeedAssumption DEF FeedInv
<1>1. f \in Frames /\ f.type = "record" /\ f.seq = ClockSeq
  BY DEF AlpacaQuote, Record, Frames
<1> HIDE DEF f
<1>2. /\ UNCHANGED <<vendor, venue, link, sup, task, ticks, told, lost>> /\ vendor # "databento"
      /\ wire' = Append(wire, f)
  BY DEF VenueQuote, f
<1>3. venue' \in [seq : 1 .. MaxSeq, levels : LevelsT]
  BY <1>0, <1>2 DEF TypeOK, LevelsT
<1> QED BY <1>1, <1>2, <1>3, RecordSentKeeps

\* A change of the book: the frame becomes the newest word on its level, or its
\* loss silences what is said of the levels until the book passes it.
LEMMA ChangeKeeps ==
  ASSUME FeedInv, NEW l \in Levels, VenueBook(l)
  PROVE  FeedInv'
<1> DEFINE q == 1 - venue.levels[l]
           f == IF vendor = "coinbase" THEN CoinbaseChange(l, q) ELSE DatabentoChange(venue.seq + 1, l, q)
<1>0. TypeOK /\ Numbered /\ Shaped /\ NewestWins /\ Covered /\ ReadyInv /\ MaxSeq \in Nat
  BY FeedAssumption DEF FeedInv
<1>1. /\ vendor \in {"coinbase", "databento"} /\ venue.seq < MaxSeq /\ Send(f)
      /\ venue' = [seq |-> venue.seq + 1, levels |-> [venue.levels EXCEPT ![l] = q]]
      /\ UNCHANGED <<vendor, link, sup, task, ticks, told>>
  BY DEF VenueBook
<1>2. /\ wire \in Seq(Frames) /\ Len(wire) \in Nat /\ venue.seq \in 1 .. MaxSeq /\ venue.levels \in LevelsT
      /\ sup \in SupT
  BY <1>0, Typed, LenProperties
<1>3. q \in 0 .. 1
  BY <1>2 DEF LevelsT
<1>4. f = BookDelta(IF vendor = "coinbase" THEN NoSeq ELSE venue.seq + 1, l, q)
  BY DEF CoinbaseChange, DatabentoChange
<1>5. /\ f.type = "delta" /\ f.level = l /\ f.qty = q
      /\ f.seq = IF vendor = "coinbase" THEN NoSeq ELSE venue.seq + 1
  BY <1>4 DEF BookDelta
<1>6. f \in Frames
  BY <1>0, <1>1, <1>2, <1>3, <1>4 DEF BookDelta, Frames
<1> HIDE DEF q, f
<1>7. /\ venue'.seq = venue.seq + 1 /\ venue'.seq \in 1 .. MaxSeq
      /\ venue'.levels \in LevelsT /\ venue'.levels[l] = q
      /\ \A k \in Levels : k # l => venue'.levels[k] = venue.levels[k]
  BY <1>0, <1>1, <1>2, <1>3 DEF LevelsT
<1>8. \/ link = "up" /\ wire' = Append(wire, f) /\ lost' = lost
      \/ wire' = wire /\ lost' = lost \cup {venue.seq + 1} /\ vendor = "databento"
      \/ link = "down" /\ UNCHANGED <<wire, lost>>
  BY <1>1, <1>5 DEF Send
<1>9. /\ wire' \in Seq(Frames) /\ Len(wire') \in Nat /\ Len(wire) <= Len(wire')
      /\ \A i \in 1 .. Len(wire) : wire'[i] = wire[i]
      /\ \A i \in 1 .. Len(wire') :
           \/ i \in 1 .. Len(wire)
           \/ i = Len(wire) + 1 /\ wire'[i] = f /\ lost' = lost /\ wire' = Append(wire, f)
  <2>1. CASE wire' = wire BY <1>2, <2>1
  <2>2. CASE wire' = Append(wire, f) /\ lost' = lost
    BY <1>2, <1>6, <2>2, WireGrows
  <2> QED BY <1>8, <2>1, <2>2
<1>10. lost' \subseteq 1 .. venue'.seq /\ (vendor # "databento" => lost' = {}) /\ lost \subseteq lost'
       /\ lost \subseteq 1 .. venue.seq
  <2>1. lost \subseteq 1 .. venue.seq /\ (vendor # "databento" => lost = {})
    BY <1>0 DEF Shaped
  <2>2. \A n \in lost' : n \in 1 .. venue.seq \/ n = venue.seq + 1
    BY <1>8, <2>1
  <2>3. \A n \in lost' : n \in 1 .. venue'.seq
    BY <1>2, <1>7, <2>2
  <2> QED BY <1>1, <1>8, <2>1, <2>3
<1>11. TypeOK'
  <2>1. venue' \in [seq : 1 .. MaxSeq, levels : [Levels -> 0 .. 1]]
    BY <1>1, <1>7 DEF LevelsT
  <2>2. lost' \subseteq 1 .. MaxSeq
    BY <1>0, <1>7, <1>10
  <2> QED BY <1>0, <1>1, <1>9, <2>1, <2>2 DEF TypeOK
<1>12. Numbered'
  <2>1. SomeLast' = SomeLast
    BY <1>1 DEF SomeLast
  <2>2. \A i \in 1 .. Len(wire') : wire'[i].type = "record" => wire'[i].seq \in 1 .. venue'.seq \cup {ClockSeq}
    BY <1>0, <1>2, <1>5, <1>7, <1>9 DEF Numbered
  <2>3. SomeLast' \in 0 .. venue'.seq
    BY <1>0, <1>2, <1>7, <2>1 DEF Numbered
  <2>4. task'.at # "sleep" /\ ~sup'.consumer.degraded =>
          sup'.consumer.next \in SomeLast' + 1 .. venue'.seq + 1
    BY <1>0, <1>1, <1>2, <1>7, <2>1, <2>3 DEF Numbered
  <2>5. task'.at = "answered" => task'.answer.seq \in SomeLast' .. venue'.seq
    BY <1>0, <1>1, <1>2, <1>7, <2>1, <2>3 DEF Numbered
  <2> QED BY <1>0, <1>1, <2>2, <2>3, <2>4, <2>5 DEF Numbered
<1>13. Shaped'
  <2>1. vendor = "coinbase" => \A i \in 1 .. Len(wire') : wire'[i].type = "delta" => wire'[i].seq = NoSeq
    BY <1>0, <1>5, <1>9 DEF Shaped
  <2>2. sup.book.seq \in Nat /\ sup.book.seq <= venue'.seq
    BY <1>0, <1>2, <1>7 DEF Shaped, SupT, BookT
  <2>3. ASSUME vendor = "databento"
        PROVE  \A i \in 1 .. Len(wire') :
                 wire'[i].type = "delta" /\ wire'[i].seq \in 1 .. venue'.seq /\ wire'[i].seq \notin lost'
    <3>1. \A i \in 1 .. Len(wire) :
            wire[i].type = "delta" /\ wire[i].seq \in 1 .. venue.seq /\ wire[i].seq \notin lost
      BY <1>0, <2>3 DEF Shaped
    <3>2. f.seq = venue.seq + 1 /\ f.seq \notin lost
      BY <1>2, <1>5, <1>10, <2>3
    <3>3. lost' \subseteq lost \cup {venue.seq + 1}
      BY <1>8
    <3> QED BY <1>2, <1>5, <1>7, <1>9, <3>1, <3>2, <3>3, SMTT(60)
  <2>4. ASSUME vendor = "databento", NEW i \in 1 .. Len(wire'), NEW j \in 1 .. Len(wire'), i < j
        PROVE  wire'[i].seq < wire'[j].seq
    <3>1. \A k \in 1 .. Len(wire) : wire[k].seq \in 1 .. venue.seq
      BY <1>0, <2>4 DEF Shaped
    <3>2. CASE j \in 1 .. Len(wire)
      BY <1>0, <1>2, <1>9, <2>4, <3>2 DEF Shaped
    <3>3. CASE j = Len(wire) + 1 /\ wire'[j] = f
      <4>1. i \in 1 .. Len(wire) /\ wire'[i] = wire[i] /\ f.seq = venue.seq + 1
        BY <1>2, <1>5, <1>9, <2>4, <3>3
      <4> QED BY <1>2, <3>1, <3>3, <4>1
    <3> QED BY <1>9, <3>2, <3>3
  <2> QED BY <1>1, <1>10, <2>1, <2>2, <2>3, <2>4 DEF Shaped
<1>14. NewestWins'
  <2> SUFFICES ASSUME link' = "up", NEW k \in Levels, NEW i \in 1 .. Len(wire'),
                      SetsLevel(wire'[i], k),
                      \A j \in 1 .. Len(wire') : SetsLevel(wire'[j], k) => j <= i,
                      \A n \in lost' : n <= wire'[i].seq
               PROVE  ValueSet(wire'[i], k) = venue'.levels[k]
    BY DEF NewestWins
  <2>1. CASE i = Len(wire) + 1 /\ wire'[i] = f
    <3>1. k = l /\ ValueSet(f, k) = q
      BY <1>5, <2>1 DEF SetsLevel, ValueSet
    <3> QED BY <1>7, <2>1, <3>1
  <2>2. CASE i \in 1 .. Len(wire)
    <3>1. lost' = lost
      <4>1. ASSUME venue.seq + 1 \in lost', vendor = "databento"
            PROVE  FALSE
        <5>1. wire[i].seq \in 1 .. venue.seq
          BY <1>0, <2>2, <4>1 DEF Shaped
        <5> QED BY <1>2, <1>9, <2>2, <4>1, <5>1
      <4> QED BY <1>8, <4>1
    <3>2. wire' = Append(wire, f)
      BY <1>1, <1>8, <1>10, <3>1, <1>2
    <3>3. wire'[Len(wire) + 1] = f /\ Len(wire) + 1 \in 1 .. Len(wire')
      BY <1>2, <1>6, <3>2, WireGrows
    <3>4. k # l
      BY <1>2, <1>5, <2>2, <3>3 DEF SetsLevel
    <3>5. /\ SetsLevel(wire[i], k) /\ link = "up"
          /\ \A j \in 1 .. Len(wire) : SetsLevel(wire[j], k) => j <= i
          /\ \A n \in lost : n <= wire[i].seq
      BY <1>1, <1>2, <1>9, <2>2, <3>1
    <3>6. ValueSet(wire[i], k) = venue.levels[k]
      BY <1>0, <2>2, <3>5 DEF NewestWins
    <3> QED BY <1>7, <1>9, <2>2, <3>4, <3>6
  <2> QED BY <1>9, <2>1, <2>2
<1>15. ASSUME NEW levels, NEW base \in Nat, base <= venue.seq, Agrees(levels, base), link = "up"
       PROVE  \A k \in Levels :
                /\ \A n \in lost' : n <= base
                /\ \A i \in 1 .. Len(wire') : ~Pending(wire'[i], k, base)
                => levels[k] = venue'.levels[k]
  <2> SUFFICES ASSUME NEW k \in Levels, \A n \in lost' : n <= base,
                      \A i \in 1 .. Len(wire') : ~Pending(wire'[i], k, base)
               PROVE  levels[k] = venue'.levels[k]
    OBVIOUS
  <2>1. venue.seq + 1 \notin lost'
    BY <1>2, <1>15
  <2>2. wire' = Append(wire, f) /\ lost' = lost
    BY <1>8, <1>15, <2>1
  <2>3. wire'[Len(wire) + 1] = f /\ Len(wire) + 1 \in 1 .. Len(wire')
    BY <1>2, <1>6, <2>2, WireGrows
  <2>4. k # l
    <3>1. ~Pending(f, k, base)
      BY <2>3
    <3>2. f.seq # NoSeq => f.seq > base
      BY <1>2, <1>5, <1>15
    <3> QED BY <1>5, <3>1, <3>2 DEF Pending, SetsLevel
  <2>5. \A i \in 1 .. Len(wire) : ~Pending(wire[i], k, base)
    BY <1>2, <1>9
  <2>6. levels[k] = venue.levels[k]
    BY <1>15, <2>2, <2>5 DEF Agrees
  <2> QED BY <1>7, <2>4, <2>6
<1>16. Covered'
  <2>1. ASSUME link' = "up", sup'.book.status = "Healthy", task'.at # "sleep"
        PROVE  Agrees(sup.book.levels, sup.book.seq)'
    <3>1. Agrees(sup.book.levels, sup.book.seq) /\ link = "up"
      BY <1>0, <1>1, <2>1 DEF Covered
    <3>2. sup.book.seq \in Nat /\ sup.book.seq <= venue.seq
      BY <1>0, <1>2 DEF Shaped, SupT, BookT
    <3>3. \A k \in Levels :
            /\ \A n \in lost' : n <= sup.book.seq
            /\ \A i \in 1 .. Len(wire') : ~Pending(wire'[i], k, sup.book.seq)
            => sup.book.levels[k] = venue'.levels[k]
      BY <1>15, <3>1, <3>2
    <3> QED BY <1>1, <3>3 DEF Agrees
  <2>2. ASSUME link' = "up", task'.at = "answered"
        PROVE  Agrees(task.answer.levels, task.answer.seq)'
    <3>1. Agrees(task.answer.levels, task.answer.seq) /\ link = "up"
      BY <1>0, <1>1, <2>2 DEF Covered
    <3>2. task.answer.seq \in Nat /\ task.answer.seq <= venue.seq
      BY <1>0, <1>1, <1>2, <2>2 DEF Numbered, TypeOK
    <3>3. \A k \in Levels :
            /\ \A n \in lost' : n <= task.answer.seq
            /\ \A i \in 1 .. Len(wire') : ~Pending(wire'[i], k, task.answer.seq)
            => task.answer.levels[k] = venue'.levels[k]
      BY <1>15, <3>1, <3>2
    <3> QED BY <1>1, <3>3 DEF Agrees
  <2> QED BY <2>1, <2>2 DEF Covered
<1>17. ReadyInv'
  BY <1>0, <1>1 DEF ReadyInv
<1> QED BY <1>11, <1>12, <1>13, <1>14, <1>16, <1>17 DEF FeedInv

LEMMA CloseKeeps ==
  ASSUME FeedInv, Close
  PROVE  FeedInv'
<1>0. TypeOK /\ Numbered /\ Shaped /\ ReadyInv
  BY DEF FeedInv
<1>1. PICK n \in 0 .. Len(wire) : wire' = SubSeq(wire, 1, n)
  BY DEF Close
<1>2. link' = "down" /\ UNCHANGED <<vendor, venue, sup, task, ticks, told, lost>>
  BY DEF Close
<1>3. wire \in Seq(Frames) /\ Len(wire) \in Nat
  BY <1>0, Typed, LenProperties
<1>4. /\ wire' \in Seq(Frames) /\ Len(wire') = n
      /\ \A i \in 1 .. Len(wire') : i \in 1 .. Len(wire) /\ wire'[i] = wire[i]
  BY <1>1, <1>3, SubSeqProperties
<1>5. TypeOK'
  BY <1>0, <1>2, <1>4 DEF TypeOK
<1>6. Numbered'
  <2>1. SomeLast' = SomeLast
    BY <1>2 DEF SomeLast
  <2> QED BY <1>0, <1>2, <1>4, <2>1 DEF Numbered
<1>7. Shaped'
  BY <1>0, <1>2, <1>4 DEF Shaped
<1>8. NewestWins' /\ Covered'
  BY <1>2 DEF NewestWins, Covered
<1>9. ReadyInv'
  BY <1>0, <1>2 DEF ReadyInv
<1> QED BY <1>5, <1>6, <1>7, <1>8, <1>9 DEF FeedInv

-----------------------------------------------------------------------------
(* The steps of the task keep the invariant.                               *)

LEMMA SomeLastIs ==
  ASSUME ticks' = ticks
  PROVE  SomeLast' = SomeLast
BY DEF SomeLast

LEMMA EndedKeeps ==
  ASSUME FeedInv, Ended, UNCHANGED <<vendor, venue, ticks>>, sup' \in SupT,
         sup'.book.seq = sup.book.seq, told' \in {told, "Degraded"}
  PROVE  FeedInv'
<1>0. TypeOK /\ Numbered /\ Shaped
  BY DEF FeedInv
<1>1. /\ task' = At("sleep") /\ task'.at = "sleep" /\ link' = "down" /\ wire' = <<>> /\ lost' = {}
      /\ wire' \in Seq(Frames) /\ Len(wire') = 0
  BY DEF Ended, At
<1>2. TypeOK'
  BY <1>0, <1>1 DEF TypeOK, SupT, ConsumerT, BookT, LevelsT
<1>3. Numbered'
  <2>1. SomeLast' \in 0 .. venue'.seq
    BY <1>0, SomeLastIs DEF Numbered
  <2> QED BY <1>1, <2>1 DEF Numbered
<1>4. Shaped'
  BY <1>0, <1>1 DEF Shaped
<1>5. NewestWins' /\ Covered' /\ ReadyInv'
  BY <1>1 DEF NewestWins, Covered, ReadyInv
<1> QED BY <1>2, <1>3, <1>4, <1>5 DEF FeedInv

\* A session's end publishes no tick.
LEMMA EndPublishes ==
  ASSUME ticks \in Seq(1 .. MaxSeq), Disconnected
  PROVE  ticks' = ticks /\ venue' = venue /\ told' = "Degraded"
<1>1. /\ ticks' = ticks \o Ticks(<<Event("Stale", 0)>>) /\ told' = LastWord(<<Event("Stale", 0)>>, told)
      /\ venue' = venue
  BY DEF Disconnected, Dispatch
<1> QED BY <1>1, StaleEvent, NoTicks

\* The three ways a session ends.
LEMMA SessionEndKeeps ==
  ASSUME FeedInv, CoinbaseHttpFails \/ Disconnected \/ PongFails
  PROVE  FeedInv'
<1>0. TypeOK /\ Numbered
  BY DEF FeedInv
<1>1. sup \in SupT /\ ticks \in Seq(1 .. MaxSeq)
  BY <1>0, Typed
<1>2. CASE CoinbaseHttpFails \/ PongFails
  BY <1>1, <1>2, EndedKeeps DEF CoinbaseHttpFails, PongFails
<1>3. CASE Disconnected
  <2> DEFINE x == Distrust(sup)
             y == [x EXCEPT !.connected = FALSE, !.attempt = 1]
  <2>1. task.at = "read" /\ Ended /\ UNCHANGED <<vendor, venue>> /\ sup' = OnDisconnect(sup).sup
        /\ Dispatch(<<Event("Stale", 0)>>)
    BY <1>3 DEF Disconnected
  <2>2. x \in SupT /\ x.attempt = 0 /\ x.book.seq = sup.book.seq
    <3>1. sup.attempt = 0
      BY <1>0, <2>1 DEF Numbered
    <3>2. sup.consumer \in ConsumerT /\ sup.book \in BookT
      BY <1>1 DEF SupT
    <3>3. Invalidate(sup.book).seq = sup.book.seq
      BY <3>2, DistrustFacts
    <3> QED BY <1>1, <3>1, <3>3, Distrusted
  <2> HIDE DEF x
  <2>3. y \in SupT /\ y.book = x.book
    <3>1. FALSE \in BOOLEAN /\ 1 \in 0 .. 1
      OBVIOUS
    <3> QED BY <2>2, <3>1, SessionSet, Zenon
  <2>4. sup' = y
    <3>1. OnDisconnect(sup) = Result([x EXCEPT !.connected = FALSE, !.attempt = @ + 1], <<>>, FALSE)
      BY Zenon DEF OnDisconnect, x
    <3>2. x.attempt + 1 = 1
      BY <2>2
    <3>3. [x EXCEPT !.connected = FALSE, !.attempt = @ + 1] = y
      BY <3>2, Zenon
    <3> HIDE DEF y
    <3>4. OnDisconnect(sup) = Result(y, <<>>, FALSE)
      BY <3>1, <3>3, Zenon
    <3> QED BY <2>1, <3>4 DEF Result
  <2>5. ticks' = ticks /\ told' = "Degraded"
    BY <1>1, <1>3, EndPublishes
  <2> HIDE DEF y
  <2> QED BY <2>1, <2>2, <2>3, <2>4, <2>5, EndedKeeps
<1> QED BY <1>2, <1>3

\* The clock publishes no tick.
LEMMA TickPublishes ==
  ASSUME ticks \in Seq(1 .. MaxSeq), Tick
  PROVE  ticks' = ticks /\ venue' = venue /\ told' \in {told, "Degraded"}
<1>1. OnClock(sup', Sla) \in {<<>>, <<Event("Stale", 0)>>}
  BY DEF OnClock
<1>2. /\ Ticks(<<>>) = <<>> /\ LastWord(<<>>, told) = told
  <2>1. Seen(<<>>, {"Tick"}) = {} /\ Seen(<<>>, {"Degraded", "BookReady"}) = {}
    BY DEF Seen
  <2> QED BY <2>1 DEF Ticks, LastWord
<1>3. Ticks(OnClock(sup', Sla)) = <<>> /\ LastWord(OnClock(sup', Sla), told) \in {told, "Degraded"}
  BY <1>1, <1>2, StaleEvent
<1> QED BY <1>3, NoTicks DEF Tick, Dispatch

LEMMA TickKeeps ==
  ASSUME FeedInv, Tick
  PROVE  FeedInv'
<1>0. TypeOK /\ Numbered /\ Shaped /\ NewestWins /\ Covered /\ ReadyInv
  BY DEF FeedInv
<1>1. /\ sup \in SupT /\ ticks \in Seq(1 .. MaxSeq) /\ sup.age \in Nat /\ Sla \in Nat
      /\ sup.consumer \in ConsumerT /\ sup.book \in BookT
  BY <1>0, Typed, FeedAssumption DEF SupT
<1>2. /\ task.at = "read" /\ sup.age <= Sla /\ sup' = [sup EXCEPT !.age = sup.age + 1]
      /\ Dispatch(OnClock(sup', Sla)) /\ UNCHANGED <<vendor, venue, link, wire, task, lost, count>>
  BY DEF Tick
<1>3. /\ sup' \in SupT /\ sup'.attempt = sup.attempt /\ sup'.consumer = sup.consumer
      /\ sup'.book = sup.book
  <2> DEFINE n == sup.age + 1
  <2>1. n \in 0 .. Sla + 1
    BY <1>1, <1>2
  <2> HIDE DEF n
  <2>2. sup' = [sup EXCEPT !.age = n]
    BY <1>2 DEF n
  <2> QED BY <1>1, <2>1, <2>2 DEF SupT
<1>4. ticks' = ticks /\ told' \in {told, "Degraded"}
  BY <1>1, TickPublishes
<1>5. TypeOK'
  BY <1>0, <1>2, <1>3, <1>4 DEF TypeOK, SupT, ConsumerT, BookT, LevelsT
<1>6. Numbered'
  BY <1>0, <1>2, <1>3, <1>4, SomeLastIs DEF Numbered
<1>7. Shaped' /\ NewestWins'
  BY <1>0, <1>2, <1>3 DEF Shaped, NewestWins
<1>8. Covered'
  BY <1>0, <1>2, <1>3 DEF Covered, Agrees
<1>9. ReadyInv'
  BY <1>0, <1>2, <1>3, <1>4 DEF ReadyInv
<1> QED BY <1>5, <1>6, <1>7, <1>8, <1>9 DEF FeedInv

LEMMA OpenedKeeps ==
  ASSUME FeedInv, NEW frames \in Seq(Frames), Opened(frames), Len(frames) \in 0 .. 2,
         vendor # "coinbase" => frames = <<>>,
         vendor = "coinbase" => /\ Len(frames) = 2
                                /\ frames[1] = CoinbaseOpening(venue.levels)
                                /\ frames[2] = CoinbaseTrade(venue.seq)
  PROVE  FeedInv'
<1>0. TypeOK /\ Numbered /\ Shaped
  BY DEF FeedInv
<1>1. /\ link' = "up" /\ lost' = {} /\ wire' = frames /\ UNCHANGED <<vendor, venue, ticks, told>>
      /\ sup' \in SupT /\ sup'.attempt = 0 /\ sup'.consumer.degraded
      /\ sup'.book.status = "Invalidated" /\ sup'.book.seq = 0 /\ task' = At("fetch")
  BY <1>0, ConnectionOpened
<1>2. task' = At("fetch") /\ task'.at = "fetch" /\ venue.seq \in 1 .. MaxSeq
  BY <1>0, <1>1, Typed DEF At
<1>3. \A i \in 1 .. Len(frames) :
        /\ vendor = "coinbase" /\ Len(frames) = 2
        /\ \/ i = 1 /\ frames[i].type = "book" /\ frames[i].levels = venue.levels
           \/ i = 2 /\ frames[i].type = "record" /\ frames[i].seq = venue.seq
  <2>1. Len(<<>>) = 0 OBVIOUS
  <2>2. CASE vendor = "coinbase"
    <3>1. /\ CoinbaseOpening(venue.levels).type = "book"
          /\ CoinbaseOpening(venue.levels).levels = venue.levels
          /\ CoinbaseTrade(venue.seq).type = "record" /\ CoinbaseTrade(venue.seq).seq = venue.seq
      BY DEF CoinbaseOpening, CoinbaseTrade, BookSnapshot, Record
    <3>2. /\ frames[1].type = "book" /\ frames[1].levels = venue.levels
          /\ frames[2].type = "record" /\ frames[2].seq = venue.seq /\ Len(frames) = 2
      BY <2>2, <3>1, Zenon
    <3> QED BY <2>2, <3>2
  <2>3. CASE vendor # "coinbase"
    BY <2>1, <2>3
  <2> QED BY <2>2, <2>3
<1>4. TypeOK'
  BY <1>0, <1>1, <1>2 DEF TypeOK, SupT, ConsumerT, BookT, LevelsT
<1>5. Numbered'
  BY <1>0, <1>1, <1>2, <1>3, SomeLastIs DEF Numbered
<1>6. Shaped'
  BY <1>0, <1>1, <1>2, <1>3 DEF Shaped
<1>7. NewestWins'
  <2> SUFFICES ASSUME NEW l \in Levels, NEW i \in 1 .. Len(frames), SetsLevel(frames[i], l)
               PROVE  ValueSet(frames[i], l) = venue.levels[l]
    BY <1>1 DEF NewestWins
  <2> QED BY <1>3 DEF SetsLevel, ValueSet
<1>8. Covered' /\ ReadyInv'
  BY <1>1, <1>2 DEF Covered, ReadyInv
<1> QED BY <1>4, <1>5, <1>6, <1>7, <1>8 DEF FeedInv

LEMMA ConnectKeeps ==
  ASSUME FeedInv, CoinbaseConnect \/ AlpacaConnect \/ DatabentoConnect
  PROVE  FeedInv'
<1>1. CASE AlpacaConnect \/ DatabentoConnect
  <2>1. <<>> \in Seq(Frames) /\ Len(<<>>) \in 0 .. 2 /\ Opened(<<>>) /\ vendor # "coinbase"
    BY <1>1 DEF AlpacaConnect, DatabentoConnect
  <2> QED BY <2>1, OpenedKeeps
<1>2. CASE CoinbaseConnect
  <2> DEFINE b == CoinbaseOpening(venue.levels)
             t == CoinbaseTrade(venue.seq)
             frames == <<b, t>>
  <2>1. vendor = "coinbase" /\ Opened(frames)
    BY <1>2 DEF CoinbaseConnect
  <2>2. venue.seq \in 1 .. MaxSeq /\ venue.levels \in [Levels -> 0 .. 1]
    BY Typed DEF FeedInv, LevelsT
  <2>3. b \in Frames /\ t \in Frames
    BY <2>2 DEF CoinbaseOpening, CoinbaseTrade, BookSnapshot, Record, Frames
  <2> HIDE DEF b, t
  <2>4. frames \in Seq(Frames) /\ Len(frames) = 2 /\ frames[1] = b /\ frames[2] = t
    BY <2>3
  <2> HIDE DEF frames
  <2>5. Len(frames) \in 0 .. 2
    BY <2>4
  <2> QED BY <2>1, <2>4, <2>5, OpenedKeeps DEF b, t
<1> QED BY <1>1, <1>2

LEMMA AnswerKeeps ==
  ASSUME FeedInv, Answer
  PROVE  FeedInv'
<1>0. TypeOK /\ Numbered /\ Shaped /\ NewestWins /\ Covered /\ ReadyInv
  BY DEF FeedInv
<1>1. /\ task.at = "fetch" /\ task' = [at |-> "answered", answer |-> venue]
      /\ task'.at = "answered" /\ task'.answer = venue
      /\ UNCHANGED <<vendor, venue, link, wire, sup, ticks, told, lost>>
  BY DEF Answer
<1>2. TypeOK'
  BY <1>0, <1>1 DEF TypeOK
<1>3. Numbered'
  BY <1>0, <1>1, Typed, SomeLastIs DEF Numbered
<1>4. Shaped' /\ NewestWins' /\ ReadyInv'
  BY <1>0, <1>1 DEF Shaped, NewestWins, ReadyInv
<1>5. Covered'
  <2>1. link' = "up" /\ sup'.book.status = "Healthy" => Agrees(sup.book.levels, sup.book.seq)'
    BY <1>0, <1>1 DEF Covered, Agrees
  <2>2. Agrees(task.answer.levels, task.answer.seq)'
    BY <1>1 DEF Agrees
  <2> QED BY <2>1, <2>2 DEF Covered
<1> QED BY <1>2, <1>3, <1>4, <1>5 DEF FeedInv

LEMMA GoOnKeeps ==
  ASSUME FeedInv, WithoutSnapshot, vendor # "coinbase"
  PROVE  FeedInv'
<1>0. TypeOK /\ Numbered /\ Shaped /\ NewestWins /\ Covered
  BY DEF FeedInv
<1>1. /\ task.at = "fetch" /\ task' = At("read") /\ task'.at = "read"
      /\ UNCHANGED <<vendor, venue, link, wire, sup, ticks, told, lost>>
  BY DEF WithoutSnapshot, At
<1>2. TypeOK'
  BY <1>0, <1>1 DEF TypeOK
<1>3. Numbered'
  BY <1>0, <1>1, SomeLastIs DEF Numbered
<1>4. Shaped' /\ NewestWins' /\ ReadyInv'
  BY <1>0, <1>1 DEF Shaped, NewestWins, ReadyInv
<1>5. Covered'
  BY <1>0, <1>1 DEF Covered, Agrees
<1> QED BY <1>2, <1>3, <1>4, <1>5 DEF FeedInv

LEMMA TakeKeeps ==
  ASSUME FeedInv, TakeSnapshot
  PROVE  FeedInv'
<1>0. TypeOK /\ Numbered /\ Shaped /\ NewestWins /\ Covered /\ ReadyInv
  BY DEF FeedInv
<1>1. /\ sup' \in SupT /\ sup'.attempt = sup.attempt
      /\ sup'.consumer \in {sup.consumer, [next |-> task.answer.seq + 1, degraded |-> FALSE]}
      /\ sup'.book.status = "Healthy" /\ sup'.book.seq = task.answer.seq
      /\ sup'.book.levels = AnswerLevels
      /\ task' = At("read") /\ ticks' = ticks /\ told' = "BookReady"
  BY <1>0, SnapshotTaken
<1>2. /\ task.at = "answered" /\ UNCHANGED <<vendor, venue, link, wire, lost>>
      /\ task'.at = "read"
  BY <1>1 DEF TakeSnapshot, At
<1>3. /\ venue.seq \in 1 .. MaxSeq /\ SomeLast \in 0 .. venue.seq /\ sup.consumer.degraded
      /\ task.answer.seq \in 1 .. MaxSeq /\ task.answer.seq \in SomeLast .. venue.seq
      /\ sup.attempt = 0
  BY <1>0, <1>2, Typed DEF Numbered, TypeOK
<1>4. TypeOK'
  BY <1>0, <1>1, <1>2 DEF TypeOK, SupT, ConsumerT, BookT, LevelsT
<1>5. Numbered'
  <2>1. SomeLast' = SomeLast
    BY <1>1, SomeLastIs
  <2>2. ~sup'.consumer.degraded => sup'.consumer.next = task.answer.seq + 1
    BY <1>1, <1>3
  <2>3. ~sup'.consumer.degraded => sup'.consumer.next \in SomeLast' + 1 .. venue'.seq + 1
    BY <1>2, <1>3, <2>1, <2>2
  <2> QED BY <1>0, <1>1, <1>2, <1>3, <2>1, <2>3 DEF Numbered
<1>6. Shaped' /\ NewestWins' /\ ReadyInv'
  BY <1>0, <1>1, <1>2, <1>3 DEF Shaped, NewestWins, ReadyInv
<1>7. Covered'
  <2> SUFFICES ASSUME link = "up", NEW l \in Levels,
                      \A n \in lost : n <= task.answer.seq,
                      \A i \in 1 .. Len(wire) : ~Pending(wire[i], l, task.answer.seq)
               PROVE  AnswerLevels[l] = venue.levels[l]
    BY <1>1, <1>2 DEF Covered, Agrees
  <2>1. task.answer.levels[l] = venue.levels[l]
    BY <1>0, <1>2 DEF Covered, Agrees
  <2>2. vendor = "alpaca" => NoLevels[l] = venue.levels[l]
    BY <1>0 DEF Shaped
  <2> QED BY <2>1, <2>2 DEF AnswerLevels
<1> QED BY <1>4, <1>5, <1>6, <1>7 DEF FeedInv

-----------------------------------------------------------------------------
(* Reading a frame.                                                        *)

\* What a shorter queue cannot disturb.
LEMMA ReadLeaves ==
  ASSUME FeedInv, ReadFrame
  PROVE  /\ wire' = Tail(wire) /\ wire' \in Seq(Frames) /\ Len(wire) \in Nat \ {0}
         /\ Len(wire') = Len(wire) - 1
         /\ \A i \in 1 .. Len(wire') : i + 1 \in 1 .. Len(wire) /\ wire'[i] = wire[i + 1]
         /\ task.at = "read" /\ UNCHANGED <<vendor, venue, link, lost>>
         /\ NewestWins'
         /\ sup'.book.seq <= venue.seq => Shaped'
<1>0. TypeOK /\ Shaped /\ NewestWins
  BY DEF FeedInv
<1>1. wire' = Tail(wire) /\ wire # <<>> /\ task.at = "read" /\ UNCHANGED <<vendor, venue, link, lost>>
  BY DEF ReadFrame
<1>2. /\ wire' \in Seq(Frames) /\ Len(wire) \in Nat \ {0} /\ Len(wire') = Len(wire) - 1
      /\ \A i \in 1 .. Len(wire') : i + 1 \in 1 .. Len(wire) /\ wire'[i] = wire[i + 1]
  BY <1>0, <1>1, Typed, WireRead
<1>3. NewestWins'
  <2> SUFFICES ASSUME link' = "up", NEW l \in Levels, NEW i \in 1 .. Len(wire'),
                      SetsLevel(wire'[i], l),
                      \A j \in 1 .. Len(wire') : SetsLevel(wire'[j], l) => j <= i,
                      \A n \in lost' : n <= wire'[i].seq
               PROVE  ValueSet(wire'[i], l) = venue'.levels[l]
    BY DEF NewestWins
  <2>1. i + 1 \in 1 .. Len(wire) /\ wire'[i] = wire[i + 1]
    BY <1>2
  <2>2. \A j \in 1 .. Len(wire) : SetsLevel(wire[j], l) => j <= i + 1
    <3> TAKE j \in 1 .. Len(wire)
    <3>1. CASE j = 1 BY <3>1, <2>1
    <3>2. CASE j # 1
      <4>1. j - 1 \in 1 .. Len(wire') /\ wire'[j - 1] = wire[j]
        BY <1>2, <3>2
      <4> QED BY <4>1
    <3> QED BY <3>1, <3>2
  <2> QED BY <1>0, <1>1, <2>1, <2>2 DEF NewestWins
<1>4. ASSUME sup'.book.seq <= venue.seq
      PROVE  Shaped'
  <2>1. vendor = "coinbase" => \A i \in 1 .. Len(wire') : wire'[i].type = "delta" => wire'[i].seq = NoSeq
    BY <1>0, <1>2 DEF Shaped
  <2>2. vendor = "alpaca" =>
          venue.levels = NoLevels /\ \A i \in 1 .. Len(wire') : wire'[i].type = "record"
    BY <1>0, <1>2 DEF Shaped
  <2>3. ASSUME vendor = "databento"
        PROVE  /\ \A i \in 1 .. Len(wire') :
                    wire'[i].type = "delta" /\ wire'[i].seq \in 1 .. venue.seq /\ wire'[i].seq \notin lost
               /\ \A i, j \in 1 .. Len(wire') : i < j => wire'[i].seq < wire'[j].seq
    <3>1. /\ \A i \in 1 .. Len(wire) :
               wire[i].type = "delta" /\ wire[i].seq \in 1 .. venue.seq /\ wire[i].seq \notin lost
          /\ \A i, j \in 1 .. Len(wire) : i < j => wire[i].seq < wire[j].seq
      BY <1>0, <2>3 DEF Shaped
    <3>2. ASSUME NEW i \in 1 .. Len(wire')
          PROVE  wire'[i].type = "delta" /\ wire'[i].seq \in 1 .. venue.seq /\ wire'[i].seq \notin lost
      BY <1>2, <3>1
    <3>3. ASSUME NEW i \in 1 .. Len(wire'), NEW j \in 1 .. Len(wire'), i < j
          PROVE  wire'[i].seq < wire'[j].seq
      <4>1. /\ i + 1 \in 1 .. Len(wire) /\ j + 1 \in 1 .. Len(wire) /\ i + 1 < j + 1
            /\ wire'[i] = wire[i + 1] /\ wire'[j] = wire[j + 1]
        BY <1>2, <3>3
      <4>2. wire[i + 1].seq < wire[j + 1].seq
        BY <3>1, <4>1
      <4> QED BY <4>1, <4>2
    <3> QED BY <3>2, <3>3
  <2> QED BY <1>0, <1>1, <1>4, <2>1, <2>2, <2>3 DEF Shaped
<1> QED BY <1>1, <1>2, <1>3, <1>4

\* A frame that sets no level is not missed.
LEMMA PassedOver ==
  ASSUME NEW levels, NEW base, Agrees(levels, base), wire \in Seq(Frames), wire # <<>>,
         wire' = Tail(wire), UNCHANGED <<venue, lost>>,
         \A l \in Levels : ~Pending(wire[1], l, base)
  PROVE  \A l \in Levels :
           /\ \A n \in lost' : n <= base
           /\ \A i \in 1 .. Len(wire') : ~Pending(wire'[i], l, base)
           => levels[l] = venue'.levels[l]
<1> SUFFICES ASSUME NEW l \in Levels, \A n \in lost : n <= base,
                    \A i \in 1 .. Len(wire') : ~Pending(wire'[i], l, base)
             PROVE  levels[l] = venue.levels[l]
  OBVIOUS
<1>1. \A i \in 1 .. Len(wire) : ~Pending(wire[i], l, base)
  <2> TAKE i \in 1 .. Len(wire)
  <2>1. CASE i = 1 BY <2>1
  <2>2. CASE i # 1
    <3>1. i - 1 \in 1 .. Len(wire') /\ wire'[i - 1] = wire[i]
      BY <2>2, WireRead
    <3> QED BY <3>1
  <2> QED BY <2>1, <2>2
<1> QED BY <1>1 DEF Agrees

LEMMA ReadRecordKeeps ==
  ASSUME FeedInv, ReadFrame, wire[1].type = "record"
  PROVE  FeedInv'
<1> DEFINE n == wire[1].seq
<1>0. TypeOK /\ Numbered /\ Shaped /\ NewestWins /\ Covered /\ ReadyInv
  BY DEF FeedInv
<1>1. /\ wire' = Tail(wire) /\ wire' \in Seq(Frames) /\ Len(wire) \in Nat \ {0}
      /\ Len(wire') = Len(wire) - 1
      /\ \A i \in 1 .. Len(wire') : i + 1 \in 1 .. Len(wire) /\ wire'[i] = wire[i + 1]
      /\ task.at = "read" /\ UNCHANGED <<vendor, venue, link, lost>> /\ NewestWins'
      /\ sup'.book.seq <= venue.seq => Shaped'
  BY ReadLeaves
<1>2. /\ sup \in SupT /\ wire \in Seq(Frames) /\ wire # <<>> /\ ticks \in Seq(1 .. MaxSeq)
      /\ venue.seq \in 1 .. MaxSeq /\ sup.consumer \in ConsumerT /\ sup.book \in BookT
      /\ MaxSeq \in Nat /\ ClockSeq > MaxSeq + 1 /\ ClockSeq \in Nat
      /\ SomeLast \in 0 .. venue.seq /\ sup.attempt = 0 /\ n \in 1 .. venue.seq \cup {ClockSeq}
  <2>1. sup \in SupT /\ wire \in Seq(Frames) /\ ticks \in Seq(1 .. MaxSeq) /\ venue.seq \in 1 .. MaxSeq
    BY <1>0, Typed
  <2>2. wire # <<>>
    BY DEF ReadFrame
  <2>3. n \in 1 .. venue.seq \cup {ClockSeq}
    BY <1>0, <1>1 DEF Numbered
  <2> QED BY <1>0, <1>1, <2>1, <2>2, <2>3, FeedAssumption DEF Numbered, SupT
<1>3. /\ sup' \in SupT /\ sup'.attempt = 0
      /\ \/ /\ ~sup.consumer.degraded /\ n = sup.consumer.next
            /\ sup'.consumer = [next |-> n + 1, degraded |-> FALSE]
            /\ sup'.book = sup.book /\ task' = At("read")
            /\ ticks' = Append(ticks, n) /\ told' = told
         \/ /\ sup'.consumer = [next |-> sup.consumer.next, degraded |-> TRUE]
            /\ sup'.book = Invalidate(sup.book) /\ task' = At("fetch")
            /\ ticks' = ticks /\ told' = "Degraded"
         \/ /\ sup'.consumer = sup.consumer
            /\ sup'.book = sup.book /\ task' = At("read")
            /\ ticks' = ticks /\ told' = told
  BY <1>0, <1>2, RecordRead
<1>4. Invalidate(sup.book).status = "Invalidated" /\ Invalidate(sup.book).seq = sup.book.seq
  BY <1>2, DistrustFacts
<1>5. /\ task'.at \in {"read", "fetch"} /\ task' = At(task'.at)
      /\ \/ sup'.book = sup.book /\ task'.at = "read" /\ told' = told
         \/ sup'.book.status = "Invalidated" /\ task'.at = "fetch" /\ told' = "Degraded"
      /\ sup'.book.seq = sup.book.seq
  <2>1. At("read").at = "read" /\ At("fetch").at = "fetch"
    BY DEF At
  <2> QED BY <1>3, <1>4, <2>1
<1>6. ticks' \in Seq(1 .. MaxSeq) /\ SomeLast' \in 0 .. venue.seq
      /\ (~sup'.consumer.degraded => sup'.consumer.next \in SomeLast' + 1 .. venue.seq + 1)
      /\ (task'.at = "fetch" => sup'.consumer.degraded)
  <2>1. ~sup.consumer.degraded => sup.consumer.next \in SomeLast + 1 .. venue.seq + 1
    BY <1>0, <1>1 DEF Numbered
  <2>2. CASE /\ ~sup.consumer.degraded /\ n = sup.consumer.next
             /\ sup'.consumer = [next |-> n + 1, degraded |-> FALSE]
             /\ task' = At("read") /\ ticks' = Append(ticks, n)
    <3>1. n \in 1 .. venue.seq
      BY <1>2, <2>1, <2>2
    <3>2. n \in 1 .. MaxSeq
      BY <1>2, <3>1
    <3> HIDE DEF n
    <3>3. ticks' \in Seq(1 .. MaxSeq) /\ Len(ticks') = Len(ticks) + 1 /\ ticks'[Len(ticks) + 1] = n
          /\ Len(ticks) \in Nat
      BY <1>2, <2>2, <3>2, AppendProperties, LenProperties
    <3>4. ticks' # <<>>
      BY <3>3
    <3>5. SomeLast' = n
      BY <3>3, <3>4 DEF SomeLast
    <3>6. task'.at = "read" /\ sup'.consumer.next = n + 1
      BY <2>2 DEF At
    <3> QED BY <1>2, <3>1, <3>3, <3>5, <3>6
  <2>3. CASE ticks' = ticks /\ sup'.consumer = [next |-> sup.consumer.next, degraded |-> TRUE]
    BY <1>2, <2>3, SomeLastIs
  <2>4. CASE ticks' = ticks /\ sup'.consumer = sup.consumer /\ task' = At("read")
    BY <1>2, <2>1, <2>4, SomeLastIs DEF At
  <2> QED BY <1>3, <2>2, <2>3, <2>4
<1>7. TypeOK'
  <2>1. told' \in {"none", "Degraded", "BookReady"}
    BY <1>0, <1>3 DEF TypeOK
  <2>2. task'.at # "answered"
    BY <1>5
  <2> QED BY <1>0, <1>1, <1>3, <1>5, <1>6, <2>1, <2>2 DEF TypeOK, SupT, ConsumerT, BookT, LevelsT
<1>8. Numbered'
  <2>1. \A i \in 1 .. Len(wire') : wire'[i].type = "record" => wire'[i].seq \in 1 .. venue.seq \cup {ClockSeq}
    BY <1>0, <1>1 DEF Numbered
  <2>2. task'.at # "answered" /\ task'.at # "sleep"
    BY <1>5
  <2> QED BY <1>1, <1>3, <1>5, <1>6, <2>1, <2>2 DEF Numbered
<1>9. Shaped'
  BY <1>0, <1>1, <1>5 DEF Shaped
<1>10. Covered'
  <2>1. task'.at # "answered"
    BY <1>5
  <2>2. ASSUME link' = "up", sup'.book.status = "Healthy"
        PROVE  Agrees(sup.book.levels, sup.book.seq)'
    <3>1. sup'.book = sup.book /\ sup.book.status = "Healthy"
      BY <1>5, <2>2
    <3>2. Agrees(sup.book.levels, sup.book.seq)
      BY <1>0, <1>1, <2>2, <3>1 DEF Covered
    <3>3. \A l \in Levels : ~Pending(wire[1], l, sup.book.seq)
      BY DEF Pending, SetsLevel
    <3>4. \A l \in Levels :
            /\ \A m \in lost' : m <= sup.book.seq
            /\ \A i \in 1 .. Len(wire') : ~Pending(wire'[i], l, sup.book.seq)
            => sup.book.levels[l] = venue'.levels[l]
      BY <1>1, <1>2, <3>2, <3>3, PassedOver, SMTT(60)
    <3> QED BY <3>1, <3>4 DEF Agrees
  <2> QED BY <2>1, <2>2 DEF Covered
<1>11. ReadyInv'
  BY <1>0, <1>1, <1>5 DEF ReadyInv
<1> QED BY <1>1, <1>7, <1>8, <1>9, <1>10, <1>11 DEF FeedInv

LEMMA ReadBookKeeps ==
  ASSUME FeedInv, ReadFrame, wire[1].type # "record"
  PROVE  FeedInv'
<1> DEFINE f == wire[1]
<1>0. TypeOK /\ Numbered /\ Shaped /\ NewestWins /\ Covered /\ ReadyInv
  BY DEF FeedInv
<1>1. /\ wire' = Tail(wire) /\ wire' \in Seq(Frames) /\ Len(wire) \in Nat \ {0}
      /\ Len(wire') = Len(wire) - 1
      /\ \A i \in 1 .. Len(wire') : i + 1 \in 1 .. Len(wire) /\ wire'[i] = wire[i + 1]
      /\ task.at = "read" /\ UNCHANGED <<vendor, venue, link, lost>> /\ NewestWins'
      /\ sup'.book.seq <= venue.seq => Shaped'
  BY ReadLeaves
<1>2. /\ sup \in SupT /\ wire \in Seq(Frames) /\ wire # <<>> /\ venue.seq \in 1 .. MaxSeq
      /\ sup.consumer \in ConsumerT /\ sup.book \in BookT /\ sup.book.seq \in Nat
      /\ sup.book.seq <= venue.seq /\ MaxSeq \in Nat
      /\ vendor \in {"coinbase", "databento", "alpaca"}
  <2>1. sup \in SupT /\ wire \in Seq(Frames) /\ venue.seq \in 1 .. MaxSeq
    BY <1>0, Typed
  <2>2. wire # <<>>
    BY DEF ReadFrame
  <2> QED BY <1>0, <2>1, <2>2, FeedAssumption DEF Shaped, SupT, BookT, TypeOK
<1>3. /\ f \in BooksT \cup DeltasT
      /\ sup' \in SupT /\ sup'.attempt = sup.attempt /\ sup'.consumer = sup.consumer
      /\ task' = At("read") /\ ticks' = ticks
      /\ \/ /\ f.type = "book" /\ sup'.book.status = "Healthy"
            /\ sup'.book.seq = f.seq /\ sup'.book.levels = f.levels
            /\ told' = "BookReady"
         \/ /\ f.type = "delta" /\ sup.book.status = "Healthy" /\ sup'.book.status = "Healthy"
            /\ \/ f.seq = NoSeq /\ sup'.book.seq = sup.book.seq
               \/ f.seq = sup.book.seq + 1 /\ sup'.book.seq = f.seq
            /\ \A k \in Levels : sup'.book.levels[k] = IF k = f.level THEN f.qty ELSE sup.book.levels[k]
            /\ told' = told
         \/ /\ f.type = "delta" /\ f.seq # NoSeq /\ sup'.book = Invalidate(sup.book)
            /\ told' = "Degraded"
         \/ /\ f.type = "delta" /\ sup'.book = sup.book /\ told' = told
            /\ sup.book.status = "Healthy" => f.seq \in 1 .. sup.book.seq
  BY <1>0, BookRead
<1>4. Invalidate(sup.book).status = "Invalidated" /\ Invalidate(sup.book).seq = sup.book.seq
  BY <1>2, DistrustFacts
<1>5. 1 \in 1 .. Len(wire)
  BY <1>1
\* What the head is, by vendor.
<1>6. /\ vendor # "alpaca"
      /\ vendor = "coinbase" => /\ lost = {}
                                /\ \A i \in 1 .. Len(wire) : wire[i].type = "delta" => wire[i].seq = NoSeq
      /\ vendor = "databento" =>
           /\ f.type = "delta" /\ f.seq \in 1 .. venue.seq /\ f.seq \notin lost
           /\ \A i \in 1 .. Len(wire') : wire'[i].type = "delta" /\ wire'[i].seq > f.seq
  <2>1. vendor # "alpaca"
    BY <1>0, <1>5 DEF Shaped
  <2>2. vendor = "coinbase" => /\ lost = {}
                               /\ \A i \in 1 .. Len(wire) : wire[i].type = "delta" => wire[i].seq = NoSeq
    BY <1>0 DEF Shaped
  <2>3. ASSUME vendor = "databento"
        PROVE  /\ f.type = "delta" /\ f.seq \in 1 .. venue.seq /\ f.seq \notin lost
               /\ \A i \in 1 .. Len(wire') : wire'[i].type = "delta" /\ wire'[i].seq > f.seq
    <3>1. /\ \A i \in 1 .. Len(wire) :
               wire[i].type = "delta" /\ wire[i].seq \in 1 .. venue.seq /\ wire[i].seq \notin lost
          /\ \A i, j \in 1 .. Len(wire) : i < j => wire[i].seq < wire[j].seq
      BY <1>0, <2>3 DEF Shaped
    <3>2. ASSUME NEW i \in 1 .. Len(wire')
          PROVE  wire'[i].type = "delta" /\ wire'[i].seq > f.seq
      <4>1. i + 1 \in 1 .. Len(wire) /\ 1 < i + 1 /\ wire'[i] = wire[i + 1]
        BY <1>1
      <4>2. f.seq < wire[i + 1].seq /\ f.seq \in Int /\ wire[i + 1].seq \in Int
        BY <1>5, <3>1, <4>1
      <4> QED BY <3>1, <4>1, <4>2
    <3> QED BY <1>5, <3>1, <3>2
  <2> QED BY <2>1, <2>2, <2>3
\* Behind the head every frame that sets a level is still to be applied.
<1>7. ASSUME NEW l \in Levels, NEW base \in Nat, NEW i \in 1 .. Len(wire'),
             SetsLevel(wire'[i], l), vendor = "databento" => base <= f.seq
      PROVE  Pending(wire'[i], l, base)
  <2>1. CASE vendor = "coinbase"
    <3>1. wire'[i] = wire[i + 1] /\ i + 1 \in 1 .. Len(wire)
      BY <1>1
    <3>2. wire'[i].type = "delta" => wire'[i].seq = NoSeq
      BY <1>6, <2>1, <3>1
    <3> QED BY <1>7, <3>2 DEF Pending
  <2>2. CASE vendor = "databento"
    <3>1. wire'[i].seq > base
      <4>1. wire'[i].seq > f.seq /\ f.seq \in Nat /\ wire'[i].seq \in Int
        <5>1. wire'[i] = wire[i + 1] /\ i + 1 \in 1 .. Len(wire)
          BY <1>1
        <5>2. wire[i + 1].seq \in 1 .. venue.seq
          BY <1>0, <2>2, <5>1 DEF Shaped
        <5> QED BY <1>2, <1>6, <2>2, <5>1, <5>2
      <4> QED BY <1>7, <2>2, <4>1
    <3> QED BY <1>7, <3>1 DEF Pending
  <2> QED BY <1>2, <1>6, <2>1, <2>2
\* The head is the newest word on a level no frame behind it sets.
<1>8. ASSUME link = "up", NEW l \in Levels, SetsLevel(f, l), \A m \in lost : m <= f.seq,
             \A i \in 1 .. Len(wire') : ~SetsLevel(wire'[i], l)
      PROVE  ValueSet(f, l) = venue.levels[l]
  <2>1. \A j \in 1 .. Len(wire) : SetsLevel(wire[j], l) => j <= 1
    <3> SUFFICES ASSUME NEW j \in 1 .. Len(wire), SetsLevel(wire[j], l), j # 1
                 PROVE  FALSE
      OBVIOUS
    <3>1. j - 1 \in 1 .. Len(wire') /\ wire'[j - 1] = wire[j]
      BY <1>1
    <3> QED BY <1>8, <3>1
  <2> QED BY <1>0, <1>5, <1>8, <2>1 DEF NewestWins
<1>9. /\ f.type = "book" => f.seq = 1
      /\ f.type = "delta" => f.seq \in {NoSeq} \cup 1 .. MaxSeq
  <2>1. f \in Frames
    BY <1>2, WireRead
  <2> QED BY <1>2, <2>1 DEF Frames
<1>10. sup'.book.seq <= venue.seq
  <2>1. CASE f.type = "book"
    BY <1>2, <1>3, <1>9, <2>1
  <2>2. CASE f.type = "delta"
    <3>1. f.seq # NoSeq => f.seq <= venue.seq
      BY <1>2, <1>5, <1>6, <2>2
    <3>2. sup'.book.seq \in {sup.book.seq, f.seq} /\ (sup'.book.seq = f.seq => f.seq # NoSeq \/ f.seq = sup.book.seq)
      BY <1>2, <1>3, <1>4, <2>2 DEF NoSeq
    <3> QED BY <1>2, <3>1, <3>2
  <2> QED BY <1>3, <2>1, <2>2 DEF BooksT, DeltasT
<1>11. TypeOK'
  <2>1. task'.at = "read" /\ task' = At(task'.at)
    BY <1>3 DEF At
  <2>2. told' \in {"none", "Degraded", "BookReady"}
    BY <1>0, <1>3 DEF TypeOK
  <2> QED BY <1>0, <1>1, <1>3, <2>1, <2>2 DEF TypeOK, SupT, ConsumerT, BookT, LevelsT
<1>12. Numbered'
  <2>1. task'.at = "read"
    BY <1>3 DEF At
  <2>2. \A i \in 1 .. Len(wire') : wire'[i].type = "record" => wire'[i].seq \in 1 .. venue.seq \cup {ClockSeq}
    BY <1>0, <1>1 DEF Numbered
  <2>3. SomeLast' = SomeLast
    BY <1>3, SomeLastIs
  <2> QED BY <1>0, <1>1, <1>3, <2>1, <2>2, <2>3 DEF Numbered
<1>13. Shaped'
  BY <1>1, <1>10
<1>14. ASSUME link = "up", sup'.book.status = "Healthy", NEW l \in Levels,
              \A m \in lost : m <= sup'.book.seq,
              \A i \in 1 .. Len(wire') : ~Pending(wire'[i], l, sup'.book.seq)
       PROVE  sup'.book.levels[l] = venue.levels[l]
  <2>1. CASE f.type = "book" /\ sup'.book.levels = f.levels /\ sup'.book.seq = f.seq
    <3>1. vendor = "coinbase" /\ lost = {}
      BY <1>2, <1>6, <2>1
    <3>2. f.seq \in Nat
      BY <1>9, <2>1
    <3>3. \A i \in 1 .. Len(wire') : ~SetsLevel(wire'[i], l)
      BY <1>7, <1>14, <2>1, <3>1, <3>2
    <3>4. SetsLevel(f, l) /\ ValueSet(f, l) = f.levels[l]
      BY <2>1 DEF SetsLevel, ValueSet
    <3>5. ValueSet(f, l) = venue.levels[l]
      BY <1>8, <1>14, <3>1, <3>3, <3>4
    <3> QED BY <2>1, <3>4, <3>5
  <2>2. CASE /\ f.type = "delta" /\ sup.book.status = "Healthy"
             /\ \/ f.seq = NoSeq /\ sup'.book.seq = sup.book.seq
                \/ f.seq = sup.book.seq + 1 /\ sup'.book.seq = f.seq
             /\ \A k \in Levels : sup'.book.levels[k] = IF k = f.level THEN f.qty ELSE sup.book.levels[k]
    <3>1. vendor = "databento" => f.seq = sup.book.seq + 1 /\ sup'.book.seq = f.seq
      BY <1>2, <1>6, <2>2 DEF NoSeq
    <3>2. sup'.book.seq \in Nat
      BY <1>2, <2>2
    <3>3. \A i \in 1 .. Len(wire') : ~SetsLevel(wire'[i], l)
      BY <1>2, <1>7, <1>14, <3>1, <3>2
    <3>4. CASE l = f.level
      <4>1. SetsLevel(f, l) /\ ValueSet(f, l) = f.qty
        BY <2>2, <3>4 DEF SetsLevel, ValueSet
      <4>2. \A m \in lost : m <= f.seq
        BY <1>2, <1>6, <1>14, <3>1
      <4>3. ValueSet(f, l) = venue.levels[l]
        BY <1>8, <1>14, <3>3, <4>1, <4>2
      <4> QED BY <2>2, <3>4, <4>1, <4>3
    <3>5. CASE l # f.level
      <4>1. Agrees(sup.book.levels, sup.book.seq)
        BY <1>0, <1>1, <1>14, <2>2 DEF Covered
      <4>2. \A m \in lost : m <= sup.book.seq
        <5>1. CASE vendor = "databento"
          <6>1. lost \subseteq 1 .. venue.seq /\ f.seq \notin lost
            BY <1>0, <1>6, <5>1 DEF Shaped
          <6> QED BY <1>2, <1>14, <3>1, <5>1, <6>1
        <5>2. CASE vendor = "coinbase"
          BY <1>6, <5>2
        <5> QED BY <1>2, <1>6, <5>1, <5>2
      <4>3. \A i \in 1 .. Len(wire) : ~Pending(wire[i], l, sup.book.seq)
        <5> TAKE i \in 1 .. Len(wire)
        <5>1. CASE i = 1
          BY <2>2, <3>5, <5>1 DEF Pending, SetsLevel
        <5>2. CASE i # 1
          <6>1. i - 1 \in 1 .. Len(wire') /\ wire'[i - 1] = wire[i]
            BY <1>1, <5>2
          <6>2. ~SetsLevel(wire[i], l)
            BY <3>3, <6>1
          <6> QED BY <6>2 DEF Pending
        <5> QED BY <5>1, <5>2
      <4>4. sup.book.levels[l] = venue.levels[l]
        BY <4>1, <4>2, <4>3 DEF Agrees
      <4> QED BY <2>2, <3>5, <4>4
    <3> QED BY <3>4, <3>5
  <2>3. CASE f.type = "delta" /\ sup'.book = sup.book /\ f.seq \in 1 .. sup.book.seq
    <3>1. Agrees(sup.book.levels, sup.book.seq)
      BY <1>0, <1>1, <1>14, <2>3 DEF Covered
    <3>2. \A k \in Levels : ~Pending(f, k, sup.book.seq)
      BY <1>2, <2>3 DEF Pending, NoSeq
    <3>3. \A k \in Levels :
            /\ \A m \in lost' : m <= sup.book.seq
            /\ \A i \in 1 .. Len(wire') : ~Pending(wire'[i], k, sup.book.seq)
            => sup.book.levels[k] = venue'.levels[k]
      BY <1>1, <1>2, <3>1, <3>2, PassedOver
    <3> QED BY <1>1, <1>14, <2>3, <3>3
  <2> QED BY <1>3, <1>4, <1>14, <2>1, <2>2, <2>3
<1>15. Covered'
  <2>1. task'.at = "read"
    BY <1>3 DEF At
  <2>2. ASSUME link' = "up", sup'.book.status = "Healthy"
        PROVE  Agrees(sup.book.levels, sup.book.seq)'
    BY <1>1, <1>14, <2>2 DEF Agrees
  <2> QED BY <2>1, <2>2 DEF Covered
<1>16. ReadyInv'
  <2> SUFFICES ASSUME vendor = "coinbase", told' = "BookReady"
               PROVE  sup'.book.status = "Healthy"
    BY <1>1 DEF ReadyInv
  <2>1. told' = told => sup.book.status = "Healthy"
    BY <1>0, <1>1 DEF ReadyInv
  <2>2. "BookReady" # "Degraded"
    OBVIOUS
  <2> QED BY <1>3, <2>1, <2>2
<1> QED BY <1>1, <1>11, <1>12, <1>13, <1>15, <1>16 DEF FeedInv

-----------------------------------------------------------------------------
(* The invariant holds of every behaviour.                                 *)

LEMMA InitHolds ==
  ASSUME Init
  PROVE  FeedInv
<1>0. MaxSeq \in Nat \ {0} /\ Sla \in Nat
  BY FeedAssumption
<1>1. /\ venue.seq = 1 /\ venue.levels = NoLevels /\ NoLevels \in LevelsT
      /\ link = "down" /\ wire = <<>> /\ wire \in Seq(Frames) /\ Len(wire) = 0
      /\ sup = NewSupervisor /\ task = At("sleep") /\ task.at = "sleep"
      /\ ticks = <<>> /\ ticks \in Seq(1 .. MaxSeq) /\ told = "none" /\ lost = {}
  BY DEF Init, At, NoLevels, LevelsT
<1>2. sup \in SupT /\ sup.book.seq = 0
  BY <1>0, <1>1 DEF NewSupervisor, NewConsumer, NewBook, SupT, ConsumerT, BookT
<1>3. TypeOK
  <2>1. vendor \in Vendors /\ venue \in [seq : 1 .. MaxSeq, levels : [Levels -> 0 .. 1]]
    BY <1>0, <1>1 DEF Init, LevelsT
  <2> QED BY <1>1, <1>2, <2>1 DEF TypeOK, SupT, ConsumerT, BookT, LevelsT
<1>4. Numbered
  BY <1>1 DEF Numbered, SomeLast
<1>5. Shaped
  BY <1>1, <1>2 DEF Shaped
<1>6. NewestWins /\ Covered /\ ReadyInv
  BY <1>1 DEF NewestWins, Covered, ReadyInv
<1> QED BY <1>3, <1>4, <1>5, <1>6 DEF FeedInv

\* The steps by the reader's names, whichever vendor's session takes them.
LEMMA Steps ==
  ASSUME Next
  PROVE  \/ VenueTrade \/ VenueQuote \/ (\E l \in Levels : VenueBook(l)) \/ Close
         \/ CoinbaseConnect \/ AlpacaConnect \/ DatabentoConnect
         \/ CoinbaseHttpFails \/ (vendor # "coinbase" /\ WithoutSnapshot)
         \/ Answer \/ TakeSnapshot \/ ReadFrame \/ Tick \/ Disconnected \/ PongFails
BY DEF Next, CoinbaseSession, AlpacaSession, DatabentoSession, AlpacaHttpFails, DatabentoHttpFails,
       Session

LEMMA NextKeeps ==
  ASSUME FeedInv, [Next]_vars
  PROVE  FeedInv'
<1>1. CASE VenueTrade BY <1>1, TradeKeeps
<1>2. CASE VenueQuote BY <1>2, QuoteKeeps
<1>3. ASSUME NEW l \in Levels, VenueBook(l) PROVE FeedInv' BY <1>3, ChangeKeeps
<1>4. CASE Close BY <1>4, CloseKeeps
<1>5. CASE CoinbaseConnect \/ AlpacaConnect \/ DatabentoConnect BY <1>5, ConnectKeeps
<1>6. CASE CoinbaseHttpFails \/ Disconnected \/ PongFails BY <1>6, SessionEndKeeps
<1>7. CASE vendor # "coinbase" /\ WithoutSnapshot BY <1>7, GoOnKeeps
<1>8. CASE Answer BY <1>8, AnswerKeeps
<1>9. CASE TakeSnapshot BY <1>9, TakeKeeps
<1>10. CASE ReadFrame /\ wire[1].type = "record" BY <1>10, ReadRecordKeeps
<1>11. CASE ReadFrame /\ wire[1].type # "record" BY <1>11, ReadBookKeeps
<1>12. CASE Tick BY <1>12, TickKeeps
<1>13. CASE UNCHANGED vars
  BY <1>13 DEF vars, FeedInv, TypeOK, Numbered, SomeLast, Shaped, NewestWins, Covered, Agrees, ReadyInv
<1> QED BY <1>1, <1>2, <1>3, <1>4, <1>5, <1>6, <1>7, <1>8, <1>9, <1>10, <1>11, <1>12, <1>13, Steps

LEMMA FeedInvHolds == Spec => []FeedInv
<1>1. Init => FeedInv
  BY InitHolds
<1>2. FeedInv /\ [Next]_vars => FeedInv'
  BY NextKeeps
<1> QED BY <1>1, <1>2, PTL DEF Spec

-----------------------------------------------------------------------------
(* The theorems.                                                           *)

\* Every variable has its type, whatever the venue sends and the socket loses.
THEOREM FeedTypeOK == Spec => []TypeOK
<1>1. FeedInv => TypeOK
  BY DEF FeedInv
<1> QED BY <1>1, FeedInvHolds, PTL

\* A session that has read everything it was sent, and missed no delta it could
\* not know of, holds the venue's book whenever it calls its own healthy
\* (ingest_snapshot taken while frames queue behind it, then apply_delta).
THEOREM BookIsVenues == Spec => []BookAgrees
<1>1. FeedInv => BookAgrees
  <2> SUFFICES ASSUME FeedInv, CaughtUp, sup.book.status = "Healthy", ~Unnoticed
               PROVE  sup.book.levels = venue.levels
    BY DEF BookAgrees
  <2>1. /\ task.at = "read" /\ link = "up" /\ wire = <<>> /\ Len(wire) = 0
        /\ sup \in SupT /\ venue.levels \in LevelsT /\ lost \subseteq 1 .. MaxSeq
    BY Typed DEF CaughtUp, FeedInv, TypeOK
  <2>2. Agrees(sup.book.levels, sup.book.seq)
    BY <2>1 DEF FeedInv, Covered
  <2>3. sup.book.seq \in Nat /\ MaxSeq \in Nat /\ sup.book.levels \in LevelsT
    BY <2>1, FeedAssumption DEF SupT, BookT
  <2>4. \A n \in lost : n <= sup.book.seq
    BY <2>1, <2>3 DEF Unnoticed
  <2>5. \A l \in Levels : sup.book.levels[l] = venue.levels[l]
    <3> TAKE l \in Levels
    <3>1. \A i \in 1 .. Len(wire) : ~Pending(wire[i], l, sup.book.seq)
      BY <2>1
    <3> QED BY <2>2, <2>4, <3>1 DEF Agrees
  <2> QED BY <2>1, <2>3, <2>5 DEF LevelsT
<1> QED BY <1>1, FeedInvHolds, PTL

\* Coinbase's clients are never left with "the book is ready" by a session that
\* reads on a book that is not healthy (the HTTP failure ends the session).
THEOREM ReadyMeansHealthy == Spec => []ReadyIsHealthy
<1>1. FeedInv => ReadyIsHealthy
  BY DEF FeedInv, ReadyInv, ReadyIsHealthy, EveryReadyIsHealthy
<1> QED BY <1>1, FeedInvHolds, PTL

\* A step publishes at most the next tick, of a number its venue has issued.
LEMMA StepPublishes ==
  ASSUME FeedInv, [Next]_vars
  PROVE  [Promise!Next]_(Promise!vars)
<1>0. TypeOK /\ Numbered /\ sup \in SupT /\ ticks \in Seq(1 .. MaxSeq) /\ MaxSeq \in Nat
      /\ venue.seq \in 1 .. MaxSeq /\ ClockSeq > MaxSeq + 1 /\ ClockSeq \in Nat
  BY Typed, FeedAssumption DEF FeedInv
<1>1. CASE ticks' = ticks /\ venue'.seq = venue.seq + 1
  BY <1>1 DEF Promise!Next, Promise!Issue
<1>2. CASE ticks' = ticks /\ venue' = venue
  BY <1>2 DEF Promise!vars
<1>3. CASE VenueTrade
  <2>1. venue'.seq = venue.seq + 1
    <3>1. venue \in [seq : 1 .. MaxSeq, levels : LevelsT]
      BY <1>0 DEF TypeOK, LevelsT
    <3> QED BY <1>3, <3>1 DEF VenueTrade
  <2> QED BY <1>1, <1>3, <2>1 DEF VenueTrade
<1>4. CASE \E l \in Levels : VenueBook(l)
  BY <1>1, <1>4 DEF VenueBook
<1>5. CASE VenueQuote \/ Close \/ CoinbaseHttpFails \/ WithoutSnapshot \/ Answer \/ PongFails
  BY <1>2, <1>5 DEF VenueQuote, Close, CoinbaseHttpFails, WithoutSnapshot, Answer, PongFails
<1>6. CASE CoinbaseConnect \/ AlpacaConnect \/ DatabentoConnect
  <2>1. PICK frames : Opened(frames)
    BY <1>6 DEF CoinbaseConnect, AlpacaConnect, DatabentoConnect
  <2> QED BY <1>0, <1>2, <2>1, ConnectionOpened
<1>7. CASE TakeSnapshot
  BY <1>0, <1>2, <1>7, SnapshotTaken DEF TakeSnapshot
<1>8. CASE ReadFrame /\ wire[1].type # "record"
  BY <1>0, <1>2, <1>8, BookRead DEF ReadFrame
<1>9. CASE ReadFrame /\ wire[1].type = "record"
  <2> DEFINE n == wire[1].seq
  <2>1. /\ venue' = venue
        /\ \/ ticks' = ticks
           \/ ~sup.consumer.degraded /\ n = sup.consumer.next /\ ticks' = Append(ticks, n)
    <3>1. venue' = venue
      BY <1>9 DEF ReadFrame
    <3> QED BY <1>0, <1>9, <3>1, RecordRead
  <2>2. CASE ~sup.consumer.degraded /\ n = sup.consumer.next /\ ticks' = Append(ticks, n)
    <3>1. sup.consumer.next \in SomeLast + 1 .. venue.seq + 1 /\ SomeLast \in 0 .. venue.seq
      BY <1>0, <1>9, <2>2 DEF Numbered, ReadFrame
    <3>2. n \in 1 .. venue.seq \cup {ClockSeq}
      <4>1. 1 \in 1 .. Len(wire)
        BY <1>9, ReadLeaves
      <4> QED BY <1>0, <1>9, <4>1 DEF Numbered
    <3>3. n \in 1 .. venue.seq /\ n > SomeLast
      BY <1>0, <2>2, <3>1, <3>2
    <3>4. Promise!Latest = SomeLast
      BY DEF Promise!Latest, SomeLast, Promise!Last
    <3>5. Promise!Publish(n)
      BY <2>1, <2>2, <3>3, <3>4 DEF Promise!Publish
    <3> QED BY <3>3, <3>5 DEF Promise!Next
  <2> QED BY <1>2, <2>1, <2>2
<1>10. CASE Tick
  BY <1>0, <1>2, <1>10, TickPublishes
<1>11. CASE Disconnected
  BY <1>0, <1>2, <1>11, EndPublishes
<1>12. CASE UNCHANGED vars
  BY <1>2, <1>12 DEF vars
<1> QED BY <1>3, <1>4, <1>5, <1>6, <1>7, <1>8, <1>9, <1>10, <1>11, <1>12, Steps

\* The ticks clients see come in the venue's order, each of a record it issued
\* and none twice, through gaps, snapshots and reconnects: FeedSession implements TickStream.
THEOREM TicksRefine == Spec => TicksInOrder
<1>1. Init => Promise!Init
  BY DEF Init, Promise!Init
<1>2. FeedInv /\ [Next]_vars => [Promise!Next]_(Promise!vars)
  BY StepPublishes
<1> QED BY <1>1, <1>2, FeedInvHolds, PTL DEF Spec, TicksInOrder, Promise!Spec

-----------------------------------------------------------------------------
(* Tokens.                                                                 *)

Tokens == [family : Nat, expires : Int, present : BOOLEAN, consumed : BOOLEAN]

AuthTyped(a) ==
  a \in [access : [Pairs \cup {Static} -> Tokens], refresh : [Pairs -> Tokens],
         revoked : SUBSET (Pairs \cup {Static}), revokedFamilies : SUBSET Nat,
         nextId : Nat, nextFamily : Nat \ {0}]

Live(a, n) == a.refresh[n].present /\ ~a.refresh[n].consumed

\* Families in use have been given out.
FamiliesIssued(a) ==
  \A n \in Pairs : a.refresh[n].present => a.refresh[n].family < a.nextFamily

\* Two refresh tokens that work are of two families.
LiveApart(a) ==
  \A m, n \in Pairs :
    Live(a, m) /\ Live(a, n) /\ a.refresh[m].family = a.refresh[n].family => m = n

AuthInv(a) == AuthTyped(a) /\ FamiliesIssued(a) /\ LiveApart(a)

LEMMA TokensAre ==
  /\ NoToken \in Tokens
  /\ \A f \in Nat, e \in Int : Token(f, e) \in Tokens
BY DEF NoToken, Token, Tokens

\* A pair minted for a family none of whose refresh tokens works.
LEMMA MintKeeps ==
  ASSUME NEW a, AuthInv(a), NEW family \in Nat, family < a.nextFamily, NEW t \in Nat,
         \A n \in Pairs : Live(a, n) => a.refresh[n].family # family
  PROVE  AuthInv(MintPair(a, family, t))
<1> DEFINE b == MintPair(a, family, t)
           k == a.nextId
<1>1. t + AccessTtl \in Int /\ t + RefreshTtl \in Int /\ k \in Nat
  BY HubAssumption DEF AuthInv, AuthTyped
<1>2. Token(family, t + AccessTtl) \in Tokens /\ Token(family, t + RefreshTtl) \in Tokens
  BY <1>1, TokensAre
<1>3. AuthTyped(b)
  <2>1. [a.access EXCEPT ![k] = Token(family, t + AccessTtl)] \in [Pairs \cup {Static} -> Tokens]
    BY <1>2 DEF AuthInv, AuthTyped
  <2>2. [a.refresh EXCEPT ![k] = Token(family, t + RefreshTtl)] \in [Pairs -> Tokens]
    BY <1>2 DEF AuthInv, AuthTyped
  <2>3. k + 1 \in Nat
    BY <1>1
  <2>4. QED
    BY <2>1, <2>2, <2>3 DEF AuthInv, AuthTyped, MintPair
<1>4. b.nextFamily = a.nextFamily
      /\ \A n \in Pairs : b.refresh[n] = IF n = k THEN Token(family, t + RefreshTtl) ELSE a.refresh[n]
  BY DEF AuthInv, AuthTyped, MintPair
<1>5. FamiliesIssued(b)
  BY <1>4 DEF AuthInv, FamiliesIssued, Token
<1>6. ASSUME NEW m \in Pairs, NEW n \in Pairs, Live(b, m), Live(b, n),
             b.refresh[m].family = b.refresh[n].family
      PROVE  m = n
  BY <1>4, <1>6 DEF AuthInv, LiveApart, Live, Token
<1>7. QED
  BY <1>3, <1>5, <1>6 DEF AuthInv, LiveApart

\* Tokens that are forgotten or consumed, whatever else is revoked.
LEMMA FewerKeep ==
  ASSUME NEW a, AuthInv(a), NEW b, AuthTyped(b), b.nextFamily = a.nextFamily,
         \A n \in Pairs : b.refresh[n] \in {a.refresh[n], NoToken, [a.refresh[n] EXCEPT !.consumed = TRUE]}
  PROVE  AuthInv(b)
<1>1. ASSUME NEW n \in Pairs, b.refresh[n].present
      PROVE  a.refresh[n].present /\ b.refresh[n].family = a.refresh[n].family
             /\ (~b.refresh[n].consumed => ~a.refresh[n].consumed)
  <2>1. a.refresh[n] \in Tokens
    BY DEF AuthInv, AuthTyped
  <2>2. b.refresh[n] # NoToken
    BY <1>1 DEF NoToken
  <2>3. CASE b.refresh[n] = a.refresh[n]
    BY <1>1, <2>3
  <2>4. CASE b.refresh[n] = [a.refresh[n] EXCEPT !.consumed = TRUE]
    BY <1>1, <2>1, <2>4 DEF Tokens
  <2>5. QED
    BY <2>2, <2>3, <2>4
<1>2. FamiliesIssued(b)
  BY <1>1 DEF AuthInv, FamiliesIssued
<1>3. LiveApart(b)
  BY <1>1 DEF AuthInv, LiveApart, Live
<1>4. QED
  BY <1>2, <1>3 DEF AuthInv

LEMMA RevokeFamilyKeeps ==
  ASSUME NEW a, AuthInv(a), NEW family \in Nat
  PROVE  AuthInv(RevokeFamily(a, family))
<1> DEFINE b == RevokeFamily(a, family)
<1>1. CASE family = 0
  BY <1>1 DEF RevokeFamily
<1>2. CASE family # 0
  <2>1. AuthTyped(b)
    BY <1>2, TokensAre, Zenon DEF AuthInv, AuthTyped, RevokeFamily
  <2>2. b.nextFamily = a.nextFamily /\ \A n \in Pairs : b.refresh[n] \in {a.refresh[n], NoToken}
    BY <1>2 DEF AuthInv, AuthTyped, RevokeFamily
  <2>3. QED
    BY <2>1, <2>2, FewerKeep
<1>3. QED
  BY <1>1, <1>2

LEMMA IssueKeeps ==
  ASSUME NEW a, AuthInv(a), NEW t \in Nat
  PROVE  AuthInv(Issue(a, t))
<1> DEFINE b == [a EXCEPT !.nextFamily = @ + 1]
<1>1. AuthTyped(b) /\ b.nextFamily = a.nextFamily + 1 /\ b.refresh = a.refresh
  <2>1. a.nextFamily + 1 \in Nat \ {0}
    BY DEF AuthInv, AuthTyped
  <2>2. QED
    BY <2>1 DEF AuthInv, AuthTyped
<1>2. a.nextFamily \in Nat /\ \A n \in Pairs : a.refresh[n].family \in Nat
  BY DEF AuthInv, AuthTyped, Tokens
<1>3. AuthInv(b)
  <2>1. FamiliesIssued(b)
    BY <1>1, <1>2 DEF AuthInv, FamiliesIssued
  <2>2. LiveApart(b)
    BY <1>1 DEF AuthInv, LiveApart, Live
  <2>3. QED
    BY <1>1, <2>1, <2>2 DEF AuthInv
<1>4. \A n \in Pairs : Live(b, n) => b.refresh[n].family # a.nextFamily
  BY <1>1, <1>2 DEF AuthInv, FamiliesIssued, Live
<1>5. a.nextFamily < b.nextFamily
  BY <1>1, <1>2
<1>6. AuthInv(MintPair(b, a.nextFamily, t))
  BY <1>2, <1>3, <1>4, <1>5, MintKeeps
<1>7. QED
  BY <1>6 DEF Issue

LEMMA RefreshKeeps ==
  ASSUME NEW a, AuthInv(a), NEW n \in Pairs, NEW t \in Nat
  PROVE  AuthInv(RefreshPair(a, n, t))
<1> DEFINE token == a.refresh[n]
           forgotten == [a EXCEPT !.refresh[n] = NoToken]
           spent == [a EXCEPT !.refresh[n].consumed = TRUE]
<1>0. token \in Tokens
  BY DEF AuthInv, AuthTyped
<1>1. AuthInv(forgotten)
  <2>1. AuthTyped(forgotten)
    BY TokensAre DEF AuthInv, AuthTyped
  <2>2. forgotten.nextFamily = a.nextFamily
        /\ \A m \in Pairs : forgotten.refresh[m] \in {a.refresh[m], NoToken}
    BY DEF AuthInv, AuthTyped
  <2>3. QED
    BY <2>1, <2>2, FewerKeep
<1>2. AuthInv(RevokeFamily(a, token.family))
  BY <1>0, RevokeFamilyKeeps DEF Tokens
<1>3. ASSUME token.present, ~token.consumed
      PROVE  AuthInv(MintPair(spent, token.family, t))
  <2>1. [token EXCEPT !.consumed = TRUE] \in Tokens
    BY <1>0 DEF Tokens
  <2>2. spent.nextFamily = a.nextFamily
        /\ \A m \in Pairs : spent.refresh[m] = IF m = n THEN [token EXCEPT !.consumed = TRUE]
                                               ELSE a.refresh[m]
    BY DEF AuthInv, AuthTyped
  <2>3. AuthTyped(spent)
    BY <2>1 DEF AuthInv, AuthTyped
  <2>4. AuthInv(spent)
    BY <2>2, <2>3, FewerKeep
  <2>5. \A m \in Pairs : Live(spent, m) => spent.refresh[m].family # token.family
    BY <1>0, <1>3, <2>2 DEF AuthInv, LiveApart, Live, Tokens
  <2>6. token.family \in Nat /\ token.family < spent.nextFamily
    BY <1>0, <1>3, <2>2 DEF AuthInv, FamiliesIssued, Tokens
  <2>7. QED
    BY <2>4, <2>5, <2>6, MintKeeps
<1>4. QED
  BY <1>1, <1>2, <1>3 DEF RefreshPair

LEMMA RevokeKeeps ==
  ASSUME NEW a, AuthInv(a)
  PROVE  /\ \A n \in Pairs \cup {Static} : AuthInv(RevokeAccess(a, n))
         /\ \A n \in Pairs : AuthInv(RevokeRefresh(a, n))
<1>1. ASSUME NEW n \in Pairs \cup {Static}
      PROVE  AuthInv(RevokeAccess(a, n))
  <2> DEFINE b == [a EXCEPT !.access[n] = NoToken, !.revoked = @ \cup {n}]
  <2>1. AuthTyped(b) /\ b.nextFamily = a.nextFamily /\ b.refresh = a.refresh
    BY TokensAre DEF AuthInv, AuthTyped
  <2>2. AuthInv(b)
    BY <2>1, FewerKeep
  <2>3. a.access[n].family \in Nat
    BY DEF AuthInv, AuthTyped, Tokens
  <2>4. QED
    BY <2>2, <2>3, RevokeFamilyKeeps DEF RevokeAccess
<1>2. ASSUME NEW n \in Pairs
      PROVE  AuthInv(RevokeRefresh(a, n))
  <2> DEFINE b == [a EXCEPT !.refresh[n] = NoToken]
  <2>1. AuthTyped(b)
    BY TokensAre DEF AuthInv, AuthTyped
  <2>2. b.nextFamily = a.nextFamily /\ \A m \in Pairs : b.refresh[m] \in {a.refresh[m], NoToken}
    BY DEF AuthInv, AuthTyped
  <2>3. AuthInv(b)
    BY <2>1, <2>2, FewerKeep
  <2>4. a.refresh[n].family \in Nat
    BY DEF AuthInv, AuthTyped, Tokens
  <2>5. QED
    BY <2>3, <2>4, RevokeFamilyKeeps DEF RevokeRefresh
<1>3. QED
  BY <1>1, <1>2

-----------------------------------------------------------------------------
(* Sessions.                                                               *)

Answers == {"Error", "Subscribed", "Heartbeat"}
Reasons == {"unknown_instrument", "too_many_subscriptions", "invalid_command", "revoked_token",
            "session_expired"}
Abouts == Instruments \cup Reasons \cup Nat \cup [instrument : Instruments, event : Nat]
Messages == [place : Nat, what : Answers \cup News, about : Abouts]
Sessions ==
  [token : Pairs \cup {Static}, subscriptions : SUBSET Instruments,
   outbound : Seq(Messages), dropped : Nat, activity : Nat, heartbeat : Nat, dead : BOOLEAN,
   sent : Seq(Messages), got : Seq(Messages), sweptAt : Nat \cup {NotYet}]

\* The market events queued for a session number at most last.
NewsUpTo(session, last) ==
  \A k \in 1 .. Len(session.sent) :
    session.sent[k].what \in News =>
      session.sent[k].about.event \in Nat /\ session.sent[k].about.event <= last

\* What reached the client or will is a part of what was queued, in its order.
InOrder(reached, sent) ==
  /\ \A k \in 1 .. Len(reached) :
       reached[k].place \in 1 .. Len(sent) /\ reached[k] = sent[reached[k].place]
  /\ \A j, k \in 1 .. Len(reached) : j < k => reached[j].place < reached[k].place

\* The newest message is in it, and the others are counted.
QueueInv(session) ==
  LET reached == Reached(session)
      last == Len(session.sent)
  IN  /\ InOrder(reached, session.sent)
      /\ last # 0 => Len(reached) # 0 /\ reached[Len(reached)] = session.sent[last]
      /\ session.dropped = last - Len(reached)

\* Nothing was queued, read or dropped between x and y.
SameQueue(x, y) == y.sent = x.sent /\ Reached(y) = Reached(x) /\ y.dropped = x.dropped

\* A session found with a bad token is dead, and was sent no news since.
SessionInv(session, published) ==
  /\ session \in Sessions
  /\ QueueInv(session)
  /\ NewsUpTo(session, published)
  /\ session.sweptAt # NotYet => session.dead /\ NewsUpTo(session, session.sweptAt)

HubInv ==
  /\ now \in Nat /\ events \in Nat /\ AuthInv(auth)
  /\ \A s \in DOMAIN sessions : SessionInv(sessions[s], events)

\* A message queued after all others.
LEMMA LaterInOrder ==
  ASSUME NEW sent \in Seq(Messages), NEW reached \in Seq(Messages), InOrder(reached, sent),
         NEW m \in Messages, m.place = Len(sent) + 1
  PROVE  InOrder(Append(reached, m), Append(sent, m))
<1> DEFINE n == Len(sent)
           l == Len(reached)
           after == Append(reached, m)
           queued == Append(sent, m)
<1>1. n \in Nat /\ l \in Nat
  BY LenProperties
<1>2. Len(after) = l + 1 /\ after[l + 1] = m /\ \A k \in 1 .. l : after[k] = reached[k]
  BY AppendProperties
<1>3. Len(queued) = n + 1 /\ queued[n + 1] = m /\ \A k \in 1 .. n : queued[k] = sent[k]
  BY AppendProperties
<1> HIDE DEF n, l, after, queued
<1>4. /\ \A k \in 1 .. l : reached[k].place \in 1 .. n /\ reached[k] = sent[reached[k].place]
      /\ \A j, k \in 1 .. l : j < k => reached[j].place < reached[k].place
  BY DEF InOrder, n, l
<1>5. m.place = n + 1
  BY DEF n
<1>6. \A k \in 1 .. l + 1 : after[k].place \in 1 .. n + 1 /\ after[k] = queued[after[k].place]
  BY <1>1, <1>2, <1>3, <1>4, <1>5, SMTT(60)
<1>7. ASSUME NEW j \in 1 .. l + 1, NEW k \in 1 .. l + 1, j < k
      PROVE  after[j].place < after[k].place
  <2>1. j \in 1 .. l /\ after[j] = reached[j] /\ reached[j].place \in 1 .. n
    BY <1>1, <1>2, <1>4, <1>7
  <2>2. CASE k = l + 1
    BY <1>1, <1>2, <1>5, <2>1, <2>2
  <2>3. CASE k \in 1 .. l
    BY <1>2, <1>4, <1>7, <2>1, <2>3
  <2>4. QED
    BY <1>1, <2>2, <2>3
<1>8. InOrder(after, queued)
  BY <1>2, <1>3, <1>6, <1>7 DEF InOrder
<1>9. QED
  BY <1>8 DEF after, queued

\* The oldest message waiting is dropped.
LEMMA DropInOrder ==
  ASSUME NEW sent \in Seq(Messages), NEW got \in Seq(Messages), NEW out \in Seq(Messages),
         out # <<>>, InOrder(got \o out, sent)
  PROVE  InOrder(got \o Tail(out), sent)
<1> DEFINE g == Len(got)
           o == Len(out)
           before == got \o out
           after == got \o Tail(out)
<1>1. g \in Nat /\ o \in Nat /\ o > 0
  BY LenProperties, EmptySeq
<1>2. Tail(out) \in Seq(Messages) /\ Len(Tail(out)) = o - 1
      /\ \A k \in 1 .. o - 1 : Tail(out)[k] = out[k + 1]
  BY HeadTailProperties
<1>3. /\ Len(before) = g + o
      /\ \A k \in 1 .. g + o : before[k] = IF k <= g THEN got[k] ELSE out[k - g]
  BY ConcatProperties
<1>4. /\ Len(after) = g + (o - 1)
      /\ \A k \in 1 .. g + (o - 1) : after[k] = IF k <= g THEN got[k] ELSE Tail(out)[k - g]
  BY <1>2, ConcatProperties
<1> HIDE DEF g, o, before, after
<1>5. ASSUME NEW k \in 1 .. g + (o - 1)
      PROVE  after[k] = before[IF k <= g THEN k ELSE k + 1]
  <2>1. CASE k <= g
    BY <1>1, <1>3, <1>4, <2>1
  <2>2. CASE k > g
    <3>1. k - g \in 1 .. o - 1 /\ k + 1 \in 1 .. g + o /\ (k + 1) - g = (k - g) + 1 /\ ~(k + 1 <= g)
      BY <1>1, <2>2
    <3>2. after[k] = out[(k - g) + 1]
      BY <1>1, <1>2, <1>4, <2>2, <3>1
    <3>3. before[k + 1] = out[(k + 1) - g]
      BY <1>3, <3>1
    <3>4. QED
      BY <1>1, <2>2, <3>1, <3>2, <3>3
  <2>3. QED
    BY <1>1, <2>1, <2>2
<1>6. /\ \A k \in 1 .. g + o : before[k].place \in 1 .. Len(sent) /\ before[k] = sent[before[k].place]
      /\ \A j, k \in 1 .. g + o : j < k => before[j].place < before[k].place
  BY <1>3 DEF InOrder, before
<1>7. \A k \in 1 .. g + (o - 1) : (IF k <= g THEN k ELSE k + 1) \in 1 .. g + o
  BY <1>1
<1>8. \A j, k \in 1 .. g + (o - 1) :
        j < k => (IF j <= g THEN j ELSE j + 1) < (IF k <= g THEN k ELSE k + 1)
  BY <1>1
<1>9. InOrder(after, sent)
  <2>1. \A k \in 1 .. g + (o - 1) :
          after[k].place \in 1 .. Len(sent) /\ after[k] = sent[after[k].place]
    BY <1>5, <1>6, <1>7
  <2>2. \A j, k \in 1 .. g + (o - 1) : j < k => after[j].place < after[k].place
    BY <1>5, <1>6, <1>7, <1>8
  <2>3. QED
    BY <1>4, <2>1, <2>2 DEF InOrder
<1>10. QED
  BY <1>9 DEF after

\* Queueing keeps the order, whether or not the queue is full.
LEMMA EnqueueInOrder ==
  ASSUME NEW x \in Sessions, QueueInv(x), NEW what \in Answers \cup News, NEW about \in Abouts
  PROVE  QueueInv(Enqueue(x, what, about))
<1> DEFINE m == Message(x, what, about)
           y == Enqueue(x, what, about)
           full == Len(x.outbound) >= Capacity
           rest == IF full THEN Tail(x.outbound) ELSE x.outbound
<1>1. x.sent \in Seq(Messages) /\ x.outbound \in Seq(Messages) /\ x.got \in Seq(Messages)
  BY DEF Sessions
<1>2. Len(x.sent) \in Nat /\ Len(x.outbound) \in Nat /\ Capacity \in Nat \ {0}
  BY <1>1, LenProperties, HubAssumption
<1>3. m \in Messages /\ m.place = Len(x.sent) + 1
  BY <1>2 DEF Message, Messages
<1>4. /\ y.sent = Append(x.sent, m) /\ y.got = x.got /\ y.outbound = Append(rest, m)
      /\ y.dropped = IF full THEN x.dropped + 1 ELSE x.dropped
  BY DEF Enqueue, Sessions
<1>5. full => x.outbound # <<>>
  BY <1>1, <1>2, EmptySeq
<1>6. rest \in Seq(Messages) /\ Len(rest) = IF full THEN Len(x.outbound) - 1 ELSE Len(x.outbound)
  BY <1>1, <1>5, HeadTailProperties
<1>7. InOrder(x.got \o rest, x.sent)
  BY <1>1, <1>5, DropInOrder DEF QueueInv, Reached
<1> HIDE DEF m, y, full, rest
<1>8. x.got \o rest \in Seq(Messages) /\ Len(x.got \o rest) = Len(x.got) + Len(rest)
  BY <1>1, <1>6, ConcatProperties
<1>9. Reached(y) = Append(x.got \o rest, m)
  <2>1. <<m>> \in Seq(Messages)
    BY <1>3
  <2>2. Append(rest, m) = rest \o <<m>> /\ Append(x.got \o rest, m) = (x.got \o rest) \o <<m>>
    BY <1>3, <1>6, <1>8, AppendIsConcat
  <2>3. \A s, t, u \in Seq(Messages) : (s \o t) \o u = s \o (t \o u)
    BY ConcatAssociative, SMTT(60)
  <2>4. (x.got \o rest) \o <<m>> = x.got \o (rest \o <<m>>)
    BY <1>1, <1>6, <2>1, <2>3, ZenonT(60)
  <2>5. QED
    BY <1>4, <2>2, <2>4 DEF Reached
<1>10. InOrder(Reached(y), y.sent)
  BY <1>1, <1>3, <1>4, <1>7, <1>8, <1>9, LaterInOrder
<1>11. /\ Len(Reached(y)) = Len(x.got) + Len(rest) + 1
       /\ Reached(y)[Len(x.got) + Len(rest) + 1] = m
       /\ Len(y.sent) = Len(x.sent) + 1 /\ y.sent[Len(x.sent) + 1] = m
  BY <1>1, <1>3, <1>4, <1>8, <1>9, AppendProperties
<1>12. x.dropped = Len(x.sent) - (Len(x.got) + Len(x.outbound))
  <2>1. Len(Reached(x)) = Len(x.got) + Len(x.outbound)
    BY <1>1, ConcatProperties DEF Reached
  <2>2. QED
    BY <2>1 DEF QueueInv
<1>13. Len(x.got) \in Nat
  BY <1>1, LenProperties
<1>14. y.dropped = Len(y.sent) - Len(Reached(y))
  <2>1. CASE full
    <3>1. y.dropped = x.dropped + 1 /\ Len(rest) = Len(x.outbound) - 1
      BY <1>4, <1>6, <2>1
    <3>2. QED
      BY <1>2, <1>11, <1>12, <1>13, <3>1
  <2>2. CASE ~full
    BY <1>2, <1>4, <1>6, <1>11, <1>12, <1>13, <2>2
  <2>3. QED
    BY <2>1, <2>2
<1>15. Len(Reached(y)) # 0 /\ Reached(y)[Len(Reached(y))] = y.sent[Len(y.sent)]
  <2>1. Len(rest) \in Nat
    BY <1>6, LenProperties
  <2>2. Len(Reached(y)) # 0
    BY <1>11, <1>13, <2>1
  <2>3. QED
    BY <1>11, <2>2
<1>16. QueueInv(y)
  BY <1>10, <1>14, <1>15 DEF QueueInv
<1>17. QED
  BY <1>16 DEF y

\* Queueing an answer to anyone, or news to a session not yet found out.
LEMMA EnqueueKeeps ==
  ASSUME NEW x, NEW e \in Nat, SessionInv(x, e), NEW what \in Answers \cup News, NEW about \in Abouts,
         what \in News => about.event \in Nat /\ about.event <= e /\ x.sweptAt = NotYet
  PROVE  /\ SessionInv(Enqueue(x, what, about), e)
         /\ Enqueue(x, what, about).dead = x.dead
<1> DEFINE m == Message(x, what, about)
           y == Enqueue(x, what, about)
<1>1. x.sent \in Seq(Messages) /\ x.outbound \in Seq(Messages) /\ x \in Sessions
  BY DEF SessionInv, Sessions
<1>2. m \in Messages /\ m.what = what /\ m.about = about
  BY <1>1 DEF Message, Messages
<1>3. Append(x.sent, m) \in Seq(Messages) /\ Append(x.outbound, m) \in Seq(Messages)
  BY <1>1, <1>2
<1>4. Len(x.outbound) >= Capacity => Append(Tail(x.outbound), m) \in Seq(Messages)
  <2>1. Capacity \in Nat \ {0}
    BY HubAssumption
  <2>2. Len(x.outbound) >= Capacity => x.outbound # <<>>
    BY <1>1, <2>1
  <2>3. Len(x.outbound) >= Capacity => Tail(x.outbound) \in Seq(Messages)
    BY <1>1, <2>2
  <2>4. QED
    BY <1>2, <2>3
<1>5. y \in Sessions /\ y.sent = Append(x.sent, m) /\ y.dead = x.dead /\ y.sweptAt = x.sweptAt
  <2>1. x.dropped + 1 \in Nat
    BY <1>1 DEF Sessions
  <2>2. QED
    BY <1>1, <1>3, <1>4, <2>1 DEF Enqueue, Sessions
<1>6. /\ Len(y.sent) = Len(x.sent) + 1 /\ y.sent[Len(x.sent) + 1] = m
      /\ \A k \in 1 .. Len(x.sent) : y.sent[k] = x.sent[k]
  BY <1>1, <1>2, <1>5
<1>7. Len(x.sent) \in Nat
  BY <1>1
<1>8. NewsUpTo(y, e)
  <2> SUFFICES ASSUME NEW k \in 1 .. Len(y.sent), y.sent[k].what \in News
               PROVE  y.sent[k].about.event \in Nat /\ y.sent[k].about.event <= e
    BY DEF NewsUpTo
  <2>1. CASE k = Len(x.sent) + 1
    BY <1>2, <1>6, <2>1
  <2>2. CASE k \in 1 .. Len(x.sent)
    BY <1>6, <2>2 DEF SessionInv, NewsUpTo
  <2>3. QED
    BY <1>6, <1>7, <2>1, <2>2
<1>9. ASSUME y.sweptAt # NotYet
      PROVE  y.dead /\ NewsUpTo(y, y.sweptAt)
  <2>1. x.dead /\ NewsUpTo(x, x.sweptAt) /\ what \notin News
    BY <1>5, <1>9 DEF SessionInv
  <2> SUFFICES ASSUME NEW k \in 1 .. Len(y.sent), y.sent[k].what \in News
               PROVE  y.sent[k].about.event \in Nat /\ y.sent[k].about.event <= x.sweptAt
    BY <1>5, <2>1 DEF NewsUpTo
  <2>2. k # Len(x.sent) + 1
    BY <1>2, <1>6, <2>1
  <2>3. k \in 1 .. Len(x.sent)
    BY <1>6, <1>7, <2>2
  <2>4. QED
    BY <1>6, <2>1, <2>3 DEF NewsUpTo
<1>10. QueueInv(y)
  BY <1>1, EnqueueInOrder DEF SessionInv
<1>11. QED
  BY <1>5, <1>8, <1>9, <1>10 DEF SessionInv

\* Answers and heartbeats are no news.
LEMMA CommandKeeps ==
  ASSUME NEW x, NEW e \in Nat, SessionInv(x, e),
         NEW what \in Answers, NEW about \in Abouts
  PROVE  SessionInv(Enqueue(x, what, about), e)
BY EnqueueKeeps DEF Answers, News

\* A change of a session that touches neither its queue's history nor the sweep.
LEMMA QuietKeeps ==
  ASSUME NEW x, NEW e \in Nat, SessionInv(x, e), NEW y \in Sessions,
         SameQueue(x, y), y.sweptAt = x.sweptAt, y.dead = x.dead
  PROVE  SessionInv(y, e)
BY DEF SessionInv, NewsUpTo, QueueInv, SameQueue

LEMMA DrainedKeeps ==
  ASSUME NEW x, NEW e \in Nat, SessionInv(x, e)
  PROVE  SessionInv(Drained(x), e)
<1>1. x \in Sessions /\ x.got \in Seq(Messages) /\ x.outbound \in Seq(Messages)
  BY DEF SessionInv, Sessions
<1>2. x.got \o x.outbound \in Seq(Messages) /\ <<>> \in Seq(Messages)
  BY <1>1
<1>3. /\ Drained(x) \in Sessions
      /\ Drained(x).sent = x.sent /\ Drained(x).sweptAt = x.sweptAt /\ Drained(x).dead = x.dead
      /\ Drained(x).got = x.got \o x.outbound /\ Drained(x).outbound = <<>>
      /\ Drained(x).dropped = x.dropped
  BY <1>1, <1>2 DEF Drained, Sessions
<1>4. (x.got \o x.outbound) \o <<>> = x.got \o x.outbound
  BY <1>2
<1>5. SameQueue(x, Drained(x))
  BY <1>3, <1>4 DEF SameQueue, Reached
<1>6. QED
  BY <1>3, <1>5, QuietKeeps

LEMMA HandledKeeps ==
  ASSUME NEW x, HubInv, SessionInv(x, events), NEW c \in Commands
  PROVE  SessionInv(Handled(x, c[1], c[2]), events)
<1> DEFINE i == c[2]
           touched == [x EXCEPT !.activity = now]
<1>0. events \in Nat /\ now \in Nat /\ x \in Sessions
  BY DEF HubInv, SessionInv
<1>1. /\ "unknown_instrument" \in Abouts /\ "too_many_subscriptions" \in Abouts
      /\ "invalid_command" \in Abouts /\ (i \in Instruments => i \in Abouts)
  BY DEF Abouts, Reasons
<1>2. touched \in Sessions /\ SameQueue(x, touched) /\ touched.sweptAt = x.sweptAt
      /\ touched.dead = x.dead /\ touched.subscriptions = x.subscriptions
  BY <1>0 DEF Sessions, SameQueue, Reached
<1>3. SessionInv(touched, events)
  BY <1>0, <1>2, QuietKeeps
<1>4. SessionInv(Subscribed(x, i), events)
  <2> DEFINE y == [touched EXCEPT !.subscriptions = @ \cup {i}]
  <2>1. ASSUME i \in Instruments
        PROVE  SessionInv(y, events)
    <3>1. touched.subscriptions \cup {i} \in SUBSET Instruments
      BY <1>2, <2>1 DEF Sessions
    <3>2. y \in Sessions /\ SameQueue(touched, y) /\ y.sweptAt = touched.sweptAt
          /\ y.dead = touched.dead
      BY <1>2, <3>1 DEF Sessions, SameQueue, Reached
    <3>3. QED
      BY <1>0, <1>3, <3>2, QuietKeeps
  <2>2. SessionInv(Enqueue(x, "Error", "unknown_instrument"), events)
    BY <1>0, <1>1, CommandKeeps DEF Answers
  <2>3. SessionInv(Enqueue(touched, "Error", "too_many_subscriptions"), events)
    BY <1>0, <1>1, <1>3, CommandKeeps DEF Answers
  <2>4. i \in Instruments => SessionInv(Enqueue(y, "Subscribed", i), events)
    BY <1>0, <1>1, <2>1, CommandKeeps DEF Answers
  <2>5. QED
    BY <2>2, <2>3, <2>4 DEF Subscribed
<1>5. SessionInv(Unsubscribed(x, i), events)
  <2> DEFINE y == [x EXCEPT !.activity = now, !.subscriptions = @ \ {i}]
  <2>1. y \in Sessions /\ SameQueue(x, y) /\ y.sweptAt = x.sweptAt /\ y.dead = x.dead
    BY <1>0 DEF Sessions, SameQueue, Reached
  <2>2. SessionInv(y, events)
    BY <1>0, <2>1, QuietKeeps
  <2>3. SessionInv(Enqueue(x, "Error", "unknown_instrument"), events)
    BY <1>0, <1>1, CommandKeeps DEF Answers
  <2>4. QED
    BY <2>2, <2>3 DEF Unsubscribed
<1>6. SessionInv(Enqueue(x, "Error", "invalid_command"), events)
  BY <1>0, <1>1, CommandKeeps DEF Answers
<1>7. c[1] \in {"subscribe", "unsubscribe", "heartbeat", "garbage"}
  <2>1. CASE c \in {"subscribe", "unsubscribe"} \X (Instruments \cup {"unknown"})
    BY <2>1
  <2>2. CASE c = <<"heartbeat", "">>
    BY <2>2, Zenon
  <2>3. CASE c = <<"garbage", "">>
    BY <2>3, Zenon
  <2>4. QED
    BY <2>1, <2>2, <2>3, Zenon DEF Commands
<1>8. QED
  BY <1>3, <1>4, <1>5, <1>6, <1>7 DEF Handled

LEMMA SweptKeeps ==
  ASSUME NEW x, HubInv, SessionInv(x, events)
  PROVE  SessionInv(Swept(x), events)
<1> DEFINE bad == ~Authenticates(auth, x.token, now)
           marked == [x EXCEPT !.sweptAt = IF bad /\ @ = NotYet THEN events ELSE @]
           ended == [marked EXCEPT !.dead = TRUE]
           beaten == [marked EXCEPT !.heartbeat = now]
<1>0. events \in Nat /\ now \in Nat /\ x \in Sessions /\ x.dropped \in Nat
  BY DEF HubInv, SessionInv, Sessions
<1>1. "revoked_token" \in Abouts /\ "session_expired" \in Abouts /\ Nat \subseteq Abouts
  BY DEF Abouts, Reasons
<1>2. /\ marked \in Sessions /\ marked.sent = x.sent /\ SameQueue(x, marked)
      /\ marked.dead = x.dead
      /\ marked.sweptAt = x.sweptAt \/ marked.sweptAt = events
      /\ ~bad => marked.sweptAt = x.sweptAt
  BY <1>0 DEF Sessions, SameQueue, Reached
<1>3. x.dead => SessionInv(marked, events)
  BY <1>2 DEF SessionInv, NewsUpTo, QueueInv, SameQueue
<1>4. SessionInv(ended, events)
  <2>1. ended \in Sessions /\ SameQueue(marked, ended) /\ ended.dead
        /\ (ended.sweptAt = x.sweptAt \/ ended.sweptAt = events)
    BY <1>2 DEF Sessions, SameQueue, Reached
  <2>2. SameQueue(x, ended)
    BY <1>2, <2>1 DEF SameQueue
  <2>3. QED
    BY <2>1, <2>2 DEF SessionInv, NewsUpTo, QueueInv, SameQueue
<1>5. ~bad => SessionInv(marked, events)
  BY <1>0, <1>2, QuietKeeps
<1>6. ~bad => SessionInv(beaten, events)
  <2>1. beaten \in Sessions /\ SameQueue(marked, beaten) /\ beaten.dead = marked.dead
        /\ beaten.sweptAt = marked.sweptAt
    BY <1>0, <1>2 DEF Sessions, SameQueue, Reached
  <2>2. QED
    BY <1>0, <1>5, <2>1, QuietKeeps
<1>7. SessionInv(Enqueue(ended, "Error", "revoked_token"), events)
      /\ SessionInv(Enqueue(ended, "Error", "session_expired"), events)
  BY <1>0, <1>1, <1>4, CommandKeeps DEF Answers
<1>8. ~bad => SessionInv(Enqueue(beaten, "Heartbeat", x.dropped), events)
  BY <1>0, <1>1, <1>6, CommandKeeps DEF Answers
<1>9. QED
  BY <1>3, <1>5, <1>7, <1>8, <1>0 DEF Swept, Sessions

-----------------------------------------------------------------------------
(* The hub.                                                                *)

\* A later event count bounds what an earlier one bounds.
LEMMA LaterKeeps ==
  ASSUME NEW x, NEW e \in Nat, SessionInv(x, e)
  PROVE  SessionInv(x, e + 1)
BY DEF SessionInv, NewsUpTo, QueueInv

LEMMA HubStarts == HubInit => HubInv
<1> SUFFICES ASSUME HubInit
             PROVE  HubInv
  OBVIOUS
<1>1. \A n \in Pairs \cup {Static} : (IF n \in Granted THEN Token(0, Never) ELSE NoToken) \in Tokens
  BY TokensAre DEF Never
<1>2. AuthTyped(NewAuth)
  BY <1>1, TokensAre DEF AuthTyped, NewAuth
<1>3. \A n \in Pairs : ~NewAuth.refresh[n].present
  BY DEF NewAuth, NoToken
<1>4. AuthInv(NewAuth)
  BY <1>2, <1>3 DEF AuthInv, FamiliesIssued, LiveApart, Live
<1>5. DOMAIN sessions = {}
  BY DEF HubInit
<1>6. QED
  BY <1>4, <1>5 DEF HubInit, HubInv

LEMMA ConnectionKeeps ==
  ASSUME HubInv, NEW n \in Pairs \cup {Static}, Connect(n)
  PROVE  HubInv'
<1> DEFINE fresh == [token |-> n, subscriptions |-> {}, outbound |-> <<>>, dropped |-> 0,
                     activity |-> now, heartbeat |-> now, dead |-> FALSE,
                     sent |-> <<>>, got |-> <<>>, sweptAt |-> NotYet]
<1>1. fresh \in Sessions
  BY DEF HubInv, Sessions, NotYet
<1>2. SessionInv(fresh, events)
  <2>1. Reached(fresh) = <<>> /\ Len(<<>>) = 0
    BY DEF Reached
  <2>2. InOrder(<<>>, <<>>)
    BY <2>1 DEF InOrder
  <2>3. fresh.sent = <<>> /\ fresh.dropped = 0
    OBVIOUS
  <2> HIDE DEF fresh
  <2>4. QueueInv(fresh)
    BY <2>1, <2>2, <2>3 DEF QueueInv
  <2>5. QED
    BY <1>1, <2>4 DEF SessionInv, NewsUpTo, fresh
<1>3. \A s \in DOMAIN sessions' :
        sessions'[s] = IF s \in DOMAIN sessions THEN sessions[s] ELSE fresh
  BY DEF Connect
<1>4. \A s \in DOMAIN sessions' : SessionInv(sessions'[s], events)
  BY <1>2, <1>3 DEF HubInv
<1>5. QED
  BY <1>4 DEF HubInv, Connect

LEMMA TextKeeps ==
  ASSUME HubInv, NEW s \in Ids, NEW c \in Commands, Text(s, c)
  PROVE  HubInv'
<1>1. s \in DOMAIN sessions /\ events \in Nat
  BY DEF Text, HubInv
<1>2. SessionInv(Drained(Handled(sessions[s], c[1], c[2])), events)
  BY <1>1, HandledKeeps, DrainedKeeps DEF HubInv
<1>3. \A t \in DOMAIN sessions' :
        sessions'[t] = IF t = s THEN Drained(Handled(sessions[s], c[1], c[2])) ELSE sessions[t]
  BY <1>1 DEF Text
<1>4. DOMAIN sessions' = DOMAIN sessions
  BY DEF Text
<1>5. \A t \in DOMAIN sessions' : SessionInv(sessions'[t], events)
  BY <1>2, <1>3, <1>4 DEF HubInv
<1>6. QED
  BY <1>5 DEF HubInv, Text

LEMMA PublishKeeps ==
  ASSUME HubInv, NEW i \in Instruments, NEW what \in Kinds, Publish(i, what)
  PROVE  HubInv'
<1> DEFINE about == [instrument |-> i, event |-> events + 1]
<1>1. events \in Nat /\ events + 1 \in Nat
  BY DEF HubInv
<1>2. what \in News /\ about \in Abouts /\ about.event = events + 1
  BY <1>1, HubAssumption DEF News, Abouts
<1>3. ASSUME NEW s \in DOMAIN sessions, Hears(sessions[s], i)
      PROVE  SessionInv(Enqueue(sessions[s], what, about), events + 1)
  <2>1. SessionInv(sessions[s], events + 1)
    BY <1>1, LaterKeeps DEF HubInv
  <2>2. sessions[s].sweptAt = NotYet
    BY <1>3 DEF HubInv, SessionInv, Hears
  <2>3. QED
    BY <1>1, <1>2, <2>1, <2>2, EnqueueKeeps
<1>4. \A s \in DOMAIN sessions : SessionInv(sessions[s], events + 1)
  BY <1>1, LaterKeeps DEF HubInv
<1>5. DOMAIN sessions' = DOMAIN sessions
  BY DEF Publish
<1>6. \A s \in DOMAIN sessions :
        sessions'[s] = IF Hears(sessions[s], i) THEN Enqueue(sessions[s], what, about) ELSE sessions[s]
  BY DEF Publish
<1>7. \A s \in DOMAIN sessions' : SessionInv(sessions'[s], events + 1)
  BY <1>3, <1>4, <1>5, <1>6
<1>8. QED
  BY <1>1, <1>7 DEF HubInv, Publish

LEMMA ClockTickKeeps ==
  ASSUME HubInv, NEW s \in Ids, ClockTick(s)
  PROVE  HubInv'
<1>1. events \in Nat
  BY DEF HubInv
<1>2. \A t \in DOMAIN sessions : SessionInv(Swept(sessions[t]), events)
  BY SweptKeeps DEF HubInv
<1>3. s \in DOMAIN sessions /\ SessionInv(Drained(Swept(sessions[s])), events)
  BY <1>1, <1>2, DrainedKeeps DEF ClockTick
<1>4. DOMAIN sessions' \subseteq DOMAIN sessions
  BY DEF ClockTick
<1>5. \A t \in DOMAIN sessions' :
        sessions'[t] = IF t = s THEN Drained(Swept(sessions[s])) ELSE Swept(sessions[t])
  BY <1>3 DEF ClockTick
<1>6. \A t \in DOMAIN sessions' : SessionInv(sessions'[t], events)
  BY <1>2, <1>3, <1>4, <1>5
<1>7. QED
  BY <1>6 DEF HubInv, ClockTick

\* The token endpoints.
LEMMA AuthoriseKeeps ==
  ASSUME HubInv, NEW state, AuthInv(state), Authorise(state)
  PROVE  HubInv'
BY DEF HubInv, Authorise

LEMMA HubSteps == HubInv /\ [HubNext]_hubVars => HubInv'
<1> SUFFICES ASSUME HubInv, [HubNext]_hubVars
             PROVE  HubInv'
  OBVIOUS
<1>1. AuthInv(auth) /\ now \in Nat
  BY DEF HubInv
<1>2. ASSUME NEW n \in Pairs \cup {Static}, Connect(n)
      PROVE  HubInv'
  BY <1>2, ConnectionKeeps
<1>3. ASSUME NEW n \in Pairs \cup {Static}, RevokeToken(n)
      PROVE  HubInv'
  BY <1>1, <1>3, RevokeKeeps, AuthoriseKeeps DEF RevokeToken
<1>4. ASSUME NEW n \in Pairs, RefreshToken(n)
      PROVE  HubInv'
  BY <1>1, <1>4, RefreshKeeps, AuthoriseKeeps DEF RefreshToken
<1>5. ASSUME NEW n \in Pairs, RevokeRefreshToken(n)
      PROVE  HubInv'
  BY <1>1, <1>5, RevokeKeeps, AuthoriseKeeps DEF RevokeRefreshToken
<1>6. ASSUME NEW s \in Ids, ClockTick(s)
      PROVE  HubInv'
  BY <1>6, ClockTickKeeps
<1>7. ASSUME NEW s \in Ids, Leave(s)
      PROVE  HubInv'
  BY <1>7 DEF HubInv, Leave
<1>8. ASSUME NEW s \in Ids, NEW c \in Commands, Text(s, c)
      PROVE  HubInv'
  BY <1>8, TextKeeps
<1>9. ASSUME NEW i \in Instruments, NEW what \in Kinds, Publish(i, what)
      PROVE  HubInv'
  BY <1>9, PublishKeeps
<1>10. CASE IssueToken
  BY <1>1, <1>10, IssueKeeps, AuthoriseKeeps DEF IssueToken
<1>11. CASE Time
  BY <1>11 DEF HubInv, Time
<1>12. CASE UNCHANGED hubVars
  BY <1>12 DEF HubInv, hubVars
<1>13. QED
  BY <1>2, <1>3, <1>4, <1>5, <1>6, <1>7, <1>8, <1>9, <1>10, <1>11, <1>12 DEF HubNext

LEMMA HubAlways == HubSpec => []HubInv
<1>1. QED
  BY HubStarts, HubSteps, PTL DEF HubSpec

\* Refresh tokens rotate (TokenAuth's refresh): whatever is issued, refreshed, presented
\* again and revoked, a family has at most one refresh token that works.
THEOREM RefreshRotates == HubSpec => []OneLiveRefresh
<1>1. HubInv => OneLiveRefresh
  <2> SUFFICES ASSUME HubInv, NEW f \in 1 .. auth.nextFamily
               PROVE  Cardinality({n \in Pairs : LET token == auth.refresh[n]
                        IN token.present /\ token.family = f /\ ~token.consumed}) <= 1
    BY DEF OneLiveRefresh
  <2> DEFINE good == {n \in Pairs : LET token == auth.refresh[n]
                        IN token.present /\ token.family = f /\ ~token.consumed}
  <2>1. \A m, n \in good : m = n
    BY DEF HubInv, AuthInv, LiveApart, Live
  <2>2. CASE good = {}
    BY <2>2, FS_EmptySet
  <2>3. CASE good # {}
    <3> HIDE DEF good
    <3>1. PICK n : n \in good
      BY <2>3
    <3>2. good = {n}
      BY <2>1, <3>1
    <3>3. Cardinality(good) = 1
      BY <3>2, FS_Singleton
    <3>4. QED
      BY <3>3 DEF good
  <2>4. QED
    BY <2>2, <2>3
<1>2. QED
  BY <1>1, HubAlways, PTL

\* publish and on_clock of the hub: once a sweep has found a session's token bad, no
\* event published after it is queued for that session.
THEOREM RevocationSilences == HubSpec => []SilentAfterRevocation
<1>1. HubInv => SilentAfterRevocation
  BY DEF HubInv, SessionInv, NewsUpTo, SilentAfterRevocation
<1>2. QED
  BY <1>1, HubAlways, PTL

\* enqueue and drain: whatever the capacity, a client reads what was queued for it, in
\* order and once, with the newest message always among it and every drop counted.
THEOREM QueueInOrder == HubSpec => []NewestInOrder
<1>1. HubInv => NewestInOrder
  <2> SUFFICES ASSUME HubInv, NEW s \in DOMAIN sessions
               PROVE  LET session == sessions[s]
                          reached == Reached(session)
                      IN  /\ \A k \in 1 .. Len(reached) : reached[k] = session.sent[reached[k].place]
                          /\ \A k \in 1 .. Len(reached) - 1 : reached[k].place < reached[k + 1].place
                          /\ session.sent # <<>> =>
                               reached # <<>> /\ Last(reached) = Last(session.sent)
                          /\ session.dropped = Len(session.sent) - Len(reached)
    BY DEF NewestInOrder
  <2> DEFINE x == sessions[s]
  <2>1. QueueInv(x) /\ x.sent \in Seq(Messages) /\ x.got \in Seq(Messages) /\ x.outbound \in Seq(Messages)
    BY DEF HubInv, SessionInv, Sessions
  <2>2. Reached(x) \in Seq(Messages)
    BY <2>1 DEF Reached
  <2>3. x.sent # <<>> => Len(x.sent) # 0
    BY <2>1
  <2>4. Len(Reached(x)) # 0 => Reached(x) # <<>>
    BY <2>2
  <2>5. Len(Reached(x)) \in Nat
    BY <2>2
  <2>6. \A k \in 1 .. Len(Reached(x)) - 1 : Reached(x)[k].place < Reached(x)[k + 1].place
    BY <2>1, <2>5 DEF QueueInv, InOrder
  <2>7. QED
    BY <2>1, <2>3, <2>4, <2>6 DEF QueueInv, InOrder, Last
<1>2. QED
  BY <1>1, HubAlways, PTL

-----------------------------------------------------------------------------
(* The archive.                                                            *)

\* A set of naturals has a least element.
LEMMA LeastNumber ==
  ASSUME NEW Some \in SUBSET Nat, Some # {}
  PROVE  \E n \in Some : \A m \in Some : n <= m
<1> DEFINE Less == {ss \in Nat \X Nat : ss[1] < ss[2]}
<1>1. IsWellFoundedOn(Less, Nat)
  BY NatLessThanWellFounded DEF OpToRel
<1>2. PICK n \in Some : \A m \in Some : <<m, n>> \notin Less
  <2> HIDE DEF Less
  <2> QED BY <1>1, WFMin
<1>3. ASSUME NEW m \in Some, m < n PROVE <<m, n>> \in Less
  BY <1>3
<1> HIDE DEF Less
<1>4. \A m \in Some : ~(m < n)
  BY <1>2, <1>3
<1> QED BY <1>4

\* Max and Min are the elements they should be.
LEMMA MaxEq ==
  ASSUME NEW S, S \subseteq Int, NEW m \in S, \A x \in S : x <= m
  PROVE  Max(S) = m
<1>1. ASSUME NEW x \in S, \A y \in S : x >= y PROVE x = m
  BY <1>1
<1>2. \A y \in S : m >= y
  OBVIOUS
<1> QED BY <1>1, <1>2 DEF Max

\* And of Min.
LEMMA MinEq ==
  ASSUME NEW S, S \subseteq Int, NEW m \in S, \A x \in S : m <= x
  PROVE  Min(S) = m
<1>1. ASSUME NEW x \in S, \A y \in S : x =< y PROVE x = m
  BY <1>1
<1>2. \A y \in S : m =< y
  OBVIOUS
<1> QED BY <1>1, <1>2 DEF Min

\* How many elements of S come after x.
Above(S, x) == {y \in S : y > x}
Below(S, x) == {y \in S : y < x}

\* Of two elements the greater has fewer above it, the smaller fewer below.
LEMMA AboveLess ==
  ASSUME NEW S, S \subseteq Int, IsFiniteSet(S), NEW x \in S, NEW y \in S, x < y
  PROVE  /\ Cardinality(Above(S, y)) < Cardinality(Above(S, x))
         /\ Cardinality(Below(S, x)) < Cardinality(Below(S, y))
<1>1. \A z \in S : IsFiniteSet(Above(S, z)) /\ IsFiniteSet(Below(S, z))
  BY FS_Subset DEF Above, Below
<1>0. x \in Int /\ y \in Int /\ \A z \in S : z \in Int
  OBVIOUS
<1>2. Above(S, y) \subseteq Above(S, x) /\ y \in Above(S, x) /\ y \notin Above(S, y)
  <2>1. \A z \in Above(S, y) : z \in Above(S, x)
    BY <1>0 DEF Above
  <2>2. y \in Above(S, x) /\ y \notin Above(S, y)
    BY <1>0 DEF Above
  <2> QED BY <2>1, <2>2
<1>3. Below(S, x) \subseteq Below(S, y) /\ x \in Below(S, y) /\ x \notin Below(S, x)
  <2>1. \A z \in Below(S, x) : z \in Below(S, y)
    BY <1>0 DEF Below
  <2>2. x \in Below(S, y) /\ x \notin Below(S, x)
    BY <1>0 DEF Below
  <2> QED BY <2>1, <2>2
<1>4. Cardinality(Above(S, y)) < Cardinality(Above(S, x))
  BY <1>1, <1>2, FS_Subset, FS_CardinalityType
<1>5. Cardinality(Below(S, x)) < Cardinality(Below(S, y))
  BY <1>1, <1>3, FS_Subset, FS_CardinalityType
<1> QED BY <1>4, <1>5

\* A finite set of integers has a greatest element, the one with the fewest above it,
\* and it is Max.
LEMMA MaxIs ==
  ASSUME NEW S, S \subseteq Int, IsFiniteSet(S), S # {}
  PROVE  Max(S) \in S /\ \A x \in S : x <= Max(S)
<1> DEFINE Counts == {Cardinality(Above(S, x)) : x \in S}
<1>1. \A x \in S : Cardinality(Above(S, x)) \in Nat
  BY FS_Subset, FS_CardinalityType DEF Above
<1>2. PICK n \in Counts : \A m \in Counts : n <= m
  <2>1. Counts \in SUBSET Nat /\ Counts # {}
    BY <1>1
  <2> HIDE DEF Counts
  <2> QED BY <2>1, LeastNumber
<1>3. PICK x \in S : n = Cardinality(Above(S, x))
  BY <1>2
<1>4. ASSUME NEW y \in S, x < y PROVE FALSE
  <2>1. Cardinality(Above(S, y)) < Cardinality(Above(S, x))
    BY <1>4, AboveLess
  <2>2. Cardinality(Above(S, x)) <= Cardinality(Above(S, y))
    BY <1>2, <1>3
  <2> QED BY <1>1, <2>1, <2>2
<1>5. \A y \in S : y <= x
  BY <1>4
<1> QED BY <1>5, MaxEq

\* And a least one, which is Min.
LEMMA MinIs ==
  ASSUME NEW S, S \subseteq Int, IsFiniteSet(S), S # {}
  PROVE  Min(S) \in S /\ \A x \in S : Min(S) <= x
<1> DEFINE Counts == {Cardinality(Below(S, x)) : x \in S}
<1>1. \A x \in S : Cardinality(Below(S, x)) \in Nat
  BY FS_Subset, FS_CardinalityType DEF Below
<1>2. PICK n \in Counts : \A m \in Counts : n <= m
  <2>1. Counts \in SUBSET Nat /\ Counts # {}
    BY <1>1
  <2> HIDE DEF Counts
  <2> QED BY <2>1, LeastNumber
<1>3. PICK x \in S : n = Cardinality(Below(S, x))
  BY <1>2
<1>4. ASSUME NEW y \in S, y < x PROVE FALSE
  <2>1. Cardinality(Below(S, y)) < Cardinality(Below(S, x))
    BY <1>4, AboveLess
  <2>2. Cardinality(Below(S, x)) <= Cardinality(Below(S, y))
    BY <1>2, <1>3
  <2> QED BY <1>1, <2>1, <2>2
<1>5. \A y \in S : x <= y
  BY <1>4
<1> QED BY <1>5, MinEq

\* Division keeps the order of times.
LEMMA DivGrows ==
  ASSUME NEW d \in Nat \ {0}, NEW s \in Nat, NEW t \in Nat, s <= t
  PROVE  s \div d <= t \div d
<1> DEFINE p == s \div d
           q == t \div d
<1>1. p \in Nat /\ q \in Nat /\ d * p <= s /\ t < d * (q + 1)
  OBVIOUS
<1> HIDE DEF p, q
<1>2. SUFFICES ASSUME q + 1 <= p PROVE FALSE
  BY <1>1 DEF p, q
<1>3. d * (q + 1) <= d * p
  BY <1>1, <1>2
<1> QED BY <1>1, <1>3

\* Buckets follow the times.
LEMMA BucketsGrow ==
  ASSUME NEW d \in Nat \ {0}, NEW s \in Nat, NEW t \in Nat
  PROVE  /\ Bucket(d, t) \in Nat
         /\ s <= t => Bucket(d, s) <= Bucket(d, t)
         /\ s \div d < t \div d => Bucket(d, s) < Bucket(d, t)
<1> DEFINE p == s \div d
           q == t \div d
<1>1. p \in Nat /\ q \in Nat /\ (s <= t => p <= q)
  BY DivGrows
<1>2. Bucket(d, s) = p * d /\ Bucket(d, t) = q * d
  BY DEF Bucket
<1> HIDE DEF p, q
<1>3. q * d \in Nat
  BY <1>1
<1>4. p <= q => p * d <= q * d
  BY <1>1
<1>5. p < q => p * d < q * d
  <2> HAVE p < q
  <2>1. p + 1 <= q
    BY <1>1
  <2>2. (p + 1) * d <= q * d
    BY <1>1, <2>1
  <2>3. (p + 1) * d = p * d + d /\ p * d \in Nat
    BY <1>1
  <2> QED BY <1>3, <2>2, <2>3
<1>6. s <= t => Bucket(d, s) <= Bucket(d, t)
  BY <1>1, <1>2, <1>4
<1>7. s \div d < t \div d => Bucket(d, s) < Bucket(d, t)
  BY <1>2, <1>5 DEF p, q
<1> QED BY <1>2, <1>3, <1>6, <1>7

Rec == [kind : {"Trade", "Bbo"}, seq : Nat, ts : Nat, price : Int, qty : Nat]

\* K is J with r at its end.
Grown(J, K, r) ==
  /\ r \in Rec /\ Len(J) \in Nat
  /\ DOMAIN J = 1 .. Len(J) /\ DOMAIN K = 1 .. Len(J) + 1
  /\ K[Len(J) + 1] = r
  /\ \A i \in 1 .. Len(J) : J[i] \in Rec /\ K[i] = J[i]

\* The journal after a record was kept (HistoricalArchive::ingest).
LEMMA AppendGrows ==
  ASSUME NEW J \in Seq(Rec), NEW r \in Rec
  PROVE  Grown(J, Append(J, r), r) /\ Append(J, r) \in Seq(Rec)
<1>1. Append(J, r) \in Seq(Rec) /\ Len(Append(J, r)) = Len(J) + 1
  OBVIOUS
<1>2. DOMAIN J = 1 .. Len(J) /\ DOMAIN Append(J, r) = 1 .. Len(J) + 1 /\ Len(J) \in Nat
  BY <1>1
<1>3. Append(J, r)[Len(J) + 1] = r
  OBVIOUS
<1>4. ASSUME NEW i \in 1 .. Len(J) PROVE J[i] \in Rec /\ Append(J, r)[i] = J[i]
  OBVIOUS
<1> QED BY <1>1, <1>2, <1>3, <1>4 DEF Grown

\* The prints of a bucket are finitely many places of the journal.
LEMMA PrintsPlaces ==
  ASSUME NEW J, Len(J) \in Nat, DOMAIN J = 1 .. Len(J), NEW d, NEW b
  PROVE  Prints(J, d, b) \subseteq 1 .. Len(J) /\ IsFiniteSet(Prints(J, d, b))
<1>1. Prints(J, d, b) \subseteq 1 .. Len(J)
  BY DEF Prints
<1>2. IsFiniteSet(1 .. Len(J))
  BY FS_Interval
<1> QED BY <1>1, <1>2, FS_Subset

\* A record adds its own place to its bucket's prints and changes no other bucket's.
LEMMA PrintsGrown ==
  ASSUME NEW J, NEW K, NEW r, Grown(J, K, r), NEW d, NEW b
  PROVE  Prints(K, d, b) = IF r.kind = "Trade" /\ Bucket(d, r.ts) = b
                           THEN Prints(J, d, b) \cup {Len(J) + 1} ELSE Prints(J, d, b)
<1> DEFINE n == Len(J) + 1
           hit == r.kind = "Trade" /\ Bucket(d, r.ts) = b
<1>1. \A i \in 1 .. Len(J) : i \in Prints(K, d, b) <=> i \in Prints(J, d, b)
  BY DEF Grown, Prints
<1>2. n \in Prints(K, d, b) <=> hit
  BY DEF Grown, Prints
<1>3. Prints(J, d, b) \subseteq 1 .. Len(J) /\ Prints(K, d, b) \subseteq (1 .. Len(J)) \cup {n}
  BY DEF Grown, Prints
<1> HIDE DEF hit, n
<1>4. CASE hit
  BY <1>1, <1>2, <1>3, <1>4 DEF hit, n
<1>5. CASE ~hit
  <2>1. Prints(K, d, b) = Prints(J, d, b)
    BY <1>1, <1>2, <1>3, <1>5
  <2> QED BY <2>1, <1>5 DEF hit
<1> QED BY <1>4, <1>5

\* A bucket is one of the journal if it has a print.
LEMMA InBuckets ==
  ASSUME NEW J, NEW d, NEW b
  PROVE  b \in Buckets(J, d) <=> Prints(J, d, b) # {}
BY DEF Buckets, Prints

\* A trade adds its bucket, another record none.
LEMMA BucketsGrown ==
  ASSUME NEW J, NEW K, NEW r, Grown(J, K, r), NEW d
  PROVE  Buckets(K, d) = IF r.kind = "Trade" THEN Buckets(J, d) \cup {Bucket(d, r.ts)}
                         ELSE Buckets(J, d)
<1>1. \A b : b \in Buckets(K, d) <=>
        b \in Buckets(J, d) \/ (r.kind = "Trade" /\ Bucket(d, r.ts) = b)
  <2> TAKE b
  <2>1. b \in Buckets(J, d) <=> Prints(J, d, b) # {}
    BY InBuckets
  <2>2. b \in Buckets(K, d) <=> Prints(K, d, b) # {}
    BY InBuckets
  <2>3. Prints(K, d, b) = IF r.kind = "Trade" /\ Bucket(d, r.ts) = b
                           THEN Prints(J, d, b) \cup {Len(J) + 1} ELSE Prints(J, d, b)
    BY PrintsGrown
  <2> QED BY <2>1, <2>2, <2>3
<1>2. CASE r.kind = "Trade"
  <2>1. \A b : b \in Buckets(K, d) <=> b \in Buckets(J, d) \cup {Bucket(d, r.ts)}
    BY <1>1, <1>2
  <2>2. Buckets(K, d) = Buckets(J, d) \cup {Bucket(d, r.ts)}
    BY <2>1
  <2> QED BY <2>2, <1>2
<1>3. CASE r.kind # "Trade"
  <2>1. \A b : b \in Buckets(K, d) <=> b \in Buckets(J, d)
    BY <1>1, <1>3
  <2>2. Buckets(K, d) = Buckets(J, d)
    BY <2>1
  <2> QED BY <2>2, <1>3
<1> QED BY <1>2, <1>3

\* A print is prompt if none of a later bucket came before it; whatever comes later
\* does not change that.
LEMMA PromptGrown ==
  ASSUME NEW J, NEW K, NEW r, Grown(J, K, r), NEW d, NEW b,
         b \in Int, \A c \in Buckets(J, d) : c \in Int
  PROVE  Prompt(K, d, b) =
           IF r.kind = "Trade" /\ Bucket(d, r.ts) = b /\ \A c \in Buckets(J, d) : c <= b
           THEN Prompt(J, d, b) \cup {Len(J) + 1} ELSE Prompt(J, d, b)
<1> DEFINE n == Len(J) + 1
           hit == r.kind = "Trade" /\ Bucket(d, r.ts) = b
           top == \A c \in Buckets(J, d) : c <= b
           Early(L, i) == \A j \in 1 .. i - 1 : L[j].kind = "Trade" => Bucket(d, L[j].ts) <= b
<1>0. \A L, i : i \in Prompt(L, d, b) <=> i \in Prints(L, d, b) /\ Early(L, i)
  BY DEF Prompt
<1>1. \A i \in 1 .. Len(J) : Early(K, i) <=> Early(J, i)
  BY DEF Grown
<1>2. Early(K, n) <=> top
  <2>1. Early(K, n) <=> \A j \in 1 .. Len(J) : J[j].kind = "Trade" => Bucket(d, J[j].ts) <= b
    BY DEF Grown
  <2>2. DOMAIN J = 1 .. Len(J)
    BY DEF Grown
  <2>3. (\A j \in DOMAIN J : J[j].kind = "Trade" => Bucket(d, J[j].ts) <= b) <=> top
    BY DEF Buckets
  <2> QED BY <2>1, <2>2, <2>3
<1>3. Prints(K, d, b) = IF hit THEN Prints(J, d, b) \cup {n} ELSE Prints(J, d, b)
  BY PrintsGrown
<1>4. Prints(J, d, b) \subseteq 1 .. Len(J) /\ n \notin 1 .. Len(J)
  BY DEF Grown, Prints
<1> HIDE DEF n, hit, top, Early
<1>5. \A i : i \in Prompt(K, d, b) <=> i \in Prompt(J, d, b) \/ (i = n /\ hit /\ top)
  <2> TAKE i
  <2>1. i \in Prompt(K, d, b) <=> i \in Prints(K, d, b) /\ Early(K, i)
    BY <1>0
  <2>2. i \in Prompt(J, d, b) <=> i \in Prints(J, d, b) /\ Early(J, i)
    BY <1>0
  <2>3. i \in Prints(J, d, b) => (Early(K, i) <=> Early(J, i)) /\ i # n
    BY <1>1, <1>4
  <2>4. i = n => (Early(K, i) <=> top)
    BY <1>2
  <2> QED BY <2>1, <2>2, <2>3, <2>4, <1>3
<1>6. CASE hit /\ top
  <2>1. Prompt(K, d, b) = Prompt(J, d, b) \cup {n}
    BY <1>5, <1>6
  <2> QED BY <2>1, <1>6 DEF hit, top, n
<1>7. CASE ~(hit /\ top)
  <2>1. Prompt(K, d, b) = Prompt(J, d, b)
    BY <1>5, <1>7
  <2> QED BY <2>1, <1>7 DEF hit, top
<1> QED BY <1>6, <1>7

\* The values of a function on a finite set are finitely many.
LEMMA ImageFinite ==
  ASSUME NEW f, IsFiniteSet(DOMAIN f), f = [x \in DOMAIN f |-> f[x]]
  PROVE  IsFiniteSet({f[x] : x \in DOMAIN f})
<1> DEFINE S == DOMAIN f
           T == {f[x] : x \in DOMAIN f}
<1>1. f \in [S -> T]
  OBVIOUS
<1>2. \A t \in T : \E s \in S : f[s] = t
  OBVIOUS
<1>3. IsFiniteSet(S)
  OBVIOUS
<1> HIDE DEF S, T
<1>4. f \in Surjection(S, T)
  BY <1>1, <1>2 DEF Surjection
<1>5. IsFiniteSet(T)
  BY <1>3, <1>4, FS_Surjection
<1> QED BY <1>5 DEF T

\* The prices of some of the prints.
PricesAt(J, places) == {J[i].price : i \in places}

\* The prices of finitely many prints are finitely many.
LEMMA PricesFinite ==
  ASSUME NEW J, NEW places, IsFiniteSet(places)
  PROVE  IsFiniteSet(PricesAt(J, places))
<1> DEFINE f == [i \in places |-> J[i].price]
<1>1. DOMAIN f = places /\ f = [i \in DOMAIN f |-> f[i]] /\ PricesAt(J, places) = {f[i] : i \in DOMAIN f}
  BY DEF PricesAt
<1> HIDE DEF f
<1> QED BY <1>1, ImageFinite

Lot(J, i) == {i} \X (1 .. J[i].qty)

\* A print has as many lots as its quantity says.
LEMMA LotCount ==
  ASSUME NEW J, NEW i, J[i].qty \in Nat
  PROVE  IsFiniteSet(Lot(J, i)) /\ Cardinality(Lot(J, i)) = J[i].qty
<1> DEFINE q == J[i].qty
           T == 1 .. q
<1>0. q \in Nat
  OBVIOUS
<1> HIDE DEF q
<1>1. IsFiniteSet(T) /\ Cardinality(T) = q
  BY <1>0, FS_Interval
<1>2. IsFiniteSet({i}) /\ Cardinality({i}) = 1
  BY FS_Singleton
<1> HIDE DEF T
<1>3. IsFiniteSet({i} \X T) /\ Cardinality({i} \X T) = Cardinality({i}) * Cardinality(T)
  BY <1>1, <1>2, FS_Product
<1>4. IsFiniteSet({i} \X T) /\ Cardinality({i} \X T) = q
  BY <1>0, <1>1, <1>2, <1>3
<1> QED BY <1>4 DEF Lot, T, q

\* Finitely many prints have finitely many lots.
LEMMA LotsFinite ==
  ASSUME NEW J, NEW places, IsFiniteSet(places), \A i \in places : J[i].qty \in Nat
  PROVE  IsFiniteSet(LotsAt(J, places)) /\ Cardinality(LotsAt(J, places)) \in Nat
<1> DEFINE f == [i \in places |-> Lot(J, i)]
           S == {f[i] : i \in DOMAIN f}
<1>1. DOMAIN f = places /\ f = [i \in DOMAIN f |-> f[i]]
  OBVIOUS
<1>2. \A T \in S : IsFiniteSet(T)
  BY LotCount
<1>3. LotsAt(J, places) = UNION S
  BY DEF LotsAt, Lot
<1> HIDE DEF f
<1>4. IsFiniteSet(S)
  BY <1>1, ImageFinite
<1> HIDE DEF S
<1>5. IsFiniteSet(UNION S)
  BY <1>2, <1>4, FS_UNION
<1> QED BY <1>3, <1>5, FS_CardinalityType

\* The prints of a smaller journal have the same lots in a greater one.
LEMMA LotsSame ==
  ASSUME NEW J, NEW K, NEW places, \A i \in places : J[i] = K[i]
  PROVE  LotsAt(J, places) = LotsAt(K, places)
BY DEF LotsAt

\* A further print adds its quantity to the bar's volume.
LEMMA LotsGrow ==
  ASSUME NEW J, NEW places, NEW n, n \notin places, IsFiniteSet(places),
         J[n].qty \in Nat, \A i \in places : J[i].qty \in Nat
  PROVE  Cardinality(LotsAt(J, places \cup {n})) = Cardinality(LotsAt(J, places)) + J[n].qty
<1> DEFINE A == LotsAt(J, places)
           B == Lot(J, n)
           q == J[n].qty
<1>1. LotsAt(J, places \cup {n}) = A \cup B
  BY DEF LotsAt, Lot
<1>2. A \cap B = {}
  BY DEF LotsAt, Lot
<1>3. IsFiniteSet(A) /\ Cardinality(A) \in Nat
  BY LotsFinite
<1>4. IsFiniteSet(B) /\ Cardinality(B) = q /\ q \in Nat
  BY LotCount
<1> HIDE DEF A, B, q
<1>5. Cardinality(A \cup B) = Cardinality(A) + Cardinality(B) - Cardinality(A \cap B)
  BY <1>3, <1>4, FS_Union
<1>6. Cardinality(A \cap B) = 0
  BY <1>2, FS_EmptySet
<1>7. Cardinality(A \cup B) = Cardinality(A) + q
  BY <1>3, <1>4, <1>5, <1>6
<1> QED BY <1>1, <1>7 DEF A, q

BarSet == [openTs : Int, open : Int, high : Int, low : Int, close : Int, volume : Int, count : Int]

\* Bars are the same if their fields are.
LEMMA SameBars ==
  ASSUME NEW x \in BarSet, NEW y \in BarSet,
         x.openTs = y.openTs, x.open = y.open, x.high = y.high, x.low = y.low,
         x.close = y.close, x.volume = y.volume, x.count = y.count
  PROVE  x = y
BY DEF BarSet

\* The journal of the archive: what is read of it.
Kept(J) ==
  /\ Len(J) \in Nat /\ DOMAIN J = 1 .. Len(J)
  /\ \A i \in 1 .. Len(J) : J[i] \in Rec


\* The fields of a record.
LEMMA RecParts ==
  ASSUME NEW r \in Rec
  PROVE  r.seq \in Nat /\ r.ts \in Nat /\ r.price \in Int /\ r.qty \in Nat
BY DEF Rec

\* The least place of some prints.
LEMMA PlacesOf ==
  ASSUME NEW J, Kept(J), NEW d, NEW b, Prints(J, d, b) # {}
  PROVE  /\ Prints(J, d, b) \subseteq 1 .. Len(J) /\ IsFiniteSet(Prints(J, d, b))
         /\ Min(Prints(J, d, b)) \in Prints(J, d, b)
         /\ \A i \in Prints(J, d, b) : Min(Prints(J, d, b)) <= i
         /\ Prompt(J, d, b) \subseteq Prints(J, d, b)
         /\ Max(Prompt(J, d, b) \cup {Min(Prints(J, d, b))}) \in Prints(J, d, b)
         /\ Max(Prompt(J, d, b) \cup {Min(Prints(J, d, b))}) \in Int
<1> DEFINE P == Prints(J, d, b)
           Q == Prompt(J, d, b)
           Z == Q \cup {Min(P)}
<1>1. P \subseteq 1 .. Len(J) /\ IsFiniteSet(P) /\ P # {}
  BY PrintsPlaces DEF Kept
<1>2. Q \subseteq P
  BY DEF Prompt
<1> HIDE DEF P, Q
<1>3. P \subseteq Int
  BY <1>1 DEF Kept
<1>4. Min(P) \in P /\ \A i \in P : Min(P) <= i
  BY <1>1, <1>3, MinIs
<1>5. Z \subseteq P /\ Z # {}
  BY <1>2, <1>4
<1> HIDE DEF Z
<1>6. Z \subseteq Int /\ IsFiniteSet(Z)
  BY <1>1, <1>3, <1>5, FS_Subset
<1>7. Max(Z) \in Z
  BY <1>5, <1>6, MaxIs
<1>8. Max(Z) \in P /\ Max(Z) \in Int
  BY <1>5, <1>6, <1>7
<1> QED BY <1>1, <1>2, <1>4, <1>8 DEF P, Q, Z

\* The prices of a bucket that has prints have a greatest and a least one.
LEMMA PricesOf ==
  ASSUME NEW J, Kept(J), NEW d, NEW b, Prints(J, d, b) # {}
  PROVE  /\ PricesAt(J, Prints(J, d, b)) \subseteq Int
         /\ PricesAt(J, Prints(J, d, b)) # {} /\ IsFiniteSet(PricesAt(J, Prints(J, d, b)))
<1> DEFINE P == Prints(J, d, b)
<1>1. P \subseteq 1 .. Len(J) /\ IsFiniteSet(P) /\ P # {}
  BY PrintsPlaces DEF Kept
<1> HIDE DEF P
<1>2. \A i \in P : J[i].price \in Int
  BY <1>1, RecParts DEF Kept
<1>3. PricesAt(J, P) \subseteq Int /\ PricesAt(J, P) # {}
  BY <1>1, <1>2 DEF PricesAt
<1>4. IsFiniteSet(PricesAt(J, P))
  BY <1>1, PricesFinite
<1> QED BY <1>3, <1>4 DEF P

\* The bar a bucket should have is a bar.
LEMMA ExpectedTyped ==
  ASSUME NEW J, Kept(J), NEW d, NEW b \in Int, Prints(J, d, b) # {}
  PROVE  Expected(J, d, b) \in BarSet
<1> DEFINE P == Prints(J, d, b)
           S == PricesAt(J, P)
           a == Min(P)
           z == Max(Prompt(J, d, b) \cup {Min(P)})
<1>0. Expected(J, d, b) = [openTs |-> b, open |-> J[a].price, close |-> J[z].price,
        high |-> Max(S), low |-> Min(S),
        volume |-> Cardinality(LotsAt(J, P)), count |-> Cardinality(P)]
  BY DEF Expected, PricesAt
<1>1. P \subseteq 1 .. Len(J) /\ IsFiniteSet(P) /\ a \in P /\ z \in P
  BY PlacesOf
<1>2. S \subseteq Int /\ S # {} /\ IsFiniteSet(S)
  BY PricesOf
<1> HIDE DEF P, S, a, z
<1>3. \A i \in P : J[i].price \in Int /\ J[i].qty \in Nat
  BY <1>1, RecParts DEF Kept
<1>4. Max(S) \in Int /\ Min(S) \in Int
  BY <1>2, MaxIs, MinIs
<1>5. Cardinality(LotsAt(J, P)) \in Nat
  BY <1>1, <1>3, LotsFinite
<1>6. Cardinality(P) \in Nat
  BY <1>1, FS_CardinalityType
<1>7. J[a].price \in Int /\ J[z].price \in Int
  BY <1>1, <1>3
<1> QED BY <1>0, <1>4, <1>5, <1>6, <1>7 DEF BarSet

\* Records that do not fall into a bucket leave its bar as it is.
LEMMA ExpectedSame ==
  ASSUME NEW J, NEW K, NEW r, Grown(J, K, r), Kept(J), NEW d, NEW b \in Int,
         \A c \in Buckets(J, d) : c \in Int,
         Prints(J, d, b) # {}, ~(r.kind = "Trade" /\ Bucket(d, r.ts) = b)
  PROVE  Expected(K, d, b) = Expected(J, d, b)
<1> DEFINE P == Prints(J, d, b)
           Q == Prompt(J, d, b)
           a == Min(P)
           z == Max(Q \cup {Min(P)})
<1>1. Prints(K, d, b) = P
  BY PrintsGrown
<1>2. Prompt(K, d, b) = Q
  BY PromptGrown
<1>3. P \subseteq 1 .. Len(J) /\ a \in P /\ z \in P
  BY PlacesOf
<1>4. Expected(J, d, b) = [openTs |-> b, open |-> J[a].price, close |-> J[z].price,
        high |-> Max(PricesAt(J, P)), low |-> Min(PricesAt(J, P)),
        volume |-> Cardinality(LotsAt(J, P)), count |-> Cardinality(P)]
  BY DEF Expected, PricesAt
<1>5. Expected(K, d, b) = [openTs |-> b, open |-> K[a].price, close |-> K[z].price,
        high |-> Max(PricesAt(K, P)), low |-> Min(PricesAt(K, P)),
        volume |-> Cardinality(LotsAt(K, P)), count |-> Cardinality(P)]
  BY <1>1, <1>2 DEF Expected, PricesAt
<1> HIDE DEF P, Q, a, z
<1>6. \A i \in P : J[i] = K[i]
  BY <1>3 DEF Grown
<1>7. LotsAt(J, P) = LotsAt(K, P)
  BY <1>6, LotsSame
<1>8. PricesAt(J, P) = PricesAt(K, P)
  BY <1>6 DEF PricesAt
<1>9. J[a] = K[a] /\ J[z] = K[z]
  BY <1>3, <1>6
<1> QED BY <1>4, <1>5, <1>7, <1>8, <1>9

\* The first print of a bucket makes its bar.
LEMMA ExpectedNew ==
  ASSUME NEW J, NEW K, NEW r, Grown(J, K, r), NEW d, NEW b \in Int,
         \A c \in Buckets(J, d) : c \in Int,
         Prints(J, d, b) = {}, r.kind = "Trade", Bucket(d, r.ts) = b
  PROVE  Expected(K, d, b) = NewBar(b, r)
<1> DEFINE n == Len(J) + 1
<1>0. n \in Int /\ K[n] = r /\ r.price \in Int /\ r.qty \in Nat
  BY RecParts DEF Grown
<1>1. Prints(K, d, b) = {n}
  BY PrintsGrown
<1>2. Prompt(K, d, b) \subseteq {n}
  BY <1>1 DEF Prompt
<1> HIDE DEF n
<1>3. Min({n}) = n
  BY <1>0, MinEq
<1>4. Prompt(K, d, b) \cup {n} = {n}
  BY <1>2
<1>5. Max({n}) = n
  BY <1>0, MaxEq
<1>6. {K[i].price : i \in {n}} = {r.price}
  BY <1>0
<1>7. Max({r.price}) = r.price /\ Min({r.price}) = r.price
  <2> DEFINE p == r.price
             S == {p}
  <2>1. S \subseteq Int /\ p \in S /\ \A x \in S : x <= p /\ p <= x
    BY <1>0
  <2> HIDE DEF p, S
  <2>2. Max(S) = p
    BY <2>1, MaxEq
  <2>3. Min(S) = p
    BY <2>1, MinEq
  <2> QED BY <2>2, <2>3 DEF p, S
<1>8. Cardinality({n}) = 1
  BY FS_Singleton
<1>9. Cardinality(LotsAt(K, {n})) = r.qty
  <2>1. LotsAt(K, {n}) = Lot(K, n)
    BY DEF LotsAt, Lot
  <2>2. Cardinality(Lot(K, n)) = K[n].qty
    BY <1>0, LotCount
  <2> QED BY <1>0, <2>1, <2>2
<1> QED BY <1>0, <1>1, <1>3, <1>4, <1>5, <1>6, <1>7, <1>8, <1>9 DEF Expected, NewBar

\* High and low can be kept up one price at a time, as apply_late does.
LEMMA MaxAdds ==
  ASSUME NEW S, S \subseteq Int, IsFiniteSet(S), S # {}, NEW p \in Int
  PROVE  /\ Max(S \cup {p}) = Max({Max(S), p})
         /\ Min(S \cup {p}) = Min({Min(S), p})
<1> DEFINE T == S \cup {p}
           h == Max(S)
           l == Min(S)
           HP == {h, p}
           LP == {l, p}
<1>1. h \in S /\ h \in Int /\ \A x \in S : x <= h
  BY MaxIs
<1>2. l \in S /\ l \in Int /\ \A x \in S : l <= x
  BY MinIs
<1> HIDE DEF h, l
<1>0. T \subseteq Int
  OBVIOUS
<1>3. p <= h => Max(T) = Max(HP)
  <2> HAVE p <= h
  <2>1. Max(T) = h
    <3>1. \A x \in T : x <= h
      BY <1>1
    <3>2. h \in T
      BY <1>1
    <3> HIDE DEF T
    <3> QED BY <1>0, <3>1, <3>2, MaxEq
  <2>2. Max(HP) = h
    BY <1>1, MaxEq
  <2> HIDE DEF T, HP, LP
  <2> QED BY <2>1, <2>2
<1>4. ~(p <= h) => Max(T) = Max(HP)
  <2> HAVE ~(p <= h)
  <2>1. Max(T) = p
    <3>1. \A x \in T : x <= p
      <4> TAKE x \in T
      <4>1. CASE x \in S
        BY <4>1, <1>1
      <4>2. CASE x = p
        BY <4>2
      <4> QED BY <4>1, <4>2
    <3>2. p \in T
      OBVIOUS
    <3> HIDE DEF T
    <3> QED BY <1>0, <3>1, <3>2, MaxEq
  <2>2. Max(HP) = p
    BY <1>1, MaxEq
  <2> HIDE DEF T, HP, LP
  <2> QED BY <2>1, <2>2
<1>5. Max(T) = Max(HP)
  <2> HIDE DEF T, HP, LP
  <2> QED BY <1>3, <1>4
<1>6. l <= p => Min(T) = Min(LP)
  <2> HAVE l <= p
  <2>1. Min(T) = l
    <3>1. \A x \in T : l <= x
      BY <1>2
    <3>2. l \in T
      BY <1>2
    <3> HIDE DEF T
    <3> QED BY <1>0, <3>1, <3>2, MinEq
  <2>2. Min(LP) = l
    BY <1>2, MinEq
  <2> HIDE DEF T, HP, LP
  <2> QED BY <2>1, <2>2
<1>7. ~(l <= p) => Min(T) = Min(LP)
  <2> HAVE ~(l <= p)
  <2>1. Min(T) = p
    <3>1. \A x \in T : p <= x
      <4> TAKE x \in T
      <4>1. CASE x \in S
        BY <4>1, <1>2
      <4>2. CASE x = p
        BY <4>2
      <4> QED BY <4>1, <4>2
    <3>2. p \in T
      OBVIOUS
    <3> HIDE DEF T
    <3> QED BY <1>0, <3>1, <3>2, MinEq
  <2>2. Min(LP) = p
    BY <1>2, MinEq
  <2> HIDE DEF T, HP, LP
  <2> QED BY <2>1, <2>2
<1>8. Min(T) = Min(LP)
  <2> HIDE DEF T, HP, LP
  <2> QED BY <1>6, <1>7
<1> QED BY <1>5, <1>8 DEF h, l, T, HP, LP

\* What a further print makes of its bucket's bar x; it is prompt or late.
More(x, y, r, b, prompt) ==
  /\ y.openTs = b /\ x.openTs = b /\ y.open = x.open
  /\ y.high = Max({x.high, r.price}) /\ y.low = Min({x.low, r.price})
  /\ y.volume = x.volume + r.qty /\ y.count = x.count + 1
  /\ y.close = IF prompt THEN r.price ELSE x.close

\* A further print of a bucket: what changes in its bar.
LEMMA ExpectedMore ==
  ASSUME NEW J, NEW K, NEW r, Grown(J, K, r), Kept(J), NEW d, NEW b \in Int,
         \A c \in Buckets(J, d) : c \in Int,
         Prints(J, d, b) # {}, r.kind = "Trade", Bucket(d, r.ts) = b
  PROVE  More(Expected(J, d, b), Expected(K, d, b), r, b, \A c \in Buckets(J, d) : c <= b)
<1> DEFINE n == Len(J) + 1
           P == Prints(J, d, b)
           Q == Prompt(J, d, b)
           a == Min(P)
           z == Max(Q \cup {a})
           top == \A c \in Buckets(J, d) : c <= b
           R == IF top THEN Q \cup {n} ELSE Q
           y == Max(R \cup {a})
<1>1. Prints(K, d, b) = P \cup {n}
  BY PrintsGrown
<1>2. Prompt(K, d, b) = R
  BY PromptGrown
<1>3. /\ P \subseteq 1 .. Len(J) /\ IsFiniteSet(P) /\ a \in P /\ z \in P
      /\ \A i \in P : a <= i
      /\ Q \subseteq P
  BY PlacesOf
<1>4. PricesAt(J, P) \subseteq Int /\ PricesAt(J, P) # {} /\ IsFiniteSet(PricesAt(J, P))
  BY PricesOf
<1>5. Expected(J, d, b) = [openTs |-> b, open |-> J[a].price, close |-> J[z].price,
        high |-> Max(PricesAt(J, P)), low |-> Min(PricesAt(J, P)),
        volume |-> Cardinality(LotsAt(J, P)), count |-> Cardinality(P)]
  BY DEF Expected, PricesAt
<1> HIDE DEF P, Q, a
<1>6. n \in Int /\ K[n] = r /\ r.price \in Int /\ r.qty \in Nat
  BY RecParts DEF Grown
<1>7. P \subseteq Int /\ (\A i \in P : i \in Int /\ i < n) /\ n \notin P
  <2>1. Len(J) \in Nat
    BY DEF Grown
  <2> QED BY <1>3, <2>1
<1>8. Min(P \cup {n}) = a
  <2>1. \A i \in P \cup {n} : a <= i
    BY <1>3, <1>6, <1>7
  <2>2. a \in P \cup {n} /\ P \cup {n} \subseteq Int
    BY <1>3, <1>6, <1>7
  <2> HIDE DEF n
  <2> QED BY <2>1, <2>2, MinEq
<1>9. Expected(K, d, b) = [openTs |-> b, open |-> K[a].price, close |-> K[y].price,
        high |-> Max(PricesAt(K, P \cup {n})), low |-> Min(PricesAt(K, P \cup {n})),
        volume |-> Cardinality(LotsAt(K, P \cup {n})), count |-> Cardinality(P \cup {n})]
  <2> HIDE DEF n, R
  <2> QED BY <1>1, <1>2, <1>8 DEF Expected, PricesAt
<1> HIDE DEF n, z
<1>10. \A i \in P : J[i] = K[i] /\ J[i].qty \in Nat
  <2>1. \A i \in P : J[i] = K[i] /\ J[i] \in Rec
    BY <1>3 DEF Grown
  <2> QED BY <2>1, RecParts
<1>11. LotsAt(J, P) = LotsAt(K, P)
  BY <1>10, LotsSame
<1>12. Cardinality(LotsAt(K, P \cup {n})) = Cardinality(LotsAt(K, P)) + K[n].qty
  <2>1. K[n].qty \in Nat /\ \A i \in P : K[i].qty \in Nat
    BY <1>6, <1>10
  <2> QED BY <2>1, <1>3, <1>7, LotsGrow
<1>13. PricesAt(K, P \cup {n}) = PricesAt(J, P) \cup {r.price}
  BY <1>6, <1>10 DEF PricesAt
<1>14. Cardinality(P \cup {n}) = Cardinality(P) + 1
  BY <1>3, <1>7, FS_AddElement
<1>15. /\ Max(PricesAt(K, P \cup {n})) = Max({Max(PricesAt(J, P)), r.price})
       /\ Min(PricesAt(K, P \cup {n})) = Min({Min(PricesAt(J, P)), r.price})
  <2> DEFINE S == PricesAt(J, P)
  <2> HIDE DEF S
  <2>1. S \subseteq Int /\ S # {} /\ IsFiniteSet(S)
    BY <1>4 DEF S
  <2>2. Max(S \cup {r.price}) = Max({Max(S), r.price}) /\ Min(S \cup {r.price}) = Min({Min(S), r.price})
    BY <1>6, <2>1, MaxAdds
  <2> QED BY <1>13, <2>2 DEF S
<1>16. K[y].price = IF top THEN r.price ELSE J[z].price
  <2>1. CASE top
    <3>1. R \cup {a} = Q \cup {n} \cup {a}
      BY <2>1
    <3> DEFINE Z == Q \cup {n} \cup {a}
    <3>2. Z \subseteq Int /\ n \in Z /\ \A i \in Z : i <= n
      BY <1>3, <1>6, <1>7
    <3> HIDE DEF Z
    <3>3. Max(Z) = n
      BY <3>2, MaxEq
    <3>4. y = n
      BY <3>1, <3>3 DEF Z
    <3> QED BY <3>4, <2>1, <1>6
  <2>2. CASE ~top
    <3>1. y = z
      BY <2>2 DEF z
    <3>2. J[z] = K[z]
      BY <1>3, <1>10
    <3> QED BY <3>1, <3>2, <2>2
  <2> QED BY <2>1, <2>2
<1>17. K[a] = J[a]
  BY <1>3, <1>10
<1> HIDE DEF y, top
<1>18. /\ Expected(K, d, b).openTs = b /\ Expected(J, d, b).openTs = b
       /\ Expected(K, d, b).open = Expected(J, d, b).open
       /\ Expected(K, d, b).high = Max({Expected(J, d, b).high, r.price})
       /\ Expected(K, d, b).low = Min({Expected(J, d, b).low, r.price})
  BY <1>5, <1>9, <1>15, <1>17
<1>19. /\ Expected(K, d, b).volume = Expected(J, d, b).volume + r.qty
       /\ Expected(K, d, b).count = Expected(J, d, b).count + 1
  BY <1>5, <1>9, <1>6, <1>11, <1>12, <1>14
<1>20. Expected(K, d, b).close = IF top THEN r.price ELSE Expected(J, d, b).close
  BY <1>5, <1>9, <1>16
<1> DEFINE x == Expected(J, d, b)
           w == Expected(K, d, b)
<1> HIDE DEF x, w
<1>21. More(x, w, r, b, top)
  BY <1>18, <1>19, <1>20 DEF More, x, w
<1> QED BY <1>21 DEF top, x, w

\* What a late print makes of a bar, field by field.
LEMMA LateFields ==
  ASSUME NEW bar \in BarSet, NEW r \in Rec
  PROVE  /\ LateBar(bar, r) \in BarSet
         /\ LateBar(bar, r).openTs = bar.openTs /\ LateBar(bar, r).open = bar.open
         /\ LateBar(bar, r).close = bar.close
         /\ LateBar(bar, r).high = Max({bar.high, r.price})
         /\ LateBar(bar, r).low = Min({bar.low, r.price})
         /\ LateBar(bar, r).volume = bar.volume + r.qty /\ LateBar(bar, r).count = bar.count + 1
<1> DEFINE hi == Max({bar.high, r.price})
           lo == Min({bar.low, r.price})
           v == bar.volume + r.qty
           n == bar.count + 1
           f == LateBar(bar, r)
<1>1. /\ bar.high \in Int /\ bar.low \in Int /\ bar.volume \in Int /\ bar.count \in Int
      /\ bar.openTs \in Int /\ bar.open \in Int /\ bar.close \in Int
      /\ r.price \in Int /\ r.qty \in Int
  BY RecParts DEF BarSet
<1>2. hi \in Int /\ lo \in Int
  <2>1. {bar.high, r.price} \subseteq Int /\ {bar.low, r.price} \subseteq Int
    BY <1>1
  <2>2. \A x, y : IsFiniteSet({x, y})
    <3> TAKE x, y
    <3>1. IsFiniteSet({x} \cup {y})
      BY FS_Singleton, FS_AddElement
    <3>2. {x, y} = {x} \cup {y}
      OBVIOUS
    <3> QED BY <3>1, <3>2
  <2>3. hi \in {bar.high, r.price}
    BY <2>1, <2>2, MaxIs
  <2>4. lo \in {bar.low, r.price}
    BY <2>1, <2>2, MinIs
  <2> QED BY <1>1, <2>3, <2>4
<1>3. v \in Int /\ n \in Int
  BY <1>1
<1>4. f = [bar EXCEPT !.volume = v, !.count = n, !.high = hi, !.low = lo]
  BY DEF LateBar
<1> HIDE DEF hi, lo, v, n, f
<1>5. f \in BarSet
  BY <1>2, <1>3, <1>4 DEF BarSet
<1>6. f.openTs = bar.openTs /\ f.open = bar.open /\ f.close = bar.close
  BY <1>4 DEF BarSet
<1>7. f.high = hi /\ f.low = lo /\ f.volume = v /\ f.count = n
  BY <1>4 DEF BarSet
<1> QED BY <1>5, <1>6, <1>7 DEF hi, lo, v, n, f

\* What a print in order makes of a bar (apply_print): it also closes it.
LEMMA PrintFields ==
  ASSUME NEW bar \in BarSet, NEW r \in Rec
  PROVE  /\ PrintBar(bar, r) \in BarSet
         /\ PrintBar(bar, r).openTs = bar.openTs /\ PrintBar(bar, r).open = bar.open
         /\ PrintBar(bar, r).close = r.price
         /\ PrintBar(bar, r).high = Max({bar.high, r.price})
         /\ PrintBar(bar, r).low = Min({bar.low, r.price})
         /\ PrintBar(bar, r).volume = bar.volume + r.qty /\ PrintBar(bar, r).count = bar.count + 1
<1> DEFINE g == LateBar(bar, r)
           f == PrintBar(bar, r)
           p == r.price
<1>1. f = [g EXCEPT !.close = p]
  BY DEF PrintBar
<1>2. g \in BarSet
  BY LateFields
<1>3. p \in Int
  BY RecParts
<1> HIDE DEF f, g, p
<1>4. f \in BarSet /\ f.close = p
  BY <1>1, <1>2, <1>3 DEF BarSet
<1>5. /\ f.openTs = g.openTs /\ f.open = g.open /\ f.high = g.high /\ f.low = g.low
      /\ f.volume = g.volume /\ f.count = g.count
  BY <1>1, <1>2, <1>3 DEF BarSet
<1>6. /\ g.openTs = bar.openTs /\ g.open = bar.open
      /\ g.high = Max({bar.high, r.price}) /\ g.low = Min({bar.low, r.price})
      /\ g.volume = bar.volume + r.qty /\ g.count = bar.count + 1
  BY LateFields DEF g
<1> QED BY <1>4, <1>5, <1>6 DEF f, p

\* What holds when the record r, a trade in bucket b, comes to the journal J.
Comes(J, K, r, d, b) ==
  /\ Grown(J, K, r) /\ Kept(J) /\ Kept(K) /\ r \in Rec /\ r.kind = "Trade"
  /\ b = Bucket(d, r.ts) /\ b \in Nat /\ \A c \in Buckets(J, d) : c \in Nat

\* A late print of a bucket with a bar: apply_late makes the bar the journal now asks for.
LEMMA LateIs ==
  ASSUME NEW J, NEW K, NEW r, NEW d, NEW b, Comes(J, K, r, d, b),
         b \in Buckets(J, d), NEW c \in Buckets(J, d), b < c
  PROVE  LateBar(Expected(J, d, b), r) = Expected(K, d, b)
<1> DEFINE x == Expected(J, d, b)
           y == Expected(K, d, b)
           f == LateBar(x, r)
<1>1. Grown(J, K, r) /\ Kept(J) /\ Kept(K) /\ r \in Rec /\ r.kind = "Trade" /\ Bucket(d, r.ts) = b
      /\ b \in Int /\ \A e \in Buckets(J, d) : e \in Int
  BY DEF Comes
<1>2. Prints(J, d, b) # {}
  BY InBuckets
<1>3. Prints(K, d, b) # {}
  BY <1>1, <1>2, PrintsGrown
<1>4. x \in BarSet
  BY <1>1, <1>2, ExpectedTyped
<1>5. y \in BarSet
  BY <1>1, <1>3, ExpectedTyped
<1>6. ~(\A e \in Buckets(J, d) : e <= b)
  BY <1>1
<1>7. More(x, y, r, b, \A e \in Buckets(J, d) : e <= b)
  BY <1>1, <1>2, ExpectedMore
<1>8. /\ f \in BarSet
      /\ f.openTs = x.openTs /\ f.open = x.open /\ f.close = x.close
      /\ f.high = Max({x.high, r.price}) /\ f.low = Min({x.low, r.price})
      /\ f.volume = x.volume + r.qty /\ f.count = x.count + 1
  <2> HIDE DEF x
  <2> QED BY <1>1, <1>4, LateFields
<1> HIDE DEF f, x, y
<1>9. y.close = x.close
  BY <1>6, <1>7 DEF More
<1> DEFINE hi == Max({x.high, r.price})
           lo == Min({x.low, r.price})
<1>10. y.high = hi /\ f.high = hi /\ y.low = lo /\ f.low = lo
  BY <1>7, <1>8 DEF More
<1> HIDE DEF hi, lo
<1>11. f = y
  <2>1. f.openTs = y.openTs /\ f.open = y.open /\ f.volume = y.volume /\ f.count = y.count
    BY <1>7, <1>8 DEF More
  <2>2. f.close = y.close /\ f.high = y.high /\ f.low = y.low
    BY <1>8, <1>9, <1>10
  <2> QED BY <2>1, <2>2, <1>5, <1>8, SameBars
<1> QED BY <1>11 DEF f, x, y

\* A print of the newest bucket: apply_print makes the bar the journal now asks for.
LEMMA PrintIs ==
  ASSUME NEW J, NEW K, NEW r, NEW d, NEW b, Comes(J, K, r, d, b),
         b \in Buckets(J, d), \A c \in Buckets(J, d) : c <= b
  PROVE  PrintBar(Expected(J, d, b), r) = Expected(K, d, b)
<1> DEFINE x == Expected(J, d, b)
           y == Expected(K, d, b)
           f == PrintBar(x, r)
<1>1. Grown(J, K, r) /\ Kept(J) /\ Kept(K) /\ r \in Rec /\ r.kind = "Trade" /\ Bucket(d, r.ts) = b
      /\ b \in Int /\ \A e \in Buckets(J, d) : e \in Int
  BY DEF Comes
<1>2. Prints(J, d, b) # {}
  BY InBuckets
<1>3. Prints(K, d, b) # {}
  BY <1>1, <1>2, PrintsGrown
<1>4. x \in BarSet
  BY <1>1, <1>2, ExpectedTyped
<1>5. y \in BarSet
  BY <1>1, <1>3, ExpectedTyped
<1>7. More(x, y, r, b, \A e \in Buckets(J, d) : e <= b)
  BY <1>1, <1>2, ExpectedMore
<1>8. /\ f \in BarSet
      /\ f.openTs = x.openTs /\ f.open = x.open /\ f.close = r.price
      /\ f.high = Max({x.high, r.price}) /\ f.low = Min({x.low, r.price})
      /\ f.volume = x.volume + r.qty /\ f.count = x.count + 1
  <2> HIDE DEF x
  <2> QED BY <1>1, <1>4, PrintFields
<1> HIDE DEF f, x, y
<1>9. y.close = r.price
  BY <1>7 DEF More
<1> DEFINE hi == Max({x.high, r.price})
           lo == Min({x.low, r.price})
<1>10. y.high = hi /\ f.high = hi /\ y.low = lo /\ f.low = lo
  BY <1>7, <1>8 DEF More
<1> HIDE DEF hi, lo
<1>11. f = y
  <2>1. f.openTs = y.openTs /\ f.open = y.open /\ f.volume = y.volume /\ f.count = y.count
    BY <1>7, <1>8 DEF More
  <2>2. f.close = y.close /\ f.high = y.high /\ f.low = y.low
    BY <1>8, <1>9, <1>10
  <2> QED BY <2>1, <2>2, <1>5, <1>8, SameBars
<1> QED BY <1>11 DEF f, x, y

\* A store has the bars of the buckets B.
Stocks(store, J, d, B) ==
  DOMAIN store = B /\ \A t \in B : store[t] = Expected(J, d, t)

\* A record of another bucket leaves what is stored right.
LEMMA StocksStay ==
  ASSUME NEW J, NEW K, NEW r, NEW d, NEW b, Comes(J, K, r, d, b),
         NEW store, NEW B \in SUBSET Buckets(J, d), Stocks(store, J, d, B), b \notin B
  PROVE  Stocks(store, K, d, B)
<1>1. ASSUME NEW t \in B PROVE store[t] = Expected(K, d, t)
  <2>1. Grown(J, K, r) /\ Kept(J) /\ t \in Int /\ \A c \in Buckets(J, d) : c \in Int
    BY DEF Comes
  <2>2. Prints(J, d, t) # {}
    BY InBuckets
  <2>3. ~(r.kind = "Trade" /\ Bucket(d, r.ts) = t)
    BY DEF Comes
  <2>4. Expected(K, d, t) = Expected(J, d, t)
    BY <2>1, <2>2, <2>3, ExpectedSame
  <2> QED BY <2>4 DEF Stocks
<1> QED BY <1>1 DEF Stocks

\* Storing the right bar of a bucket (BarStore::insert).
LEMMA StoredStocks ==
  ASSUME NEW J, NEW d, NEW store, NEW B, Stocks(store, J, d, B), NEW bar, NEW m,
         bar.openTs = m, bar = Expected(J, d, m)
  PROVE  Stocks(Stored(store, bar), J, d, B \cup {m})
<1>1. Stored(store, bar) = [t \in B \cup {m} |-> IF t = m THEN bar ELSE store[t]]
  BY DEF Stored, Stocks
<1> DEFINE f == Stored(store, bar)
<1> HIDE DEF f
<1>2. DOMAIN f = B \cup {m} /\ \A t \in B \cup {m} : f[t] = IF t = m THEN bar ELSE store[t]
  BY <1>1 DEF f
<1>3. \A t \in B \cup {m} : f[t] = Expected(J, d, t)
  BY <1>2 DEF Stocks
<1>4. Stocks(f, J, d, B \cup {m})
  BY <1>2, <1>3 DEF Stocks
<1> QED BY <1>4 DEF f

\* The first print of a bucket.
LEMMA NewIs ==
  ASSUME NEW J, NEW K, NEW r, NEW d, NEW b, Comes(J, K, r, d, b), b \notin Buckets(J, d)
  PROVE  NewBar(b, r) = Expected(K, d, b)
<1>1. Grown(J, K, r) /\ b \in Int /\ r.kind = "Trade" /\ Bucket(d, r.ts) = b
      /\ \A c \in Buckets(J, d) : c \in Int
  BY DEF Comes
<1>2. Prints(J, d, b) = {}
  BY InBuckets
<1> QED BY <1>1, <1>2, ExpectedNew

\* The bar a bucket should have opens at the bucket's time.
LEMMA ExpectedOpens ==
  ASSUME NEW J, NEW d, NEW b
  PROVE  Expected(J, d, b).openTs = b
BY DEF Expected

\* A late print: its bucket's bar is right again.
LEMMA LateStocks ==
  ASSUME NEW J, NEW K, NEW r, NEW d, NEW b, Comes(J, K, r, d, b),
         NEW c \in Buckets(J, d), b < c,
         NEW store, NEW B \in SUBSET Buckets(J, d), Stocks(store, J, d, B),
         b \in Buckets(J, d) => b \in B
  PROVE  Stocks(LateStored(store, b, r), K, d, B \cup {b})
<1> DEFINE bar == IF b \in DOMAIN store THEN LateBar(store[b], r) ELSE NewBar(b, r)
<1>1. bar = Expected(K, d, b)
  <2>1. CASE b \in B
    <3>1. bar = LateBar(Expected(J, d, b), r)
      BY <2>1 DEF Stocks
    <3>2. LateBar(Expected(J, d, b), r) = Expected(K, d, b)
      BY <2>1, LateIs
    <3> QED BY <3>1, <3>2
  <2>2. CASE b \notin B
    <3>1. bar = NewBar(b, r)
      BY <2>2 DEF Stocks
    <3>2. NewBar(b, r) = Expected(K, d, b)
      BY <2>2, NewIs
    <3> QED BY <3>1, <3>2
  <2> QED BY <2>1, <2>2
<1>2. LateStored(store, b, r) = Stored(store, bar)
  BY DEF LateStored
<1> HIDE DEF bar
<1>3. bar.openTs = b
  BY <1>1, ExpectedOpens
<1> DEFINE f == Stored(store, bar)
<1>4. f = [t \in B \cup {b} |-> IF t = b THEN bar ELSE store[t]]
  BY <1>3 DEF Stored, Stocks
<1>5. \A t \in B \ {b} : store[t] = Expected(K, d, t)
  <2> TAKE t \in B \ {b}
  <2>1. Grown(J, K, r) /\ Kept(J) /\ t \in Int /\ \A e \in Buckets(J, d) : e \in Int
    BY DEF Comes
  <2>2. Prints(J, d, t) # {}
    BY InBuckets
  <2>3. ~(r.kind = "Trade" /\ Bucket(d, r.ts) = t)
    BY DEF Comes
  <2>4. Expected(K, d, t) = Expected(J, d, t)
    BY <2>1, <2>2, <2>3, ExpectedSame
  <2> QED BY <2>4 DEF Stocks
<1> HIDE DEF f
<1>6. DOMAIN f = B \cup {b} /\ \A t \in B \cup {b} : f[t] = IF t = b THEN bar ELSE store[t]
  BY <1>4
<1>7. \A t \in B \cup {b} : f[t] = Expected(K, d, t)
  BY <1>1, <1>5, <1>6
<1>8. Stocks(f, K, d, B \cup {b})
  BY <1>6, <1>7 DEF Stocks
<1> QED BY <1>2, <1>8 DEF f

\* The bars of an interval are those of the journal.
Shows(bars, J, d) ==
  LET B == Buckets(J, d) m == bars.working.openTs
  IN  /\ \A c \in B : c \in Nat
      /\ bars.working = NoBar => Stocks(bars.store, J, d, B)
      /\ bars.working # NoBar =>
           /\ m \in B /\ \A c \in B : c <= m
           /\ bars.working = Expected(J, d, m)
           /\ Stocks(bars.store, J, d, B \ {m})

\* And it is a bar.
LEMMA NotNoBar ==
  ASSUME NEW J, NEW d, NEW b \in Nat
  PROVE  Expected(J, d, b) # NoBar
BY ExpectedOpens DEF NoBar

\* The fields of the bars of an interval.
LEMMA BarsParts ==
  ASSUME NEW w, NEW s
  PROVE  Bars(w, s).working = w /\ Bars(w, s).store = s
BY DEF Bars

\* apply_interval, in each of its cases, keeps an interval's bars right, and leaves one
\* open.  With none open the record has to be newer than all that is stored.
LEMMA ApplyKeeps ==
  ASSUME NEW J, NEW K, NEW r, NEW d, NEW b, Comes(J, K, r, d, b),
         NEW bars, Shows(bars, J, d),
         bars.working = NoBar => \A c \in Buckets(J, d) : c < b
  PROVE  /\ Shows(ApplyInterval(d, bars, r), K, d)
         /\ ApplyInterval(d, bars, r).working # NoBar
<1> DEFINE B == Buckets(J, d)
           C == Buckets(K, d)
           w == bars.working
           s == bars.store
           m == bars.working.openTs
           a == ApplyInterval(d, bars, r)
<1> SUFFICES Shows(a, K, d) /\ a.working # NoBar
  OBVIOUS
<1>0. C = B \cup {b}
  BY BucketsGrown DEF Comes
<1>1. b = Bucket(d, r.ts) /\ b \in Nat /\ (\A c \in B : c \in Nat) /\ \A c \in C : c \in Nat
  BY <1>0 DEF Comes
<1>2. ASSUME NEW x, NEW y, NEW n, a = Bars(x, y), n \in C, \A c \in C : c <= n,
             x = Expected(K, d, n), Stocks(y, K, d, C \ {n})
      PROVE  Shows(a, K, d) /\ a.working # NoBar
  <2>1. a.working = x /\ a.store = y
    BY <1>2, BarsParts
  <2>2. x.openTs = n
    BY <1>2, ExpectedOpens
  <2>3. x # NoBar
    BY <1>1, <1>2, NotNoBar
  <2> HIDE DEF a, C
  <2>4. a.working # NoBar /\ a.working.openTs = n
    BY <2>1, <2>2, <2>3
  <2> QED BY <1>1, <1>2, <2>1, <2>4 DEF Shows, C
<1>3. CASE w = NoBar
  <2>1. Stocks(s, J, d, B) /\ \A c \in B : c < b
    BY <1>3 DEF Shows
  <2>2. b \notin B /\ b \notin DOMAIN s
    BY <1>1, <2>1 DEF Stocks
  <2>3. a = Bars(NewBar(b, r), s)
    BY <1>1, <1>3, <2>2 DEF ApplyInterval
  <2>4. NewBar(b, r) = Expected(K, d, b)
    BY <2>2, NewIs
  <2>5. C \ {b} = B
    BY <1>0, <2>2
  <2>6. Stocks(s, K, d, C \ {b})
    <3>1. B \in SUBSET Buckets(J, d)
      OBVIOUS
    <3>2. Stocks(s, K, d, B)
      BY <2>1, <2>2, <3>1, StocksStay
    <3> QED BY <2>5, <3>2
  <2>7. b \in C /\ \A c \in C : c <= b
    BY <1>0, <1>1, <2>1
  <2> HIDE DEF a, C, s
  <2> QED BY <1>2, <2>3, <2>4, <2>6, <2>7
<1>4. CASE w # NoBar
  <2>1. /\ m \in B /\ (\A c \in B : c <= m) /\ w = Expected(J, d, m)
        /\ Stocks(s, J, d, B \ {m})
    BY <1>4 DEF Shows
  <2>2. CASE b = m
    <3>1. a = Bars(PrintBar(w, r), s)
      BY <1>1, <1>4, <2>2 DEF ApplyInterval
    <3>2. PrintBar(w, r) = Expected(K, d, b)
      BY <2>1, <2>2, PrintIs
    <3>3. C \ {b} = B \ {m} /\ b \in C /\ \A c \in C : c <= b
      BY <1>0, <2>1, <2>2
    <3>4. Stocks(s, K, d, C \ {b})
      <4>1. B \ {m} \in SUBSET Buckets(J, d) /\ b \notin B \ {m}
        BY <2>2
      <4>2. Stocks(s, K, d, B \ {m})
        BY <2>1, <4>1, StocksStay
      <4> QED BY <3>3, <4>2
    <3> HIDE DEF a, C, s, w
    <3> QED BY <1>2, <3>1, <3>2, <3>3, <3>4
  <2>3. CASE b > m
    <3>1. a = Bars(NewBar(b, r), Stored(s, w))
      BY <1>1, <1>4, <2>1, <2>3 DEF ApplyInterval
    <3>2. b \notin B
      BY <1>1, <2>1, <2>3
    <3>3. NewBar(b, r) = Expected(K, d, b)
      BY <3>2, NewIs
    <3>4. C \ {b} = B /\ b \in C /\ \A c \in C : c <= b
      BY <1>0, <1>1, <2>1, <2>3, <3>2
    <3>5. Stocks(Stored(s, w), K, d, C \ {b})
      <4>1. Stocks(Stored(s, w), J, d, (B \ {m}) \cup {m})
        <5>1. w.openTs = m
          OBVIOUS
        <5> HIDE DEF w, s, m
        <5> QED BY <2>1, <5>1, StoredStocks
      <4>2. (B \ {m}) \cup {m} = B
        BY <2>1
      <4>3. Stocks(Stored(s, w), J, d, B)
        BY <4>1, <4>2
      <4> DEFINE z == Stored(s, w)
      <4> HIDE DEF z
      <4>4. B \in SUBSET Buckets(J, d) /\ Stocks(z, J, d, B)
        BY <4>3 DEF z
      <4>5. Stocks(z, K, d, B)
        BY <3>2, <4>4, StocksStay
      <4> QED BY <3>4, <4>5 DEF z
    <3> DEFINE z == Stored(s, w)
    <3> HIDE DEF a, C, z
    <3>6. a = Bars(NewBar(b, r), z) /\ Stocks(z, K, d, C \ {b})
      BY <3>1, <3>5 DEF z
    <3> QED BY <1>2, <3>3, <3>4, <3>6
  <2>4. CASE b < m
    <3>1. a = Bars(w, LateStored(s, b, r))
      BY <1>1, <1>4, <2>1, <2>4 DEF ApplyInterval
    <3>2. Grown(J, K, r) /\ Kept(J) /\ m \in Int /\ \A c \in B : c \in Int
      BY <2>1, <1>1 DEF Comes
    <3>3. w = Expected(K, d, m)
      <4>1. Prints(J, d, m) # {}
        BY <2>1, InBuckets
      <4>2. ~(r.kind = "Trade" /\ Bucket(d, r.ts) = m)
        BY <1>1, <2>4, <3>2
      <4>3. Expected(K, d, m) = Expected(J, d, m)
        <5> HIDE DEF m
        <5> QED BY <3>2, <4>1, <4>2, ExpectedSame
      <4> QED BY <2>1, <4>3
    <3>4. C \ {m} = (B \ {m}) \cup {b} /\ m \in C /\ \A c \in C : c <= m
      BY <1>0, <1>1, <2>1, <2>4
    <3>5. Stocks(LateStored(s, b, r), K, d, C \ {m})
      <4>1. B \ {m} \in SUBSET Buckets(J, d) /\ (b \in Buckets(J, d) => b \in B \ {m})
        BY <2>4, <3>2, <1>1
      <4>2. Stocks(LateStored(s, b, r), K, d, (B \ {m}) \cup {b})
        <5> HIDE DEF m, s
        <5> QED BY <2>1, <2>4, <4>1, LateStocks
      <4> QED BY <3>4, <4>2
    <3> DEFINE z == LateStored(s, b, r)
    <3> HIDE DEF a, C, z, w, m
    <3>6. a = Bars(w, z) /\ Stocks(z, K, d, C \ {m})
      BY <3>1, <3>5 DEF z
    <3> QED BY <1>2, <3>3, <3>4, <3>6
  <2>5. m \in Nat
    BY <1>1, <2>1
  <2> QED BY <1>1, <2>2, <2>3, <2>4, <2>5
<1> QED BY <1>3, <1>4

\* A record that is no trade leaves the bars right.
LEMMA OtherShows ==
  ASSUME NEW J, NEW K, NEW r, NEW d, Grown(J, K, r), Kept(J), r.kind # "Trade",
         NEW bars, Shows(bars, J, d)
  PROVE  Shows(bars, K, d)
<1> DEFINE B == Buckets(J, d)
           w == bars.working
           s == bars.store
           m == bars.working.openTs
<1>1. Buckets(K, d) = B
  BY BucketsGrown
<1>2. \A c \in B : c \in Nat
  BY DEF Shows
<1>3. ASSUME NEW t \in B PROVE Expected(K, d, t) = Expected(J, d, t)
  <2>1. t \in Int /\ \A c \in Buckets(J, d) : c \in Int
    BY <1>2
  <2>2. Prints(J, d, t) # {}
    BY InBuckets
  <2> QED BY <2>1, <2>2, ExpectedSame
<1>4. ASSUME NEW D \in SUBSET B, Stocks(s, J, d, D) PROVE Stocks(s, K, d, D)
  BY <1>3, <1>4 DEF Stocks
<1>5. w = NoBar => Stocks(s, J, d, B)
  BY DEF Shows
<1>6. w # NoBar => /\ m \in B /\ (\A c \in B : c <= m) /\ w = Expected(J, d, m)
                   /\ Stocks(s, J, d, B \ {m})
  BY DEF Shows
<1>7. w = NoBar => Stocks(s, K, d, B)
  <2> HIDE DEF B, s
  <2> QED BY <1>4, <1>5
<1>8. w # NoBar => /\ m \in B /\ (\A c \in B : c <= m) /\ w = Expected(K, d, m)
                   /\ Stocks(s, K, d, B \ {m})
  <2> HIDE DEF B, s, m, w
  <2> QED BY <1>3, <1>4, <1>6
<1> HIDE DEF B
<1> QED BY <1>1, <1>2, <1>7, <1>8 DEF Shows

\* Closing the open bar stores it.
LEMMA CloseShows ==
  ASSUME NEW J, NEW d, NEW bars, Shows(bars, J, d)
  PROVE  Shows(CloseOpen(bars), J, d) /\ CloseOpen(bars).working = NoBar
<1> DEFINE B == Buckets(J, d)
           w == bars.working
           s == bars.store
           m == bars.working.openTs
<1>1. CASE w = NoBar
  BY <1>1 DEF CloseOpen
<1>2. CASE w # NoBar
  <2>1. /\ m \in B /\ w = Expected(J, d, m) /\ Stocks(s, J, d, B \ {m}) /\ \A c \in B : c \in Nat
    BY <1>2 DEF Shows
  <2>2. w.openTs = m
    OBVIOUS
  <2>3. CloseOpen(bars) = Bars(NoBar, Stored(s, w))
    BY <1>2 DEF CloseOpen
  <2> HIDE DEF w, s, m, B
  <2>4. Stocks(Stored(s, w), J, d, (B \ {m}) \cup {m})
    BY <2>1, <2>2, StoredStocks
  <2>5. (B \ {m}) \cup {m} = B
    BY <2>1
  <2> DEFINE z == Stored(s, w)
             c == CloseOpen(bars)
  <2>6. c.working = NoBar /\ c.store = z
    BY <2>3, BarsParts
  <2>7. Stocks(z, J, d, B)
    BY <2>4, <2>5
  <2>8. Shows(c, J, d)
    <3> HIDE DEF z, c
    <3> QED BY <2>1, <2>6, <2>7 DEF Shows, B
  <2> QED BY <2>6, <2>8
<1> QED BY <1>1, <1>2

\* What BarsMatchTrades says of an interval.
LEMMA ShowsMatches ==
  ASSUME NEW J, NEW d, NEW bars, Shows(bars, J, d)
  PROVE  /\ DOMAIN AllBars(bars) = Buckets(J, d)
         /\ bars.working # NoBar => bars.working.openTs \notin DOMAIN bars.store
         /\ \A t \in DOMAIN AllBars(bars) : AllBars(bars)[t] = Expected(J, d, t)
<1> DEFINE B == Buckets(J, d)
           w == bars.working
           s == bars.store
           m == bars.working.openTs
<1>1. CASE w = NoBar
  <2>1. AllBars(bars) = s
    BY <1>1 DEF AllBars
  <2>2. Stocks(s, J, d, B)
    BY <1>1 DEF Shows
  <2> QED BY <1>1, <2>1, <2>2 DEF Stocks
<1>2. CASE w # NoBar
  <2>1. /\ m \in B /\ w = Expected(J, d, m) /\ Stocks(s, J, d, B \ {m})
    BY <1>2 DEF Shows
  <2>2. m \notin DOMAIN s
    BY <2>1 DEF Stocks
  <2>3. AllBars(bars) = Stored(s, w)
    BY <1>2, <2>2 DEF AllBars
  <2>4. w.openTs = m
    OBVIOUS
  <2> DEFINE z == Stored(s, w)
             D == (B \ {m}) \cup {m}
  <2>5. Stocks(z, J, d, D)
    <3> HIDE DEF w, s, m, B
    <3> QED BY <2>1, <2>4, StoredStocks
  <2>6. D = B
    BY <2>1
  <2> HIDE DEF z, D
  <2>7. DOMAIN z = B /\ \A t \in B : z[t] = Expected(J, d, t)
    BY <2>5, <2>6 DEF Stocks
  <2>8. AllBars(bars) = z
    BY <2>3 DEF z
  <2> QED BY <2>2, <2>7, <2>8
<1> QED BY <1>1, <1>2

\* A working bar, once there is one, stays while a record is kept (ArchiveIngest).
IngestOk(state) ==
  /\ state.journal \in Seq(Rec)
  /\ \A d \in Durations : Shows(state.bars[d], state.journal, d)

\* A journal is what the lemmas above ask for.
LEMMA SeqKept ==
  ASSUME NEW J \in Seq(Rec)
  PROVE  Kept(J)
BY DEF Kept

\* The fields of the archive after a record (ArchiveIngest).
LEMMA IngestParts ==
  ASSUME NEW state, NEW r
  PROVE  /\ ArchiveIngest(state, r).journal = Append(state.journal, r)
         /\ ArchiveIngest(state, r).bars = IF r.kind # "Trade" THEN state.bars
              ELSE [d \in Durations |-> ApplyInterval(d, state.bars[d], r)]
BY DEF ArchiveIngest

\* ArchiveIngest keeps the bars of every interval right.
LEMMA IngestKeeps ==
  ASSUME NEW state, IngestOk(state), NEW r \in Rec,
         \A d \in Durations : state.bars[d].working = NoBar =>
           \A c \in Buckets(state.journal, d) : c < Bucket(d, r.ts)
  PROVE  /\ IngestOk(ArchiveIngest(state, r))
         /\ r.kind = "Trade" => \A d \in Durations : ArchiveIngest(state, r).bars[d].working # NoBar
         /\ r.kind # "Trade" => ArchiveIngest(state, r).bars = state.bars
<1> DEFINE J == state.journal
           K == Append(J, r)
           next == ArchiveIngest(state, r)
<1>1. next.journal = K
  BY IngestParts
<1>2. next.bars = IF r.kind # "Trade" THEN state.bars
                  ELSE [d \in Durations |-> ApplyInterval(d, state.bars[d], r)]
  BY IngestParts
<1>3. J \in Seq(Rec) /\ \A d \in Durations : Shows(state.bars[d], J, d)
  BY DEF IngestOk
<1> SUFFICES /\ IngestOk(next)
             /\ r.kind = "Trade" => \A d \in Durations : next.bars[d].working # NoBar
             /\ r.kind # "Trade" => next.bars = state.bars
  OBVIOUS
<1> HIDE DEF J, K, next
<1>4. Grown(J, K, r) /\ K \in Seq(Rec) /\ Kept(J) /\ Kept(K)
  <2>1. Grown(J, Append(J, r), r) /\ Append(J, r) \in Seq(Rec)
    BY <1>3, AppendGrows
  <2>2. Grown(J, K, r) /\ K \in Seq(Rec)
    BY <2>1 DEF K
  <2> QED BY <1>3, <2>2, SeqKept
<1>5. CASE r.kind # "Trade"
  <2>1. next.bars = state.bars
    BY <1>2, <1>5
  <2>2. ASSUME NEW d \in Durations PROVE Shows(next.bars[d], K, d)
    <3>1. Shows(state.bars[d], J, d)
      BY <1>3
    <3>2. Shows(state.bars[d], K, d)
      BY <1>4, <1>5, <3>1, OtherShows
    <3> QED BY <2>1, <3>2
  <2> QED BY <1>1, <1>4, <1>5, <2>1, <2>2 DEF IngestOk
<1>6. CASE r.kind = "Trade"
  <2>1. ASSUME NEW d \in Durations
        PROVE  Shows(next.bars[d], K, d) /\ next.bars[d].working # NoBar
    <3> DEFINE b == Bucket(d, r.ts)
               bars == state.bars[d]
    <3>1. next.bars[d] = ApplyInterval(d, bars, r)
      BY <1>2, <1>6
    <3>2. Shows(bars, J, d)
      BY <1>3
    <3>3. Comes(J, K, r, d, b)
      <4>1. \A c \in Buckets(J, d) : c \in Nat
        BY <3>2 DEF Shows
      <4>2. b \in Nat
        BY RecParts, BucketsGrow, ArchiveAssumption
      <4> QED BY <1>4, <1>6, <4>1, <4>2 DEF Comes
    <3>4. bars.working = NoBar => \A c \in Buckets(J, d) : c < b
      BY DEF J
    <3> HIDE DEF b, bars
    <3>5. Shows(ApplyInterval(d, bars, r), K, d) /\ ApplyInterval(d, bars, r).working # NoBar
      BY <3>2, <3>3, <3>4, ApplyKeeps
    <3> QED BY <3>1, <3>5
  <2> QED BY <1>1, <1>4, <1>6, <2>1 DEF IngestOk
<1> QED BY <1>5, <1>6

\* The recursion behind LoadJournal.
LoadSteps(records, load) ==
  /\ load = [n \in 0 .. Len(records) |->
               IF n = 0 THEN NewArchive ELSE ArchiveIngest(load[n - 1], records[n])]
  /\ LoadJournal(records) = [load[Len(records)] EXCEPT !.bars = [d \in Durations |-> CloseOpen(@[d])]]

\* The recursion exists.
LEMMA LoadUnfolds ==
  ASSUME NEW records, Len(records) \in Nat
  PROVE  \E load : LoadSteps(records, load)
<1> DEFINE Step(g, k) == [n \in 0 .. k |->
             IF n = 0 THEN NewArchive ELSE ArchiveIngest(g[n - 1], records[n])]
           N == Len(records)
           load == CHOOSE g : g = Step(g, N)
           Exists(k) == \E g : g = Step(g, k)
           Bad == {k \in Nat : k <= N /\ ~Exists(k)}
<1>1. LoadJournal(records) = [load[N] EXCEPT !.bars = [d \in Durations |-> CloseOpen(@[d])]]
  BY DEF LoadJournal
<1>2. N \in Nat
  OBVIOUS
<1>3. ASSUME Bad # {} PROVE FALSE
  <2>1. PICK k \in Bad : \A m \in Bad : k <= m
    <3>1. Bad \in SUBSET Nat
      <4> HIDE DEF Exists
      <4> QED OBVIOUS
    <3> HIDE DEF Bad
    <3> QED BY <1>3, <3>1, LeastNumber
  <2>a. k \in Nat /\ k <= N /\ ~Exists(k)
    <3> HIDE DEF Exists
    <3> QED OBVIOUS
  <2>2. k # 0
    <3> DEFINE g == [n \in 0 .. 0 |-> NewArchive]
    <3>1. g = Step(g, 0)
      OBVIOUS
    <3> QED BY <2>a, <3>1
  <2>3. k - 1 \in Nat /\ k - 1 <= N /\ Exists(k - 1)
    <3> HIDE DEF Exists, N
    <3>1. k - 1 \in Nat /\ k - 1 <= N /\ ~(k <= k - 1)
      BY <1>2, <2>a, <2>2
    <3> QED BY <2>1, <3>1
  <2>4. PICK g : g = Step(g, k - 1)
    BY <2>3
  <2> DEFINE last == ArchiveIngest(g[k - 1], records[k])
             h == [n \in 0 .. k |-> IF n = k THEN last ELSE g[n]]
  <2>5. \A n \in 0 .. k : h[n] = Step(h, k)[n]
    <3> TAKE n \in 0 .. k
    <3>1. CASE n = k
      BY <2>2, <2>3, <3>1
    <3>2. CASE n # k
      <4>1. n \in 0 .. k - 1 /\ (n # 0 => n - 1 \in 0 .. k - 1)
        BY <2>3, <3>2
      <4>2. g[n] = Step(g, k - 1)[n]
        BY <2>4
      <4> QED BY <3>2, <4>1, <4>2
    <3> QED BY <3>1, <3>2
  <2>6. h = Step(h, k)
    BY <2>5
  <2> QED BY <2>a, <2>6
<1>4. \E g : g = Step(g, N)
  <2> HIDE DEF Exists, N
  <2>1. Exists(N)
    BY <1>2, <1>3
  <2> QED BY <2>1 DEF Exists
<1>5. load = Step(load, N)
  <2> HIDE DEF Step
  <2> QED BY <1>4
<1> HIDE DEF load
<1>6. LoadSteps(records, load)
  BY <1>1, <1>5 DEF LoadSteps
<1> QED BY <1>6

\* The demo seed: trades, one after the other.
LEMMA SeedIs ==
  ASSUME NEW price \in Prices
  PROVE  /\ Len(DemoSeed(price)) = Seeds /\ Seeds \in Nat
         /\ \A n \in 1 .. Seeds : /\ DemoSeed(price)[n] \in Rec
                                  /\ DemoSeed(price)[n].kind = "Trade"
                                  /\ DemoSeed(price)[n].ts = n
<1>1. Seeds \in Nat /\ price \in Int
  BY ArchiveAssumption
<1>2. DemoSeed(price) = [n \in 1 .. Seeds |-> TheRecord("Trade", n, n, price, 1)]
  BY DEF DemoSeed
<1>3. \A n \in 1 .. Seeds : /\ TheRecord("Trade", n, n, price, 1) \in Rec
                            /\ TheRecord("Trade", n, n, price, 1).kind = "Trade"
                            /\ TheRecord("Trade", n, n, price, 1).ts = n
  BY <1>1 DEF TheRecord, Rec
<1>4. DemoSeed(price) \in Seq(Rec) /\ Len(DemoSeed(price)) = Seeds
  <2> DEFINE D == DemoSeed(price)
  <2>1. D \in [1 .. Seeds -> Rec]
    BY <1>2, <1>3
  <2> HIDE DEF D
  <2>2. D \in Seq(Rec) /\ Len(D) = Seeds
    BY <1>1, <2>1
  <2> QED BY <2>2 DEF D
<1> QED BY <1>1, <1>2, <1>3, <1>4

\* The empty archive is right, and has no bars.
LEMMA NewOk ==
  /\ IngestOk(NewArchive) /\ NewArchive.journal = <<>>
  /\ \A d \in Durations : Buckets(<<>>, d) = {}
<1>1. NewArchive.journal = <<>> /\ NewArchive.bars = [d \in Durations |-> Bars(NoBar, <<>>)]
  BY DEF NewArchive
<1>2. \A d \in Durations : Buckets(<<>>, d) = {}
  BY DEF Buckets
<1>3. ASSUME NEW d \in Durations PROVE Shows(Bars(NoBar, <<>>), <<>>, d)
  <2>1. Bars(NoBar, <<>>).working = NoBar /\ Bars(NoBar, <<>>).store = <<>>
    BY BarsParts
  <2>2. Stocks(<<>>, <<>>, d, {})
    BY DEF Stocks
  <2> DEFINE x == Bars(NoBar, <<>>)
             e == <<>>
  <2>3. x.working = NoBar /\ Stocks(x.store, e, d, {}) /\ Buckets(e, d) = {}
    BY <1>2, <2>1, <2>2
  <2> HIDE DEF x, e
  <2>4. Shows(x, e, d)
    BY <2>3 DEF Shows
  <2> QED BY <2>4 DEF x, e
<1>4. <<>> \in Seq(Rec)
  OBVIOUS
<1>5. \A d \in Durations : Shows(NewArchive.bars[d], NewArchive.journal, d)
  <2> TAKE d \in Durations
  <2>1. NewArchive.bars[d] = Bars(NoBar, <<>>)
    BY <1>1
  <2> QED BY <1>1, <1>3, <2>1
<1>6. IngestOk(NewArchive)
  BY <1>1, <1>4, <1>5 DEF IngestOk
<1> QED BY <1>1, <1>2, <1>6

\* After k of the seed's records.
LoadOk(state, records, k) ==
  /\ IngestOk(state) /\ Len(state.journal) = k
  /\ \A i \in 1 .. k : state.journal[i] = records[i]
  /\ k = 0 => state.journal = <<>>
  /\ k > 0 => \A d \in Durations : state.bars[d].working # NoBar

\* One more record of the seed.
LEMMA LoadStep ==
  ASSUME NEW state, NEW records, NEW k \in Nat, LoadOk(state, records, k),
         records[k + 1] \in Rec, records[k + 1].kind = "Trade"
  PROVE  LoadOk(ArchiveIngest(state, records[k + 1]), records, k + 1)
<1> DEFINE r == records[k + 1]
           next == ArchiveIngest(state, r)
           J == state.journal
<1>1. IngestOk(state) /\ Len(J) = k /\ (\A i \in 1 .. k : J[i] = records[i])
  BY DEF LoadOk
<1>2. J \in Seq(Rec)
  BY <1>1 DEF IngestOk
<1>3. ASSUME NEW d \in Durations, state.bars[d].working = NoBar, NEW c \in Buckets(J, d)
      PROVE  c < Bucket(d, r.ts)
  <2>1. ~(k > 0)
    BY <1>3 DEF LoadOk
  <2>2. J = <<>>
    BY <2>1 DEF LoadOk
  <2>3. Buckets(J, d) = {}
    BY <2>2, NewOk
  <2> QED BY <1>3, <2>3
<1>4. /\ IngestOk(next) /\ \A d \in Durations : next.bars[d].working # NoBar
  <2> HIDE DEF r
  <2>1. r \in Rec /\ r.kind = "Trade"
    BY DEF r
  <2> QED BY <1>1, <1>3, <2>1, IngestKeeps
<1>5. next.journal = Append(J, r)
  BY IngestParts
<1> SUFFICES LoadOk(next, records, k + 1)
  OBVIOUS
<1>6. r \in Rec /\ r = records[k + 1]
  OBVIOUS
<1> HIDE DEF next, J, r
<1>7. Len(Append(J, r)) = k + 1 /\ \A i \in 1 .. k + 1 : Append(J, r)[i] = records[i]
  BY <1>1, <1>2, <1>6
<1>8. k + 1 # 0
  OBVIOUS
<1> QED BY <1>4, <1>5, <1>7, <1>8 DEF LoadOk

\* The archive is right once the seed is loaded, with every bar closed.
LEMMA LoadKeeps ==
  ASSUME NEW price \in Prices
  PROVE  /\ IngestOk(LoadJournal(DemoSeed(price)))
         /\ \A d \in Durations : \A c \in Buckets(LoadJournal(DemoSeed(price)).journal, d) :
              c < Bucket(d, Start)
<1> DEFINE records == DemoSeed(price)
           loaded == LoadJournal(records)
<1>1. /\ Len(records) = Seeds /\ Seeds \in Nat
      /\ \A n \in 1 .. Seeds : records[n] \in Rec /\ records[n].kind = "Trade" /\ records[n].ts = n
  BY SeedIs
<1> SUFFICES IngestOk(loaded) /\ \A d \in Durations : \A c \in Buckets(loaded.journal, d) : c < Bucket(d, Start)
  OBVIOUS
<1> HIDE DEF records, loaded
<1>2. PICK load : LoadSteps(records, load)
  BY <1>1, LoadUnfolds
<1> DEFINE Ok(k) == LoadOk(load[k], records, k)
           Bad == {k \in Nat : k <= Seeds /\ ~Ok(k)}
<1>3. load[0] = NewArchive /\ \A k \in 1 .. Seeds : load[k] = ArchiveIngest(load[k - 1], records[k])
  BY <1>1, <1>2 DEF LoadSteps
<1>4. Ok(0)
  <2>1. IngestOk(NewArchive) /\ NewArchive.journal = <<>>
    BY NewOk
  <2>2. Len(<<>>) = 0
    OBVIOUS
  <2>3. LoadOk(NewArchive, records, 0)
    BY <2>1, <2>2 DEF LoadOk
  <2> QED BY <1>3, <2>3
<1>5. ASSUME Bad # {} PROVE FALSE
  <2>1. PICK k \in Bad : \A m \in Bad : k <= m
    <3>1. Bad \in SUBSET Nat
      <4> HIDE DEF Ok
      <4> QED OBVIOUS
    <3> HIDE DEF Bad
    <3> QED BY <1>5, <3>1, LeastNumber
  <2> HIDE DEF Ok
  <2>2. k \in Nat /\ k <= Seeds /\ ~Ok(k)
    OBVIOUS
  <2>3. k # 0
    BY <1>4, <2>2
  <2> DEFINE m == k - 1
  <2>4. m \in Nat /\ m <= Seeds /\ ~(k <= m) /\ m + 1 = k /\ k \in 1 .. Seeds
    BY <1>1, <2>2, <2>3
  <2>5. load[k] = ArchiveIngest(load[m], records[k])
    BY <1>3, <2>4
  <2> HIDE DEF m
  <2>6. Ok(m)
    BY <2>1, <2>4
  <2>7. records[m + 1] \in Rec /\ records[m + 1].kind = "Trade"
    BY <1>1, <2>4
  <2>8. LoadOk(ArchiveIngest(load[m], records[m + 1]), records, m + 1)
    BY <2>4, <2>6, <2>7, LoadStep DEF Ok
  <2>9. Ok(k)
    BY <2>4, <2>5, <2>8 DEF Ok
  <2> QED BY <2>2, <2>9
<1>6. LoadOk(load[Seeds], records, Seeds)
  <2>1. Ok(Seeds)
    <3> HIDE DEF Ok
    <3> QED BY <1>1, <1>5
  <2> QED BY <2>1 DEF Ok
<1> DEFINE last == load[Seeds]
<1>7. loaded = [last EXCEPT !.bars = [d \in Durations |-> CloseOpen(last.bars[d])]]
  BY <1>1, <1>2 DEF LoadSteps, loaded
<1>8. last = [journal |-> last.journal, bars |-> last.bars]
  <2>1. CASE Seeds = 0
    <3>1. last = NewArchive
      BY <1>3, <2>1
    <3> QED BY <3>1 DEF NewArchive
  <2>2. CASE Seeds # 0
    <3>1. Seeds \in 1 .. Seeds
      BY <1>1, <2>2
    <3>2. last = ArchiveIngest(load[Seeds - 1], records[Seeds])
      BY <1>3, <3>1
    <3> QED BY <3>2 DEF ArchiveIngest
  <2> QED BY <2>1, <2>2
<1>9. LoadOk(last, records, Seeds)
  BY <1>6
<1> HIDE DEF last
<1> DEFINE closed == [d \in Durations |-> CloseOpen(last.bars[d])]
<1> HIDE DEF closed
<1>10. loaded.journal = last.journal /\ loaded.bars = closed
  BY <1>7, <1>8 DEF closed
<1>11. IngestOk(last) /\ Len(last.journal) = Seeds /\ \A i \in 1 .. Seeds : last.journal[i] = records[i]
  BY <1>9 DEF LoadOk
<1>12. IngestOk(loaded)
  <2>1. \A d \in Durations : Shows(closed[d], last.journal, d)
    <3> TAKE d \in Durations
    <3>1. Shows(last.bars[d], last.journal, d)
      BY <1>11 DEF IngestOk
    <3>2. closed[d] = CloseOpen(last.bars[d])
      BY DEF closed
    <3> QED BY <3>1, <3>2, CloseShows
  <2> QED BY <1>10, <1>11, <2>1 DEF IngestOk
<1>13. ASSUME NEW d \in Durations, NEW c \in Buckets(last.journal, d)
       PROVE  c < Bucket(d, Start)
  <2> DEFINE J == last.journal
  <2>1. J \in Seq(Rec)
    BY <1>11 DEF IngestOk
  <2>2. PICK i \in DOMAIN J : c = Bucket(d, J[i].ts)
    BY DEF Buckets
  <2>3. i \in 1 .. Seeds
    BY <1>11, <2>1
  <2>4. J[i].ts = i
    BY <1>1, <1>11, <2>3
  <2>5. c = Bucket(d, i)
    BY <2>2, <2>4
  <2>6. d \in Nat \ {0} /\ Start \in Nat /\ Seeds \div d < Start \div d /\ i \in Nat /\ i <= Seeds
    BY <1>1, <2>3, ArchiveAssumption
  <2>7. Bucket(d, i) <= Bucket(d, Seeds) /\ Bucket(d, i) \in Nat
    BY <1>1, <2>6, BucketsGrow
  <2>8. Bucket(d, Seeds) < Bucket(d, Start) /\ Bucket(d, Start) \in Nat
    BY <1>1, <2>6, BucketsGrow
  <2>9. Bucket(d, Seeds) \in Nat
    BY <1>1, <2>6, BucketsGrow
  <2> DEFINE p == Bucket(d, i)
             q == Bucket(d, Seeds)
             s == Bucket(d, Start)
  <2> HIDE DEF p, q, s
  <2>10. p <= q /\ q < s /\ p \in Nat /\ q \in Nat /\ s \in Nat
    BY <2>7, <2>8, <2>9 DEF p, q, s
  <2>11. p < s
    BY <2>10
  <2> QED BY <2>5, <2>11 DEF p, s
<1> QED BY <1>10, <1>12, <1>13

\* The archive's part of the inductive invariant: its bars are those of its journal,
\* and while an interval has none open, all of its bars are older than the feed.
ArchiveOk ==
  /\ clock \in Nat /\ Start <= clock /\ seq \in Nat
  /\ IngestOk(archive)
  /\ \A d \in Durations : archive.bars[d].working = NoBar =>
       \A c \in Buckets(archive.journal, d) : c < Bucket(d, Start)

\* The archive is right when the gateway starts (AppState::from_config).
LEMMA ArchiveStarts == ArchiveInit => ArchiveOk
<1> HAVE ArchiveInit
<1>1. clock \in Nat /\ Start <= clock /\ seq \in Nat
  BY ArchiveAssumption DEF ArchiveInit
<1>2. PICK price \in Prices : archive = LoadJournal(DemoSeed(price))
  BY DEF ArchiveInit
<1>3. /\ IngestOk(archive)
      /\ \A d \in Durations : \A c \in Buckets(archive.journal, d) : c < Bucket(d, Start)
  BY <1>2, LoadKeeps
<1> QED BY <1>1, <1>3 DEF ArchiveOk

\* Whatever a record is, the archive stays right, and no bucket is lost.
LEMMA FeedKeeps ==
  ASSUME ArchiveOk, NEW kind \in {"Trade", "Bbo"}, NEW price \in Int, NEW qty \in Nat,
         Feed(kind, price, qty)
  PROVE  /\ ArchiveOk'
         /\ \A d \in Durations : Buckets(archive.journal, d) \subseteq Buckets(archive'.journal, d)
<1> DEFINE r == TheRecord(kind, seq + 1, clock, price, qty)
           J == archive.journal
           K == archive'.journal
<1>1. clock \in Nat /\ Start <= clock /\ seq \in Nat /\ IngestOk(archive) /\ J \in Seq(Rec)
  BY DEF ArchiveOk, IngestOk
<1>2. r \in Rec /\ r.ts = clock /\ r.kind = kind
  BY <1>1 DEF TheRecord, Rec
<1>3. archive' = ArchiveIngest(archive, r) /\ seq' = seq + 1 /\ clock' = clock
  BY DEF Feed
<1>4. K = Append(J, r)
  BY <1>3, IngestParts
<1> HIDE DEF r
<1>5. Grown(J, K, r)
  BY <1>1, <1>2, <1>4, AppendGrows
<1>6. ASSUME NEW d \in Durations
      PROVE  Bucket(d, Start) \in Nat /\ Bucket(d, clock) \in Nat /\ Bucket(d, Start) <= Bucket(d, clock)
  <2>1. d \in Nat \ {0} /\ Start \in Nat
    BY ArchiveAssumption
  <2> QED BY <1>1, <2>1, BucketsGrow
<1>7. ASSUME NEW d \in Durations, archive.bars[d].working = NoBar, NEW c \in Buckets(J, d)
      PROVE  c < Bucket(d, r.ts)
  <2>1. c < Bucket(d, Start)
    BY <1>7 DEF ArchiveOk
  <2>2. c \in Nat
    <3>1. Shows(archive.bars[d], J, d)
      BY <1>1 DEF IngestOk
    <3> QED BY <3>1 DEF Shows
  <2>3. Bucket(d, r.ts) = Bucket(d, clock)
    BY <1>2
  <2> QED BY <1>6, <2>1, <2>2, <2>3
<1>8. /\ IngestOk(archive')
      /\ r.kind = "Trade" => \A d \in Durations : archive'.bars[d].working # NoBar
      /\ r.kind # "Trade" => archive'.bars = archive.bars
  BY <1>1, <1>2, <1>3, <1>7, IngestKeeps
<1>9. ASSUME NEW d \in Durations
      PROVE  Buckets(K, d) = IF r.kind = "Trade" THEN Buckets(J, d) \cup {Bucket(d, r.ts)}
                             ELSE Buckets(J, d)
  BY <1>5, BucketsGrown
<1>10. ASSUME NEW d \in Durations, archive'.bars[d].working = NoBar, NEW c \in Buckets(K, d)
       PROVE  c < Bucket(d, Start)
  <2>1. r.kind # "Trade"
    BY <1>8, <1>10
  <2>2. archive.bars[d].working = NoBar /\ c \in Buckets(J, d)
    BY <1>8, <1>9, <1>10, <2>1
  <2> QED BY <2>2 DEF ArchiveOk
<1>11. ArchiveOk'
  BY <1>1, <1>3, <1>8, <1>10 DEF ArchiveOk
<1>12. \A d \in Durations : Buckets(J, d) \subseteq Buckets(K, d)
  BY <1>9
<1> QED BY <1>11, <1>12

\* The items of bars: a bar's id is its time.
TimeItems == {Item(t, t) : t \in Nat}

\* Bars are sorted by their ids.
LEMMA TimeItem ==
  ASSUME NEW x \in TimeItems, NEW y \in TimeItems
  PROVE  /\ x.id \in Nat /\ (x.id = y.id => x = y) /\ (Before(x, y) <=> x.id < y.id)
BY DEF TimeItems, Item, Before

\* What a page is: past its cursor, up to the next one, and nothing left out.
LEMMA PageIs ==
  ASSUME NEW items \in SUBSET TimeItems, IsFiniteSet(items), NEW cursor \in Nat \cup {NoCursor},
         Page(items, cursor).items # {}
  PROVE  LET page == Page(items, cursor)
         IN  /\ page.items \subseteq items
             /\ \A x \in page.items : cursor < x.id
             /\ page.next \in Nat \cup {NoCursor}
             /\ page.next = NoCursor => \A x \in items : cursor < x.id => x \in page.items
             /\ page.next # NoCursor =>
                  /\ cursor < page.next
                  /\ \A x \in page.items : x.id <= page.next
                  /\ \A x \in items : cursor < x.id /\ x.id <= page.next => x \in page.items
<1> DEFINE after == {x \in items : cursor = NoCursor \/ x.id > cursor}
           Rank(x) == {y \in after : Before(y, x)}
           page == {x \in after : Cardinality(Rank(x)) < Limit}
           P == Page(items, cursor)
           last == LastOf(page)
           ids == {x.id : x \in page}
<1>1. P = [items |-> page, next |-> IF page = after THEN NoCursor ELSE last.id]
  BY DEF Page
<1>2. page # {} /\ P.items = page
  BY <1>1
<1>a. \A x \in items : x \in TimeItems /\ x.id \in Nat
  BY TimeItem
<1>3. \A x \in items : x \in after <=> cursor < x.id
  BY <1>a DEF NoCursor
<1>4. after \subseteq items /\ page \subseteq after /\ IsFiniteSet(after)
  <2>1. after \subseteq items /\ page \subseteq after
    OBVIOUS
  <2> HIDE DEF after
  <2> QED BY <2>1, FS_Subset
<1>5. \A x \in page : Cardinality(Rank(x)) < Limit
  OBVIOUS
<1>6. \A x \in after : Cardinality(Rank(x)) < Limit => x \in page
  OBVIOUS
<1>7. \A x, y \in after : x.id <= y.id => Cardinality(Rank(x)) <= Cardinality(Rank(y))
  <2> TAKE x, y \in after
  <2> HAVE x.id <= y.id
  <2>1. Rank(x) \subseteq Rank(y)
    <3>1. ASSUME NEW z \in after, Before(z, x) PROVE Before(z, y)
      <4>1. z \in TimeItems /\ x \in TimeItems /\ y \in TimeItems
        BY <1>a, <1>4
      <4>2. z.id \in Nat /\ x.id \in Nat /\ y.id \in Nat
        BY <1>a, <1>4
      <4>3. z.id < x.id
        BY <3>1, <4>1, TimeItem
      <4>4. z.id < y.id
        BY <4>2, <4>3
      <4> QED BY <4>1, <4>4, TimeItem
    <3> QED BY <3>1
  <2>2. Rank(y) \subseteq after
    OBVIOUS
  <2> DEFINE A == Rank(x)
             B == Rank(y)
  <2> HIDE DEF A, B
  <2>3. IsFiniteSet(B)
    BY <1>4, <2>2, FS_Subset DEF B
  <2>4. Cardinality(A) <= Cardinality(B)
    BY <2>1, <2>3, FS_Subset DEF A, B
  <2> QED BY <2>4 DEF A, B
<1>8. \A x \in page : Cardinality(Rank(x)) \in Nat
  <2> TAKE x \in page
  <2> DEFINE A == Rank(x)
  <2>1. A \subseteq after
    OBVIOUS
  <2> HIDE DEF A, after
  <2>2. IsFiniteSet(A)
    BY <1>4, <2>1, FS_Subset
  <2>3. Cardinality(A) \in Nat
    BY <2>2, FS_CardinalityType
  <2> QED BY <2>3 DEF A
<1>9. last \in page /\ \A y \in page : y.id <= last.id
  <2> HIDE DEF after, page
  <2>1. ids \subseteq Int /\ ids # {} /\ IsFiniteSet(ids)
    <3>1. ids \subseteq Int /\ ids # {}
      BY <1>2, <1>4, <1>a
    <3> DEFINE f == [x \in page |-> x.id]
    <3>2. DOMAIN f = page /\ f = [x \in DOMAIN f |-> f[x]] /\ ids = {f[x] : x \in DOMAIN f}
      OBVIOUS
    <3>3. IsFiniteSet(page)
      BY <1>4, FS_Subset
    <3> HIDE DEF f, ids
    <3>4. IsFiniteSet(ids)
      BY <3>2, <3>3, ImageFinite
    <3> QED BY <3>1, <3>4
  <2> DEFINE top == Max(ids)
  <2>2. top \in ids /\ \A i \in ids : i <= top
    <3> HIDE DEF ids
    <3> QED BY <2>1, MaxIs
  <2> HIDE DEF top
  <2>3. PICK x \in page : x.id = top
    BY <2>2
  <2>4. \A y \in page : y.id <= x.id
    BY <2>2, <2>3
  <2>5. \A y \in page : y = x \/ Before(y, x)
    <3> TAKE y \in page
    <3>1. x \in TimeItems /\ y \in TimeItems
      BY <1>4, <1>a
    <3>2. y.id <= x.id /\ y.id \in Nat /\ x.id \in Nat
      BY <2>4, <1>4, <1>a
    <3>3. y.id = x.id => y = x
      BY <3>1, TimeItem
    <3>4. y.id < x.id => Before(y, x)
      BY <3>1, TimeItem
    <3> QED BY <3>2, <3>3, <3>4
  <2>6. last \in page /\ \A y \in page : y = last \/ Before(y, last)
    BY <2>5 DEF LastOf
  <2> HIDE DEF last
  <2>7. ASSUME NEW y \in page PROVE y.id <= last.id
    <3>1. last \in TimeItems /\ y \in TimeItems
      BY <1>4, <1>a, <2>6
    <3>2. y.id \in Nat /\ last.id \in Nat
      BY <3>1, TimeItem
    <3>3. Before(y, last) => y.id < last.id
      BY <3>1, TimeItem
    <3> QED BY <2>6, <3>2, <3>3
  <2> QED BY <2>6, <2>7
<1> DEFINE next == P.next
<1>10. next = IF page = after THEN NoCursor ELSE last.id
  BY <1>1
<1> HIDE DEF P, next, last, page, after, Rank
<1>11. last.id \in Nat /\ cursor < last.id /\ last.id # NoCursor
  BY <1>3, <1>4, <1>9, <1>a DEF NoCursor
<1>12. next \in Nat \cup {NoCursor}
  BY <1>10, <1>11
<1>13. next = NoCursor => page = after
  BY <1>10, <1>11
<1>14. next # NoCursor => next = last.id
  BY <1>10
<1>15. page \subseteq items /\ \A x \in page : cursor < x.id
  BY <1>3, <1>4
<1>16. next = NoCursor => \A x \in items : cursor < x.id => x \in page
  BY <1>3, <1>13
<1>17. ASSUME NEW x \in items, cursor < x.id, x.id <= last.id PROVE x \in page
  <2>1. x \in after /\ last \in after
    BY <1>3, <1>4, <1>9, <1>17
  <2>2. Cardinality(Rank(x)) <= Cardinality(Rank(last))
    BY <1>7, <1>17, <2>1
  <2>3. Cardinality(Rank(last)) < Limit
    BY <1>5, <1>9
  <2>4. Cardinality(Rank(x)) < Limit
    <3> DEFINE i == Cardinality(Rank(x))
               j == Cardinality(Rank(last))
    <3>1. i \in Nat /\ j \in Nat
      <4>1. Rank(x) \subseteq after /\ Rank(last) \subseteq after
        BY DEF Rank
      <4> QED BY <1>4, <4>1, FS_Subset, FS_CardinalityType
    <3>2. Limit \in Nat
      BY ArchiveAssumption
    <3>3. i <= j /\ j < Limit
      BY <2>2, <2>3
    <3> HIDE DEF i, j
    <3>4. i < Limit
      BY <3>1, <3>2, <3>3
    <3> QED BY <3>4 DEF i
  <2> QED BY <1>6, <2>1, <2>4
<1>18. next # NoCursor =>
         /\ cursor < next /\ (\A x \in page : x.id <= next)
         /\ \A x \in items : cursor < x.id /\ x.id <= next => x \in page
  BY <1>9, <1>11, <1>14, <1>17
<1>19. P.items = page /\ P.next = next
  BY <1>2 DEF next
<1> QED BY <1>12, <1>15, <1>16, <1>18, <1>19 DEF P

\* The interval that is asked for is one of those aggregated.
LEMMA AskedIs == Asked \in Durations
<1>1. Durations \subseteq Int /\ Durations # {} /\ IsFiniteSet(Durations)
  BY ArchiveAssumption
<1> QED BY <1>1, MinIs DEF Asked

\* The items of right bars: one for each bucket of the journal.
LEMMA ItemsAre ==
  ASSUME NEW J \in Seq(Rec), NEW d, NEW bars, Shows(bars, J, d)
  PROVE  /\ BarItems(bars) = {Item(t, t) : t \in Buckets(J, d)}
         /\ BarItems(bars) \subseteq TimeItems /\ IsFiniteSet(BarItems(bars))
<1> DEFINE B == Buckets(J, d)
<1>1. DOMAIN AllBars(bars) = B /\ \A c \in B : c \in Nat
  BY ShowsMatches DEF Shows
<1>2. BarItems(bars) = {Item(t, t) : t \in B}
  BY <1>1 DEF BarItems
<1>3. BarItems(bars) \subseteq TimeItems
  BY <1>1, <1>2 DEF TimeItems
<1> DEFINE T == {j \in DOMAIN J : J[j].kind = "Trade"}
           f == [i \in T |-> Item(Bucket(d, J[i].ts), Bucket(d, J[i].ts))]
<1>4. IsFiniteSet(T)
  <2>1. T \subseteq 1 .. Len(J) /\ Len(J) \in Nat
    BY SeqKept DEF Kept
  <2>2. IsFiniteSet(1 .. Len(J))
    BY <2>1, FS_Interval
  <2> HIDE DEF T
  <2> QED BY <2>1, <2>2, FS_Subset
<1>5. BarItems(bars) = {f[i] : i \in DOMAIN f}
  <2>1. B = {Bucket(d, J[i].ts) : i \in T}
    BY DEF Buckets
  <2> HIDE DEF B, T
  <2>2. {Item(t, t) : t \in B} = {f[i] : i \in T}
    BY <2>1
  <2> QED BY <1>2, <2>2
<1>6. DOMAIN f = T /\ f = [i \in DOMAIN f |-> f[i]]
  OBVIOUS
<1> HIDE DEF f, T
<1>7. IsFiniteSet(BarItems(bars))
  BY <1>4, <1>5, <1>6, ImageFinite
<1> QED BY <1>2, <1>3, <1>7

\* Where a client is: it has seen, once, whatever of what it sought lies before its
\* cursor, and nothing beyond; at the end of the pages, all that it sought.
PagerOk(p, items) ==
  /\ p.again = FALSE /\ p.open \in BOOLEAN /\ p.seen \subseteq TimeItems
  /\ p.open => /\ p.cursor \in Nat /\ p.sought \subseteq items
               /\ \A x \in p.seen : x.id <= p.cursor
               /\ \A x \in p.sought : x.id <= p.cursor => x \in p.seen
  /\ ~p.open => p.cursor = NoCursor /\ (p.seen # {} => p.sought \subseteq p.seen)

\* The pager after a page was shown.
Shown(p, page, items) ==
  [open |-> page.next # NoCursor, cursor |-> page.next,
   seen |-> p.seen \cup page.items,
   again |-> p.again \/ p.seen \cap page.items # {},
   sought |-> IF p.open THEN p.sought ELSE items]

\* A page keeps a client where it should be.
LEMMA ShownOk ==
  ASSUME NEW items \in SUBSET TimeItems, IsFiniteSet(items),
         NEW p, PagerOk(p, items), ~p.open => p.seen = {},
         Page(items, p.cursor).items # {}
  PROVE  PagerOk(Shown(p, Page(items, p.cursor), items), items)
<1> DEFINE cursor == p.cursor
           page == Page(items, cursor)
           P == page.items
           next == page.next
           q == Shown(p, page, items)
<1>1. cursor \in Nat \cup {NoCursor}
  BY DEF PagerOk
<1>2. /\ P \subseteq items /\ (\A x \in P : cursor < x.id) /\ next \in Nat \cup {NoCursor}
      /\ next = NoCursor => \A x \in items : cursor < x.id => x \in P
      /\ next # NoCursor =>
           /\ cursor < next /\ (\A x \in P : x.id <= next)
           /\ \A x \in items : cursor < x.id /\ x.id <= next => x \in P
  <2> HIDE DEF cursor
  <2>1. Page(items, cursor).items # {}
    BY DEF cursor
  <2> QED BY <1>1, <2>1, PageIs
<1>3. P # {}
  OBVIOUS
<1> SUFFICES PagerOk(q, items)
  OBVIOUS
<1>4. /\ q.open = (next # NoCursor) /\ q.cursor = next /\ q.seen = p.seen \cup P
      /\ q.again = (p.again \/ p.seen \cap P # {})
      /\ q.sought = IF p.open THEN p.sought ELSE items
  BY DEF Shown
<1> HIDE DEF cursor, page, P, next, q
<1>5. \A x \in items : x.id \in Nat /\ NoCursor < x.id /\ x \in TimeItems
  BY TimeItem DEF NoCursor
<1>6. \A x \in p.seen : x.id \in Nat
  BY TimeItem DEF PagerOk
<1>7. p.seen \cap P = {}
  <2>1. CASE p.open
    <3>1. \A x \in p.seen : x.id <= cursor
      BY <2>1 DEF PagerOk, cursor
    <3>2. cursor \in Nat
      BY <2>1 DEF PagerOk, cursor
    <3> QED BY <1>2, <1>5, <1>6, <3>1, <3>2
  <2>2. CASE ~p.open
    BY <2>2
  <2> QED BY <2>1, <2>2
<1>8. q.again = FALSE
  <2>1. p.again = FALSE
    BY DEF PagerOk
  <2> QED BY <1>4, <1>7, <2>1
<1>9. q.seen \subseteq TimeItems /\ q.open \in BOOLEAN
  BY <1>2, <1>4, <1>5 DEF PagerOk
<1>10. \A x \in q.sought : x \in items /\ (x.id <= cursor => x \in p.seen)
  <2>1. CASE p.open
    BY <1>4, <2>1 DEF PagerOk, cursor
  <2>2. CASE ~p.open
    <3>1. cursor = NoCursor /\ q.sought = items
      BY <1>4, <2>2 DEF PagerOk, cursor
    <3>2. \A x \in items : ~(x.id <= NoCursor)
      BY <1>5 DEF NoCursor
    <3> QED BY <3>1, <3>2
  <2> QED BY <2>1, <2>2
<1>11. cursor \in Int /\ \A x \in items : x.id <= cursor \/ cursor < x.id
  BY <1>1, <1>5 DEF NoCursor
<1>12. CASE next = NoCursor
  <2>1. \A x \in q.sought : x \in q.seen
    BY <1>2, <1>4, <1>10, <1>11, <1>12
  <2>2. ~q.open /\ q.cursor = NoCursor
    BY <1>4, <1>12
  <2> QED BY <1>8, <1>9, <2>1, <2>2 DEF PagerOk
<1>13. CASE next # NoCursor
  <2>1. next \in Nat /\ cursor < next
    BY <1>2, <1>13
  <2>2. \A x \in q.seen : x.id <= next
    <3>1. ASSUME NEW x \in p.seen PROVE x.id <= next
      <4>1. p.open
        BY <3>1
      <4>2. x.id <= cursor /\ x.id \in Nat
        BY <1>6, <4>1 DEF PagerOk, cursor
      <4> QED BY <1>11, <2>1, <4>2
    <3>2. \A x \in P : x.id <= next
      BY <1>2, <1>13
    <3> QED BY <1>4, <3>1, <3>2
  <2>3. \A x \in q.sought : x.id <= next => x \in q.seen
    BY <1>2, <1>4, <1>10, <1>11, <1>13
  <2>4. q.open /\ q.cursor = next /\ q.sought \subseteq items
    BY <1>4, <1>10, <1>13
  <2> QED BY <1>8, <1>9, <2>1, <2>2, <2>3, <2>4 DEF PagerOk
<1> QED BY <1>12, <1>13

\* More items do not change that.
LEMMA PagerGrows ==
  ASSUME NEW p, NEW items, NEW more, items \subseteq more, PagerOk(p, items)
  PROVE  PagerOk(p, more)
BY DEF PagerOk

\* And one that has asked for nothing yet is.
LEMMA IdleOk == \A items : PagerOk(Idle, items)
BY DEF PagerOk, Idle

\* The inductive invariant.
ArchiveInv ==
  /\ ArchiveOk
  /\ DOMAIN pagers = Asks
  /\ "bars" \in Asks => PagerOk(pagers["bars"], BarItems(archive.bars[Asked]))

\* The invariant holds at first.
LEMMA InvStarts == ArchiveInit => ArchiveInv
<1> HAVE ArchiveInit
<1>1. ArchiveOk
  BY ArchiveStarts
<1>2. pagers = [k \in Asks |-> Idle]
  BY DEF ArchiveInit
<1>3. DOMAIN pagers = Asks /\ \A k \in Asks : pagers[k] = Idle
  BY <1>2
<1> QED BY <1>1, <1>3, IdleOk DEF ArchiveInv

\* The items of the interval that is asked for.
LEMMA ItemsOk ==
  ASSUME ArchiveOk
  PROVE  LET items == BarItems(archive.bars[Asked])
         IN  /\ items = {Item(t, t) : t \in Buckets(archive.journal, Asked)}
             /\ items \in SUBSET TimeItems /\ IsFiniteSet(items)
<1>1. Shows(archive.bars[Asked], archive.journal, Asked) /\ archive.journal \in Seq(Rec)
  BY AskedIs DEF ArchiveOk, IngestOk
<1> QED BY <1>1, ItemsAre

\* A record keeps the clients where they are.
LEMMA RecordInv ==
  ASSUME ArchiveInv, NEW kind \in {"Trade", "Bbo"}, NEW price \in Int, NEW qty \in Nat,
         Feed(kind, price, qty)
  PROVE  ArchiveInv'
<1> DEFINE A == Buckets(archive.journal, Asked)
           B == Buckets(archive'.journal, Asked)
           I == BarItems(archive.bars[Asked])
           K == BarItems(archive'.bars[Asked])
<1>0. ArchiveOk
  BY DEF ArchiveInv
<1>1. ArchiveOk' /\ A \subseteq B
  BY <1>0, FeedKeeps, AskedIs
<1>2. I = {Item(t, t) : t \in A}
  BY <1>0, ItemsOk
<1>3. K = {Item(t, t) : t \in B}
  <2>1. Shows(archive'.bars[Asked], archive'.journal, Asked) /\ archive'.journal \in Seq(Rec)
    BY <1>1, AskedIs DEF ArchiveOk, IngestOk
  <2> QED BY <2>1, ItemsAre
<1>4. pagers' = pagers
  BY DEF Feed
<1> HIDE DEF A, B
<1>5. I \subseteq K
  BY <1>1, <1>2, <1>3
<1> HIDE DEF I, K
<1>6. "bars" \in Asks => PagerOk(pagers["bars"], K)
  <2>1. "bars" \in Asks => PagerOk(pagers["bars"], I)
    BY DEF ArchiveInv, I
  <2> QED BY <1>5, <2>1, PagerGrows
<1>7. DOMAIN pagers = Asks
  BY DEF ArchiveInv
<1> QED BY <1>1, <1>4, <1>6, <1>7 DEF ArchiveInv, K

\* A request moves the client of its kind to the next page (get_bars).
LEMMA RequestInv ==
  ASSUME ArchiveInv, NEW k \in Asks, Request(k)
  PROVE  ArchiveInv'
<1> DEFINE items == BarItems(archive.bars[Asked])
           p == pagers[k]
           Pg == IF k = "bars" THEN PageBars(archive.bars[Asked], p.cursor)
                 ELSE PageTrades(archive.journal, p.cursor)
           q == [open |-> Pg.next # NoCursor, cursor |-> Pg.next,
                 seen |-> p.seen \cup Pg.items,
                 again |-> p.again \/ p.seen \cap Pg.items # {},
                 sought |-> IF p.open THEN p.sought ELSE Items(k)]
<1>1. /\ ~p.open => p.seen = {}
      /\ Pg.items # {} /\ pagers' = [pagers EXCEPT ![k] = q]
      /\ clock' = clock /\ seq' = seq /\ archive' = archive
  BY DEF Request
<1> HIDE DEF q
<1>2. DOMAIN pagers = Asks /\ DOMAIN pagers' = Asks /\ pagers'[k] = q
      /\ \A j \in Asks \ {k} : pagers'[j] = pagers[j]
  BY <1>1 DEF ArchiveInv
<1>3. ArchiveOk /\ ArchiveOk'
  BY <1>1 DEF ArchiveInv, ArchiveOk, IngestOk
<1>4. ASSUME "bars" \in Asks PROVE PagerOk(pagers'["bars"], items)
  <2>0. PagerOk(pagers["bars"], items)
    BY <1>4 DEF ArchiveInv
  <2>1. CASE k = "bars"
    <3>1. Pg = Page(items, p.cursor)
      BY <2>1 DEF PageBars
    <3>2. Items(k) = items
      BY <2>1 DEF Items
    <3>3. q = Shown(p, Page(items, p.cursor), items)
      BY <3>1, <3>2 DEF q, Shown
    <3>4. items \in SUBSET TimeItems /\ IsFiniteSet(items)
      BY <1>3, ItemsOk
    <3>5. PagerOk(p, items) /\ (~p.open => p.seen = {}) /\ Page(items, p.cursor).items # {}
      BY <1>1, <2>0, <2>1, <3>1
    <3> HIDE DEF items, p
    <3>6. PagerOk(q, items)
      BY <3>3, <3>4, <3>5, ShownOk
    <3> QED BY <1>2, <2>1, <3>6
  <2>2. CASE k # "bars"
    BY <1>2, <1>4, <2>0, <2>2
  <2> QED BY <2>1, <2>2
<1>5. BarItems(archive.bars[Asked])' = items
  BY <1>1
<1> HIDE DEF items
<1> QED BY <1>2, <1>3, <1>4, <1>5 DEF ArchiveInv

\* Whatever the clock does, no bar and no client changes.
LEMMA ClockInv ==
  ASSUME ArchiveInv, ClockTicks \/ SetBack
  PROVE  ArchiveInv'
<1>1. archive' = archive /\ seq' = seq /\ pagers' = pagers
  BY DEF ClockTicks, SetBack
<1>2. clock' \in Nat /\ Start <= clock'
  <2>1. clock \in Nat /\ Start <= clock /\ Start \in Nat
    BY ArchiveAssumption DEF ArchiveInv, ArchiveOk
  <2> QED BY <2>1 DEF ClockTicks, SetBack
<1>3. ArchiveOk'
  BY <1>1, <1>2 DEF ArchiveInv, ArchiveOk, IngestOk
<1> QED BY <1>1, <1>3 DEF ArchiveInv

\* Every step keeps the invariant.
LEMMA ArchiveStep == ArchiveInv /\ [ArchiveNext]_archiveVars => ArchiveInv'
<1> SUFFICES ASSUME ArchiveInv, [ArchiveNext]_archiveVars PROVE ArchiveInv'
  OBVIOUS
<1>1. ASSUME NEW price \in Prices, NEW qty \in Quantities, Feed("Trade", price, qty)
      PROVE  ArchiveInv'
  <2>1. price \in Int /\ qty \in Nat
    BY ArchiveAssumption
  <2> QED BY <1>1, <2>1, RecordInv
<1>2. ASSUME Feed("Bbo", Max(Prices), 0) PROVE ArchiveInv'
  <2>1. Max(Prices) \in Int
    BY ArchiveAssumption, MaxIs
  <2> DEFINE p == Max(Prices)
             n == 0
  <2>2. Feed("Bbo", p, n) /\ p \in Int /\ n \in Nat
    BY <1>2, <2>1
  <2> HIDE DEF p, n
  <2> QED BY <2>2, RecordInv
<1>3. ASSUME NEW k \in Asks, Request(k) PROVE ArchiveInv'
  BY <1>3, RequestInv
<1>4. ASSUME ClockTicks \/ SetBack PROVE ArchiveInv'
  BY <1>4, ClockInv
<1>5. ASSUME UNCHANGED archiveVars PROVE ArchiveInv'
  BY <1>5 DEF archiveVars, ArchiveInv, ArchiveOk, IngestOk
<1> QED BY <1>1, <1>2, <1>3, <1>4, <1>5 DEF ArchiveNext

\* What the runs check follows from it.
LEMMA InvHasAll == ArchiveInv => BarsMatchTrades /\ BarPagesCover
<1> HAVE ArchiveInv
<1>1. BarsMatchTrades
  <2>1. ASSUME NEW d \in Durations PROVE Shows(archive.bars[d], archive.journal, d)
    BY DEF ArchiveInv, ArchiveOk, IngestOk
  <2> QED BY <2>1, ShowsMatches DEF BarsMatchTrades
<1>2. ASSUME "bars" \in Asks PROVE Followed("bars")
  <2> DEFINE p == pagers["bars"]
             items == BarItems(archive.bars[Asked])
  <2>1. PagerOk(p, items)
    BY <1>2 DEF ArchiveInv
  <2> HIDE DEF p, items
  <2>2. ~p.again /\ (p.seen # {} /\ ~p.open => p.sought \subseteq p.seen)
    BY <2>1 DEF PagerOk
  <2> QED BY <2>2 DEF Followed, p
<1> QED BY <1>1, <1>2 DEF BarPagesCover

\* The bars of every interval are those that the journal asks for, for any intervals,
\* prices, quantities and clock (BarAggregator::apply_interval, load_journal).
THEOREM BarsHold == ArchiveSpec => []BarsMatchTrades
BY InvStarts, ArchiveStep, InvHasAll, PTL DEF ArchiveSpec

\* A client that follows the cursors sees each bar once, and all that there were when it
\* began, for any page size, while prints go on arriving (page_bars).
THEOREM PagesHold == ArchiveSpec => []BarPagesCover
BY InvStarts, ArchiveStep, InvHasAll, PTL DEF ArchiveSpec
=============================================================================
