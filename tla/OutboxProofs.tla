---------------------------- MODULE OutboxProofs ----------------------------
(***************************************************************************)
(* Proofs about Outbox, for any number of publishers, events and faults:   *)
(* what is marked was sent, and every copy beyond the first has its fault. *)
(***************************************************************************)
EXTENDS Outbox, FiniteSetTheorems, TLAPS

Stages == {"idle", "sending", "marking"}

\* What the proofs need of TypeOK, in the form they need it.
Shape ==
  /\ last \in Nat /\ last <= MaxEvents /\ open \subseteq 1 .. last
  /\ DOMAIN rows \subseteq (1 .. last) \ open
  /\ rows \in [DOMAIN rows -> [published : BOOLEAN, left : Free .. Window]]
  /\ work \in [Publishers -> [at : Stages, batch : SUBSET DOMAIN rows]]
  /\ \A p \in Publishers : work[p].at = "idle" <=> work[p].batch = {}
  /\ copies \in [Ids -> Nat] /\ excuses \in [Ids -> Nat]

\* Publishers that will send event id, unless they fail.
Unsent(id) ==
  {p \in Publishers : id \in work[p].batch /\ ~(work[p].at = "marking" /\ id = Current(p))}

\* Who waits for the mark has sent, and so has whoever marked.
SentFirst ==
  /\ \A p \in Publishers : work[p].at = "marking" => copies[Current(p)] > 0
  /\ PublishedWasSent

\* Copies made and still to be made have their excuses; an event nobody holds and
\* that will be claimed again has one left over for that claim.
Explained(id) ==
  /\ copies[id] + Cardinality(Unsent(id)) <= 1 + excuses[id]
  /\ (id \in DOMAIN rows => ~rows[id].published) /\ ~InHands(id) => copies[id] <= excuses[id]
  /\ id \notin DOMAIN rows => copies[id] = 0

OutboxInv == Shape /\ SentFirst /\ \A id \in Ids : Explained(id)

-----------------------------------------------------------------------------
(* The first event of a batch.                                             *)

\* A set of event ids has a smallest one: < is well founded on the naturals.
LEMMA LeastId ==
  ASSUME NEW S \in SUBSET Nat, S # {}
  PROVE  \E x \in S : \A y \in S : x <= y
<1> DEFINE Less == {ss \in Nat \X Nat : ss[1] < ss[2]}
<1>1. IsWellFoundedOn(Less, Nat)
  BY NatLessThanWellFounded DEF OpToRel
<1>2. PICK x \in S : \A y \in S : <<y, x>> \notin Less
  <2> HIDE DEF Less
  <2>1. QED
    BY <1>1, WFMin
<1>3. ASSUME NEW y \in S
      PROVE  x <= y
  <2>1. x \in Nat /\ y \in Nat
    OBVIOUS
  <2>2. <<y, x>> \notin Less
    BY <1>2
  <2>3. ~(y < x)
    BY <2>1, <2>2
  <2>4. QED
    BY <2>1, <2>3
<1>4. QED
  BY <1>3

\* A publisher that is in a batch has a current event, and it is in the batch.
LEMMA CurrentInBatch ==
  ASSUME Shape, NEW p \in Publishers, work[p].at # "idle"
  PROVE  Current(p) \in work[p].batch /\ Current(p) \in DOMAIN rows /\ Current(p) \in Ids
<1>1. work[p].batch \subseteq DOMAIN rows /\ work[p].batch # {}
  BY DEF Shape
<1>2. DOMAIN rows \subseteq Nat /\ DOMAIN rows \subseteq Ids
  BY OutboxAssumption DEF Shape, Ids
<1>3. \E x \in work[p].batch : \A y \in work[p].batch : x <= y
  BY <1>1, <1>2, LeastId
<1>4. Current(p) \in work[p].batch
  BY <1>3 DEF Current, Min
<1>5. QED
  BY <1>1, <1>2, <1>4

LEMMA UnsentFinite ==
  ASSUME NEW id
  PROVE  IsFiniteSet(Unsent(id)) /\ Cardinality(Unsent(id)) \in Nat
<1>1. Unsent(id) \subseteq Publishers
  BY DEF Unsent
<1>2. QED
  BY <1>1, OutboxAssumption, FS_Subset, FS_CardinalityType
-----------------------------------------------------------------------------
(* What a step of one publisher does to the publishers that still send.    *)

LEMMA Recount ==
  ASSUME NEW p \in Publishers, NEW id, \A q \in Publishers \ {p} : work'[q] = work[q]
  PROVE  /\ p \in Unsent(id) /\ p \in Unsent(id)' => Cardinality(Unsent(id)') = Cardinality(Unsent(id))
         /\ p \notin Unsent(id) /\ p \notin Unsent(id)' => Cardinality(Unsent(id)') = Cardinality(Unsent(id))
         /\ p \in Unsent(id) /\ p \notin Unsent(id)' => Cardinality(Unsent(id)') = Cardinality(Unsent(id)) - 1
         /\ p \notin Unsent(id) /\ p \in Unsent(id)' => Cardinality(Unsent(id)') = Cardinality(Unsent(id)) + 1
<1>1. Unsent(id)' \ {p} = Unsent(id) \ {p}
  <2>1. ASSUME NEW q \in Publishers \ {p}
        PROVE  q \in Unsent(id)' <=> q \in Unsent(id)
    BY DEF Unsent, Current
  <2>2. Unsent(id) \subseteq Publishers /\ Unsent(id)' \subseteq Publishers
    BY DEF Unsent
  <2>3. QED
    BY <2>1, <2>2
<1>2. Unsent(id)' \subseteq Publishers
  BY DEF Unsent
<1>3. IsFiniteSet(Unsent(id)')
  BY <1>2, OutboxAssumption, FS_Subset
<1>4. IsFiniteSet(Unsent(id)) /\ Cardinality(Unsent(id)) \in Nat
  BY UnsentFinite
<1>5. Cardinality(Unsent(id) \ {p}) = IF p \in Unsent(id) THEN Cardinality(Unsent(id)) - 1
                                      ELSE Cardinality(Unsent(id))
  BY <1>4, FS_RemoveElement
<1>6. Cardinality(Unsent(id)' \ {p}) = IF p \in Unsent(id)' THEN Cardinality(Unsent(id)') - 1
                                       ELSE Cardinality(Unsent(id)')
  BY <1>3, FS_RemoveElement
<1>7. Cardinality(Unsent(id)') \in Nat
  BY <1>3, FS_CardinalityType
<1>8. Cardinality(Unsent(id)' \ {p}) = Cardinality(Unsent(id) \ {p})
  BY <1>1
<1>9. QED
  BY <1>4, <1>5, <1>6, <1>7, <1>8

\* A publisher that gives its batch up leaves every event explained, if it had not
\* sent it or takes an excuse for what it sent.
LEMMA GiveUpExplains ==
  ASSUME OutboxInv, NEW p \in Publishers, GiveUp(p), NEW id \in Ids, DOMAIN rows' = DOMAIN rows,
         id \in DOMAIN rows /\ rows[id].published => rows'[id].published,
         id \notin DOMAIN rows => copies'[id] = copies[id],
         copies'[id] \in Nat, excuses'[id] \in Nat,
         \/ id \notin work[p].batch /\ copies'[id] = copies[id] /\ excuses'[id] = excuses[id]
         \/ p \in Unsent(id) /\ copies'[id] = copies[id] /\ excuses'[id] = excuses[id]
         \/ p \in Unsent(id) /\ copies'[id] = copies[id] + 1 /\ excuses'[id] = excuses[id] + 1
         \/ copies'[id] = copies[id] /\ excuses'[id] = excuses[id] + 1
  PROVE  Explained(id)'
<1>1. copies[id] \in Nat /\ excuses[id] \in Nat /\ work' = [work EXCEPT ![p] = Idle]
  BY DEF OutboxInv, Shape, GiveUp
<1>2. work'[p].batch = {} /\ \A q \in Publishers \ {p} : work'[q] = work[q]
  BY <1>1 DEF OutboxInv, Shape, Idle
<1>3. p \notin Unsent(id)'
  BY <1>2 DEF Unsent
<1>4. Cardinality(Unsent(id)') = Cardinality(Unsent(id)) - (IF p \in Unsent(id) THEN 1 ELSE 0)
  BY <1>2, <1>3, Recount, UnsentFinite
<1>5. Cardinality(Unsent(id)) \in Nat /\ Cardinality(Unsent(id)') \in Nat
  <2>1. Unsent(id)' \subseteq Publishers
    BY DEF Unsent
  <2>2. QED
    BY <2>1, UnsentFinite, OutboxAssumption, FS_Subset, FS_CardinalityType
<1>6. copies'[id] + Cardinality(Unsent(id)') <= 1 + excuses'[id]
  BY <1>1, <1>4, <1>5 DEF OutboxInv, Explained
<1>7. ASSUME id \in DOMAIN rows' => ~rows'[id].published, ~InHands(id)'
      PROVE  copies'[id] <= excuses'[id]
  <2>1. CASE InHands(id)
    <3>1. id \in work[p].batch
      BY <1>2, <1>7, <2>1 DEF InHands
    <3>2. copies[id] + Cardinality(Unsent(id)) <= 1 + excuses[id]
      BY DEF OutboxInv, Explained
    <3>3. p \in Unsent(id) => Cardinality(Unsent(id)) >= 1
      BY <1>4, <1>5
    <3>4. QED
      BY <1>1, <1>5, <3>1, <3>2, <3>3
  <2>2. CASE ~InHands(id)
    <3>1. copies[id] <= excuses[id]
      BY <1>7, <2>2 DEF OutboxInv, Explained
    <3>2. QED
      BY <1>1, <3>1
  <2>3. QED
    BY <2>1, <2>2
<1>8. QED
  BY <1>6, <1>7 DEF OutboxInv, Explained
-----------------------------------------------------------------------------
(* Steps that leave publishers and the bus alone.                          *)

\* Nothing changes for an event whose row, copies and excuses stay as they are.
LEMMA RowsExplain ==
  ASSUME OutboxInv, NEW id \in Ids, work' = work, copies' = copies, excuses' = excuses,
         id \in DOMAIN rows => id \in DOMAIN rows' /\ (rows[id].published => rows'[id].published),
         id \notin DOMAIN rows' => id \notin DOMAIN rows
  PROVE  Explained(id)'
<1>1. Unsent(id)' = Unsent(id) /\ (InHands(id)' <=> InHands(id))
  BY DEF Unsent, InHands, Current
<1>2. CASE id \in DOMAIN rows
  BY <1>1, <1>2 DEF OutboxInv, Explained
<1>3. CASE id \notin DOMAIN rows
  <2>1. copies[id] = 0 /\ copies[id] <= excuses[id]
    BY <1>3 DEF OutboxInv, Shape, Explained
  <2>2. QED
    BY <1>1, <1>3, <2>1 DEF OutboxInv, Explained
<1>4. QED
  BY <1>2, <1>3

LEMMA SentFirstKeeps ==
  ASSUME OutboxInv, work' = work, copies' = copies,
         \A id \in DOMAIN rows' : rows'[id].published => id \in DOMAIN rows /\ rows[id].published
  PROVE  SentFirst'
<1>1. \A p \in Publishers : Current(p)' = Current(p)
  BY DEF Current
<1>2. QED
  BY <1>1 DEF OutboxInv, SentFirst, PublishedWasSent

LEMMA TransactionsKeep ==
  ASSUME OutboxInv, Insert \/ (\E id \in Ids : CommitTx(id) \/ AbortTx(id))
  PROVE  OutboxInv'
<1>1. CASE Insert
  <2>1. Shape'
    BY <1>1, OutboxAssumption DEF OutboxInv, Shape, Insert
  <2>2. rows' = rows /\ work' = work /\ copies' = copies /\ excuses' = excuses
    BY <1>1 DEF Insert
  <2>3. SentFirst'
    BY <2>2, SentFirstKeeps
  <2>4. QED
    BY <2>1, <2>2, <2>3, RowsExplain DEF OutboxInv
<1>2. ASSUME NEW new \in Ids, CommitTx(new)
      PROVE  OutboxInv'
  <2>1. /\ work' = work /\ copies' = copies /\ excuses' = excuses
        /\ last' = last /\ new \in open /\ open' = open \ {new}
        /\ rows' = [x \in DOMAIN rows \cup {new} |->
                      IF x = new THEN [published |-> FALSE, left |-> Free] ELSE rows[x]]
    BY <1>2 DEF CommitTx
  <2>2. new \notin DOMAIN rows /\ new \in 1 .. last
    BY <2>1 DEF OutboxInv, Shape
  <2>3. rows' \in [DOMAIN rows' -> [published : BOOLEAN, left : Free .. Window]]
    BY <2>1, OutboxAssumption DEF OutboxInv, Shape, Free
  <2>4. DOMAIN rows' = DOMAIN rows \cup {new}
    BY <2>1
  <2>5. work' \in [Publishers -> [at : Stages, batch : SUBSET DOMAIN rows']]
    BY <2>1, <2>4 DEF OutboxInv, Shape
  <2>6. Shape'
    BY <2>1, <2>2, <2>3, <2>4, <2>5 DEF OutboxInv, Shape
  <2>7. SentFirst'
    <3>1. \A id \in DOMAIN rows' : rows'[id].published => id \in DOMAIN rows /\ rows[id].published
      BY <2>1
    <3>2. QED
      BY <2>1, <3>1, SentFirstKeeps
  <2>8. ASSUME NEW id \in Ids
        PROVE  Explained(id)'
    <3>1. id \in DOMAIN rows => id \in DOMAIN rows' /\ (rows[id].published => rows'[id].published)
      BY <2>1, <2>2
    <3>2. QED
      BY <2>1, <2>4, <3>1, RowsExplain
  <2>9. QED
    BY <2>6, <2>7, <2>8 DEF OutboxInv
<1>3. ASSUME NEW old \in Ids, AbortTx(old)
      PROVE  OutboxInv'
  <2>1. rows' = rows /\ work' = work /\ copies' = copies /\ excuses' = excuses
    BY <1>3 DEF AbortTx
  <2>2. Shape'
    BY <1>3 DEF OutboxInv, Shape, AbortTx
  <2>3. SentFirst'
    BY <2>1, SentFirstKeeps
  <2>4. QED
    BY <2>1, <2>2, <2>3, RowsExplain DEF OutboxInv
<1>4. QED
  BY <1>1, <1>2, <1>3

LEMMA ElsewhereKeeps ==
  ASSUME OutboxInv, UNCHANGED <<last, open, rows, work, copies, excuses>>
  PROVE  OutboxInv'
<1>1. Shape'
  BY DEF OutboxInv, Shape
<1>2. SentFirst'
  BY SentFirstKeeps
<1>3. QED
  BY <1>1, <1>2, RowsExplain DEF OutboxInv

LEMMA TickKeeps ==
  ASSUME OutboxInv, Tick
  PROVE  OutboxInv'
<1>1. /\ work' = work /\ copies' = copies /\ excuses' = excuses /\ last' = last /\ open' = open
      /\ rows' = [id \in DOMAIN rows |->
                    IF rows[id].left > Free THEN [rows[id] EXCEPT !.left = @ - 1] ELSE rows[id]]
  BY DEF Tick
<1>2. DOMAIN rows' = DOMAIN rows
  BY <1>1
<1>3. ASSUME NEW id \in DOMAIN rows
      PROVE  /\ rows'[id] \in [published : BOOLEAN, left : Free .. Window]
             /\ rows'[id].published = rows[id].published
  <2>1. rows[id] \in [published : BOOLEAN, left : Free .. Window]
    BY DEF OutboxInv, Shape
  <2>2. CASE rows[id].left > Free
    <3>1. rows'[id] = [rows[id] EXCEPT !.left = rows[id].left - 1]
      BY <1>1, <2>2
    <3>2. rows[id].left - 1 \in Free .. Window
      BY <2>1, <2>2, OutboxAssumption DEF Free
    <3>3. QED
      BY <2>1, <3>1, <3>2
  <2>3. CASE ~(rows[id].left > Free)
    BY <1>1, <2>1, <2>3
  <2>4. QED
    BY <2>2, <2>3
<1>4. rows' \in [DOMAIN rows' -> [published : BOOLEAN, left : Free .. Window]]
  BY <1>1, <1>2, <1>3
<1>5. Shape'
  BY <1>1, <1>2, <1>4 DEF OutboxInv, Shape
<1>6. SentFirst'
  BY <1>1, <1>2, <1>3, SentFirstKeeps
<1>7. ASSUME NEW id \in Ids
      PROVE  Explained(id)'
  BY <1>1, <1>2, <1>3, RowsExplain
<1>8. QED
  BY <1>5, <1>6, <1>7 DEF OutboxInv
-----------------------------------------------------------------------------
(* Steps of a publisher.                                                   *)

\* LIMIT takes something if there is something.
LEMMA FirstOfSome ==
  ASSUME NEW ids \in SUBSET Nat, ids # {}
  PROVE  FirstOf(ids) # {} /\ FirstOf(ids) \subseteq ids
<1>1. PICK least \in ids : \A other \in ids : least <= other
  BY LeastId
<1>2. ASSUME NEW other \in ids
      PROVE  ~(other < least)
  <2>1. other \in Nat /\ least \in Nat /\ least <= other
    BY <1>1
  <2>2. QED
    BY <2>1
<1>3. Cardinality({other \in ids : other < least}) = 0
  <2>1. {other \in ids : other < least} = {}
    BY <1>2
  <2>2. QED
    BY <2>1, FS_EmptySet
<1>4. least \in FirstOf(ids)
  BY <1>3, OutboxAssumption DEF FirstOf
<1>5. QED
  BY <1>4 DEF FirstOf

LEMMA PollKeeps ==
  ASSUME OutboxInv, NEW p \in Publishers, Poll(p)
  PROVE  OutboxInv'
<1> DEFINE batch == FirstOf(Claimable)
<1>1. Claimable \subseteq DOMAIN rows /\ Claimable \subseteq Nat /\ Claimable # {}
  BY DEF Claimable, Poll, OutboxInv, Shape
<1>2. batch # {} /\ batch \subseteq Claimable
  BY <1>1, FirstOfSome
<1>3. /\ work' = [work EXCEPT ![p] = [at |-> "sending", batch |-> batch]]
      /\ rows' = [id \in DOMAIN rows |->
                    IF id \in batch THEN [rows[id] EXCEPT !.left = Window] ELSE rows[id]]
      /\ excuses' = [id \in Ids |->
           IF id \in batch /\ rows[id].left = Free /\ InHands(id) THEN excuses[id] + 1
           ELSE excuses[id]]
      /\ copies' = copies /\ last' = last /\ open' = open /\ work[p].at = "idle"
  BY DEF Poll
<1> HIDE DEF batch
<1>4. DOMAIN rows' = DOMAIN rows
  BY <1>3
<1>5. ASSUME NEW id \in DOMAIN rows
      PROVE  /\ rows'[id] \in [published : BOOLEAN, left : Free .. Window]
             /\ rows'[id].published = rows[id].published
  <2>1. rows[id] \in [published : BOOLEAN, left : Free .. Window] /\ Window \in Free .. Window
    BY OutboxAssumption DEF OutboxInv, Shape, Free
  <2>2. rows'[id] = [rows[id] EXCEPT !.left = Window] \/ rows'[id] = rows[id]
    BY <1>3
  <2>3. QED
    BY <2>1, <2>2
<1>6. work'[p] = [at |-> "sending", batch |-> batch] /\ \A q \in Publishers \ {p} : work'[q] = work[q]
  BY <1>3 DEF OutboxInv, Shape
<1>7. Shape'
  <2>1. work' \in [Publishers -> [at : Stages, batch : SUBSET DOMAIN rows']]
    BY <1>1, <1>2, <1>3, <1>4 DEF OutboxInv, Shape, Stages
  <2>2. \A q \in Publishers : work'[q].at = "idle" <=> work'[q].batch = {}
    BY <1>2, <1>6 DEF OutboxInv, Shape
  <2>3. excuses' \in [Ids -> Nat]
    BY <1>3 DEF OutboxInv, Shape
  <2>4. rows' \in [DOMAIN rows' -> [published : BOOLEAN, left : Free .. Window]]
    BY <1>3, <1>4, <1>5
  <2>5. QED
    BY <1>3, <1>4, <2>1, <2>2, <2>3, <2>4 DEF OutboxInv, Shape
<1>8. SentFirst'
  <2>1. ASSUME NEW q \in Publishers, work'[q].at = "marking"
        PROVE  copies'[Current(q)'] > 0
    <3>1. work'[q] = work[q]
      BY <1>6, <2>1
    <3>2. QED
      BY <1>3, <2>1, <3>1 DEF OutboxInv, SentFirst, Current
  <2>2. PublishedWasSent'
    BY <1>3, <1>4, <1>5 DEF OutboxInv, SentFirst, PublishedWasSent
  <2>3. QED
    BY <2>1, <2>2 DEF SentFirst
<1>9. ASSUME NEW id \in Ids
      PROVE  Explained(id)'
  <2>1. p \notin Unsent(id)
    BY <1>3 DEF Unsent, OutboxInv, Shape
  <2>2. copies[id] \in Nat /\ excuses[id] \in Nat /\ Cardinality(Unsent(id)) \in Nat
    BY UnsentFinite DEF OutboxInv, Shape
  <2>3. CASE id \in batch
    <3>1. id \in DOMAIN rows /\ ~rows[id].published /\ rows[id].left = Free
      <4>1. id \in DOMAIN rows /\ ~rows[id].published /\ rows[id].left < 0
        BY <1>2, <2>3 DEF Claimable
      <4>2. rows[id].left \in Free .. Window
        BY <4>1 DEF OutboxInv, Shape
      <4>3. QED
        BY <4>1, <4>2 DEF Free
    <3>2. p \in Unsent(id)' /\ InHands(id)'
      BY <1>6, <2>3 DEF Unsent, InHands
    <3>3. Cardinality(Unsent(id)') = Cardinality(Unsent(id)) + 1
      BY <1>6, <2>1, <3>2, Recount
    <3>4. CASE InHands(id)
      <4>1. excuses'[id] = excuses[id] + 1
        BY <1>3, <2>3, <3>1, <3>4
      <4>2. QED
        BY <1>3, <1>4, <2>2, <3>1, <3>2, <3>3, <4>1 DEF OutboxInv, Explained
    <3>5. CASE ~InHands(id)
      <4>1. Unsent(id) = {}
        BY <3>5 DEF Unsent, InHands
      <4>2. Cardinality(Unsent(id)) = 0
        BY <4>1, FS_EmptySet
      <4>3. excuses'[id] = excuses[id] /\ copies[id] <= excuses[id]
        BY <1>3, <3>1, <3>5 DEF OutboxInv, Explained
      <4>4. QED
        BY <1>3, <1>4, <2>2, <3>1, <3>2, <3>3, <4>2, <4>3 DEF Explained
    <3>6. QED
      BY <3>4, <3>5
  <2>4. CASE id \notin batch
    <3>1. p \notin Unsent(id)'
      BY <1>6, <2>4 DEF Unsent
    <3>2. Cardinality(Unsent(id)') = Cardinality(Unsent(id))
      BY <1>6, <2>1, <3>1, Recount
    <3>3. InHands(id)' <=> InHands(id)
      <4>1. work[p].batch = {}
        BY <1>3 DEF OutboxInv, Shape
      <4>2. QED
        BY <1>6, <2>4, <4>1 DEF InHands
    <3>4. excuses'[id] = excuses[id] /\ copies'[id] = copies[id]
      BY <1>3, <2>4
    <3>5. id \in DOMAIN rows => rows'[id].published = rows[id].published
      BY <1>5
    <3>6. QED
      BY <1>4, <3>2, <3>3, <3>4, <3>5 DEF OutboxInv, Explained
  <2>5. QED
    BY <2>3, <2>4
<1>10. QED
  BY <1>7, <1>8, <1>9 DEF OutboxInv

LEMMA SendKeeps ==
  ASSUME OutboxInv, NEW p \in Publishers, Send(p)
  PROVE  OutboxInv'
<1> DEFINE now == Current(p)
<1>1. now \in work[p].batch /\ now \in DOMAIN rows /\ now \in Ids
  BY CurrentInBatch DEF Send, OutboxInv
<1>2. /\ copies' = [copies EXCEPT ![now] = @ + 1] /\ work' = [work EXCEPT ![p].at = "marking"]
      /\ UNCHANGED <<last, open, rows, excuses>> /\ work[p].at = "sending"
  BY DEF Send
<1>3. /\ work'[p].at = "marking" /\ work'[p].batch = work[p].batch
      /\ \A q \in Publishers \ {p} : work'[q] = work[q]
  BY <1>2 DEF OutboxInv, Shape
<1>4. Current(p)' = now
  BY <1>3 DEF Current
<1> HIDE DEF now
<1>5. copies' \in [Ids -> Nat] /\ copies'[now] = copies[now] + 1 /\ \A id \in Ids : copies'[id] >= copies[id]
  BY <1>1, <1>2 DEF OutboxInv, Shape
<1>6. Shape'
  <2>1. work' \in [Publishers -> [at : Stages, batch : SUBSET DOMAIN rows]]
    BY <1>2 DEF OutboxInv, Shape, Stages
  <2>2. \A q \in Publishers : work'[q].at = "idle" <=> work'[q].batch = {}
    BY <1>1, <1>3 DEF OutboxInv, Shape
  <2>3. QED
    BY <1>2, <1>5, <2>1, <2>2 DEF OutboxInv, Shape
<1>7. SentFirst'
  <2>1. ASSUME NEW q \in Publishers, work'[q].at = "marking"
        PROVE  copies'[Current(q)'] > 0
    <3>1. CASE q = p
      BY <1>1, <1>4, <1>5, <3>1 DEF OutboxInv, Shape
    <3>2. CASE q # p
      <4>1. Current(q)' = Current(q) /\ work[q].at = "marking"
        BY <1>3, <2>1, <3>2 DEF Current
      <4>2. copies[Current(q)] > 0 /\ Current(q) \in Ids
        BY <4>1, CurrentInBatch DEF OutboxInv, SentFirst
      <4>3. QED
        BY <1>5, <4>1, <4>2 DEF OutboxInv, Shape
    <3>3. QED
      BY <3>1, <3>2
  <2>2. PublishedWasSent'
    <3>1. DOMAIN rows \subseteq Ids
      BY OutboxAssumption DEF OutboxInv, Shape, Ids
    <3>2. QED
      BY <1>2, <1>5, <3>1 DEF OutboxInv, Shape, SentFirst, PublishedWasSent
  <2>3. QED
    BY <2>1, <2>2 DEF SentFirst
<1>8. ASSUME NEW id \in Ids
      PROVE  Explained(id)'
  <2>1. InHands(id)' <=> InHands(id)
    BY <1>3 DEF InHands
  <2>2. copies[id] \in Nat /\ excuses[id] \in Nat /\ Cardinality(Unsent(id)) \in Nat
    BY UnsentFinite DEF OutboxInv, Shape
  <2>3. CASE id = now
    <3>1. p \in Unsent(id) /\ p \notin Unsent(id)'
      BY <1>1, <1>2, <1>3, <1>4, <2>3 DEF Unsent
    <3>2. Cardinality(Unsent(id)') = Cardinality(Unsent(id)) - 1
      BY <1>3, <3>1, Recount
    <3>3. InHands(id)'
      BY <1>1, <1>3, <2>3 DEF InHands
    <3>4. QED
      BY <1>1, <1>2, <1>5, <2>2, <2>3, <3>2, <3>3 DEF OutboxInv, Explained
  <2>4. CASE id # now
    <3>1. p \in Unsent(id)' <=> p \in Unsent(id)
      BY <1>2, <1>3, <1>4, <2>4 DEF Unsent
    <3>2. Cardinality(Unsent(id)') = Cardinality(Unsent(id))
      BY <1>3, <3>1, Recount
    <3>3. copies'[id] = copies[id]
      BY <1>2, <2>4 DEF OutboxInv, Shape
    <3>4. QED
      BY <1>2, <2>1, <3>2, <3>3 DEF OutboxInv, Explained
  <2>5. QED
    BY <2>3, <2>4
<1>9. QED
  BY <1>6, <1>7, <1>8 DEF OutboxInv

\* Giving up keeps the shape and what is marked, whatever happens to one event.
LEMMA GiveUpShape ==
  ASSUME OutboxInv, NEW p \in Publishers, GiveUp(p), UNCHANGED <<last, open>>,
         DOMAIN rows' = DOMAIN rows, rows' \in [DOMAIN rows -> [published : BOOLEAN, left : Free .. Window]],
         copies' \in [Ids -> Nat], excuses' \in [Ids -> Nat],
         \A id \in Ids : copies'[id] >= copies[id],
         \A id \in DOMAIN rows : rows'[id].published => rows[id].published \/ copies[id] > 0
  PROVE  Shape' /\ SentFirst'
<1>1. work' = [work EXCEPT ![p] = Idle] /\ work'[p] = Idle /\ \A q \in Publishers \ {p} : work'[q] = work[q]
  BY DEF OutboxInv, Shape, GiveUp
<1>2. Shape'
  <2>1. work' \in [Publishers -> [at : Stages, batch : SUBSET DOMAIN rows]]
    BY <1>1 DEF OutboxInv, Shape, Stages, Idle
  <2>2. \A q \in Publishers : work'[q].at = "idle" <=> work'[q].batch = {}
    BY <1>1 DEF OutboxInv, Shape, Idle
  <2>3. QED
    BY <2>1, <2>2 DEF OutboxInv, Shape
<1>3. ASSUME NEW q \in Publishers, work'[q].at = "marking"
      PROVE  copies'[Current(q)'] > 0
  <2>1. q # p /\ work'[q] = work[q]
    BY <1>1, <1>3 DEF Idle
  <2>2. Current(q)' = Current(q)
    BY <2>1 DEF Current
  <2>3. copies[Current(q)] > 0 /\ Current(q) \in Ids
    BY <1>3, <2>1, CurrentInBatch DEF OutboxInv, SentFirst
  <2>4. QED
    BY <2>2, <2>3 DEF OutboxInv, Shape
<1>4. ASSUME NEW id \in DOMAIN rows', rows'[id].published
      PROVE  copies'[id] > 0
  <2>1. id \in DOMAIN rows /\ id \in Ids
    BY OutboxAssumption DEF OutboxInv, Shape, Ids
  <2>2. copies[id] > 0
    BY <1>4, <2>1 DEF OutboxInv, SentFirst, PublishedWasSent
  <2>3. QED
    BY <2>1, <2>2 DEF OutboxInv, Shape
<1>5. QED
  BY <1>2, <1>3, <1>4 DEF SentFirst, PublishedWasSent

LEMMA SendFailsKeeps ==
  ASSUME OutboxInv, NEW p \in Publishers, SendFails(p)
  PROVE  OutboxInv'
<1> DEFINE now == Current(p)
<1>1. now \in work[p].batch /\ now \in DOMAIN rows /\ now \in Ids
  BY CurrentInBatch DEF SendFails, OutboxInv
<1>2. /\ GiveUp(p) /\ UNCHANGED <<last, open, rows>> /\ work[p].at = "sending"
      /\ \/ copies' = copies /\ excuses' = excuses
         \/ copies' = [copies EXCEPT ![now] = @ + 1] /\ excuses' = [excuses EXCEPT ![now] = @ + 1]
  BY DEF SendFails, Excuse
<1> HIDE DEF now
<1>3. copies \in [Ids -> Nat] /\ excuses \in [Ids -> Nat]
  BY DEF OutboxInv, Shape
<1>4. copies' \in [Ids -> Nat] /\ excuses' \in [Ids -> Nat]
  BY <1>1, <1>2, <1>3
<1>5. \A id \in Ids : copies'[id] >= copies[id]
  BY <1>1, <1>2, <1>3
<1>6. Shape' /\ SentFirst'
  BY <1>2, <1>4, <1>5, GiveUpShape DEF OutboxInv, Shape
<1>7. ASSUME NEW id \in Ids
      PROVE  Explained(id)'
  <2>1. copies'[id] \in Nat /\ excuses'[id] \in Nat
    BY <1>4
  <2>2. id \in work[p].batch => p \in Unsent(id)
    BY <1>2 DEF Unsent
  <2>3. \/ copies'[id] = copies[id] /\ excuses'[id] = excuses[id]
        \/ id = now /\ copies'[id] = copies[id] + 1 /\ excuses'[id] = excuses[id] + 1
    BY <1>1, <1>2, <1>3
  <2>4. id \notin DOMAIN rows => copies'[id] = copies[id]
    BY <1>1, <2>3
  <2>5. QED
    BY <1>1, <1>2, <2>1, <2>2, <2>3, <2>4, GiveUpExplains
<1>8. QED
  BY <1>6, <1>7 DEF OutboxInv

\* A mark that fails, and a crash: the event that was sent has its excuse, and
\* the others of the batch were never sent.
LEMMA LeavesKeeps ==
  ASSUME OutboxInv, NEW p \in Publishers, GiveUp(p), UNCHANGED <<last, open, copies>>,
         \/ work[p].at = "marking" /\ Excuse(Current(p)) /\ rows' \in {rows, Marked(Current(p))}
         \/ work[p].at = "sending" /\ UNCHANGED <<rows, excuses>>
  PROVE  OutboxInv'
<1> DEFINE now == Current(p)
<1>1. now \in work[p].batch /\ now \in DOMAIN rows /\ now \in Ids
  BY CurrentInBatch DEF OutboxInv
<1>2. \/ work[p].at = "marking" /\ excuses' = [excuses EXCEPT ![now] = @ + 1]
         /\ (rows' = rows \/ rows' = [rows EXCEPT ![now].published = TRUE])
      \/ work[p].at = "sending" /\ rows' = rows /\ excuses' = excuses
  BY DEF Excuse, Marked
<1>3. copies[now] > 0 \/ work[p].at = "sending"
  BY DEF OutboxInv, SentFirst
<1>4. \A id \in Ids : id \in work[p].batch => p \in Unsent(id) \/ (id = now /\ work[p].at = "marking")
  BY DEF Unsent
<1> HIDE DEF now
<1>5. copies' = copies /\ copies \in [Ids -> Nat] /\ excuses \in [Ids -> Nat]
  BY DEF OutboxInv, Shape
<1>6. excuses' \in [Ids -> Nat]
  BY <1>1, <1>2, <1>5
<1>7. /\ DOMAIN rows' = DOMAIN rows
      /\ rows' \in [DOMAIN rows -> [published : BOOLEAN, left : Free .. Window]]
      /\ \A id \in DOMAIN rows : rows[id].published => rows'[id].published
      /\ \A id \in DOMAIN rows : rows'[id].published => rows[id].published \/ copies[id] > 0
  <2>1. CASE rows' = rows
    BY <2>1 DEF OutboxInv, Shape
  <2>2. CASE work[p].at = "marking" /\ rows' = [rows EXCEPT ![now].published = TRUE]
    BY <1>1, <1>3, <2>2, ZenonT(60) DEF OutboxInv, Shape
  <2>3. QED
    BY <1>2, <2>1, <2>2
<1>8. Shape' /\ SentFirst'
  BY <1>5, <1>6, <1>7, GiveUpShape
<1>9. ASSUME NEW id \in Ids
      PROVE  Explained(id)'
  <2>1. \/ excuses'[id] = excuses[id]
        \/ id = now /\ excuses'[id] = excuses[id] + 1
    BY <1>1, <1>2, <1>5
  <2>2. id = now /\ work[p].at = "marking" => excuses'[id] = excuses[id] + 1
    BY <1>1, <1>2, <1>5
  <2>3. copies'[id] = copies[id] /\ copies'[id] \in Nat /\ excuses'[id] \in Nat
    BY <1>5, <1>6
  <2>4. \/ id \notin work[p].batch /\ excuses'[id] = excuses[id]
        \/ p \in Unsent(id) /\ excuses'[id] = excuses[id]
        \/ excuses'[id] = excuses[id] + 1
    BY <1>1, <1>4, <2>1, <2>2
  <2>5. QED
    BY <1>7, <2>3, <2>4, GiveUpExplains
<1>10. QED
  BY <1>8, <1>9 DEF OutboxInv

LEMMA MarkKeeps ==
  ASSUME OutboxInv, NEW p \in Publishers, Mark(p)
  PROVE  OutboxInv'
<1> DEFINE now == Current(p)
           rest == work[p].batch \ {now}
           next == IF rest = {} THEN Idle ELSE [at |-> "sending", batch |-> rest]
<1>1. now \in work[p].batch /\ now \in DOMAIN rows /\ now \in Ids
  BY CurrentInBatch DEF Mark, OutboxInv
<1>2. /\ work[p].at = "marking" /\ work' = [work EXCEPT ![p] = next]
      /\ rows' = [rows EXCEPT ![now].published = TRUE]
      /\ UNCHANGED <<last, open, copies, excuses>>
  BY DEF Mark, Marked
<1>3. copies[now] > 0
  BY <1>2 DEF OutboxInv, SentFirst
<1>4. next.batch = rest /\ next.at \in {"idle", "sending"} /\ (next.at = "idle" <=> rest = {})
  BY DEF Idle
<1>5. p \notin Unsent(now) /\ \A id \in Ids : id # now /\ id \in work[p].batch => p \in Unsent(id)
  BY <1>2 DEF Unsent
<1>6. next \in [at : Stages, batch : SUBSET DOMAIN rows]
  BY DEF OutboxInv, Shape, Stages, Idle
<1> HIDE DEF now, next
<1>7. work'[p] = next /\ \A q \in Publishers \ {p} : work'[q] = work[q]
  BY <1>2 DEF OutboxInv, Shape
<1>8. /\ DOMAIN rows' = DOMAIN rows
      /\ rows' \in [DOMAIN rows -> [published : BOOLEAN, left : Free .. Window]]
      /\ rows'[now].published /\ \A id \in DOMAIN rows : id # now => rows'[id] = rows[id]
  BY <1>1, <1>2 DEF OutboxInv, Shape
<1>9. Shape'
  <2>1. work' \in [Publishers -> [at : Stages, batch : SUBSET DOMAIN rows]]
    BY <1>2, <1>6 DEF OutboxInv, Shape
  <2>2. \A q \in Publishers : work'[q].at = "idle" <=> work'[q].batch = {}
    BY <1>4, <1>7 DEF OutboxInv, Shape
  <2>3. QED
    BY <1>2, <1>8, <2>1, <2>2 DEF OutboxInv, Shape
<1>10. SentFirst'
  <2>1. ASSUME NEW q \in Publishers, work'[q].at = "marking"
        PROVE  copies'[Current(q)'] > 0
    <3>1. work'[q] = work[q]
      BY <1>4, <1>7, <2>1
    <3>2. QED
      BY <1>2, <2>1, <3>1 DEF OutboxInv, SentFirst, Current
  <2>2. PublishedWasSent'
    BY <1>2, <1>3, <1>8 DEF OutboxInv, SentFirst, PublishedWasSent
  <2>3. QED
    BY <2>1, <2>2 DEF SentFirst
<1>11. ASSUME NEW id \in Ids
       PROVE  Explained(id)'
  <2>1. copies'[id] = copies[id] /\ excuses'[id] = excuses[id]
    BY <1>2
  <2>2. p \in Unsent(id)' <=> p \in Unsent(id)
    <3>1. p \in Unsent(id)' <=> id \in rest
      BY <1>4, <1>7 DEF Unsent
    <3>2. p \in Unsent(id) <=> id \in rest
      BY <1>5 DEF Unsent
    <3>3. QED
      BY <3>1, <3>2
  <2>3. Cardinality(Unsent(id)') = Cardinality(Unsent(id))
    BY <1>7, <2>2, Recount
  <2>4. id # now => (InHands(id)' <=> InHands(id))
    BY <1>4, <1>7 DEF InHands
  <2>5. id # now /\ id \in DOMAIN rows => rows'[id].published = rows[id].published
    BY <1>8
  <2>6. QED
    BY <1>1, <1>8, <2>1, <2>3, <2>4, <2>5 DEF OutboxInv, Explained
<1>12. QED
  BY <1>9, <1>10, <1>11 DEF OutboxInv
-----------------------------------------------------------------------------
(* The theorems.                                                           *)

LEMMA InitOutboxInv == Init => OutboxInv
<1> SUFFICES ASSUME Init
             PROVE  OutboxInv
  OBVIOUS
<1>1. Shape
  BY OutboxAssumption DEF Init, Shape, Idle, Stages
<1>2. SentFirst
  BY DEF Init, SentFirst, PublishedWasSent, Idle
<1>3. ASSUME NEW id \in Ids
      PROVE  Explained(id)
  <2>1. Unsent(id) = {}
    BY DEF Init, Unsent, Idle
  <2>2. Cardinality(Unsent(id)) = 0
    BY <2>1, FS_EmptySet
  <2>3. QED
    BY <1>3, <2>2 DEF Init, Explained
<1>4. QED
  BY <1>1, <1>2, <1>3 DEF OutboxInv

LEMMA NextOutboxInv == OutboxInv /\ [Next]_vars => OutboxInv'
<1> SUFFICES ASSUME OutboxInv, [Next]_vars
             PROVE  OutboxInv'
  OBVIOUS
<1>1. CASE Insert \/ (\E id \in Ids : CommitTx(id) \/ AbortTx(id))
  BY <1>1, TransactionsKeep
<1>2. CASE Tick
  BY <1>2, TickKeeps
<1>3. ASSUME NEW p \in Publishers,
             Poll(p) \/ Send(p) \/ SendFails(p) \/ Mark(p)
      PROVE  OutboxInv'
  BY <1>3, PollKeeps, SendKeeps, SendFailsKeeps, MarkKeeps
<1>4. ASSUME NEW p \in Publishers, MarkFails(p)
      PROVE  OutboxInv'
  BY <1>4, LeavesKeeps DEF MarkFails
<1>5. ASSUME NEW p \in Publishers, Crash(p)
      PROVE  OutboxInv'
  <2>1. work[p].at \in {"sending", "marking"}
    BY <1>5 DEF Crash, OutboxInv, Shape, Stages
  <2>2. QED
    BY <1>5, <2>1, LeavesKeeps DEF Crash
<1>6. ASSUME NEW p \in Publishers, TakeOver(p) \/ Flip(p)
      PROVE  OutboxInv'
  BY <1>6, ElsewhereKeeps DEF TakeOver, Flip
<1>7. CASE UNCHANGED vars
  BY <1>7, ElsewhereKeeps DEF vars
<1>8. QED
  BY <1>1, <1>2, <1>3, <1>4, <1>5, <1>6, <1>7 DEF Next

\* The inductive invariant holds of every publisher, event and fault.
LEMMA OutboxInvAlways == Spec => []OutboxInv
BY InitOutboxInv, NextOutboxInv, PTL DEF Spec

\* No event is marked as published that the bus never got: whichever calls fail
\* and whoever crashes between sink.publish and mark_published, the row is only
\* marked after a send (deliver).
THEOREM MarkedAfterSent == Spec => []PublishedWasSent
<1>1. OutboxInv => PublishedWasSent
  BY DEF OutboxInv, SentFirst
<1>2. QED
  BY <1>1, OutboxInvAlways, PTL

\* An event reaches the bus once, and once more for each failed call, crash
\* between send and mark, or batch that outlived its claim: with any number of
\* publishers that poll at the same time (claim_unpublished).
THEOREM CopiesAreExplained == Spec => []CopiesExplained
<1>1. OutboxInv => CopiesExplained
  <2> SUFFICES ASSUME OutboxInv, NEW id \in Ids
               PROVE  copies[id] <= 1 + excuses[id]
    BY DEF CopiesExplained
  <2>1. copies[id] \in Nat /\ excuses[id] \in Nat /\ Cardinality(Unsent(id)) \in Nat
    BY UnsentFinite DEF OutboxInv, Shape
  <2>2. QED
    BY <2>1 DEF OutboxInv, Explained
<1>2. QED
  BY <1>1, OutboxInvAlways, PTL
=============================================================================
