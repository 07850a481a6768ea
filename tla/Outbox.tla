------------------------------- MODULE Outbox -------------------------------
(***************************************************************************)
(* The transactional outbox (crates/infrastructure/store/src/outbox.rs)    *)
(* and its publishers (crates/services/order-gateway/src/                  *)
(* outbox_publisher.rs): transactions insert events, a publisher claims a  *)
(* batch of unpublished rows, sends each to the bus and then marks it.     *)
(*                                                                         *)
(* A claim is a time stamp; rows claimed longer than Window ago are free   *)
(* again.  Which publishers may poll is the leader flag of LeaderLease,    *)
(* read once per poll: several may be in a batch at the same time.  The    *)
(* SELECT ... FOR UPDATE SKIP LOCKED and its UPDATEs are one transaction   *)
(* and one step.                                                           *)
(***************************************************************************)
EXTENDS Integers, FiniteSets, FiniteSetsExt

CONSTANTS
  Publishers,   \* run_publisher tasks, one per gateway process
  BatchLimit,   \* LIMIT of one claim
  Window,       \* ticks after which a claim is stale
  MaxEvents,    \* bound: events inserted
  MaxFaults,    \* bound: calls of the bus or the database that fail
  MaxCrashes,   \* bound: publishers that die
  MaxFlips      \* bound: changes of the leader flag while some instance leads

ASSUME OutboxAssumption ==
  /\ IsFiniteSet(Publishers)
  /\ {BatchLimit, Window} \subseteq Nat \ {0}
  /\ {MaxEvents, MaxFaults, MaxCrashes, MaxFlips} \subseteq Nat

Ids == 1 .. MaxEvents
Free == -1

VARIABLES
  last,       \* the last id the sequence of outbox_events gave out
  open,       \* ids of rows whose transaction has not committed
  rows,       \* visible rows: id -> [published, left], left of the claim
  work,       \* where each publisher is, and the ids left of its batch
  leads,      \* publishers whose leader flag is up
  copies,     \* how often the bus got each event
  excuses,    \* history: faults that may each cost one more copy of an event
  count       \* how often each bounded thing has happened

vars == <<last, open, rows, work, leads, copies, excuses, count>>

Idle == [at |-> "idle", batch |-> {}]

Init ==
  /\ last = 0 /\ open = {} /\ rows = [id \in {} |-> id]
  /\ work = [p \in Publishers |-> Idle]
  /\ leads = {}
  /\ copies = [id \in Ids |-> 0] /\ excuses = [id \in Ids |-> 0]
  /\ count = [faults |-> 0, crashes |-> 0, flips |-> 0]

Count(what) == count' = [count EXCEPT ![what] = @ + 1]

-----------------------------------------------------------------------------
(* Transactions that insert events (insert_outbox_tx).                     *)

\* Mutant of Insert: the row is visible before its transaction commits.
InsertVisible ==
  /\ last < MaxEvents
  /\ last' = last + 1 /\ open' = open \cup {last'}
  /\ rows' = [x \in DOMAIN rows \cup {last'} |->
                IF x = last' THEN [published |-> FALSE, left |-> Free] ELSE rows[x]]
  /\ UNCHANGED <<work, leads, copies, excuses, count>>

\* The id comes from a sequence: it is taken before the commit.
Insert ==
  /\ last < MaxEvents
  /\ last' = last + 1 /\ open' = open \cup {last'}
  /\ UNCHANGED <<rows, work, leads, copies, excuses, count>>

\* Transactions end in any order, and some roll back.
CommitTx(id) ==
  /\ id \in open /\ open' = open \ {id}
  /\ rows' = [x \in DOMAIN rows \cup {id} |->
                IF x = id THEN [published |-> FALSE, left |-> Free] ELSE rows[x]]
  /\ UNCHANGED <<last, work, leads, copies, excuses, count>>

AbortTx(id) ==
  /\ id \in open /\ open' = open \ {id}
  /\ UNCHANGED <<last, rows, work, leads, copies, excuses, count>>

-----------------------------------------------------------------------------
(* claim_unpublished_as.                                                   *)

\* Mutants of Claimable: claimed rows are taken too, or sent ones never again.
ClaimableAnyway == {id \in DOMAIN rows : ~rows[id].published}
ClaimableOnce == {id \in DOMAIN rows : ~rows[id].published /\ rows[id].left = Free /\ copies[id] = 0}

\* published_at IS NULL and claimed_at NULL or more than five minutes ago.
Claimable == {id \in DOMAIN rows : ~rows[id].published /\ rows[id].left < 0}

\* ORDER BY id ASC LIMIT $1
FirstOf(ids) == {id \in ids : Cardinality({other \in ids : other < id}) < BatchLimit}

InHands(id) == \E p \in Publishers : id \in work[p].batch

\* One poll of a publisher that leads (run_publisher, publish_once_with).
Poll(p) ==
  /\ work[p].at = "idle" /\ p \in leads /\ Claimable # {}
  /\ LET batch == FirstOf(Claimable)
     IN  /\ work' = [work EXCEPT ![p] = [at |-> "sending", batch |-> batch]]
         /\ rows' = [id \in DOMAIN rows |->
                       IF id \in batch THEN [rows[id] EXCEPT !.left = Window] ELSE rows[id]]
         /\ excuses' = [id \in Ids |->
              IF id \in batch /\ rows[id].left = Free /\ InHands(id) THEN excuses[id] + 1
              ELSE excuses[id]]
  /\ UNCHANGED <<last, open, leads, copies, count>>

-----------------------------------------------------------------------------
(* deliver.                                                                *)

\* A batch is delivered in the order of its ids.
Current(p) == Min(work[p].batch)

GiveUp(p) == work' = [work EXCEPT ![p] = Idle]

Excuse(id) == excuses' = [excuses EXCEPT ![id] = @ + 1]

\* sink.publish
Send(p) ==
  /\ work[p].at = "sending"
  /\ copies' = [copies EXCEPT ![Current(p)] = @ + 1]
  /\ work' = [work EXCEPT ![p].at = "marking"]
  /\ UNCHANGED <<last, open, rows, leads, excuses, count>>

\* Mutant of SendFails: the row is marked all the same.
SendFailsMarked(p) ==
  /\ work[p].at = "sending" /\ count.faults < MaxFaults
  /\ rows' = [rows EXCEPT ![Current(p)].published = TRUE]
  /\ GiveUp(p) /\ Count("faults")
  /\ UNCHANGED <<last, open, leads, copies, excuses>>

\* sink.publish fails, with or without the bus having the event: the rest of the
\* batch is given up and stays claimed.
SendFails(p) ==
  /\ work[p].at = "sending" /\ count.faults < MaxFaults
  /\ \/ UNCHANGED <<copies, excuses>>
     \/ copies' = [copies EXCEPT ![Current(p)] = @ + 1] /\ Excuse(Current(p))
  /\ GiveUp(p) /\ Count("faults")
  /\ UNCHANGED <<last, open, rows, leads>>

Marked(id) == [rows EXCEPT ![id].published = TRUE]

\* mark_published
Mark(p) ==
  /\ work[p].at = "marking"
  /\ rows' = Marked(Current(p))
  /\ LET rest == work[p].batch \ {Current(p)}
     IN  work' = [work EXCEPT ![p] = IF rest = {} THEN Idle
                                     ELSE [at |-> "sending", batch |-> rest]]
  /\ UNCHANGED <<last, open, leads, copies, excuses, count>>

\* mark_published fails, or its answer is lost: the event was sent all the same.
MarkFails(p) ==
  /\ work[p].at = "marking" /\ count.faults < MaxFaults
  /\ rows' \in {rows, Marked(Current(p))}
  /\ Excuse(Current(p)) /\ GiveUp(p) /\ Count("faults")
  /\ UNCHANGED <<last, open, leads, copies>>

-----------------------------------------------------------------------------
(* Processes, leadership and time.                                         *)

\* The process dies, maybe between sending and marking, and a new one follows.
Crash(p) ==
  /\ work[p].at # "idle" /\ count.crashes < MaxCrashes
  /\ IF work[p].at = "marking" THEN Excuse(Current(p)) ELSE UNCHANGED excuses
  /\ GiveUp(p) /\ leads' = leads \ {p} /\ Count("crashes")
  /\ UNCHANGED <<last, open, rows, copies>>

\* The flag of LeaderLease: a follower takes over, sooner or later, when nobody
\* leads; a leader may lose the flag and two may have it for a while.
TakeOver(p) ==
  /\ leads = {} /\ leads' = {p}
  /\ UNCHANGED <<last, open, rows, work, copies, excuses, count>>

Flip(p) ==
  /\ leads # {} /\ count.flips < MaxFlips
  /\ leads' = IF p \in leads THEN leads \ {p} ELSE leads \cup {p}
  /\ Count("flips")
  /\ UNCHANGED <<last, open, rows, work, copies, excuses>>

\* NOW() advances; a claim that is stale stays stale.
Tick ==
  /\ \E id \in DOMAIN rows : rows[id].left > Free
  /\ rows' = [id \in DOMAIN rows |->
                IF rows[id].left > Free THEN [rows[id] EXCEPT !.left = @ - 1] ELSE rows[id]]
  /\ UNCHANGED <<last, open, work, leads, copies, excuses, count>>

Next ==
  \/ Insert \/ (\E id \in Ids : CommitTx(id) \/ AbortTx(id))
  \/ \E p \in Publishers :
       \/ Poll(p) \/ Send(p) \/ SendFails(p) \/ Mark(p) \/ MarkFails(p)
       \/ Crash(p) \/ TakeOver(p) \/ Flip(p)
  \/ Tick

\* Publishers poll and go on with their batches, time passes, and an outbox
\* without a leader gets one (SomeoneLeads of LeaderLease).
Fairness ==
  /\ WF_vars(Tick) /\ WF_vars(\E p \in Publishers : TakeOver(p))
  /\ \A p \in Publishers : WF_vars(Poll(p)) /\ WF_vars(Send(p) \/ Mark(p))

Spec == Init /\ [][Next]_vars /\ Fairness
-----------------------------------------------------------------------------
(* Properties.                                                             *)

\* Type invariant: only visible rows are in a batch.
TypeOK ==
  /\ last \in 0 .. MaxEvents /\ open \subseteq 1 .. last /\ DOMAIN rows \subseteq (1 .. last) \ open
  /\ \A id \in DOMAIN rows : rows[id] \in [published : BOOLEAN, left : Free .. Window]
  /\ leads \subseteq Publishers
  /\ \A p \in Publishers :
       /\ work[p].at \in {"idle", "sending", "marking"} /\ (work[p].at = "idle" <=> work[p].batch = {})
       /\ work[p].batch \subseteq DOMAIN rows
  /\ copies \in [Ids -> Nat] /\ excuses \in [Ids -> Nat]

\* A row marked as published was sent: a sink failure, a crash or another
\* publisher never makes an event disappear (deliver: "deliver before
\* mark_published so a sink failure leaves the row for retry").
PublishedWasSent == \A id \in DOMAIN rows : rows[id].published => copies[id] > 0

\* The bus gets an event twice only for a reason: a failed call, a crash between
\* sending and marking, or a batch that outlived its claim.  The claim itself is
\* "safe for multiple publishers" (claim_unpublished).
CopiesExplained == \A id \in Ids : copies[id] <= 1 + excuses[id]

\* Every event whose transaction commits is published in the end, whichever calls
\* fail and whoever crashes ("at-least-once").
EventuallyPublished ==
  \A id \in Ids : (id \in DOMAIN rows) ~> (id \in DOMAIN rows /\ rows[id].published)
=============================================================================
