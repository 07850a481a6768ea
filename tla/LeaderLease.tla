---------------------------- MODULE LeaderLease ----------------------------
(***************************************************************************)
(* Active-passive order gateways over one Postgres (crates/services/       *)
(* order-gateway/src/ha.rs, crates/infrastructure/store/src/leader.rs).    *)
(*                                                                         *)
(* The heartbeat task of every instance renews or takes the one lease row, *)
(* reads its orders back from Postgres, and keeps a flag that says whether *)
(* the instance leads.  Requests look at that flag once, when they arrive, *)
(* then change memory and write to Postgres like those of PaperService;    *)
(* no write carries the lease or its epoch.  Orders are reduced to the id  *)
(* an instance allocates and the request that created them, one request at *)
(* a time per instance.                                                    *)
(*                                                                         *)
(* Time passes in Ticks.  Nothing in the code bounds how long an instance  *)
(* takes between two of its steps; Prompt names the phases that are        *)
(* assumed to end before the lease they rest on.                           *)
(***************************************************************************)
EXTENDS Integers, FiniteSetsExt

CONSTANTS
  Instances,    \* the instance ids of the gateway processes
  Ttl,          \* ticks a lease lasts after it was renewed
  Prompt,       \* phases assumed to be shorter than Ttl
  Requests,     \* submissions of clients, each made once
  MaxEpoch,     \* bound: changes of the holder
  MaxErrors,    \* bound: database calls of a heartbeat that fail
  MaxFailures,  \* bound: writes of a request that fail
  MaxCrashes    \* bound: crashes

Empty == ""

\* heartbeat_oms_leader refuses an empty instance id.
ASSUME LeaseAssumption ==
  /\ Empty \notin Instances
  /\ Ttl \in Nat \ {0} /\ Prompt \subseteq {"serving", "promoting"}
  /\ {MaxEpoch, MaxErrors, MaxFailures, MaxCrashes} \subseteq Nat

VARIABLES
  lease,    \* the row of oms_leader_lease; left is what remains of expires_at
  flag,     \* oms_leader of each instance
  beat,     \* where each heartbeat task is
  mem,      \* the orders each engine knows: id -> request
  task,     \* the request each instance is serving
  db,       \* the orders table
  acked,    \* history: <<id, request>> clients were told of
  overlap,  \* history: a promotion read Postgres while a request was being served
  count     \* how often each bounded thing has happened

vars == <<lease, flag, beat, mem, task, db, acked, overlap, count>>

Expired == -1
NoOrders == [id \in {} |-> id]
Sleeping == [at |-> "sleep"]
NoTask == [at |-> "none"]

Init ==
  /\ lease = [holder |-> Empty, left |-> Expired, epoch |-> 0]
  /\ flag = [i \in Instances |-> FALSE]
  /\ beat = [i \in Instances |-> Sleeping]
  /\ mem = [i \in Instances |-> NoOrders]
  /\ task = [i \in Instances |-> NoTask]
  /\ db = NoOrders /\ acked = {} /\ overlap = FALSE
  /\ count = [errors |-> 0, failures |-> 0, crashes |-> 0]

Count(what) == count' = [count EXCEPT ![what] = @ + 1]

-----------------------------------------------------------------------------
(* heartbeat_oms_leader.                                                   *)

\* Mutants of MayTake: at the very moment the lease ends, or never from another.
MayTakeEarly(i) == lease.holder \in {i, Empty} \/ lease.left <= 0
MayRenewOnly(i) == lease.holder \in {i, Empty}

\* holder = $1 OR holder = '' OR expires_at < NOW()
MayTake(i) == lease.holder \in {i, Empty} \/ lease.left < 0

\* Mutant of Renewed: a lease one tick too long.
RenewedLong(i) ==
  [holder |-> i, left |-> Ttl + 1, epoch |-> IF lease.holder = i THEN lease.epoch ELSE lease.epoch + 1]

Renewed(i) ==
  [holder |-> i, left |-> Ttl, epoch |-> IF lease.holder = i THEN lease.epoch ELSE lease.epoch + 1]

\* The UPDATE runs, and the task goes on with its answer: whether this instance
\* now holds the lease, or an error, which may come after the row was written.
Heartbeat(i, next) ==
  /\ MayTake(i) /\ lease.holder # i => lease.epoch < MaxEpoch
  /\ \/ /\ lease' = IF MayTake(i) THEN Renewed(i) ELSE lease
        /\ beat' = [beat EXCEPT ![i] = [at |-> next, ans |-> IF MayTake(i) THEN "yes" ELSE "no"]]
        /\ UNCHANGED count
     \/ /\ count.errors < MaxErrors
        /\ lease' \in {lease, IF MayTake(i) THEN Renewed(i) ELSE lease}
        /\ beat' = [beat EXCEPT ![i] = [at |-> next, ans |-> "error"]]
        /\ Count("errors")
  /\ UNCHANGED <<flag, mem, task, db, acked, overlap>>

-----------------------------------------------------------------------------
(* run_leader_heartbeat.                                                   *)

Ask(i) == beat[i].at = "sleep" /\ Heartbeat(i, "asked")

Answered(i, at, answers) == beat[i].at = at /\ beat[i].ans \in answers

Goto(i, state) == beat' = [beat EXCEPT ![i] = state]

\* A leader that renewed its lease goes on leading.
Renew(i) ==
  /\ Answered(i, "asked", {"yes"}) /\ flag[i]
  /\ Goto(i, Sleeping)
  /\ UNCHANGED <<lease, flag, mem, task, db, acked, overlap, count>>

\* Mutant of StartPromote: a new leader serves at once.
StartPromoteCold(i) ==
  /\ Answered(i, "asked", {"yes"}) /\ ~flag[i]
  /\ Goto(i, [at |-> "confirmed", ans |-> "yes"])
  /\ UNCHANGED <<lease, flag, mem, task, db, acked, overlap, count>>

\* A follower that got the lease rehydrates first (promote_oms_leader).
StartPromote(i) ==
  /\ Answered(i, "asked", {"yes"}) /\ ~flag[i]
  /\ Goto(i, [at |-> "promoting"])
  /\ UNCHANGED <<lease, flag, mem, task, db, acked, overlap, count>>

\* Without the lease the instance follows, and keeps its engine warm.
Follow(i) ==
  /\ Answered(i, "asked", {"no"})
  /\ flag' = [flag EXCEPT ![i] = FALSE]
  /\ Goto(i, [at |-> "warming"])
  /\ UNCHANGED <<lease, mem, task, db, acked, overlap, count>>

\* Without an answer it follows too, with the engine it has.
HeartbeatError(i) ==
  /\ Answered(i, "asked", {"error"})
  /\ flag' = [flag EXCEPT ![i] = FALSE]
  /\ Goto(i, Sleeping)
  /\ UNCHANGED <<lease, mem, task, db, acked, overlap, count>>

-----------------------------------------------------------------------------
(* rehydrate_from_store: read Postgres, then replace the engine.           *)

Busy == \E i \in Instances : task[i] # NoTask

Load(i) ==
  /\ beat[i].at \in {"promoting", "warming"}
  /\ Goto(i, [at |-> IF beat[i].at = "promoting" THEN "promoted" ELSE "warmed", copy |-> db])
  /\ overlap' = (overlap \/ (beat[i].at = "promoting" /\ Busy))
  /\ UNCHANGED <<lease, flag, mem, task, db, acked, count>>

LoadError(i) ==
  /\ beat[i].at \in {"promoting", "warming"} /\ count.errors < MaxErrors
  /\ Goto(i, Sleeping) /\ Count("errors")
  /\ UNCHANGED <<lease, flag, mem, task, db, acked, overlap>>

\* apply_hydrate; a promotion then reconfirms the lease.
Apply(i) ==
  /\ beat[i].at \in {"promoted", "warmed"}
  /\ mem' = [mem EXCEPT ![i] = beat[i].copy]
  /\ Goto(i, IF beat[i].at = "promoted" THEN [at |-> "confirm"] ELSE Sleeping)
  /\ UNCHANGED <<lease, flag, task, db, acked, overlap, count>>

\* "Hydrate may outlast a lease tick; renew before serving."
Reconfirm(i) == beat[i].at = "confirm" /\ Heartbeat(i, "confirmed")

\* Only a confirmed promotion raises the flag.
Promoted(i) ==
  /\ Answered(i, "confirmed", {"yes", "no", "error"})
  /\ flag' = [flag EXCEPT ![i] = beat[i].ans = "yes"]
  /\ Goto(i, Sleeping)
  /\ UNCHANGED <<lease, mem, task, db, acked, overlap, count>>

-----------------------------------------------------------------------------
(* Requests.                                                               *)

\* require_oms_leader looks at the flag, once.
Admit(i, r) ==
  /\ task[i] = NoTask /\ flag[i]
  /\ \A j \in Instances : task[j] # NoTask => task[j].req # r
  /\ \A a \in acked : a[2] # r
  /\ task' = [task EXCEPT ![i] = [at |-> "admitted", req |-> r]]
  /\ UNCHANGED <<lease, flag, beat, mem, db, acked, overlap, count>>

NextId(orders) == 1 + Max(DOMAIN orders \cup {0})

With(orders, id, r) == [x \in DOMAIN orders \cup {id} |-> IF x = id THEN r ELSE orders[x]]

\* The handler clones the engine and creates the order in it, as leader or not.
Handle(i) ==
  /\ task[i].at = "admitted"
  /\ LET id == NextId(mem[i])
     IN  /\ mem' = [mem EXCEPT ![i] = With(@, id, task[i].req)]
         /\ task' = [task EXCEPT ![i] = [at |-> "writing", req |-> @.req, id |-> id, snap |-> mem[i]]]
  /\ UNCHANGED <<lease, flag, beat, db, acked, overlap, count>>

\* must_persist: the upsert by id commits and the request is answered.
Commit(i) ==
  /\ task[i].at = "writing"
  /\ db' = With(db, task[i].id, task[i].req)
  /\ acked' = acked \cup {<<task[i].id, task[i].req>>}
  /\ task' = [task EXCEPT ![i] = NoTask]
  /\ UNCHANGED <<lease, flag, beat, mem, overlap, count>>

\* The write fails, or its commit succeeds and only the answer is lost; either
\* way rollback_engine puts the clone back.
Fail(i) ==
  /\ task[i].at = "writing" /\ count.failures < MaxFailures
  /\ db' \in {db, With(db, task[i].id, task[i].req)}
  /\ mem' = [mem EXCEPT ![i] = task[i].snap]
  /\ task' = [task EXCEPT ![i] = NoTask]
  /\ Count("failures")
  /\ UNCHANGED <<lease, flag, beat, acked, overlap>>

-----------------------------------------------------------------------------
(* Crashes and time.                                                       *)

Down == [at |-> "down"]

\* A write that is under way may still reach Postgres, unanswered.
Crash(i) ==
  /\ beat[i] # Down /\ count.crashes < MaxCrashes
  /\ \/ UNCHANGED db
     \/ task[i].at = "writing" /\ db' = With(db, task[i].id, task[i].req)
  /\ flag' = [flag EXCEPT ![i] = FALSE]
  /\ Goto(i, Down)
  /\ mem' = [mem EXCEPT ![i] = NoOrders]
  /\ task' = [task EXCEPT ![i] = NoTask]
  /\ Count("crashes")
  /\ UNCHANGED <<lease, acked, overlap>>

\* main: hydrate_from_store, and a flag that is down under HA.
Boot(i) ==
  /\ beat[i] = Down
  /\ mem' = [mem EXCEPT ![i] = db]
  /\ Goto(i, Sleeping)
  /\ UNCHANGED <<lease, flag, task, db, acked, overlap, count>>

\* Instance i is in a phase that is assumed to end before its lease does.
Promoting(i) ==
  \/ Answered(i, "asked", {"yes"}) /\ ~flag[i]
  \/ beat[i].at \in {"promoting", "promoted", "confirm"}

Serving(i) == flag[i] \/ Answered(i, "confirmed", {"yes"})

MustHurry(i) ==
  \/ "serving" \in Prompt /\ Serving(i)
  \/ "promoting" \in Prompt /\ Promoting(i)

\* NOW() advances.  left stops at Expired: how long ago does not matter.
Tick ==
  /\ lease.left > Expired
  /\ lease.left = 0 => \A i \in Instances : lease.holder = i => ~MustHurry(i)
  /\ lease' = [lease EXCEPT !.left = @ - 1]
  /\ UNCHANGED <<flag, beat, mem, task, db, acked, overlap, count>>

\* Steps of the heartbeat task of a running instance.  A crashed one need not come
\* back.
Step(i) ==
  \/ Ask(i) \/ Renew(i) \/ StartPromote(i) \/ Follow(i) \/ HeartbeatError(i)
  \/ Load(i) \/ Apply(i) \/ Reconfirm(i) \/ Promoted(i)

Next ==
  \/ Tick
  \/ \E i \in Instances :
       \/ Ask(i) \/ Renew(i) \/ StartPromote(i) \/ Follow(i) \/ HeartbeatError(i)
       \/ Load(i) \/ LoadError(i) \/ Apply(i) \/ Reconfirm(i) \/ Promoted(i)
       \/ \E r \in Requests : Admit(i, r)
       \/ Handle(i) \/ Commit(i) \/ Fail(i)
       \/ Crash(i) \/ Boot(i)

\* Time passes and every heartbeat task is scheduled again and again.
Fairness == WF_vars(Tick) /\ \A i \in Instances : WF_vars(Step(i))

Spec == Init /\ [][Next]_vars /\ Fairness
-----------------------------------------------------------------------------
(* Properties.                                                             *)

Answers == {"yes", "no", "error"}
Plain == {"sleep", "promoting", "warming", "confirm", "down"}

LeaseTypeOK ==
  /\ lease \in [holder : Instances \cup {Empty}, left : Expired .. Ttl, epoch : Nat]
  /\ flag \in [Instances -> BOOLEAN] /\ DOMAIN beat = Instances

\* Type invariant.
TypeOK ==
  /\ LeaseTypeOK /\ overlap \in BOOLEAN
  /\ \A i \in Instances :
       \/ beat[i].at \in Plain
       \/ beat[i].at \in {"asked", "confirmed"} /\ beat[i].ans \in Answers
       \/ beat[i].at \in {"promoted", "warmed"} /\ DOMAIN beat[i].copy \subseteq DOMAIN db
  /\ \A a \in acked : a[1] \in Nat \ {0} /\ a[2] \in Requests

\* "Only the lease holder serves /v1/*": no two instances lead at once, as long
\* as a leader comes back to its heartbeat before its lease ends.
AtMostOneLeader == \A i, j \in Instances : flag[i] /\ flag[j] => i = j

\* A leader knows every order acknowledged before it, whoever acknowledged it
\* (promote_oms_leader), unless a request was being served while it read them.
LeaderKnowsAcked ==
  \A i \in Instances : (flag[i] /\ ~overlap) =>
    \A a \in acked : a[1] \in DOMAIN mem[i] /\ mem[i][a[1]] = a[2]

\* No acknowledged order is overwritten in Postgres by another instance that
\* gave its id away again, with the same exception.
AckedSurvives == ~overlap => \A a \in acked : a[1] \in DOMAIN db /\ db[a[1]] = a[2]

\* The same without the exception: an acknowledged order is durable ("submit/cancel
\* ack only after a successful transactional persist").
AckedIsDurable == \A a \in acked : a[1] \in DOMAIN db /\ db[a[1]] = a[2]

\* After crashes and failed heartbeats some instance leads again: a dead
\* holder's lease ends, and a follower takes it, even if the dead never return.
SomeoneLeads == []<>(\E i \in Instances : flag[i])
=============================================================================
