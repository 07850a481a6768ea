------------------------- MODULE LeaderLeaseProofs -------------------------
(***************************************************************************)
(* Proofs about the lease and the orders, for any number of instances and  *)
(* any lease time: no two instances lead at once, as long as a leader      *)
(* returns to its heartbeat before its lease ends; and, if promotions are  *)
(* as prompt, a leader knows what was acknowledged before it and nothing   *)
(* acknowledged is overwritten, unless a promotion read Postgres while a   *)
(* request was being served.                                               *)
(***************************************************************************)
EXTENDS LeaderLease, NaturalsInduction, WellFoundedInduction, TLAPS

\* An instance in a phase that is assumed to be prompt holds a lease that has not
\* ended.
LeaseHeld == \A i \in Instances : MustHurry(i) => lease.holder = i /\ lease.left >= 0

LeaseInv == LeaseTypeOK /\ LeaseHeld

\* Some steps change neither the row nor a flag and put no task where it has been
\* told of a lease: what such a step does to the invariant.
LEMMA Elsewhere ==
  ASSUME LeaseInv, NEW i \in Instances,
         lease' = lease, flag' \in [Instances -> BOOLEAN], DOMAIN beat' = Instances,
         \A j \in Instances : j # i => beat'[j] = beat[j] /\ flag'[j] = flag[j],
         MustHurry(i)' => MustHurry(i)
  PROVE  LeaseInv'
<1>1. LeaseTypeOK'
  BY DEF LeaseInv, LeaseTypeOK
<1>2. ASSUME NEW j \in Instances, MustHurry(j)'
      PROVE  lease'.holder = j /\ lease'.left >= 0
  <2>1. MustHurry(j)
    BY <1>2 DEF MustHurry, Serving, Promoting, Answered
  <2>2. QED
    BY <2>1 DEF LeaseInv, LeaseHeld
<1>3. LeaseHeld'
  BY <1>2 DEF LeaseHeld
<1>4. QED
  BY <1>1, <1>3 DEF LeaseInv

\* The UPDATE of one instance leaves every other instance's lease alone while it
\* lasts, and answers "yes" only with a fresh one.
LEMMA HeartbeatKeeps ==
  ASSUME LeaseInv, "serving" \in Prompt, NEW i \in Instances,
         NEW next \in {"asked", "confirmed"}, Heartbeat(i, next)
  PROVE  LeaseInv'
<1>1. lease' = lease \/ (MayTake(i) /\ lease' = Renewed(i))
  BY DEF Heartbeat
<1>2. LeaseTypeOK'
  <2>1. lease' \in [holder : Instances \cup {Empty}, left : Expired .. Ttl, epoch : Nat]
    BY <1>1, LeaseAssumption DEF LeaseInv, LeaseTypeOK, Renewed, Expired
  <2>2. QED
    BY <2>1 DEF LeaseInv, LeaseTypeOK, Heartbeat
<1>3. ASSUME NEW j \in Instances, MustHurry(j)'
      PROVE  lease'.holder = j /\ lease'.left >= 0
  <2>1. CASE j = i
    <3>1. CASE flag[i]
      <4>1. lease.holder = i /\ lease.left >= 0
        BY <3>1 DEF LeaseInv, LeaseHeld, MustHurry, Serving
      <4>2. QED
        BY <4>1, <1>1, <2>1, LeaseAssumption DEF Renewed
    <3>2. CASE ~flag[i]
      <4>1. \/ beat' = [beat EXCEPT ![i] = [at |-> next, ans |-> IF MayTake(i) THEN "yes" ELSE "no"]]
            \/ beat' = [beat EXCEPT ![i] = [at |-> next, ans |-> "error"]]
        BY DEF Heartbeat
      <4>2. flag'[i] = FALSE /\ beat'[i].at = next /\ beat'[i].ans = "yes"
        <5>1. beat'[i].at = next /\ flag' = flag
          BY <4>1 DEF LeaseInv, LeaseTypeOK, Heartbeat
        <5>2. QED
          BY <3>2, <2>1, <1>3, <5>1 DEF MustHurry, Serving, Promoting, Answered, LeaseInv, LeaseTypeOK
      <4>3. MayTake(i) /\ lease' = Renewed(i)
        BY <4>2 DEF Heartbeat, LeaseInv, LeaseTypeOK
      <4>4. QED
        BY <4>3, <2>1, LeaseAssumption DEF Renewed
    <3>3. QED
      BY <3>1, <3>2
  <2>2. CASE j # i
    <3>1. MustHurry(j)
      BY <2>2, <1>3 DEF MustHurry, Serving, Promoting, Answered, Heartbeat, LeaseInv, LeaseTypeOK
    <3>2. lease.holder = j /\ lease.left >= 0
      BY <3>1 DEF LeaseInv, LeaseHeld
    <3>3. ~MayTake(i)
      <4>1. lease.left \in Int
        BY LeaseAssumption DEF LeaseInv, LeaseTypeOK, Expired
      <4>2. QED
        BY <4>1, <3>2, <2>2, LeaseAssumption DEF MayTake
    <3>4. QED
      BY <3>2, <3>3, <1>1
  <2>3. QED
    BY <2>1, <2>2
<1>4. QED
  BY <1>2, <1>3 DEF LeaseInv, LeaseHeld

\* Time does not run past the end of a lease somebody serves on.
LEMMA TickKeeps ==
  ASSUME LeaseInv, "serving" \in Prompt, Tick
  PROVE  LeaseInv'
<1>1. lease' = [lease EXCEPT !.left = lease.left - 1] /\ lease.left > Expired
  BY DEF Tick
<1>2. LeaseTypeOK'
  BY <1>1, LeaseAssumption DEF LeaseInv, LeaseTypeOK, Tick, Expired
<1>3. ASSUME NEW j \in Instances, MustHurry(j)'
      PROVE  lease'.holder = j /\ lease'.left >= 0
  <2>1. MustHurry(j)
    BY <1>3 DEF MustHurry, Serving, Promoting, Answered, Tick
  <2>2. lease.holder = j /\ lease.left >= 0
    BY <2>1 DEF LeaseInv, LeaseHeld
  <2>3. lease.left # 0
    BY <2>1, <2>2 DEF Tick
  <2>4. lease \in [holder : Instances \cup {Empty}, left : Expired .. Ttl, epoch : Nat]
    BY DEF LeaseInv, LeaseTypeOK
  <2>5. QED
    BY <1>1, <2>2, <2>3, <2>4, LeaseAssumption DEF Expired
<1>4. QED
  BY <1>2, <1>3 DEF LeaseInv, LeaseHeld

\* The rest of a heartbeat, requests, crashes and restarts: a flag goes up only
\* where a confirmed "yes" was.
LEMMA OthersKeep ==
  ASSUME LeaseInv, NEW i \in Instances,
         \/ Renew(i) \/ StartPromote(i) \/ Follow(i) \/ HeartbeatError(i)
         \/ Load(i) \/ LoadError(i) \/ Apply(i) \/ Promoted(i)
         \/ \E r \in Requests : Admit(i, r)
         \/ Handle(i) \/ Commit(i) \/ Fail(i) \/ Crash(i) \/ Boot(i)
  PROVE  LeaseInv'
<1>0. flag \in [Instances -> BOOLEAN] /\ DOMAIN beat = Instances
  BY DEF LeaseInv, LeaseTypeOK
<1>1. CASE Renew(i) \/ StartPromote(i) \/ Follow(i) \/ HeartbeatError(i)
  <2>1. MustHurry(i)' => MustHurry(i)
    BY <1>0, <1>1 DEF Renew, StartPromote, Follow, HeartbeatError, Goto, Sleeping, MustHurry, Serving, Promoting, Answered
  <2>2. QED
    BY <1>0, <1>1, <2>1, Elsewhere, ZenonT(60) DEF Renew, StartPromote, Follow, HeartbeatError, Goto
<1>2. CASE Load(i) \/ LoadError(i) \/ Apply(i)
  <2>1. MustHurry(i)' => MustHurry(i)
    BY <1>0, <1>2 DEF Load, LoadError, Apply, Goto, Sleeping, MustHurry, Serving, Promoting, Answered
  <2>2. QED
    BY <1>0, <1>2, <2>1, Elsewhere DEF Load, LoadError, Apply, Goto
<1>3. CASE Promoted(i)
  <2>1. MustHurry(i)' => MustHurry(i)
    BY <1>0, <1>3 DEF Promoted, Goto, Sleeping, MustHurry, Serving, Promoting, Answered
  <2>2. flag' \in [Instances -> BOOLEAN]
    BY <1>0, <1>3 DEF Promoted
  <2>3. QED
    BY <1>0, <1>3, <2>1, <2>2, Elsewhere DEF Promoted, Goto
<1>4. CASE (\E r \in Requests : Admit(i, r)) \/ Handle(i) \/ Commit(i) \/ Fail(i)
  <2>1. lease' = lease /\ flag' = flag /\ beat' = beat
    BY <1>4 DEF Admit, Handle, Commit, Fail
  <2>2. MustHurry(i)' => MustHurry(i)
    BY <2>1 DEF MustHurry, Serving, Promoting, Answered
  <2>3. QED
    BY <1>0, <2>1, <2>2, Elsewhere
<1>5. CASE Crash(i) \/ Boot(i)
  <2>1. MustHurry(i)' => MustHurry(i)
    BY <1>0, <1>5 DEF Crash, Boot, Goto, Down, Sleeping, MustHurry, Serving, Promoting, Answered
  <2>2. flag' \in [Instances -> BOOLEAN] /\ lease' = lease
    BY <1>0, <1>5 DEF Crash, Boot
  <2>3. DOMAIN beat' = Instances
    BY <1>0, <1>5 DEF Crash, Boot, Goto
  <2>4. \A j \in Instances : j # i => beat'[j] = beat[j] /\ flag'[j] = flag[j]
    BY <1>0, <1>5 DEF Crash, Boot, Goto
  <2>5. QED
    BY <2>1, <2>2, <2>3, <2>4, Elsewhere
<1>6. QED
  BY <1>1, <1>2, <1>3, <1>4, <1>5

LEMMA InitLease == Init => LeaseInv
<1> SUFFICES ASSUME Init PROVE LeaseInv
  OBVIOUS
<1>1. LeaseTypeOK
  BY LeaseAssumption DEF Init, LeaseTypeOK, Expired
<1>2. \A i \in Instances : ~MustHurry(i)
  BY DEF Init, MustHurry, Serving, Promoting, Answered, Sleeping
<1>3. QED
  BY <1>1, <1>2 DEF LeaseInv, LeaseHeld

LEMMA NextLease ==
  ASSUME LeaseInv, "serving" \in Prompt, [Next]_vars
  PROVE  LeaseInv'
<1>1. CASE Tick
  BY <1>1, TickKeeps
<1>2. ASSUME NEW i \in Instances, Ask(i) \/ Reconfirm(i)
      PROVE  LeaseInv'
  BY <1>2, HeartbeatKeeps DEF Ask, Reconfirm
<1>3. ASSUME NEW i \in Instances,
             \/ Renew(i) \/ StartPromote(i) \/ Follow(i) \/ HeartbeatError(i)
             \/ Load(i) \/ LoadError(i) \/ Apply(i) \/ Promoted(i)
             \/ \E r \in Requests : Admit(i, r)
             \/ Handle(i) \/ Commit(i) \/ Fail(i) \/ Crash(i) \/ Boot(i)
      PROVE  LeaseInv'
  BY <1>3, OthersKeep
<1>4. CASE UNCHANGED vars
  BY <1>4 DEF vars, LeaseInv, LeaseTypeOK, LeaseHeld, MustHurry, Serving, Promoting, Answered
<1>5. QED
  BY <1>1, <1>2, <1>3, <1>4 DEF Next

\* At most one instance leads (require_oms_leader, run_leader_heartbeat), for any
\* instances, lease time and failures, if a leader returns to its heartbeat before
\* its lease ends.
THEOREM LeaderUnique ==
  ASSUME "serving" \in Prompt
  PROVE  Spec => []AtMostOneLeader
<1>1. LeaseInv /\ [Next]_vars => LeaseInv'
  BY NextLease
<1>2. LeaseInv => AtMostOneLeader
  BY DEF LeaseInv, LeaseHeld, MustHurry, Serving, AtMostOneLeader
<1>3. QED
  BY InitLease, <1>1, <1>2, PTL DEF Spec
-----------------------------------------------------------------------------
(* What the instances know of the orders.                                  *)

\* Ids are positive, and at any time there is a largest one.
Small(orders) == \E n \in Nat : DOMAIN orders \subseteq 1 .. n

\* An instance that leads, or has read Postgres in order to.
Fresh(i) ==
  flag[i] \/ beat[i].at \in {"promoted", "confirm"} \/ Answered(i, "confirmed", {"yes"})

\* The orders its engine has, or is about to have.
View(i) == IF beat[i].at = "promoted" THEN beat[i].copy ELSE mem[i]

Knows(orders) == \A a \in acked : a[1] \in DOMAIN orders /\ orders[a[1]] = a[2]

TaskShape(i) ==
  \/ task[i] = NoTask
  \/ task[i].at = "admitted"
  \/ task[i].at = "writing" /\ task[i].id \in Nat \ {0} /\ Small(task[i].snap)

\* What the proofs need of TypeOK.
Shape ==
  /\ DOMAIN mem = Instances /\ DOMAIN task = Instances /\ Small(db)
  /\ \A i \in Instances :
       /\ Small(mem[i]) /\ TaskShape(i)
       /\ beat[i].at \in {"promoted", "warmed"} => Small(beat[i].copy)
       /\ flag[i] => beat[i].at \in {"sleep", "asked"}
       /\ beat[i].at = "down" => task[i] = NoTask

\* While one instance serves a request no other does and no other is fresh; nor is
\* the instance itself, if it lost its flag on the way.
Alone(i) ==
  task[i] # NoTask =>
    /\ \A j \in Instances \ {i} : task[j] = NoTask /\ ~Fresh(j)
    /\ Fresh(i) => flag[i]

\* The engine a request finds knows what was acknowledged, and so does a copy that
\* may replace it before the request is handled.
AdmittedKnows(i) ==
  task[i].at = "admitted" =>
    Knows(mem[i]) /\ (beat[i].at = "warmed" => Knows(beat[i].copy))

\* The order about to be written has an id of its own, the clone to go back to
\* knows what was acknowledged, and a leader's engine has the order.
WritingKnows(i) ==
  task[i].at = "writing" =>
    /\ Knows(task[i].snap) /\ \A a \in acked : a[1] # task[i].id
    /\ flag[i] => task[i].id \in DOMAIN mem[i] /\ mem[i][task[i].id] = task[i].req

Informed ==
  /\ Knows(db)
  /\ \A i \in Instances :
       Alone(i) /\ AdmittedKnows(i) /\ WritingKnows(i) /\ (Fresh(i) => Knows(View(i)))

OrdersInv == Shape /\ (~overlap => Informed)

\* A bounded set of naturals has a largest element: the least of its bounds.
LEMMA LargestId ==
  ASSUME NEW S \in SUBSET Nat, S # {}, NEW n \in Nat, \A x \in S : x <= n
  PROVE  \E x \in S : \A y \in S : x >= y
<1> DEFINE Less == {ss \in Nat \X Nat : ss[1] < ss[2]}
           Bounds == {m \in Nat : \A x \in S : x <= m}
<1>1. IsWellFoundedOn(Less, Nat)
  BY NatLessThanWellFounded DEF OpToRel
<1>2. Bounds \in SUBSET Nat /\ n \in Bounds
  OBVIOUS
<1>3. PICK least \in Bounds : \A m \in Bounds : <<m, least>> \notin Less
  <2> HIDE DEF Less, Bounds
  <2>1. QED
    BY <1>1, <1>2, WFMin
<1>4. least \in S
  <2>1. SUFFICES ASSUME least \notin S
                 PROVE  FALSE
    OBVIOUS
  <2>2. \A x \in S : x < least
    BY <1>2, <1>3, <2>1
  <2>3. least - 1 \in Nat
    <3>1. PICK x \in S : x \in Nat
      OBVIOUS
    <3>2. x < least
      BY <2>2, <3>1
    <3>3. QED
      BY <1>2, <1>3, <3>1, <3>2
  <2>4. least - 1 \in Bounds
    BY <1>2, <1>3, <2>2, <2>3
  <2>5. <<least - 1, least>> \in Less
    BY <1>2, <2>3
  <2>6. QED
    BY <1>3, <2>4, <2>5
<1>5. QED
  BY <1>3, <1>4

\* The id an engine gives out next is larger than any it has.
LEMMA NextIdFresh ==
  ASSUME NEW orders, Small(orders)
  PROVE  NextId(orders) \in Nat \ {0} /\ NextId(orders) \notin DOMAIN orders
<1> DEFINE S == DOMAIN orders \cup {0}
<1>1. PICK n \in Nat : DOMAIN orders \subseteq 1 .. n
  BY DEF Small
<1>2. S \in SUBSET Nat /\ S # {} /\ \A x \in S : x <= n
  BY <1>1
<1>3. \E x \in S : \A y \in S : x >= y
  <2> HIDE DEF S
  <2>1. QED
    BY <1>2, LargestId
<1>4. Max(S) \in S /\ \A y \in S : Max(S) >= y
  BY <1>3 DEF Max
<1>5. NextId(orders) = 1 + Max(S) /\ Max(S) \in Nat
  BY <1>2, <1>4 DEF NextId
<1> HIDE DEF S
<1>6. \A y \in DOMAIN orders : y \in S /\ y \in Nat
  BY <1>1 DEF S
<1>7. QED
  BY <1>4, <1>5, <1>6

LEMMA WithSmall ==
  ASSUME NEW orders, Small(orders), NEW id \in Nat \ {0}, NEW r
  PROVE  Small(With(orders, id, r))
<1>1. PICK n \in Nat : DOMAIN orders \subseteq 1 .. n
  BY DEF Small
<1>2. DOMAIN With(orders, id, r) = DOMAIN orders \cup {id}
  BY DEF With
<1>3. CASE id <= n
  BY <1>1, <1>2, <1>3 DEF Small
<1>4. CASE ~(id <= n)
  <2>1. DOMAIN With(orders, id, r) \subseteq 1 .. id
    BY <1>1, <1>2, <1>4
  <2>2. QED
    BY <2>1 DEF Small
<1>5. QED
  BY <1>3, <1>4

\* An order with an id of its own takes nothing away.
LEMMA WithKnows ==
  ASSUME NEW orders, Knows(orders), NEW id, NEW r, \A a \in acked : a[1] # id
  PROVE  Knows(With(orders, id, r)) /\ id \in DOMAIN With(orders, id, r) /\ With(orders, id, r)[id] = r
BY DEF Knows, With

\* Only the fresh are told to hurry, so there is one of them at most.
LEMMA OneFresh ==
  ASSUME LeaseInv, {"serving", "promoting"} \subseteq Prompt,
         NEW i \in Instances, NEW j \in Instances, Fresh(i),
         Fresh(j) \/ beat[j].at \in {"promoting", "promoted", "confirm"}
  PROVE  i = j
BY DEF LeaseInv, LeaseHeld, MustHurry, Serving, Promoting, Fresh, Answered
-----------------------------------------------------------------------------
(* What the steps do to it.                                                *)

\* A step of one heartbeat task that leaves engines, requests and Postgres alone.
LEMMA BeatKeeps ==
  ASSUME OrdersInv, NEW i \in Instances, UNCHANGED <<mem, task, db, acked, overlap>>,
         \A j \in Instances \ {i} : beat'[j] = beat[j] /\ flag'[j] = flag[j],
         beat'[i].at \notin {"promoted", "warmed", "down"},
         flag'[i] => beat'[i].at \in {"sleep", "asked"},
         Fresh(i)' => Fresh(i) /\ beat[i].at # "promoted" /\ (flag[i] => flag'[i])
  PROVE  OrdersInv'
<1>1. Shape'
  BY DEF OrdersInv, Shape, TaskShape, NoTask, Small
<1>2. ASSUME ~overlap'
      PROVE  Informed'
  <2>1. Informed
    BY <1>2 DEF OrdersInv
  <2>2. \A orders : Knows(orders)' <=> Knows(orders)
    BY DEF Knows
  <2>3. \A j \in Instances : Fresh(j)' => Fresh(j)
    BY DEF Fresh, Answered
  <2>4. ASSUME NEW j \in Instances
        PROVE  Alone(j)'
    BY <2>1, <2>3 DEF Informed, Alone
  <2>5. ASSUME NEW j \in Instances
        PROVE  AdmittedKnows(j)'
    BY <2>1 DEF Informed, AdmittedKnows, Knows
  <2>6. ASSUME NEW j \in Instances
        PROVE  WritingKnows(j)'
    <3>1. task[j].at = "writing" => task[j] # NoTask
      BY DEF NoTask
    <3>2. task[j].at = "writing" /\ flag'[j] => flag[j]
      BY <2>1, <2>3, <3>1 DEF Informed, Alone, Fresh
    <3>3. QED
      BY <2>1, <3>2 DEF Informed, WritingKnows, Knows
  <2>7. ASSUME NEW j \in Instances, Fresh(j)'
        PROVE  Knows(View(j))'
    <3>1. View(j)' = View(j)
      BY <2>7 DEF View
    <3>2. QED
      BY <2>1, <2>3, <2>7, <3>1 DEF Informed, Knows
  <2>8. QED
    BY <2>1, <2>4, <2>5, <2>6, <2>7 DEF Informed, Knows
<1>3. QED
  BY <1>1, <1>2 DEF OrdersInv

LEMMA HeartbeatsKeep ==
  ASSUME OrdersInv, LeaseInv, NEW i \in Instances,
         \/ Ask(i) \/ Reconfirm(i) \/ Renew(i) \/ StartPromote(i) \/ Follow(i)
         \/ HeartbeatError(i) \/ LoadError(i) \/ Promoted(i)
  PROVE  OrdersInv'
<1>0. flag \in [Instances -> BOOLEAN] /\ DOMAIN beat = Instances
  BY DEF LeaseInv, LeaseTypeOK
<1>1. flag[i] => beat[i].at \in {"sleep", "asked"}
  BY DEF OrdersInv, Shape
<1>2. ASSUME NEW next \in {"asked", "confirmed"}, Heartbeat(i, next),
             next = "confirmed" => beat[i].at = "confirm",
             next = "asked" => beat[i].at = "sleep"
      PROVE  OrdersInv'
  <2>1. UNCHANGED <<mem, task, db, acked, overlap>> /\ flag' = flag
    BY <1>2 DEF Heartbeat
  <2>2. beat'[i].at = next /\ \A j \in Instances \ {i} : beat'[j] = beat[j]
    <3>1. \E ans : beat' = [beat EXCEPT ![i] = [at |-> next, ans |-> ans]]
      BY <1>2 DEF Heartbeat
    <3>2. QED
      BY <1>0, <3>1
  <2>3. Fresh(i)' => Fresh(i) /\ beat[i].at # "promoted"
    BY <1>2, <2>1, <2>2 DEF Fresh, Answered
  <2>4. flag'[i] => beat'[i].at \in {"sleep", "asked"}
    BY <1>1, <1>2, <2>1, <2>2
  <2>5. QED
    BY <2>1, <2>2, <2>3, <2>4, BeatKeeps
<1>3. CASE Ask(i) \/ Reconfirm(i)
  BY <1>2, <1>3 DEF Ask, Reconfirm
<1>4. CASE Renew(i) \/ StartPromote(i) \/ LoadError(i)
  <2>1. UNCHANGED <<mem, task, db, acked, overlap, flag>>
    BY <1>4 DEF Renew, StartPromote, LoadError
  <2>2. beat'[i].at \in {"sleep", "promoting"} /\ \A j \in Instances \ {i} : beat'[j] = beat[j]
    BY <1>0, <1>4 DEF Renew, StartPromote, LoadError, Goto, Sleeping
  <2>3. Fresh(i)' => Fresh(i) /\ beat[i].at # "promoted"
    BY <1>1, <2>1, <2>2 DEF Fresh, Answered
  <2>4. flag[i] => beat'[i].at = "sleep"
    BY <1>0, <1>1, <1>4 DEF Renew, StartPromote, LoadError, Goto, Sleeping
  <2>5. QED
    BY <2>1, <2>2, <2>3, <2>4, BeatKeeps
<1>5. CASE Follow(i) \/ HeartbeatError(i)
  <2>1. UNCHANGED <<mem, task, db, acked, overlap>> /\ flag' = [flag EXCEPT ![i] = FALSE]
    BY <1>5 DEF Follow, HeartbeatError
  <2>2. beat'[i].at \in {"sleep", "warming"} /\ \A j \in Instances \ {i} : beat'[j] = beat[j]
    BY <1>0, <1>5 DEF Follow, HeartbeatError, Goto, Sleeping
  <2>3. ~flag'[i] /\ ~Fresh(i)' /\ \A j \in Instances \ {i} : flag'[j] = flag[j]
    BY <1>0, <2>1, <2>2 DEF Fresh, Answered
  <2>4. QED
    BY <2>1, <2>2, <2>3, BeatKeeps
<1>6. CASE Promoted(i)
  <2>1. /\ UNCHANGED <<mem, task, db, acked, overlap>>
        /\ flag' = [flag EXCEPT ![i] = beat[i].ans = "yes"]
        /\ beat' = [beat EXCEPT ![i] = Sleeping] /\ beat[i].at = "confirmed"
    BY <1>6 DEF Promoted, Goto, Answered
  <2>2. beat'[i].at = "sleep" /\ \A j \in Instances \ {i} : beat'[j] = beat[j] /\ flag'[j] = flag[j]
    BY <1>0, <2>1 DEF Sleeping
  <2>3. flag'[i] <=> beat[i].ans = "yes"
    BY <1>0, <2>1
  <2>4. Fresh(i)' => Fresh(i)
    BY <2>1, <2>2, <2>3 DEF Fresh, Answered
  <2>5. ~flag[i]
    BY <1>1, <2>1
  <2>6. QED
    BY <2>1, <2>2, <2>4, <2>5, BeatKeeps
<1>7. QED
  BY <1>3, <1>4, <1>5, <1>6

\* Reading Postgres: a promotion that overlaps no request has all that was
\* acknowledged.
LEMMA LoadKeeps ==
  ASSUME OrdersInv, LeaseInv, NEW i \in Instances, Load(i)
  PROVE  OrdersInv'
<1> DEFINE at == IF beat[i].at = "promoting" THEN "promoted" ELSE "warmed"
<1>1. /\ beat[i].at \in {"promoting", "warming"}
      /\ beat' = [beat EXCEPT ![i] = [at |-> at, copy |-> db]]
      /\ overlap' = (overlap \/ (beat[i].at = "promoting" /\ Busy))
      /\ UNCHANGED <<flag, mem, task, db, acked>>
  BY DEF Load, Goto
<1>2. beat'[i] = [at |-> at, copy |-> db] /\ \A j \in Instances \ {i} : beat'[j] = beat[j]
  BY <1>1 DEF LeaseInv, LeaseTypeOK
<1>3. ~flag[i] /\ at \in {"promoted", "warmed"} /\ (at = "promoted" <=> beat[i].at = "promoting")
  BY <1>1 DEF OrdersInv, Shape
<1> HIDE DEF at
<1>4. beat'[i].at = at /\ beat'[i].copy = db
  BY <1>2
<1>5. Shape'
  BY <1>1, <1>2, <1>3, <1>4 DEF OrdersInv, Shape, TaskShape, NoTask, Small
<1>6. ASSUME ~overlap'
      PROVE  Informed'
  <2>1. Informed /\ (at = "promoted" => ~Busy)
    BY <1>1, <1>3, <1>6 DEF OrdersInv
  <2>2. \A orders : Knows(orders)' <=> Knows(orders)
    BY <1>1 DEF Knows
  <2>3. \A j \in Instances : Fresh(j)' => Fresh(j) \/ (j = i /\ at = "promoted")
    BY <1>1, <1>2, <1>3, <1>4 DEF Fresh, Answered
  <2>4. ASSUME NEW j \in Instances
        PROVE  Alone(j)'
    <3>1. CASE Busy
      BY <1>1, <2>1, <2>3, <3>1 DEF Informed, Alone
    <3>2. CASE ~Busy
      BY <1>1, <3>2 DEF Busy, Alone
    <3>3. QED
      BY <3>1, <3>2
  <2>5. ASSUME NEW j \in Instances
        PROVE  AdmittedKnows(j)'
    <3>1. CASE j = i
      BY <1>1, <1>4, <2>1, <3>1 DEF Informed, AdmittedKnows, Knows
    <3>2. CASE j # i
      BY <1>1, <1>2, <2>1, <3>2 DEF Informed, AdmittedKnows, Knows
    <3>3. QED
      BY <3>1, <3>2
  <2>6. ASSUME NEW j \in Instances
        PROVE  WritingKnows(j)'
    BY <1>1, <2>1 DEF Informed, WritingKnows, Knows
  <2>7. ASSUME NEW j \in Instances, Fresh(j)'
        PROVE  Knows(View(j))'
    <3>1. CASE j = i
      <4>1. at = "promoted"
        BY <1>1, <1>3, <1>4, <2>7, <3>1 DEF Fresh, Answered
      <4>2. View(i)' = db
        BY <1>4, <4>1 DEF View
      <4>3. QED
        BY <2>1, <3>1, <4>2, <1>1 DEF Informed, Knows
    <3>2. CASE j # i
      <4>1. View(j)' = View(j) /\ Fresh(j)
        BY <1>1, <1>2, <2>3, <2>7, <3>2 DEF View
      <4>2. QED
        BY <1>1, <2>1, <4>1 DEF Informed, Knows
    <3>3. QED
      BY <3>1, <3>2
  <2>8. QED
    BY <1>1, <2>1, <2>4, <2>5, <2>6, <2>7 DEF Informed, Knows
<1>7. QED
  BY <1>5, <1>6 DEF OrdersInv

\* apply_hydrate replaces the engine by the copy.
LEMMA ApplyKeeps ==
  ASSUME OrdersInv, LeaseInv, NEW i \in Instances, Apply(i)
  PROVE  OrdersInv'
<1> DEFINE next == IF beat[i].at = "promoted" THEN [at |-> "confirm"] ELSE Sleeping
<1>1. /\ beat[i].at \in {"promoted", "warmed"}
      /\ mem' = [mem EXCEPT ![i] = beat[i].copy] /\ beat' = [beat EXCEPT ![i] = next]
      /\ UNCHANGED <<flag, task, db, acked, overlap>>
  BY DEF Apply, Goto
<1>2. ~flag[i] /\ Small(beat[i].copy)
  BY <1>1 DEF OrdersInv, Shape
<1>3. next.at \in {"confirm", "sleep"} /\ (next.at = "confirm" <=> beat[i].at = "promoted")
  BY DEF Sleeping
<1> HIDE DEF next
<1>4. /\ beat'[i] = next /\ mem'[i] = beat[i].copy
      /\ \A j \in Instances \ {i} : beat'[j] = beat[j] /\ mem'[j] = mem[j]
      /\ DOMAIN mem' = Instances
  BY <1>1 DEF LeaseInv, LeaseTypeOK, OrdersInv, Shape
<1>5. Shape'
  BY <1>1, <1>2, <1>3, <1>4 DEF OrdersInv, Shape, TaskShape, NoTask, Small
<1>6. ASSUME ~overlap'
      PROVE  Informed'
  <2>1. Informed
    BY <1>1, <1>6 DEF OrdersInv
  <2>2. \A j \in Instances : (Fresh(j)' => Fresh(j)) /\ (j # i => View(j)' = View(j))
    BY <1>1, <1>3, <1>4 DEF Fresh, Answered, View
  <2>3. ASSUME NEW j \in Instances
        PROVE  Alone(j)'
    BY <1>1, <2>1, <2>2 DEF Informed, Alone
  <2>4. ASSUME NEW j \in Instances
        PROVE  AdmittedKnows(j)'
    <3>1. CASE j = i
      <4>1. SUFFICES ASSUME task[i].at = "admitted"
                     PROVE  Knows(beat[i].copy)
        BY <1>1, <1>3, <1>4, <3>1 DEF AdmittedKnows, Knows
      <4>2. beat[i].at = "promoted" => FALSE
        BY <1>2, <2>1, <4>1 DEF Informed, Alone, Fresh, NoTask
      <4>3. QED
        BY <1>1, <2>1, <4>1, <4>2 DEF Informed, AdmittedKnows
    <3>2. CASE j # i
      BY <1>1, <1>4, <2>1, <3>2 DEF Informed, AdmittedKnows, Knows
    <3>3. QED
      BY <3>1, <3>2
  <2>5. ASSUME NEW j \in Instances
        PROVE  WritingKnows(j)'
    BY <1>1, <1>2, <1>4, <2>1 DEF Informed, WritingKnows, Knows
  <2>6. ASSUME NEW j \in Instances, Fresh(j)'
        PROVE  Knows(View(j))'
    <3>1. CASE j = i
      <4>1. beat[i].at = "promoted" /\ next.at = "confirm"
        BY <1>1, <1>2, <1>3, <1>4, <2>6, <3>1 DEF Fresh, Answered
      <4>2. View(i)' = View(i)
        BY <1>4, <4>1 DEF View
      <4>3. QED
        BY <1>1, <2>1, <2>2, <2>6, <3>1, <4>2 DEF Informed, Knows
    <3>2. CASE j # i
      BY <1>1, <2>1, <2>2, <2>6, <3>2 DEF Informed, Knows
    <3>3. QED
      BY <3>1, <3>2
  <2>7. QED
    BY <1>1, <2>1, <2>3, <2>4, <2>5, <2>6 DEF Informed, Knows
<1>7. QED
  BY <1>5, <1>6 DEF OrdersInv

LEMMA AdmitKeeps ==
  ASSUME OrdersInv, LeaseInv, {"serving", "promoting"} \subseteq Prompt,
         NEW i \in Instances, NEW r \in Requests, Admit(i, r)
  PROVE  OrdersInv'
<1>1. /\ flag[i] /\ task[i] = NoTask
      /\ task' = [task EXCEPT ![i] = [at |-> "admitted", req |-> r]]
      /\ UNCHANGED <<flag, beat, mem, db, acked, overlap>>
  BY DEF Admit
<1>2. /\ DOMAIN task' = Instances /\ task'[i].at = "admitted"
      /\ \A j \in Instances \ {i} : task'[j] = task[j]
  BY <1>1 DEF OrdersInv, Shape
<1>3. \A j \in Instances : (Fresh(j)' <=> Fresh(j)) /\ View(j)' = View(j)
  BY <1>1 DEF Fresh, View, Answered
<1>4. Fresh(i) /\ beat[i].at \in {"sleep", "asked"}
  BY <1>1 DEF Fresh, OrdersInv, Shape
<1>5. Shape'
  BY <1>1, <1>2 DEF OrdersInv, Shape, TaskShape, NoTask, Small
<1>6. ASSUME ~overlap'
      PROVE  Informed'
  <2>1. Informed
    BY <1>1, <1>6 DEF OrdersInv
  <2>2. \A j \in Instances \ {i} : task[j] = NoTask /\ ~Fresh(j)
    BY <1>4, <2>1, OneFresh DEF Informed, Alone
  <2>3. ASSUME NEW j \in Instances
        PROVE  Alone(j)'
    BY <1>1, <1>2, <1>3, <2>2 DEF Alone
  <2>4. ASSUME NEW j \in Instances
        PROVE  AdmittedKnows(j)'
    <3>1. CASE j = i
      <4>1. Knows(mem[i])
        BY <1>4, <2>1 DEF Informed, View
      <4>2. QED
        BY <1>1, <1>4, <3>1, <4>1 DEF AdmittedKnows, Knows
    <3>2. CASE j # i
      BY <1>2, <2>2, <3>2 DEF AdmittedKnows, NoTask
    <3>3. QED
      BY <3>1, <3>2
  <2>5. ASSUME NEW j \in Instances
        PROVE  WritingKnows(j)'
    BY <1>2, <2>2 DEF WritingKnows, NoTask
  <2>6. QED
    BY <1>1, <1>3, <2>1, <2>3, <2>4, <2>5 DEF Informed, Knows
<1>7. QED
  BY <1>5, <1>6 DEF OrdersInv

\* The id comes from the engine the request finds, so nothing acknowledged has it.
LEMMA HandleKeeps ==
  ASSUME OrdersInv, LeaseInv, NEW i \in Instances, Handle(i)
  PROVE  OrdersInv'
<1> DEFINE id == NextId(mem[i])
           r == task[i].req
<1>1. /\ task[i].at = "admitted"
      /\ mem' = [mem EXCEPT ![i] = With(mem[i], id, r)]
      /\ task' = [task EXCEPT ![i] = [at |-> "writing", req |-> r, id |-> id, snap |-> mem[i]]]
      /\ UNCHANGED <<flag, beat, db, acked, overlap>>
  BY DEF Handle
<1>2. Small(mem[i])
  BY DEF OrdersInv, Shape
<1>3. id \in Nat \ {0} /\ id \notin DOMAIN mem[i]
  BY <1>2, NextIdFresh
<1> HIDE DEF id, r
<1>4. /\ DOMAIN task' = Instances /\ DOMAIN mem' = Instances
      /\ task'[i] = [at |-> "writing", req |-> r, id |-> id, snap |-> mem[i]]
      /\ mem'[i] = With(mem[i], id, r)
      /\ \A j \in Instances \ {i} : task'[j] = task[j] /\ mem'[j] = mem[j]
  BY <1>1 DEF OrdersInv, Shape
<1>5. Small(With(mem[i], id, r))
  BY <1>2, <1>3, WithSmall
<1>6. Shape'
  <2>1. ASSUME NEW j \in Instances
        PROVE  Small(mem[j])' /\ TaskShape(j)'
    <3>1. CASE j = i
      BY <1>2, <1>3, <1>4, <1>5, <3>1 DEF TaskShape, Small
    <3>2. CASE j # i
      BY <1>4, <3>2 DEF OrdersInv, Shape, TaskShape, NoTask, Small
    <3>3. QED
      BY <3>1, <3>2
  <2>2. task[i] # NoTask
    BY <1>1 DEF NoTask
  <2>3. \A j \in Instances : beat[j].at = "down" => task'[j] = NoTask
    BY <1>4, <2>2 DEF OrdersInv, Shape
  <2>4. QED
    BY <1>1, <1>4, <2>1, <2>3 DEF OrdersInv, Shape, Small
<1>7. ASSUME ~overlap'
      PROVE  Informed'
  <2>1. Informed /\ task[i] # NoTask
    BY <1>1, <1>7 DEF OrdersInv, NoTask
  <2>2. Knows(mem[i])
    BY <1>1, <2>1 DEF Informed, AdmittedKnows
  <2>3. \A a \in acked : a[1] # id
    BY <1>3, <2>2 DEF Knows
  <2>4. Knows(With(mem[i], id, r)) /\ id \in DOMAIN With(mem[i], id, r) /\ With(mem[i], id, r)[id] = r
    BY <2>2, <2>3, WithKnows
  <2>5. \A j \in Instances : Fresh(j)' <=> Fresh(j)
    BY <1>1 DEF Fresh, Answered
  <2>6. \A j \in Instances \ {i} : task[j] = NoTask /\ ~Fresh(j)
    BY <2>1 DEF Informed, Alone
  <2>7. Fresh(i) => flag[i]
    BY <2>1 DEF Informed, Alone
  <2>8. ASSUME NEW j \in Instances
        PROVE  Alone(j)'
    BY <1>1, <1>4, <2>5, <2>6, <2>7 DEF Alone
  <2>9. ASSUME NEW j \in Instances
        PROVE  AdmittedKnows(j)' /\ WritingKnows(j)'
    <3>1. CASE j = i
      BY <1>1, <1>4, <2>2, <2>3, <2>4, <3>1 DEF AdmittedKnows, WritingKnows, Knows
    <3>2. CASE j # i
      BY <1>4, <2>6, <3>2 DEF AdmittedKnows, WritingKnows, NoTask
    <3>3. QED
      BY <3>1, <3>2
  <2>10. ASSUME NEW j \in Instances, Fresh(j)'
         PROVE  Knows(View(j))'
    <3>1. j = i /\ flag[i] /\ beat[i].at # "promoted"
      BY <2>5, <2>6, <2>7, <2>10 DEF OrdersInv, Shape
    <3>2. View(i)' = With(mem[i], id, r)
      BY <1>1, <1>4, <3>1 DEF View
    <3>3. QED
      BY <1>1, <2>4, <3>1, <3>2 DEF Knows
  <2>11. QED
    BY <1>1, <2>1, <2>8, <2>9, <2>10 DEF Informed, Knows
<1>8. QED
  BY <1>6, <1>7 DEF OrdersInv

\* The write commits and the client is told.
LEMMA CommitKeeps ==
  ASSUME OrdersInv, LeaseInv, NEW i \in Instances, Commit(i)
  PROVE  OrdersInv'
<1> DEFINE id == task[i].id
           r == task[i].req
<1>1. /\ task[i].at = "writing" /\ db' = With(db, id, r)
      /\ acked' = acked \cup {<<id, r>>} /\ task' = [task EXCEPT ![i] = NoTask]
      /\ UNCHANGED <<flag, beat, mem, overlap>>
  BY DEF Commit
<1>2. DOMAIN task' = Instances /\ task'[i] = NoTask /\ \A j \in Instances \ {i} : task'[j] = task[j]
  BY <1>1 DEF OrdersInv, Shape
<1>3. id \in Nat \ {0}
  BY <1>1 DEF OrdersInv, Shape, TaskShape, NoTask
<1> HIDE DEF id, r
<1>4. Small(db)'
  BY <1>1, <1>3, WithSmall DEF OrdersInv, Shape
<1>5. Shape'
  BY <1>1, <1>2, <1>4 DEF OrdersInv, Shape, TaskShape, NoTask, Small
<1>6. ASSUME ~overlap'
      PROVE  Informed'
  <2>1. Informed /\ task[i] # NoTask
    BY <1>1, <1>6 DEF OrdersInv, NoTask
  <2>2. \A a \in acked : a[1] # id
    BY <1>1, <2>1 DEF Informed, WritingKnows, id
  <2>3. ASSUME NEW orders
        PROVE  Knows(orders)' <=> Knows(orders) /\ id \in DOMAIN orders /\ orders[id] = r
    <3>1. \A a \in acked' : a \in acked \/ a = <<id, r>>
      BY <1>1
    <3>2. <<id, r>> \in acked' /\ acked \subseteq acked'
      BY <1>1
    <3>3. QED
      BY <3>1, <3>2 DEF Knows
  <2>4. Knows(With(db, id, r)) /\ id \in DOMAIN With(db, id, r) /\ With(db, id, r)[id] = r
    BY <2>1, <2>2, WithKnows DEF Informed
  <2>5. Knows(db)'
    BY <1>1, <2>3, <2>4 DEF Knows
  <2>6. \A j \in Instances : (Fresh(j)' <=> Fresh(j)) /\ View(j)' = View(j)
    BY <1>1 DEF Fresh, View, Answered
  <2>7. \A j \in Instances : task'[j] = NoTask
    BY <1>2, <2>1 DEF Informed, Alone
  <2>8. \A j \in Instances : Alone(j)' /\ AdmittedKnows(j)' /\ WritingKnows(j)'
    BY <2>7 DEF Alone, AdmittedKnows, WritingKnows, NoTask
  <2>9. ASSUME NEW j \in Instances, Fresh(j)'
        PROVE  Knows(View(j))'
    <3>1. j = i /\ flag[i] /\ beat[i].at # "promoted"
      BY <2>1, <2>6, <2>9 DEF OrdersInv, Shape, Informed, Alone
    <3>2. id \in DOMAIN mem[i] /\ mem[i][id] = r
      BY <1>1, <2>1, <3>1 DEF Informed, WritingKnows, id, r
    <3>3. Knows(mem[i]) /\ View(i) = mem[i]
      BY <2>1, <2>6, <2>9, <3>1 DEF Informed, View
    <3>4. Knows(mem[i])'
      BY <1>1, <2>3, <3>2, <3>3 DEF Knows
    <3>5. QED
      BY <1>1, <2>6, <3>1, <3>3, <3>4 DEF Knows
  <2>10. QED
    BY <2>5, <2>8, <2>9 DEF Informed
<1>7. QED
  BY <1>5, <1>6 DEF OrdersInv

\* The request ends without an answer, and its write may yet be in Postgres: a
\* failed write, where the clone goes back, or a crash, where nothing is left.
LEMMA EndKeeps ==
  ASSUME OrdersInv, LeaseInv, NEW i \in Instances, NEW engine, Small(engine),
         \/ UNCHANGED db
         \/ task[i].at = "writing" /\ db' = With(db, task[i].id, task[i].req),
         mem' = [mem EXCEPT ![i] = engine], DOMAIN task' = Instances, task'[i] = NoTask,
         \A j \in Instances \ {i} : task'[j] = task[j],
         UNCHANGED <<acked, overlap>>,
         DOMAIN beat' = Instances,
         \A j \in Instances \ {i} : beat'[j] = beat[j] /\ flag'[j] = flag[j],
         \/ beat'[i] = beat[i] /\ flag'[i] = flag[i] /\ (Informed => Knows(engine)) /\ task[i] # NoTask
         \/ beat'[i] \in {Down, Sleeping} /\ ~flag'[i]
  PROVE  OrdersInv'
<1>1. /\ DOMAIN task' = Instances /\ DOMAIN mem' = Instances
      /\ task'[i] = NoTask /\ mem'[i] = engine
      /\ \A j \in Instances \ {i} : task'[j] = task[j] /\ mem'[j] = mem[j]
  BY DEF OrdersInv, Shape
<1>2. Small(db)'
  BY WithSmall DEF OrdersInv, Shape, TaskShape, NoTask
<1>3. Shape'
  <2>1. ASSUME NEW j \in Instances
        PROVE  Small(mem[j])' /\ TaskShape(j)'
    BY <1>1 DEF OrdersInv, Shape, TaskShape, NoTask, Small
  <2>2. ASSUME NEW j \in Instances
        PROVE  /\ beat'[j].at \in {"promoted", "warmed"} => Small(beat'[j].copy)
               /\ flag'[j] => beat'[j].at \in {"sleep", "asked"}
               /\ beat'[j].at = "down" => task'[j] = NoTask
    BY <1>1 DEF OrdersInv, Shape, Down, Sleeping
  <2>3. QED
    BY <1>1, <1>2, <2>1, <2>2 DEF Shape, Small
<1>4. ASSUME ~overlap'
      PROVE  Informed'
  <2>1. Informed
    BY <1>4 DEF OrdersInv
  <2>2. \A orders : Knows(orders)' <=> Knows(orders)
    BY DEF Knows
  <2>3. Knows(db')
    <3>1. CASE UNCHANGED db
      BY <2>1, <3>1 DEF Informed
    <3>2. CASE task[i].at = "writing" /\ db' = With(db, task[i].id, task[i].req)
      <4>1. \A a \in acked : a[1] # task[i].id
        BY <2>1, <3>2 DEF Informed, WritingKnows
      <4>2. QED
        BY <2>1, <3>2, <4>1, WithKnows DEF Informed
    <3>3. QED
      BY <3>1, <3>2
  <2>4. \A j \in Instances : Fresh(j)' => Fresh(j)
    BY DEF Fresh, Answered, Down, Sleeping
  <2>5. ASSUME NEW j \in Instances
        PROVE  Alone(j)' /\ AdmittedKnows(j)' /\ WritingKnows(j)'
    <3>1. CASE j = i
      BY <1>1, <3>1 DEF Alone, AdmittedKnows, WritingKnows, NoTask
    <3>2. CASE j # i
      <4>1. Alone(j)'
        BY <1>1, <2>1, <2>4, <3>2 DEF Informed, Alone
      <4>2. AdmittedKnows(j)' /\ WritingKnows(j)'
        BY <1>1, <2>1, <3>2 DEF Informed, AdmittedKnows, WritingKnows, Knows
      <4>3. QED
        BY <4>1, <4>2
    <3>3. QED
      BY <3>1, <3>2
  <2>6. ASSUME NEW j \in Instances, Fresh(j)'
        PROVE  Knows(View(j))'
    <3>1. CASE j = i
      <4>1. beat'[i] = beat[i] /\ flag'[i] = flag[i] /\ Knows(engine) /\ task[i] # NoTask
        BY <2>1, <2>6, <3>1 DEF Fresh, Answered, Down, Sleeping
      <4>2. flag[i] /\ beat[i].at # "promoted"
        BY <2>1, <2>4, <2>6, <3>1, <4>1 DEF Informed, Alone, OrdersInv, Shape
      <4>3. View(i)' = engine
        BY <1>1, <4>1, <4>2 DEF View
      <4>4. QED
        BY <3>1, <4>1, <4>3 DEF Knows
    <3>2. CASE j # i
      <4>1. View(j)' = View(j)
        BY <1>1, <3>2 DEF View
      <4>2. QED
        BY <2>1, <2>4, <2>6, <4>1 DEF Informed, Knows
    <3>3. QED
      BY <3>1, <3>2
  <2>7. QED
    BY <2>3, <2>5, <2>6 DEF Informed, Knows
<1>5. QED
  BY <1>3, <1>4 DEF OrdersInv

LEMMA EndsKeep ==
  ASSUME OrdersInv, LeaseInv, NEW i \in Instances, Fail(i) \/ Crash(i) \/ Boot(i)
  PROVE  OrdersInv'
<1>0. flag \in [Instances -> BOOLEAN] /\ DOMAIN beat = Instances /\ DOMAIN task = Instances
  BY DEF LeaseInv, LeaseTypeOK, OrdersInv, Shape
<1>1. CASE Fail(i)
  <2>1. /\ task[i].at = "writing" /\ UNCHANGED <<flag, beat, acked, overlap>>
        /\ db' = db \/ db' = With(db, task[i].id, task[i].req)
        /\ mem' = [mem EXCEPT ![i] = task[i].snap] /\ task' = [task EXCEPT ![i] = NoTask]
    BY <1>1 DEF Fail
  <2>2. Small(task[i].snap) /\ task[i] # NoTask
    BY <2>1 DEF OrdersInv, Shape, TaskShape, NoTask
  <2>3. Informed => Knows(task[i].snap)
    BY <2>1 DEF Informed, WritingKnows
  <2>4. QED
    BY <1>0, <2>1, <2>2, <2>3, EndKeeps
<1>2. CASE Crash(i)
  <2>1. /\ UNCHANGED <<acked, overlap>> /\ mem' = [mem EXCEPT ![i] = NoOrders]
        /\ task' = [task EXCEPT ![i] = NoTask] /\ flag' = [flag EXCEPT ![i] = FALSE]
        /\ beat' = [beat EXCEPT ![i] = Down]
        /\ UNCHANGED db \/ (task[i].at = "writing" /\ db' = With(db, task[i].id, task[i].req))
    BY <1>2 DEF Crash, Goto
  <2>2. Small(NoOrders)
    <3>1. DOMAIN NoOrders \subseteq 1 .. 0
      BY DEF NoOrders
    <3>2. QED
      BY <3>1 DEF Small
  <2>3. /\ DOMAIN beat' = Instances /\ beat'[i] = Down /\ ~flag'[i]
        /\ \A j \in Instances \ {i} : beat'[j] = beat[j] /\ flag'[j] = flag[j]
    BY <1>0, <2>1
  <2>4. DOMAIN task' = Instances /\ task'[i] = NoTask /\ \A j \in Instances \ {i} : task'[j] = task[j]
    BY <1>0, <2>1
  <2>5. QED
    BY <2>1, <2>2, <2>3, <2>4, EndKeeps
<1>3. CASE Boot(i)
  <2>1. /\ UNCHANGED <<flag, task, db, acked, overlap>> /\ mem' = [mem EXCEPT ![i] = db]
        /\ beat[i] = Down /\ beat' = [beat EXCEPT ![i] = Sleeping]
    BY <1>3 DEF Boot, Goto
  <2>2. ~flag[i] /\ task[i] = NoTask
    BY <2>1 DEF OrdersInv, Shape, Down
  <2>3. DOMAIN task' = Instances /\ task'[i] = NoTask /\ \A j \in Instances \ {i} : task'[j] = task[j]
    BY <1>0, <2>1, <2>2
  <2>4. /\ DOMAIN beat' = Instances /\ beat'[i] = Sleeping /\ ~flag'[i]
        /\ \A j \in Instances \ {i} : beat'[j] = beat[j] /\ flag'[j] = flag[j]
    BY <1>0, <2>1, <2>2
  <2>5. Small(db)
    BY DEF OrdersInv, Shape
  <2>6. QED
    BY <2>1, <2>3, <2>4, <2>5, EndKeeps
<1>4. QED
  BY <1>1, <1>2, <1>3

LEMMA InitOrders == Init => OrdersInv
<1> SUFFICES ASSUME Init PROVE OrdersInv
  OBVIOUS
<1>1. Small(NoOrders)
  <2>1. DOMAIN NoOrders \subseteq 1 .. 0
    BY DEF NoOrders
  <2>2. QED
    BY <2>1 DEF Small
<1>2. Shape
  BY <1>1 DEF Init, Shape, TaskShape, NoTask, Sleeping
<1>3. Informed
  BY DEF Init, Informed, Knows, Alone, AdmittedKnows, WritingKnows, NoTask, Fresh, Answered, Sleeping
<1>4. QED
  BY <1>2, <1>3 DEF OrdersInv

LEMMA NextOrders ==
  ASSUME OrdersInv, LeaseInv, {"serving", "promoting"} \subseteq Prompt, [Next]_vars
  PROVE  OrdersInv'
<1>1. CASE UNCHANGED <<flag, beat, mem, task, db, acked, overlap>>
  <2>1. Shape'
    BY <1>1 DEF OrdersInv, Shape, TaskShape, NoTask, Small
  <2>2. \A j \in Instances : Fresh(j)' = Fresh(j) /\ View(j)' = View(j)
    BY <1>1 DEF Fresh, View, Answered
  <2>3. Informed => Informed'
    BY <1>1, <2>2 DEF Informed, Alone, AdmittedKnows, WritingKnows, Knows
  <2>4. QED
    BY <1>1, <2>1, <2>3 DEF OrdersInv
<1>2. ASSUME NEW i \in Instances,
             \/ Ask(i) \/ Reconfirm(i) \/ Renew(i) \/ StartPromote(i) \/ Follow(i)
             \/ HeartbeatError(i) \/ LoadError(i) \/ Promoted(i)
      PROVE  OrdersInv'
  BY <1>2, HeartbeatsKeep
<1>3. ASSUME NEW i \in Instances,
             \/ Load(i) \/ Apply(i) \/ (\E r \in Requests : Admit(i, r))
             \/ Handle(i) \/ Commit(i)
      PROVE  OrdersInv'
  BY <1>3, LoadKeeps, ApplyKeeps, AdmitKeeps, HandleKeeps, CommitKeeps
<1>4. ASSUME NEW i \in Instances, Fail(i) \/ Crash(i) \/ Boot(i)
      PROVE  OrdersInv'
  BY <1>4, EndsKeep
<1>5. CASE Tick
  BY <1>1, <1>5 DEF Tick
<1>6. CASE UNCHANGED vars
  BY <1>1, <1>6 DEF vars
<1>7. QED
  BY <1>2, <1>3, <1>4, <1>5, <1>6 DEF Next

LEMMA OrdersInvAlways ==
  ASSUME {"serving", "promoting"} \subseteq Prompt
  PROVE  Spec => []OrdersInv
<1>1. LeaseInv /\ OrdersInv /\ [Next]_vars => LeaseInv' /\ OrdersInv'
  BY NextLease, NextOrders
<1>2. QED
  BY InitLease, InitOrders, <1>1, PTL DEF Spec

\* A new leader knows every order acknowledged before it, for any instances, lease
\* time and failures, if leaders and promotions are prompt: rehydrate_from_store
\* under a lease, and the reconfirmation after it, are enough unless a promotion
\* read Postgres while a request was being served.
THEOREM LeaderInformed ==
  ASSUME {"serving", "promoting"} \subseteq Prompt
  PROVE  Spec => []LeaderKnowsAcked
<1>1. OrdersInv => LeaderKnowsAcked
  <2> SUFFICES ASSUME OrdersInv, NEW i \in Instances, flag[i], ~overlap
               PROVE  Knows(mem[i])
    BY DEF LeaderKnowsAcked, Knows
  <2>1. beat[i].at # "promoted" /\ Fresh(i)
    BY DEF OrdersInv, Shape, Fresh
  <2>2. QED
    BY <2>1 DEF OrdersInv, Informed, View
<1>2. QED
  BY <1>1, OrdersInvAlways, PTL

\* No acknowledged order is overwritten in Postgres, under the same conditions: no
\* write carries the lease, but ids come from an engine that knows them all.
THEOREM AckedKept ==
  ASSUME {"serving", "promoting"} \subseteq Prompt
  PROVE  Spec => []AckedSurvives
<1>1. OrdersInv => AckedSurvives
  BY DEF OrdersInv, Informed, Knows, AckedSurvives
<1>2. QED
  BY <1>1, OrdersInvAlways, PTL
=============================================================================
