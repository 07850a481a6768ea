-------------------------- MODULE OrderStoreProofs --------------------------
(***************************************************************************)
(* Proofs about OrderStore, for every set of accounts, client ids,         *)
(* execution ids, quantities and prices and every bound.                   *)
(***************************************************************************)
EXTENDS OrderStore, FiniteSetTheorems, TLAPS

\* What apply guarantees of one order: the order it produces is well typed, its
\* status agrees with its fills, it keeps its identity, and it only ever gains
\* executions.  No event is accepted in a terminal status.
LEMMA AppliedPreserves ==
  ASSUME NEW o \in Order, NEW ev \in Events, StatusMatchesFillsOf(o),
         ApplyError(o, ev) = "none"
  PROVE  /\ Applied(o, ev) \in Order
         /\ StatusMatchesFillsOf(Applied(o, ev))
         /\ KeyOf(Applied(o, ev)) = KeyOf(o)
         /\ o.execs \subseteq Applied(o, ev).execs
         /\ o.cum <= Applied(o, ev).cum
         /\ o.status \notin IsTerminal
PROOF
<1> DEFINE p == Applied(o, ev)
<1>1. LegalTransition(o.status, ev.type) /\ AssertInvariants(p)
  BY DEF ApplyError
<1>2. ev.type \in EventTypes /\ ev.qty \in Int /\ ev.price \in Int
  <2>1. CASE ev \in [type : {"Trade"}, exec : ExecIds, qty : Lots, price : Prices]
    BY <2>1, StoreAssumption DEF EventTypes
  <2>2. CASE ev \in [type : {"ReplaceRequested", "Replaced"}, exec : {NoExec},
                     qty : Lots, price : Prices]
    BY <2>2, StoreAssumption DEF EventTypes
  <2>3. CASE ev \in [type : EventTypes \ {"Trade", "ReplaceRequested", "Replaced"},
                     exec : {NoExec}, qty : {0}, price : {0}]
    BY <2>3
  <2> QED  BY <2>1, <2>2, <2>3 DEF Events
<1>3. o.status \notin IsTerminal
  BY <1>1 DEF LegalTransition, IsTerminal, IsWorking
<1>4. CASE ev.type = "Accepted"
  BY <1>1, <1>3, <1>4 DEF Applied, Order, Statuses, StatusMatchesFillsOf, AssertInvariants,
     LegalTransition, IsWorking, KeyOf
<1>5. CASE ev.type = "Rejected"
  BY <1>1, <1>3, <1>5 DEF Applied, Order, Statuses, StatusMatchesFillsOf, AssertInvariants,
     LegalTransition, IsWorking, KeyOf
<1>6. CASE ev.type = "Trade"
  <2>1. p = ApplyTrade(o, ev)
    BY <1>6 DEF Applied
  <2>2. ev.exec \in ExecIds /\ ev.qty > 0 /\ ev.price > 0 /\ ev.qty <= o.leaves
    BY <1>1, <1>2, <1>6 DEF ApplyError, TradeError, Events, EventTypes, Order
  <2>3. o.cum + ev.qty \in Int /\ o.cum + ev.qty > 0
    BY <1>2, <2>2 DEF Order, StatusMatchesFillsOf, AssertInvariants
  <2>4. (o.avg * o.cum + ev.price * ev.qty) \div (o.cum + ev.qty) \in Int
    BY <1>2, <2>3 DEF Order
  <2>5. p \in Order
    <3>1. o.execs \cup {ev.exec} \in SUBSET ExecIds
      BY <2>2 DEF Order
    <3>2. o.qty - (o.cum + ev.qty) \in Int
      BY <2>3 DEF Order
    <3>3. (IF o.qty - (o.cum + ev.qty) = 0 THEN "Filled" ELSE "PartiallyFilled") \in Statuses
      BY DEF Statuses
    <3> HIDE DEF p
    <3> QED  BY <2>1, <2>3, <2>4, <3>1, <3>2, <3>3, Zenon DEF Order, ApplyTrade
  <2>6. o.status \in IsWorking /\ o.acked /\ o.cum >= 0
    BY <1>1, <1>6 DEF LegalTransition, IsWorking, StatusMatchesFillsOf, AssertInvariants
  <2>7. /\ p.cum = o.cum + ev.qty /\ p.leaves = o.qty - (o.cum + ev.qty) /\ p.qty = o.qty
        /\ p.execs = o.execs \cup {ev.exec} /\ p.acked = o.acked
        /\ p.status = IF p.leaves = 0 THEN "Filled" ELSE "PartiallyFilled"
        /\ p.account = o.account /\ p.client = o.client
    BY <2>1 DEF ApplyTrade, Order
  <2>8. StatusMatchesFillsOf(p)
    <3>1. AssertInvariants(p) /\ p.qty > 0
      BY <1>1, <2>7 DEF StatusMatchesFillsOf
    <3>2. p.leaves = 0 <=> p.status = "Filled"
      BY <2>7
    <3>3. p.cum > 0 /\ p.execs # {}
      BY <2>3, <2>7
    <3>4. p.status \in {"Filled", "PartiallyFilled"} /\ p.acked
      BY <2>6, <2>7
    <3> QED  BY <3>1, <3>2, <3>3, <3>4 DEF StatusMatchesFillsOf
  <2>9. o.cum <= p.cum
    BY <1>2, <2>2, <2>7 DEF Order
  <2> QED  BY <1>3, <2>5, <2>7, <2>8, <2>9 DEF KeyOf
<1>7. CASE ev.type \in {"CancelRequested", "Canceled", "ReplaceRequested", "Expired"}
  BY <1>1, <1>3, <1>7 DEF Applied, Order, Statuses, StatusMatchesFillsOf, AssertInvariants,
     LegalTransition, IsWorking, KeyOf
<1>8. CASE ev.type = "Replaced"
  <2>1. p = ApplyReplaced(o, ev)
    BY <1>8 DEF Applied
  <2>2. ev.qty > 0 /\ ev.price > 0 /\ ev.qty >= o.cum
    BY <1>1, <1>2, <1>8 DEF ApplyError, ReplaceError, Order
  <2>3. p \in Order
    <3>1. ev.qty - o.cum \in Int
      BY <1>2 DEF Order
    <3>2. (IF o.cum = 0 THEN "New"
           ELSE IF ev.qty - o.cum = 0 THEN "Filled" ELSE "PartiallyFilled") \in Statuses
      BY DEF Statuses
    <3> HIDE DEF p
    <3> QED  BY <1>2, <2>1, <3>1, <3>2, Zenon DEF Order, ApplyReplaced
  <2>4. o.status = "PendingReplace" /\ o.acked /\ o.cum >= 0
    BY <1>1, <1>8 DEF LegalTransition, IsWorking, StatusMatchesFillsOf, AssertInvariants
  <2>5. /\ p.cum = o.cum /\ p.qty = ev.qty /\ p.leaves = ev.qty - o.cum /\ p.execs = o.execs
        /\ p.acked = o.acked /\ p.account = o.account /\ p.client = o.client
        /\ p.status = IF o.cum = 0 THEN "New"
                      ELSE IF ev.qty - o.cum = 0 THEN "Filled" ELSE "PartiallyFilled"
    BY <2>1 DEF ApplyReplaced, Order
  <2>6. StatusMatchesFillsOf(p)
    BY <1>1, <1>2, <2>2, <2>4, <2>5 DEF StatusMatchesFillsOf, Order
  <2> QED  BY <1>3, <2>3, <2>5, <2>6 DEF KeyOf, Order
<1> QED  BY <1>2, <1>4, <1>5, <1>6, <1>7, <1>8 DEF EventTypes

-----------------------------------------------------------------------------
\* The saved rows satisfy what the orders in memory satisfy.
RowsMatchFills == \A id \in DOMAIN rows : StatusMatchesFillsOf(rows[id])

\* The inductive invariant.  RowsMatchFills and RowsLagMemory are what a
\* restart needs: the rows become the orders, and distinct rows have distinct
\* keys because the orders they were saved from do.
IInv ==
  /\ TypeOK
  /\ StatusMatchesFills
  /\ RowsMatchFills
  /\ ClientIndexAgrees
  /\ OneOrderPerKey
  /\ RowsLagMemory

\* A request new_pending_typed accepts yields a well-formed order.
LEMMA NewPendingOK ==
  ASSUME NEW req \in Requests, NewPendingError(req) = "none"
  PROVE  /\ NewPending(req) \in Order
         /\ StatusMatchesFillsOf(NewPending(req))
         /\ KeyOf(NewPending(req)) = KeyOf(req)
         /\ KeyOf(req) \in Keys
PROOF
<1>1. /\ req.account \in Accounts /\ req.client \in ClientIds /\ req.side \in Sides
      /\ req.tif = "GTC" /\ req.qty \in Int /\ req.price \in Int
  BY StoreAssumption DEF Requests
<1>2. req.qty > 0
  BY <1>1 DEF NewPendingError
<1>3. NewPending(req) \in Order
  BY <1>1 DEF NewPending, Order, TimesInForce, Statuses
<1>4. StatusMatchesFillsOf(NewPending(req))
  BY <1>1, <1>2 DEF NewPending, StatusMatchesFillsOf, AssertInvariants
<1> QED  BY <1>1, <1>3, <1>4 DEF NewPending, KeyOf, Keys

LEMMA InitIInv == Init => IInv
PROOF
BY StoreAssumption DEF Init, IInv, TypeOK, StatusMatchesFills, RowsMatchFills, ClientIndexAgrees,
   OneOrderPerKey, RowsLagMemory, EmptyMap

\* OneOrderPerKey needs only its first conjunct: a key determines its id through
\* by_client, and an id determines its key through the order.
LEMMA AnswersSuffice ==
  ASSUME NEW ords, NEW index, NEW ans,
         \A k \in DOMAIN index : KeyOf(ords[index[k]]) = k,
         \A a \in ans : a[1] \in DOMAIN index /\ index[a[1]] = a[2]
  PROVE  \A a, b \in ans : a[1] = b[1] <=> a[2] = b[2]
PROOF
<1> SUFFICES ASSUME NEW a \in ans, NEW b \in ans  PROVE a[1] = b[1] <=> a[2] = b[2]
  OBVIOUS
<1>1. index[a[1]] = a[2] /\ index[b[1]] = b[2]
  OBVIOUS
<1>2. KeyOf(ords[a[2]]) = a[1] /\ KeyOf(ords[b[2]]) = b[1]
  BY <1>1
<1> QED  BY <1>1, <1>2

LEMMA CreatedIInv ==
  ASSUME IInv, NEW req \in Requests, SubmitCreated(req)
  PROVE  IInv'
PROOF
<1> DEFINE id == nextId + 1
<1> USE DEF IInv
<1>1. /\ orders' = Insert(orders, id, NewPending(req))
      /\ byClient' = Insert(byClient, KeyOf(req), id)
      /\ answers' = answers \cup {<<KeyOf(req), id>>}
      /\ nextId' = id /\ rows' = rows /\ restarts' = restarts /\ events' = events + 1
      /\ KeyOf(req) \notin DOMAIN byClient /\ nextId < MaxId /\ events < MaxEvents
  BY DEF SubmitCreated
<1>2. /\ NewPending(req) \in Order /\ StatusMatchesFillsOf(NewPending(req))
      /\ KeyOf(NewPending(req)) = KeyOf(req) /\ KeyOf(req) \in Keys
  BY NewPendingOK DEF SubmitCreated
<1>3. nextId \in Nat /\ id \in Nat /\ id \in 1 .. MaxId
  BY <1>1, StoreAssumption DEF TypeOK
<1>4. id \notin DOMAIN orders /\ id \notin DOMAIN rows /\ 1 .. nextId \subseteq 1 .. id
  BY <1>3 DEF TypeOK
<1>5. /\ DOMAIN orders' = DOMAIN orders \cup {id} /\ orders'[id] = NewPending(req)
      /\ \A i \in DOMAIN orders : orders'[i] = orders[i]
  BY <1>1, <1>4 DEF Insert
<1>6. /\ DOMAIN byClient' = DOMAIN byClient \cup {KeyOf(req)} /\ byClient'[KeyOf(req)] = id
      /\ \A k \in DOMAIN byClient : byClient'[k] = byClient[k]
  BY <1>1 DEF Insert
<1> HIDE DEF id
<1>7. TypeOK'
  <2>1. events' \in 0 .. MaxEvents
    BY <1>1, StoreAssumption DEF TypeOK
  <2>2. id \in 1 .. id
    BY <1>3
  <2>3. nextId' \in 0 .. MaxId
    BY <1>1, <1>3, StoreAssumption
  <2> QED  BY <1>1, <1>2, <1>3, <1>4, <1>5, <1>6, <2>1, <2>2, <2>3 DEF TypeOK
<1>8. StatusMatchesFills' /\ RowsMatchFills'
  BY <1>1, <1>2, <1>5 DEF StatusMatchesFills, RowsMatchFills
<1>9. ClientIndexAgrees'
  BY <1>1, <1>2, <1>4, <1>5, <1>6 DEF ClientIndexAgrees
<1>10. \A a \in answers' : a[1] \in DOMAIN byClient' /\ byClient'[a[1]] = a[2]
  BY <1>1, <1>6 DEF OneOrderPerKey
<1>11. OneOrderPerKey'
  <2>1. \A k \in DOMAIN byClient' : KeyOf(orders'[byClient'[k]]) = k
    BY <1>9 DEF ClientIndexAgrees
  <2>2. \A a, b \in answers' : a[1] = b[1] <=> a[2] = b[2]
    BY <1>10, <2>1, AnswersSuffice
  <2> QED  BY <1>10, <2>2 DEF OneOrderPerKey
<1>12. RowsLagMemory'
  BY <1>1, <1>5 DEF RowsLagMemory
<1> QED  BY <1>7, <1>8, <1>9, <1>11, <1>12

LEMMA ApplyIInv ==
  ASSUME IInv, NEW id \in OrderIds, NEW ev \in Events, ApplyEvent(id, ev)
  PROVE  IInv'
PROOF
<1> USE DEF IInv
<1> DEFINE p == Applied(orders[id], ev)
<1>1. /\ id \in DOMAIN orders /\ ApplyError(orders[id], ev) = "none"
      /\ orders' = [orders EXCEPT ![id] = p] /\ events' = events + 1 /\ events < MaxEvents
      /\ UNCHANGED <<byClient, nextId, rows, restarts, answers>>
  BY DEF ApplyEvent
<1>2. /\ p \in Order /\ StatusMatchesFillsOf(p) /\ KeyOf(p) = KeyOf(orders[id])
      /\ orders[id].execs \subseteq p.execs /\ orders[id].cum <= p.cum
      /\ orders[id].status \notin IsTerminal
  BY <1>1, AppliedPreserves DEF TypeOK, StatusMatchesFills
<1> HIDE DEF p
<1>3. /\ DOMAIN orders' = DOMAIN orders /\ orders'[id] = p
      /\ \A i \in DOMAIN orders : i # id => orders'[i] = orders[i]
  BY <1>1
<1>4. events' \in 0 .. MaxEvents
  BY <1>1, StoreAssumption DEF TypeOK
<1>5. TypeOK'
  BY <1>1, <1>2, <1>3, <1>4 DEF TypeOK
<1>6. StatusMatchesFills' /\ RowsMatchFills'
  BY <1>1, <1>2, <1>3 DEF StatusMatchesFills, RowsMatchFills
<1>7. ClientIndexAgrees'
  BY <1>1, <1>2, <1>3 DEF ClientIndexAgrees
<1>8. OneOrderPerKey'
  BY <1>1 DEF OneOrderPerKey
<1>9. RowsLagMemory'
  <2> SUFFICES ASSUME NEW i \in DOMAIN rows
      PROVE /\ i \in DOMAIN orders' /\ KeyOf(rows[i]) = KeyOf(orders'[i])
            /\ rows[i].execs \subseteq orders'[i].execs /\ rows[i].cum <= orders'[i].cum
            /\ rows[i].status \in IsTerminal => orders'[i] = rows[i]
    BY <1>1 DEF RowsLagMemory
  <2>1. CASE i # id
    BY <1>3, <2>1 DEF RowsLagMemory
  <2>2. CASE i = id
    <3>1. rows[i].cum \in Int /\ orders[id].cum \in Int /\ p.cum \in Int
      BY <1>1, <1>2 DEF TypeOK, Order
    <3>2. rows[i].cum <= orders[id].cum /\ rows[i].execs \subseteq orders[id].execs
      BY <2>2 DEF RowsLagMemory
    <3>3. rows[i].status \notin IsTerminal
      BY <1>2, <2>2 DEF RowsLagMemory
    <3>4. KeyOf(rows[i]) = KeyOf(orders[id])
      BY <2>2 DEF RowsLagMemory
    <3> QED  BY <1>1, <1>2, <1>3, <2>2, <3>1, <3>2, <3>3, <3>4
  <2> QED  BY <2>1, <2>2
<1> QED  BY <1>5, <1>6, <1>7, <1>8, <1>9

LEMMA SaveIInv ==
  ASSUME IInv, NEW id \in OrderIds, Save(id)
  PROVE  IInv'
PROOF
<1> USE DEF IInv
<1>1. /\ id \in DOMAIN orders /\ rows' = Insert(rows, id, orders[id])
      /\ UNCHANGED <<orders, byClient, nextId, events, restarts, answers>>
  BY DEF Save
<1>2. /\ DOMAIN rows' = DOMAIN rows \cup {id} /\ rows'[id] = orders[id]
      /\ \A i \in DOMAIN rows : i # id => rows'[i] = rows[i]
  BY <1>1 DEF Insert
<1>3. TypeOK'
  BY <1>1, <1>2 DEF TypeOK
<1>4. StatusMatchesFills' /\ RowsMatchFills'
  BY <1>1, <1>2 DEF StatusMatchesFills, RowsMatchFills
<1>5. ClientIndexAgrees' /\ OneOrderPerKey'
  BY <1>1 DEF ClientIndexAgrees, OneOrderPerKey
<1>6. orders[id].cum <= orders[id].cum
  BY <1>1 DEF TypeOK, Order
<1>7. RowsLagMemory'
  BY <1>1, <1>2, <1>6 DEF RowsLagMemory
<1> QED  BY <1>3, <1>4, <1>5, <1>7

LEMMA RestartIInv ==
  ASSUME IInv, Restart
  PROVE  IInv'
PROOF
<1> USE DEF IInv
<1>1. /\ orders' = rows /\ rows' = rows /\ events' = events
      /\ restarts < MaxRestarts /\ restarts' = restarts + 1
      /\ byClient' = [k \in {KeyOf(rows[i]) : i \in DOMAIN rows} |->
                        CHOOSE i \in DOMAIN rows : KeyOf(rows[i]) = k]
      /\ nextId' \in DOMAIN rows \cup {0} /\ \A i \in DOMAIN rows : i <= nextId'
      /\ answers' = {a \in answers : a[2] \in DOMAIN rows /\ KeyOf(rows[a[2]]) = a[1]}
  BY DEF Restart
<1>2. \A i, j \in DOMAIN rows : KeyOf(rows[i]) = KeyOf(rows[j]) => i = j
  <2> SUFFICES ASSUME NEW i \in DOMAIN rows, NEW j \in DOMAIN rows,
                      KeyOf(rows[i]) = KeyOf(rows[j])
      PROVE i = j
    OBVIOUS
  <2>1. i \in DOMAIN orders /\ j \in DOMAIN orders /\ KeyOf(orders[i]) = KeyOf(orders[j])
    BY DEF RowsLagMemory
  <2> QED  BY <2>1 DEF ClientIndexAgrees
<1>3. /\ DOMAIN byClient' = {KeyOf(rows[i]) : i \in DOMAIN rows}
      /\ \A i \in DOMAIN rows : byClient'[KeyOf(rows[i])] = i
  <2>1. DOMAIN byClient' = {KeyOf(rows[i]) : i \in DOMAIN rows}
    BY <1>1
  <2>2. ASSUME NEW i \in DOMAIN rows PROVE byClient'[KeyOf(rows[i])] = i
    <3>1. byClient'[KeyOf(rows[i])] = CHOOSE j \in DOMAIN rows : KeyOf(rows[j]) = KeyOf(rows[i])
      BY <1>1
    <3> QED  BY <1>2, <3>1
  <2> QED  BY <2>1, <2>2
<1>4. /\ nextId' \in 0 .. MaxId /\ DOMAIN rows \subseteq 1 .. nextId'
      /\ restarts' \in 0 .. MaxRestarts
  BY <1>1, StoreAssumption DEF TypeOK
<1>5. \A i \in DOMAIN rows : KeyOf(rows[i]) \in Keys
  BY DEF TypeOK, KeyOf, Keys, Order
<1>6. TypeOK'
  <2>1. DOMAIN byClient' \subseteq Keys
    BY <1>3, <1>5
  <2>2. \A k \in DOMAIN byClient' : byClient'[k] \in DOMAIN rows
    BY <1>3
  <2> QED  BY <1>1, <1>4, <2>1, <2>2 DEF TypeOK
<1>7. StatusMatchesFills' /\ RowsMatchFills'
  BY <1>1 DEF StatusMatchesFills, RowsMatchFills
<1>8. ClientIndexAgrees'
  BY <1>1, <1>3 DEF ClientIndexAgrees
<1>9. \A a \in answers' : a[1] \in DOMAIN byClient' /\ byClient'[a[1]] = a[2]
  <2> SUFFICES ASSUME NEW a \in answers'
      PROVE a[1] \in DOMAIN byClient' /\ byClient'[a[1]] = a[2]
    OBVIOUS
  <2>1. a[2] \in DOMAIN rows /\ KeyOf(rows[a[2]]) = a[1]
    BY <1>1
  <2> QED  BY <1>3, <2>1
<1>10. OneOrderPerKey'
  <2>1. \A k \in DOMAIN byClient' : KeyOf(orders'[byClient'[k]]) = k
    BY <1>8 DEF ClientIndexAgrees
  <2>2. \A a, b \in answers' : a[1] = b[1] <=> a[2] = b[2]
    BY <1>9, <2>1, AnswersSuffice
  <2> QED  BY <1>9, <2>2 DEF OneOrderPerKey
<1>11. RowsLagMemory'
  <2>1. \A i \in DOMAIN rows : rows[i].cum <= rows[i].cum
    BY DEF TypeOK, Order
  <2> QED  BY <1>1, <2>1 DEF RowsLagMemory
<1> QED  BY <1>6, <1>7, <1>8, <1>10, <1>11

\* The remaining operations change the answers only, the id counter only, or
\* nothing.
LEMMA OtherIInv ==
  ASSUME IInv,
         \/ \E req \in Requests : SubmitDuplicate(req) \/ SubmitInvalid(req)
         \/ \E id \in OrderIds, ev \in Events : ApplyRefused(id, ev)
         \/ UNCHANGED vars
  PROVE  IInv'
PROOF
<1> USE DEF IInv
<1>1. ASSUME NEW req \in Requests, SubmitDuplicate(req) PROVE IInv'
  <2>1. /\ KeyOf(req) \in DOMAIN byClient
        /\ answers' = answers \cup {<<KeyOf(req), byClient[KeyOf(req)]>>}
        /\ UNCHANGED <<orders, byClient, nextId, events, rows, restarts>>
    BY <1>1 DEF SubmitDuplicate
  <2>2. \A a \in answers' : a[1] \in DOMAIN byClient /\ byClient[a[1]] = a[2]
    BY <2>1 DEF OneOrderPerKey
  <2>3. \A k \in DOMAIN byClient : KeyOf(orders[byClient[k]]) = k
    BY DEF ClientIndexAgrees
  <2>4. \A a, b \in answers' : a[1] = b[1] <=> a[2] = b[2]
    BY <2>2, <2>3, AnswersSuffice
  <2>5. OneOrderPerKey'
    BY <2>1, <2>2, <2>4 DEF OneOrderPerKey
  <2> QED  BY <2>1, <2>5 DEF TypeOK, StatusMatchesFills, RowsMatchFills, ClientIndexAgrees,
              RowsLagMemory
<1>2. ASSUME NEW req \in Requests, SubmitInvalid(req) PROVE IInv'
  <2>1. /\ nextId < MaxId /\ nextId' = nextId + 1
        /\ UNCHANGED <<orders, byClient, events, rows, restarts, answers>>
    BY <1>2 DEF SubmitInvalid
  <2>2. nextId' \in 0 .. MaxId /\ 1 .. nextId \subseteq 1 .. nextId'
    BY <2>1, StoreAssumption DEF TypeOK
  <2> QED  BY <2>1, <2>2 DEF TypeOK, StatusMatchesFills, RowsMatchFills, ClientIndexAgrees,
              OneOrderPerKey, RowsLagMemory
<1>3. ASSUME UNCHANGED vars PROVE IInv'
  BY <1>3 DEF vars, TypeOK, StatusMatchesFills, RowsMatchFills, ClientIndexAgrees,
     OneOrderPerKey, RowsLagMemory
<1> QED  BY <1>1, <1>2, <1>3 DEF ApplyRefused

LEMMA NextIInv == IInv /\ [Next]_vars => IInv'
PROOF
<1> SUFFICES ASSUME IInv, [Next]_vars PROVE IInv'
  OBVIOUS
<1>1. ASSUME NEW req \in Requests, SubmitCreated(req) PROVE IInv'
  BY <1>1, CreatedIInv
<1>2. ASSUME NEW id \in OrderIds, NEW ev \in Events, ApplyEvent(id, ev) PROVE IInv'
  BY <1>2, ApplyIInv
<1>3. ASSUME NEW id \in OrderIds, Save(id) PROVE IInv'
  BY <1>3, SaveIInv
<1>4. CASE Restart
  BY <1>4, RestartIInv
<1> QED  BY <1>1, <1>2, <1>3, <1>4, OtherIInv DEF Next

LEMMA Invariance == Spec => []IInv
PROOF
<1>1. Init => IInv                    BY InitIInv
<1>2. IInv /\ [Next]_vars => IInv'     BY NextIInv
<1> QED  BY <1>1, <1>2, PTL DEF Spec

\* Type correctness of the store: ids in use never exceed next_id.
THEOREM TypeCorrect == Spec => []TypeOK
PROOF
<1>1. IInv => TypeOK  BY DEF IInv
<1> QED  BY <1>1, Invariance, PTL

\* Every order's status agrees with its fills (apply_trade, apply_replaced),
\* for any number of orders, events and restarts.
THEOREM StatusCorrect == Spec => []StatusMatchesFills
PROOF
<1>1. IInv => StatusMatchesFills  BY DEF IInv
<1> QED  BY <1>1, Invariance, PTL

\* by_client and orders stay inverse to each other through submit and restore.
THEOREM IndexCorrect == Spec => []ClientIndexAgrees
PROOF
<1>1. IInv => ClientIndexAgrees  BY DEF IInv
<1> QED  BY <1>1, Invariance, PTL

\* A client key is answered with one order id, however often it is retried.
THEOREM SubmitIdempotent == Spec => []OneOrderPerKey
PROOF
<1>1. IInv => OneOrderPerKey  BY DEF IInv
<1> QED  BY <1>1, Invariance, PTL

\* A saved row is an earlier version of the order in memory.
THEOREM RowsCorrect == Spec => []RowsLagMemory
PROOF
<1>1. IInv => RowsLagMemory  BY DEF IInv
<1> QED  BY <1>1, Invariance, PTL

\* An order in a terminal status is never changed by a step of the process.
THEOREM TerminalImmutable == Spec => TerminalFrozen
PROOF
<1> DEFINE Frozen == \A id \in DOMAIN orders :
                       (orders[id].status \in IsTerminal /\ restarts' = restarts)
                         => id \in DOMAIN orders' /\ orders'[id] = orders[id]
<1>1. IInv /\ [Next]_vars => [Frozen]_vars
  <2> SUFFICES ASSUME IInv, Next PROVE Frozen
    OBVIOUS
  <2>1. ASSUME NEW req \in Requests, SubmitCreated(req) PROVE Frozen
    <3>1. nextId \in Nat /\ nextId + 1 \notin DOMAIN orders
      BY DEF IInv, TypeOK
    <3> QED  BY <2>1, <3>1 DEF SubmitCreated, Insert
  <2>2. ASSUME NEW id \in OrderIds, NEW ev \in Events, ApplyEvent(id, ev) PROVE Frozen
    <3>1. id \in DOMAIN orders /\ orders' = [orders EXCEPT ![id] = Applied(orders[id], ev)]
      BY <2>2 DEF ApplyEvent
    <3>2. orders[id].status \notin IsTerminal
      BY <2>2, AppliedPreserves DEF ApplyEvent, IInv, TypeOK, StatusMatchesFills
    <3> QED  BY <3>1, <3>2
  <2>3. CASE Restart
    <3>1. restarts' = restarts + 1 /\ restarts \in Nat
      BY <2>3 DEF Restart, IInv, TypeOK
    <3>2. restarts' # restarts
      BY <3>1
    <3> QED  BY <3>2
  <2>4. CASE orders' = orders
    BY <2>4
  <2> QED  BY <2>1, <2>2, <2>3, <2>4 DEF Next, SubmitDuplicate, SubmitInvalid, ApplyRefused,
              Save, vars
<1>2. Spec => [][Frozen]_vars
  BY <1>1, Invariance, PTL DEF Spec
<1> QED  BY <1>2 DEF TerminalFrozen
-----------------------------------------------------------------------------
(* Fills and the trades that explain them.                                 *)

\* The accepted trades an order, or a saved row, has counted.
Counted(ts, id, o) == {t \in ts : t.id = id /\ t.exec \in o.execs}

\* Trades ts explain the fills of o: their executions, lots and prices.
Explains(ts, o) ==
  /\ o.execs = {t.exec : t \in ts}
  /\ IsFiniteSet(LotsOf(ts)) /\ o.cum = Cardinality(LotsOf(ts))
  /\ ts # {} => \E low, high \in ts : low.price <= o.avg /\ o.avg <= high.price
  /\ o.avg >= 0

TradeType == [id : Nat, exec : ExecIds, qty : Nat \ {0}, price : Nat \ {0}]

\* The inductive invariant: what is said of orders is said of rows too, each with
\* the trades it has counted, because a restart turns rows into orders and forgets
\* the trades no row has.
FillInv ==
  /\ trades \subseteq TradeType
  /\ \A t, u \in trades : t.id = u.id /\ t.exec = u.exec => t = u
  /\ \A t \in trades : t.id \in DOMAIN orders /\ t.exec \in orders[t.id].execs
  /\ \A id \in DOMAIN orders : Explains(Counted(trades, id, orders[id]), orders[id])
  /\ \A id \in DOMAIN rows : Explains(Counted(trades, id, rows[id]), rows[id])

LEMMA TimesMonotone ==
  ASSUME NEW a \in Int, NEW b \in Int, NEW c \in Nat, a <= b
  PROVE  a * c <= b * c
OBVIOUS

\* Truncating a mean keeps it between two integers that bound it.
LEMMA TruncatedMean ==
  ASSUME NEW low \in Int, NEW high \in Int, NEW n \in Int, NEW d \in Nat \ {0},
         low * d <= n, n <= high * d
  PROVE  low <= n \div d /\ n \div d <= high
PROOF
<1> DEFINE q == n \div d
<1>1. q \in Int /\ d * q <= n /\ n < d * (q + 1)
  OBVIOUS
<1> HIDE DEF q
<1>2. low <= q
  <2>1. SUFFICES ASSUME q + 1 <= low PROVE FALSE
    BY <1>1
  <2>2. (q + 1) * d <= low * d
    BY <1>1, <2>1, TimesMonotone
  <2> QED  BY <1>1, <2>2
<1>3. q <= high
  <2>1. SUFFICES ASSUME high + 1 <= q PROVE FALSE
    BY <1>1
  <2>2. (high + 1) * d <= q * d
    BY <1>1, <2>1, TimesMonotone
  <2> QED  BY <1>1, <2>2
<1> QED  BY <1>2, <1>3 DEF q

\* Folding one more trade into an average leaves it between the prices.
LEMMA AverageStays ==
  ASSUME NEW low \in Nat, NEW high \in Nat, NEW avg \in Nat, NEW cum \in Nat,
         NEW price \in Nat, NEW qty \in Nat \ {0},
         cum > 0 => low <= avg /\ avg <= high, low <= price, price <= high
  PROVE  low <= (avg * cum + price * qty) \div (cum + qty)
         /\ (avg * cum + price * qty) \div (cum + qty) <= high
PROOF
<1>1. low * cum <= avg * cum /\ avg * cum <= high * cum
  <2>1. CASE cum = 0
    BY <2>1
  <2>2. CASE cum > 0
    BY <2>2, TimesMonotone
  <2> QED  BY <2>1, <2>2
<1>2. low * qty <= price * qty /\ price * qty <= high * qty
  BY TimesMonotone
<1>3. low * (cum + qty) = low * cum + low * qty /\ high * (cum + qty) = high * cum + high * qty
  OBVIOUS
<1>4. /\ avg * cum \in Int /\ price * qty \in Int /\ low * cum \in Int /\ low * qty \in Int
      /\ high * cum \in Int /\ high * qty \in Int
  OBVIOUS
<1> DEFINE n == avg * cum + price * qty
<1>5. n \in Int /\ low * (cum + qty) <= n /\ n <= high * (cum + qty)
  BY <1>1, <1>2, <1>3, <1>4
<1>6. cum + qty \in Nat \ {0}
  OBVIOUS
<1> HIDE DEF n
<1>7. low <= n \div (cum + qty) /\ n \div (cum + qty) <= high
  BY <1>5, <1>6, TruncatedMean
<1> QED  BY <1>7 DEF n

\* One more trade adds its own lots.
LEMMA LotsAdd ==
  ASSUME NEW ts, NEW t, t \notin ts, t.qty \in Nat, IsFiniteSet(LotsOf(ts))
  PROVE  /\ IsFiniteSet(LotsOf(ts \cup {t}))
         /\ Cardinality(LotsOf(ts \cup {t})) = Cardinality(LotsOf(ts)) + t.qty
PROOF
<1> DEFINE own == {t} \X (1 .. t.qty)
<1>1. LotsOf(ts \cup {t}) = LotsOf(ts) \cup own
  BY DEF LotsOf
<1>2. LotsOf(ts) \cap own = {}
  BY DEF LotsOf
<1>3. IsFiniteSet({t}) /\ Cardinality({t}) = 1
  BY FS_Singleton
<1>4. IsFiniteSet(1 .. t.qty) /\ Cardinality(1 .. t.qty) = t.qty
  <2>1. /\ IsFiniteSet(1 .. t.qty)
        /\ Cardinality(1 .. t.qty) = IF 1 > t.qty THEN 0 ELSE t.qty - 1 + 1
    BY FS_Interval
  <2> QED  BY <2>1
<1>5. IsFiniteSet(own) /\ Cardinality(own) = t.qty
  <2>1. IsFiniteSet(own) /\ Cardinality(own) = Cardinality({t}) * Cardinality(1 .. t.qty)
    BY <1>3, <1>4, FS_Product
  <2> HIDE DEF own
  <2> QED  BY <1>3, <1>4, <2>1
<1> HIDE DEF own
<1>6. Cardinality(LotsOf(ts) \cap own) = 0
  BY <1>2, FS_EmptySet
<1>7. Cardinality(LotsOf(ts)) \in Nat
  BY FS_CardinalityType
<1>8. /\ IsFiniteSet(LotsOf(ts) \cup own)
      /\ Cardinality(LotsOf(ts) \cup own) =
           Cardinality(LotsOf(ts)) + Cardinality(own) - Cardinality(LotsOf(ts) \cap own)
  BY <1>5, FS_Union
<1>9. Cardinality(LotsOf(ts) \cup own) = Cardinality(LotsOf(ts)) + t.qty
  BY <1>5, <1>6, <1>7, <1>8
<1> HIDE DEF LotsOf
<1> QED  BY <1>1, <1>8, <1>9

\* Explaining survives one more trade of a new execution (apply_trade).
LEMMA TradeExplained ==
  ASSUME NEW o \in Order, NEW ts \in SUBSET TradeType, NEW t \in TradeType, t.exec \notin o.execs,
         NEW ev, t.exec = ev.exec, t.qty = ev.qty, t.price = ev.price,
         Explains(ts, o), o.cum >= 0, o.cum > 0 <=> o.execs # {}
  PROVE  Explains(ts \cup {t}, ApplyTrade(o, ev))
PROOF
<1> DEFINE p == ApplyTrade(o, ev)
           all == ts \cup {t}
<1>1. /\ p.cum = o.cum + t.qty /\ p.execs = o.execs \cup {t.exec}
      /\ p.avg = (o.avg * o.cum + t.price * t.qty) \div (o.cum + t.qty)
  BY DEF ApplyTrade, Order
<1> HIDE DEF p
<1>2. t \notin ts /\ t.qty \in Nat \ {0} /\ t.price \in Nat \ {0}
  BY DEF Explains, TradeType
<1>3. IsFiniteSet(LotsOf(all)) /\ p.cum = Cardinality(LotsOf(all))
  BY <1>1, <1>2, LotsAdd DEF Explains
<1>4. p.execs = {u.exec : u \in all}
  BY <1>1 DEF Explains
<1>5. o.avg \in Nat /\ o.cum \in Nat
  BY DEF Explains, Order
<1>6. PICK low \in all, high \in all :
        (o.cum > 0 => low.price <= o.avg /\ o.avg <= high.price) /\ low.price <= t.price /\ t.price <= high.price
  <2>1. CASE o.cum = 0
    <3>1. t \in all /\ t.price <= t.price
      BY <1>2
    <3> QED  BY <2>1, <3>1
  <2>2. CASE o.cum > 0
    <3>1. ts # {}
      BY <2>2 DEF Explains
    <3>2. PICK l \in ts, h \in ts : l.price <= o.avg /\ o.avg <= h.price
      BY <3>1 DEF Explains
    <3>3. l.price \in Nat /\ h.price \in Nat /\ l \in all /\ h \in all /\ t \in all
      BY DEF TradeType
    <3>4. \E x \in all : x.price <= o.avg /\ x.price <= t.price
      <4>1. CASE l.price <= t.price
        BY <3>2, <3>3, <4>1
      <4>2. CASE t.price < l.price
        <5>1. t.price <= o.avg /\ t.price <= t.price
          BY <1>2, <1>5, <3>2, <3>3, <4>2
        <5> QED  BY <3>3, <5>1
      <4> QED  BY <1>2, <3>3, <4>1, <4>2
    <3>5. \E x \in all : o.avg <= x.price /\ t.price <= x.price
      <4>1. CASE t.price <= h.price
        BY <3>2, <3>3, <4>1
      <4>2. CASE h.price < t.price
        <5>1. o.avg <= t.price /\ t.price <= t.price
          BY <1>2, <1>5, <3>2, <3>3, <4>2
        <5> QED  BY <3>3, <5>1
      <4> QED  BY <1>2, <3>3, <4>1, <4>2
    <3> QED  BY <3>4, <3>5
  <2> QED  BY <1>5, <2>1, <2>2
<1>7. low.price \in Nat /\ high.price \in Nat
  BY <1>6 DEF TradeType
<1>8. low.price <= p.avg /\ p.avg <= high.price
  <2> DEFINE mean == (o.avg * o.cum + t.price * t.qty) \div (o.cum + t.qty)
  <2>1. low.price <= mean /\ mean <= high.price
    <3>1. t.price \in Nat
      BY <1>2
    <3> QED  BY <1>2, <1>5, <1>6, <1>7, <3>1, AverageStays, ZenonT(60)
  <2> HIDE DEF mean
  <2>2. p.avg = mean
    BY <1>1 DEF mean
  <2> QED  BY <2>1, <2>2
<1>9. p.avg >= 0
  <2>1. o.avg * o.cum + t.price * t.qty \in Int /\ o.cum + t.qty \in Nat \ {0}
    BY <1>2, <1>5
  <2>2. p.avg \in Int
    BY <1>1, <2>1
  <2> QED  BY <1>7, <1>8, <2>2
<1> QED  BY <1>3, <1>4, <1>6, <1>8, <1>9 DEF Explains, p

\* An order as good as another is explained by the same trades.
LEMMA SameFills ==
  ASSUME NEW o, NEW p, o.execs = p.execs, o.cum = p.cum, o.avg = p.avg
  PROVE  /\ \A ts, id : Counted(ts, id, o) = Counted(ts, id, p)
         /\ \A ts : Explains(ts, o) => Explains(ts, p)
BY DEF Counted, Explains

LEMMA OtherEventFills ==
  ASSUME NEW o \in Order, NEW ev \in Events, ev.type # "Trade"
  PROVE  /\ Applied(o, ev).execs = o.execs /\ Applied(o, ev).cum = o.cum
         /\ Applied(o, ev).avg = o.avg
PROOF
<1>1. ev.type \in EventTypes
  <2>1. CASE ev \in [type : {"ReplaceRequested", "Replaced"}, exec : {NoExec},
                     qty : Lots, price : Prices]
    BY <2>1 DEF EventTypes
  <2>2. CASE ev \in [type : EventTypes \ {"Trade", "ReplaceRequested", "Replaced"},
                     exec : {NoExec}, qty : {0}, price : {0}]
    BY <2>2
  <2> QED  BY <2>1, <2>2 DEF Events
<1> QED  BY <1>1 DEF Applied, ApplyReplaced, Order, EventTypes

LEMMA TradeFills ==
  ASSUME IInv, FillInv, NEW id \in OrderIds, NEW ev \in Events, ev.type = "Trade", ApplyEvent(id, ev)
  PROVE  FillInv'
PROOF
<1> DEFINE o == orders[id]
           p == Applied(o, ev)
           t == [id |-> id, exec |-> ev.exec, qty |-> ev.qty, price |-> ev.price]
<1>1. /\ id \in DOMAIN orders /\ ApplyError(o, ev) = "none" /\ orders' = [orders EXCEPT ![id] = p]
      /\ trades' = trades \cup {t} /\ rows' = rows
  BY DEF ApplyEvent
<1>2. o \in Order /\ StatusMatchesFillsOf(o)
  BY <1>1 DEF IInv, TypeOK, StatusMatchesFills
<1>3. ev.exec \in ExecIds /\ ev.qty \in Int /\ ev.price \in Int
  <2>1. ev \in [type : {"Trade"}, exec : ExecIds, qty : Lots, price : Prices]
    BY DEF Events, EventTypes
  <2> QED  BY <2>1, StoreAssumption
<1>4. ev.exec \notin o.execs /\ ev.qty \in Nat \ {0} /\ ev.price \in Nat \ {0}
  BY <1>1, <1>3 DEF ApplyError, TradeError
<1>5. p = ApplyTrade(o, ev) /\ p.execs = o.execs \cup {ev.exec}
  BY <1>2 DEF Applied, ApplyTrade, Order
<1>6. t \in TradeType
  BY <1>3, <1>4, StoreAssumption DEF TradeType, OrderIds
<1>7. t.id = id /\ t.exec = ev.exec /\ t.qty = ev.qty /\ t.price = ev.price
  OBVIOUS
<1> HIDE DEF p, t
<1>8. /\ DOMAIN orders' = DOMAIN orders /\ orders'[id] = p
      /\ \A i \in DOMAIN orders : i # id => orders'[i] = orders[i]
  BY <1>1
<1>9. \A u \in trades : u.id = id => u.exec \in o.execs
  BY DEF FillInv
<1>10. trades' \subseteq TradeType
  BY <1>1, <1>6 DEF FillInv
<1>11. \A u, v \in trades' : u.id = v.id /\ u.exec = v.exec => u = v
  BY <1>1, <1>4, <1>7, <1>9 DEF FillInv
<1>12. \A u \in trades' : u.id \in DOMAIN orders' /\ u.exec \in orders'[u.id].execs
  BY <1>1, <1>5, <1>7, <1>8 DEF FillInv
<1>13. ASSUME NEW i, NEW x, i # id \/ ev.exec \notin x.execs
       PROVE  Counted(trades', i, x) = Counted(trades, i, x)
  BY <1>1, <1>7, <1>13 DEF Counted
<1>14. Explains(Counted(trades', id, p), p)
  <2>1. Counted(trades', id, p) = Counted(trades, id, o) \cup {t}
    BY <1>1, <1>4, <1>5, <1>7, <1>9 DEF Counted
  <2>2. Counted(trades, id, o) \in SUBSET TradeType
    BY DEF Counted, FillInv
  <2>3. o.cum >= 0 /\ (o.cum > 0 <=> o.execs # {})
    BY <1>2 DEF StatusMatchesFillsOf, AssertInvariants
  <2>4. Explains(Counted(trades, id, o), o)
    BY <1>1 DEF FillInv
  <2> QED  BY <1>2, <1>4, <1>5, <1>6, <1>7, <2>1, <2>2, <2>3, <2>4, TradeExplained
<1>15. ASSUME NEW i \in DOMAIN orders'
       PROVE  Explains(Counted(trades', i, orders'[i]), orders'[i])
  <2>1. CASE i = id
    BY <1>8, <1>14, <2>1
  <2>2. CASE i # id
    BY <1>8, <1>13, <2>2 DEF FillInv
  <2> QED  BY <2>1, <2>2
<1>16. ASSUME NEW i \in DOMAIN rows
       PROVE  Explains(Counted(trades', i, rows[i]), rows[i])
  <2>1. i # id \/ ev.exec \notin rows[i].execs
    BY <1>4 DEF IInv, RowsLagMemory
  <2> QED  BY <1>13, <2>1 DEF FillInv
<1> QED  BY <1>1, <1>10, <1>11, <1>12, <1>15, <1>16 DEF FillInv

LEMMA EventFills ==
  ASSUME IInv, FillInv, NEW id \in OrderIds, NEW ev \in Events, ev.type # "Trade", ApplyEvent(id, ev)
  PROVE  FillInv'
PROOF
<1> DEFINE o == orders[id]
           p == Applied(o, ev)
<1>1. /\ id \in DOMAIN orders /\ orders' = [orders EXCEPT ![id] = p]
      /\ trades' = trades /\ rows' = rows
  BY DEF ApplyEvent
<1>2. p.execs = o.execs /\ p.cum = o.cum /\ p.avg = o.avg
  BY <1>1, OtherEventFills DEF IInv, TypeOK
<1> HIDE DEF p
<1>3. /\ DOMAIN orders' = DOMAIN orders /\ orders'[id] = p
      /\ \A i \in DOMAIN orders : i # id => orders'[i] = orders[i]
  BY <1>1
<1>4. \A i \in DOMAIN orders : orders'[i].execs = orders[i].execs
  BY <1>2, <1>3
<1>5. ASSUME NEW i \in DOMAIN orders'
      PROVE  Explains(Counted(trades, i, orders'[i]), orders'[i])
  <2>1. CASE i = id
    BY <1>1, <1>2, <1>3, <2>1, SameFills DEF FillInv
  <2>2. CASE i # id
    BY <1>3, <2>2 DEF FillInv
  <2> QED  BY <2>1, <2>2
<1> QED  BY <1>1, <1>3, <1>4, <1>5 DEF FillInv

LEMMA CreatedFills ==
  ASSUME IInv, FillInv, NEW req \in Requests, SubmitCreated(req)
  PROVE  FillInv'
PROOF
<1> DEFINE id == nextId + 1
           new == NewPending(req)
<1>1. orders' = Insert(orders, id, new) /\ trades' = trades /\ rows' = rows
  BY DEF SubmitCreated
<1>2. id \notin DOMAIN orders
  BY DEF IInv, TypeOK
<1>3. /\ DOMAIN orders' = DOMAIN orders \cup {id} /\ orders'[id] = new
      /\ \A i \in DOMAIN orders : orders'[i] = orders[i]
  BY <1>1, <1>2 DEF Insert
<1>4. Explains(Counted(trades, id, new), new)
  <2>1. Counted(trades, id, new) = {} /\ new.execs = {} /\ new.cum = 0 /\ new.avg = 0
    BY DEF Counted, NewPending
  <2>2. LotsOf({}) = {}
    BY DEF LotsOf
  <2>3. IsFiniteSet({}) /\ Cardinality({}) = 0
    BY FS_EmptySet
  <2> HIDE DEF new
  <2> QED  BY <2>1, <2>2, <2>3 DEF Explains
<1> HIDE DEF id, new
<1>5. ASSUME NEW i \in DOMAIN orders'
      PROVE  Explains(Counted(trades, i, orders'[i]), orders'[i])
  BY <1>3, <1>4 DEF FillInv
<1> QED  BY <1>1, <1>2, <1>3, <1>5 DEF FillInv

LEMMA SaveFills ==
  ASSUME FillInv, NEW id \in OrderIds, Save(id)
  PROVE  FillInv'
PROOF
<1>1. /\ id \in DOMAIN orders /\ rows' = Insert(rows, id, orders[id])
      /\ UNCHANGED <<orders, trades>>
  BY DEF Save
<1>2. /\ DOMAIN rows' = DOMAIN rows \cup {id} /\ rows'[id] = orders[id]
      /\ \A i \in DOMAIN rows : i # id => rows'[i] = rows[i]
  BY <1>1 DEF Insert
<1>3. ASSUME NEW i \in DOMAIN rows'
      PROVE  Explains(Counted(trades, i, rows'[i]), rows'[i])
  <2>1. CASE i = id
    BY <1>1, <1>2, <2>1 DEF FillInv
  <2>2. CASE i # id
    BY <1>2, <2>2 DEF FillInv
  <2> QED  BY <2>1, <2>2
<1> QED  BY <1>1, <1>3 DEF FillInv

LEMMA RestartFills ==
  ASSUME FillInv, Restart
  PROVE  FillInv'
PROOF
<1>1. /\ orders' = rows /\ rows' = rows
      /\ trades' = {t \in trades : t.id \in DOMAIN rows /\ t.exec \in rows[t.id].execs}
  BY DEF Restart
<1>2. ASSUME NEW i \in DOMAIN rows
      PROVE  Counted(trades', i, rows[i]) = Counted(trades, i, rows[i])
  BY <1>1 DEF Counted
<1>3. \A i \in DOMAIN rows : Explains(Counted(trades', i, rows[i]), rows[i])
  BY <1>2 DEF FillInv
<1> QED  BY <1>1, <1>3 DEF FillInv

LEMMA NextFills ==
  ASSUME IInv, FillInv, [Next]_vars
  PROVE  FillInv'
PROOF
<1>1. ASSUME NEW id \in OrderIds, NEW ev \in Events, ApplyEvent(id, ev)
      PROVE  FillInv'
  BY <1>1, TradeFills, EventFills
<1>2. ASSUME NEW req \in Requests, SubmitCreated(req)
      PROVE  FillInv'
  BY <1>2, CreatedFills
<1>3. ASSUME NEW id \in OrderIds, Save(id)
      PROVE  FillInv'
  BY <1>3, SaveFills
<1>4. CASE Restart
  BY <1>4, RestartFills
<1>5. CASE UNCHANGED <<orders, rows, trades>>
  BY <1>5 DEF FillInv
<1> QED  BY <1>1, <1>2, <1>3, <1>4, <1>5 DEF Next, SubmitDuplicate, SubmitInvalid, ApplyRefused, vars

LEMMA FillsAlways == Spec => []FillInv
PROOF
<1>1. Init => FillInv
  BY DEF Init, FillInv, EmptyMap
<1>2. IInv /\ FillInv /\ [Next]_vars => FillInv'
  BY NextFills
<1> QED  BY <1>1, <1>2, Invariance, PTL DEF Spec

\* The trades an order in memory has counted are all the trades it has.
LEMMA AllCounted ==
  ASSUME FillInv, NEW id \in DOMAIN orders
  PROVE  Counted(trades, id, orders[id]) = Mine(id)
BY DEF FillInv, Counted, Mine

\* The filled quantity is the lots of the accepted trades, one trade for each
\* execution id: a report that comes twice is counted once, however many orders,
\* events and restarts there are (has_exec, apply_trade).
THEOREM FillsExplained == Spec => []ExecsExplainFills
PROOF
<1>1. FillInv => ExecsExplainFills
  <2> SUFFICES ASSUME FillInv, NEW id \in DOMAIN orders
      PROVE /\ orders[id].cum = Cardinality(LotsOf(Mine(id)))
            /\ orders[id].execs = {t.exec : t \in Mine(id)}
            /\ \A t, u \in Mine(id) : t.exec = u.exec => t = u
    BY DEF ExecsExplainFills
  <2>1. Explains(Mine(id), orders[id])
    BY AllCounted DEF FillInv
  <2>2. \A t, u \in Mine(id) : t.exec = u.exec => t = u
    BY DEF FillInv, Mine
  <2> QED  BY <2>1, <2>2 DEF Explains
<1> QED  BY <1>1, FillsAlways, PTL

\* The running average of apply_trade, truncated at every trade, never leaves the
\* prices it averages, for any number of trades, prices and quantities.
THEOREM AverageBounded == Spec => []AvgWithinTrades
PROOF
<1>1. IInv /\ FillInv => AvgWithinTrades
  <2> SUFFICES ASSUME IInv, FillInv, NEW id \in DOMAIN orders, Mine(id) # {}
      PROVE \E low, high \in Mine(id) : orders[id].avg \in low.price .. high.price
    BY DEF AvgWithinTrades
  <2>1. Explains(Mine(id), orders[id])
    BY AllCounted DEF FillInv
  <2>2. PICK low \in Mine(id), high \in Mine(id) :
          low.price <= orders[id].avg /\ orders[id].avg <= high.price
    BY <2>1 DEF Explains
  <2>3. orders[id].avg \in Int /\ low.price \in Int /\ high.price \in Int
    BY DEF IInv, TypeOK, Order, FillInv, TradeType, Mine
  <2> QED  BY <2>2, <2>3
<1> QED  BY <1>1, FillsAlways, Invariance, PTL
=============================================================================
