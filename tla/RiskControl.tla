----------------------------- MODULE RiskControl -----------------------------
(***************************************************************************)
(* What operators may change about trading, and the trail that is kept of  *)
(* it, as pure operators: the stops and restrictions of the risk engine    *)
(* (crates/domain/risk/src/engine.rs) with the patch of POST /v1/ops/risk, *)
(* the dual-control approvals of compliance.rs, and the hash-chained audit *)
(* log of crates/domain/audit.  Of the limits one stands for all; what they*)
(* decide is modelled in PaperEngine.  A record's hash is modelled by what *)
(* makes it unique, the number of the request it is about.                 *)
(***************************************************************************)
EXTENDS Integers, Sequences, FiniteSets, SequencesExt, FiniteSetsExt, Functions

Merge(f, k, v) == [x \in DOMAIN f \cup {k} |-> IF x = k THEN v ELSE f[x]]

-----------------------------------------------------------------------------
(* The risk engine.  overrides are pairs <<account, instrument>>.          *)

NewRisk(limit, restricted) ==
  [kill |-> FALSE, killed |-> {}, restricted |-> restricted, overrides |-> {}, limit |-> limit]

\* check, the rules operators set, in its order.
Check(r, account, instrument, qty) ==
  IF r.kill \/ account \in r.killed THEN "KillSwitch"
  ELSE IF instrument \in r.restricted /\ <<account, instrument>> \notin r.overrides
  THEN "RestrictedInstrument"
  ELSE IF qty > r.limit THEN "MaxQuantity" ELSE "none"

\* snapshot and restore: overrides are in neither.
Snapshot(r) == [kill |-> r.kill, killed |-> r.killed, restricted |-> r.restricted, limit |-> r.limit]
Restored(r, snap) ==
  [kill |-> snap.kill, killed |-> snap.killed, restricted |-> snap.restricted,
   overrides |-> r.overrides, limit |-> snap.limit]

\* The body of POST /v1/ops/risk: every field may be absent.
Patch(kill, limit, restrict, allow, account, on) ==
  [kill |-> kill, limit |-> limit, restrict |-> restrict, allow |-> allow,
   account |-> account, on |-> on]

Switched(set, element, on) == IF on THEN set \cup {element} ELSE set \ {element}

\* post_risk under the engine's lock: field by field, until a symbol is unknown.
Patched(r, b) ==
  LET first    == [r EXCEPT !.kill = IF b.kill = "none" THEN @ ELSE b.kill = "on",
                            !.limit = IF b.limit = 0 THEN @ ELSE b.limit]
      second   == [first EXCEPT !.restricted = @ \cup ({b.restrict} \ {"none"})]
      third    == [second EXCEPT !.restricted = @ \ {b.allow}]
      last     == IF b.account = "none" THEN third
                  ELSE [third EXCEPT !.killed = Switched(@, b.account, b.on)]
  IN  IF b.restrict = "unknown" THEN [risk |-> first, error |-> "unknown_symbol"]
      ELSE IF b.allow = "unknown" THEN [risk |-> second, error |-> "unknown_symbol"]
      ELSE [risk |-> last, error |-> "none"]

-----------------------------------------------------------------------------
(* Approvals: id -> [account, instrument, by, approved].                   *)

Request(account, instrument, by) ==
  [account |-> account, instrument |-> instrument, by |-> by, approved |-> "none"]

\* Mutant of ApproveError: the maker may approve.
ApproveErrorLax(rows, id, actor) ==
  IF id \notin DOMAIN rows THEN "not_found"
  ELSE IF rows[id].approved # "none" THEN "already_approved" ELSE "none"

\* ApprovalStore::approve.
ApproveError(rows, id, actor) ==
  IF id \notin DOMAIN rows THEN "not_found"
  ELSE IF rows[id].approved # "none" THEN "already_approved"
  ELSE IF rows[id].by = actor THEN "dual_control_same_actor" ELSE "none"

\* approve_approval_request, on the table: whose word it already is may repeat it.
ApproveRowError(rows, id, actor) ==
  IF id \notin DOMAIN rows THEN "not_found"
  ELSE IF rows[id].approved \notin {"none", actor} THEN "already_approved" ELSE "none"

Approved(rows, id, actor) == [rows EXCEPT ![id].approved = actor]

-----------------------------------------------------------------------------
(* The audit log: records [seq, what, prev], in the order they were made.  *)

GENESIS == 0
Hash(record) == record.what
EmptyLog == [records |-> <<>>, next |-> 0, last |-> GENESIS]

\* Mutant of Recorded: the hash of the record before the last is linked to.
RecordedStale(log, what) ==
  LET new == [seq |-> log.next + 1, what |-> what, prev |-> log.last]
  IN  [records |-> Append(log.records, new), next |-> log.next + 1,
       last |-> IF log.last = GENESIS THEN Hash(new) ELSE log.last]

\* record.
Recorded(log, what) ==
  LET new == [seq |-> log.next + 1, what |-> what, prev |-> log.last]
  IN  [records |-> Append(log.records, new), next |-> log.next + 1, last |-> Hash(new)]

\* verify_chain.
ChainOk(records) ==
  \A i \in DOMAIN records :
    records[i].prev = IF i = 1 THEN GENESIS ELSE Hash(records[i - 1])

\* What collect_batch takes of the log.
RecordsAfter(log, seq) == {r \in ToSet(log.records) : r.seq > seq}

\* insert_audit_record_tx for a batch: a number that is taken keeps its row.
Inserted(rows, batch) ==
  LET Row(seq) == CHOOSE r \in batch : r.seq = seq
      new      == {r.seq : r \in batch} \ DOMAIN rows
  IN  [seq \in DOMAIN rows \cup new |-> IF seq \in new THEN Row(seq) ELSE rows[seq]]

\* load_audit_after, page by page, and restore.
Ascending(S) == CHOOSE order \in [1 .. Cardinality(S) -> S] :
                  \A i, j \in DOMAIN order : i < j => order[i] < order[j]
Trail(rows) == LET order == Ascending(DOMAIN rows)
               IN  [i \in DOMAIN order |-> rows[order[i]]]
LastSeq(rows) == IF DOMAIN rows = {} THEN 0 ELSE Max(DOMAIN rows)
RestoredLog(rows) ==
  LET trail == Trail(rows)
  IN  [records |-> trail, next |-> LastSeq(rows),
       last |-> IF trail = <<>> THEN GENESIS ELSE Hash(Last(trail))]
=============================================================================
