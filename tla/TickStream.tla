----------------------------- MODULE TickStream -----------------------------
(***************************************************************************)
(* What the market-data gateway promises of the prices it fans out: a tick *)
(* is a record its venue issued, and ticks come in the venue's order and   *)
(* at most once.  Ticks may be missing: a snapshot stands for what it      *)
(* covers.                                                                 *)
(***************************************************************************)
EXTENDS Integers, SequencesExt

VARIABLES
  issued,   \* the venue's last sequence
  ticks     \* sequences of the ticks published

vars == <<issued, ticks>>

Latest == IF ticks = <<>> THEN 0 ELSE Last(ticks)

Init == issued \in Nat /\ ticks = <<>>

Issue == issued' = issued + 1 /\ UNCHANGED ticks

Publish(n) ==
  /\ n > Latest
  /\ ticks' = Append(ticks, n)
  /\ UNCHANGED issued

Next == Issue \/ \E n \in 1 .. issued : Publish(n)

Spec == Init /\ [][Next]_vars
=============================================================================
