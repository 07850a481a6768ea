---------------------------- MODULE ReportStream ----------------------------
(***************************************************************************)
(* What a venue adapter promises the session behind it                     *)
(* (crates/protocols/execution/src/venue.rs, ExecutionVenue): the reports  *)
(* a venue issues in a session reach it in the order they were issued, none*)
(* twice and none skipped, whatever happens on the way.  A session that is *)
(* re-established starts with nothing issued and nothing received.         *)
(***************************************************************************)
EXTENDS Sequences, SequencesExt

VARIABLES
  issued,    \* the reports the venue issued in this session
  received   \* the reports the adapter took in

vars == <<issued, received>>

Init == issued = <<>> /\ received = <<>>

\* The venue issues more, or the adapter receives more of what was issued.
Issue == IsPrefix(issued, issued') /\ issued' # issued /\ UNCHANGED received

Receive ==
  /\ IsPrefix(received, received') /\ received' # received
  /\ IsPrefix(received', issued') /\ IsPrefix(issued, issued')

NewSession == issued' = <<>> /\ received' = <<>>

Next == Issue \/ Receive \/ NewSession

Spec == Init /\ [][Next]_vars
=============================================================================
