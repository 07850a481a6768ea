------------------------------ MODULE MCOutbox ------------------------------
(* Model-checking instance of Outbox.                                       *)
EXTENDS Outbox

CONSTANTS p1, p2

MCPublishers == {p1, p2}
=============================================================================
