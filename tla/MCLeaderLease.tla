--------------------------- MODULE MCLeaderLease ---------------------------
(* Model-checking instances of LeaderLease.                                 *)
EXTENDS LeaderLease, TLC

CONSTANTS i1, i2, r1, r2

MCInstances == {i1, i2}
MCRequests == {r1, r2}
MCPrompt == {"serving", "promoting"}
MCServing == {"serving"}
MCNone == {}
=============================================================================
