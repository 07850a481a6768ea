--------------------------- MODULE MCFeedSession ---------------------------
(* Model-checking instances of FeedSession.                                 *)
EXTENDS FeedSession

MCLevels == {"bid", "ask"}
=============================================================================
