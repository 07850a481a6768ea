---------------------------- MODULE MCOpsControl ----------------------------
(* One gateway, two requests at a time, one account, one restricted share.  *)
EXTENDS OpsControl

MCPatches ==
  {Patch("none", 0, "none", "none", "acct", TRUE),
   Patch("none", 0, "none", "none", "acct", FALSE),
   Patch("off", 1, "none", "XYZ", "none", FALSE),
   Patch("on", 0, "unknown", "none", "none", FALSE)}
=============================================================================
