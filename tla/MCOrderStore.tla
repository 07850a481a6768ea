---------------------------- MODULE MCOrderStore ----------------------------
(* Model-checking instance of OrderStore: one account, two client ids, an   *)
(* order of up to three lots filled by up to three executions at two prices. *)
EXTENDS OrderStore, TLC

CONSTANTS acct, c1, c2, e1, e2, e3

MCAccounts == {acct}
MCClientIds == {c1, c2}
MCExecIds == {e1, e2, e3}
MCLots == {0, 1, 3}
MCPrices == {2, 5}
MCSides == {"Buy"}

\* Client and execution ids are interchangeable.
Symmetric == Permutations(MCClientIds) \cup Permutations(MCExecIds)
=============================================================================
