---------------------------- MODULE MCPaperBook ----------------------------
(* Model-checking instance of PaperBook: amounts and quantities include the *)
(* zero the operations refuse.                                              *)
EXTENDS PaperBook, TLC

CONSTANTS a1, a2, k1, k2, k3, k4, k5

MCAccounts == {a1, a2}
MCKeys == {k1, k2, k3, k4, k5}
MCAmounts == {0, 1, 2}
MCLots == {0, 1}
MCFees == {0, 1}

\* Accounts and keys are interchangeable.
Symmetric == Permutations(MCAccounts) \cup Permutations(MCKeys)
=============================================================================
