--------------------------- MODULE MCPaperSession ---------------------------
(* Model-checking instances of PaperSession.                                *)
EXTENDS PaperSession, TLC

CONSTANTS acct, c1, c2, c3

MCAccounts == {acct}
MCClientIds == {c1, c2}
MCThreeClientIds == {c1, c2, c3}
MCExecIds == 0 .. 9
MCOneTwo == {1, 2}
MCTwo == {2}
MCOneTwoThree == {1, 2, 3}
MCNone == {}

Asks(sides, tifs, lots, prices) ==
  [account : Accounts, client : ClientIds, side : sides, tif : tifs, qty : lots, price : prices]

\* Buys of every kind and sells that rest; then GTC only, at two prices.
MCMixed == Asks({"Buy"}, {"GTC"}, {1, 2}, {2}) \cup Asks({"Buy"}, {"IOC", "FOK"}, {2}, {2})
           \cup Asks({"Sell"}, {"GTC"}, {2}, {2})
MCPriced == Asks({"Buy", "Sell"}, {"GTC"}, {1, 2, 3}, {1, 2})

\* The limits are out of reach of the orders, but for the last two.
MCLimits == [maxQty |-> 9, maxNotional |-> 99, maxPosition |-> 99, allowShort |-> FALSE, maxShort |-> 0]
MCSmallPosition == [MCLimits EXCEPT !.maxPosition = 2]
MCShorts == [MCLimits EXCEPT !.allowShort = TRUE, !.maxShort = 9]

\* Every fill policy and every fault, reports immediate, duplicated, delayed and late.
MCFaults ==
  {Faults(FALSE, TRUE, 1, "Split", 1, FALSE), Faults(FALSE, FALSE, 0, "Split", 1, TRUE),
   Faults(FALSE, TRUE, 0, "Full", 1, FALSE), Faults(FALSE, FALSE, 1, "Full", 1, TRUE),
   Faults(FALSE, FALSE, 0, "Rest", 1, FALSE), Faults(TRUE, FALSE, 0, "Full", 1, FALSE)}

\* Orders that rest, fill in two steps, or fill after a tick.
MCSlowFills ==
  {Faults(FALSE, FALSE, 0, "Rest", 1, FALSE), Faults(FALSE, FALSE, 0, "Split", 1, TRUE),
   Faults(FALSE, TRUE, 1, "Full", 1, FALSE)}

\* The closed form of Funded is what the deposits post.
ASSUME FundedIsDeposited ==
  \A f \in FaultConfigs :
    Funded(NewEngine(f)).book =
      FoldSet(LAMBDA a, b : Deposit(b, a, StartCash, Key("dep", a, 0)), NewEngine(f).book, Accounts)

Symmetric == Permutations(ClientIds)
=============================================================================
