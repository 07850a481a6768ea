--------------------------- MODULE MCPaperService ---------------------------
(* Model-checking instances of PaperService.                                *)
EXTENDS PaperService, TLC

CONSTANTS a1, a2, c1, c2, h1, h2

MCOne == {a1}
MCTwo == {a1, a2}
MCClientIds == {c1, c2}
MCExecIds == 0 .. 4
MCHandler == {h1}
MCHandlers == {h1, h2}
MCLimits == [maxQty |-> 9, maxNotional |-> 99, maxPosition |-> 99, allowShort |-> FALSE, maxShort |-> 0]

\* A venue that rests orders, one that fills them at once, one that fills in two steps.
MCRest == {Faults(FALSE, FALSE, 0, "Rest", 1, FALSE)}
MCFull == {Faults(FALSE, FALSE, 0, "Full", 1, FALSE)}
MCVenueKinds == MCRest \cup {Faults(FALSE, TRUE, 0, "Split", 1, FALSE)}

\* Crashes at any time, or of a gateway on a resting venue that served one at a time.
MCAnyCrash(faults, alone_) == TRUE
MCOrderly(faults, alone_) == faults \in MCRest /\ alone_

\* Outages of any venue, or of the one that fills.
MCAnyVenue(faults) == TRUE
MCFilling(faults) == faults \notin MCRest

Submits(sides, lots) ==
  [op : {"submit"}, account : Accounts, client : ClientIds, side : sides, tif : {"GTC"},
   qty : lots, price : {1}]
Cancels == [op : {"cancel"}, account : Accounts, id : 1 .. MaxOrders]
Replaces(lots) == [op : {"replace"}, account : Accounts, id : 1 .. MaxOrders, qty : lots, price : {1}]
Funds == [op : {"deposit", "withdraw"}, account : Accounts, amount : {2}, key : {1}]

MCBuys == Submits({"Buy"}, {2})
MCBuySell == Submits({"Buy", "Sell"}, {1, 2})
MCCancels == MCBuys \cup Cancels
MCFunds == Funds
\* Of two orders the first is changed, the second stands by.
MCMixed ==
  MCBuys \cup Funds \cup {r \in Cancels \cup Replaces({1}) : r.id = 1}

Symmetric == Permutations(ClientIds) \cup Permutations(Handlers)
=============================================================================
