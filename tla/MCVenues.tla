------------------------------ MODULE MCVenues ------------------------------
EXTENDS Venues

CONSTANTS acct, c1, c2

MCAccounts  == {acct}
MCClientIds == {c1, c2}
MCExecIds   == 0 .. 9
MCLimits == [maxQty |-> 100, maxNotional |-> 1000, maxPosition |-> 100,
             allowShort |-> FALSE, maxShort |-> 0]
MCKinds == {"fix", "fixAckOnly", "sandbox", "sandboxAckOnly", "licensed", "rest", "alpaca"}
MCOne == {1}
MCOneThree == {1, 3}

Order2(client, tif) ==
  [account |-> acct, client |-> client, side |-> "Buy", tif |-> tif, qty |-> 2, price |-> 1]
MCRequests == {Order2(c1, "GTC"), Order2(c2, "IOC"), Order2(c2, "FOK")}
=============================================================================
