------------------------------- MODULE Ledger -------------------------------
(***************************************************************************)
(* The paper ledger of crates/domain/ledger as pure operators on a book:   *)
(* the idempotent double-entry journal and the operations that reserve,    *)
(* release and settle cash and positions.  The state machines PaperBook    *)
(* and PaperEngine are built on these operators.                           *)
(*                                                                         *)
(* One currency and one instrument: the code keys every balance by both    *)
(* and never moves an amount between two of them.  Amounts are minor       *)
(* units.  An operation Op comes as OpError(book, ...), the error it       *)
(* returns ("none" when it succeeds), and Op(book, ...), the book a        *)
(* successful call leaves; a failed call leaves the book unchanged.        *)
(***************************************************************************)
EXTENDS Integers, FiniteSets, FiniteSetsExt

EmptyBook(accts) ==
  [entries     |-> {},
   cash        |-> [a \in accts |-> 0],    \* CustomerCash, "available"
   reserved    |-> [a \in accts |-> 0],    \* CustomerCashReserved
   funding     |-> 0,                      \* PaperFunding
   settlement  |-> 0,                      \* BrokerSettlement
   fees        |-> 0,                      \* FeesRevenue
   position    |-> [a \in accts |-> 0],
   posReserved |-> [a \in accts |-> 0]]

(* An entry lists the movement (debits minus credits) of each ledger       *)
(* account it touches; cash and reserved are those of its customer.        *)
Entry(key, account, cash, reserved, funding, settlement, fees) ==
  [key |-> key, account |-> account, cash |-> cash, reserved |-> reserved,
   funding |-> funding, settlement |-> settlement, fees |-> fees]

\* EntryBuilder::build: total debits equal total credits.
Balanced(e) == e.cash + e.reserved + e.funding + e.settlement + e.fees = 0

Posted(b, key) == \E e \in b.entries : e.key = key

\* Mutants of Post: a key is booked again, or its money moves again.
PostAgain(b, e) ==
  [b EXCEPT !.entries             = @ \cup {e},
            !.cash[e.account]     = @ + e.cash,
            !.reserved[e.account] = @ + e.reserved,
            !.funding             = @ + e.funding,
            !.settlement          = @ + e.settlement,
            !.fees                = @ + e.fees]

PostMovesAgain(b, e) ==
  [PostAgain(b, e) EXCEPT !.entries = IF Posted(b, e.key) THEN b.entries ELSE @]

\* Journal::post: a duplicate key is a no-op.
Post(b, e) ==
  IF Posted(b, e.key) THEN b
  ELSE [b EXCEPT !.entries             = @ \cup {e},
                 !.cash[e.account]     = @ + e.cash,
                 !.reserved[e.account] = @ + e.reserved,
                 !.funding             = @ + e.funding,
                 !.settlement          = @ + e.settlement,
                 !.fees                = @ + e.fees]

\* restore_entry for every entry of a journal: the balances a replay rebuilds.
Replay(entries, accts) ==
  LET Of(a) == {e \in entries : e.account = a}
  IN  [EmptyBook(accts) EXCEPT
         !.entries    = entries,
         !.cash       = [a \in accts |-> MapThenSumSet(LAMBDA e : e.cash, Of(a))],
         !.reserved   = [a \in accts |-> MapThenSumSet(LAMBDA e : e.reserved, Of(a))],
         !.funding    = MapThenSumSet(LAMBDA e : e.funding, entries),
         !.settlement = MapThenSumSet(LAMBDA e : e.settlement, entries),
         !.fees       = MapThenSumSet(LAMBDA e : e.fees, entries)]

-----------------------------------------------------------------------------
DepositError(b, a, amount) == IF amount <= 0 THEN "ZeroAmount" ELSE "none"

Deposit(b, a, amount, key) == Post(b, Entry(key, a, amount, 0, -amount, 0, 0))

\* Mutant of WithdrawError: reserved cash counts as available.
WithdrawErrorTotal(b, a, amount) ==
  IF amount <= 0 THEN "ZeroAmount"
  ELSE IF b.cash[a] + b.reserved[a] < amount THEN "InsufficientFunds" ELSE "none"

WithdrawError(b, a, amount) ==
  IF amount <= 0 THEN "ZeroAmount"
  ELSE IF b.cash[a] < amount THEN "InsufficientFunds" ELSE "none"

Withdraw(b, a, amount, key) == Post(b, Entry(key, a, -amount, 0, amount, 0, 0))

ReserveError(b, a, amount) ==
  IF amount <= 0 THEN "ZeroAmount"
  ELSE IF b.cash[a] < amount THEN "InsufficientFunds" ELSE "none"

\* Mutant of Reserve: the entry does not carry the caller's key.
ReserveOwnKey(b, a, amount, key) == Post(b, Entry("rsv", a, -amount, amount, 0, 0, 0))

\* reserve_for_order
Reserve(b, a, amount, key) == Post(b, Entry(key, a, -amount, amount, 0, 0, 0))

ReleaseError(b, a, amount) ==
  IF amount <= 0 THEN "ZeroAmount"
  ELSE IF b.reserved[a] < amount THEN "InsufficientReserved" ELSE "none"

\* release_reserve
Release(b, a, amount, key) == Post(b, Entry(key, a, amount, -amount, 0, 0, 0))

-----------------------------------------------------------------------------
SettleBuyError(b, a, qty, notional, fee) ==
  IF qty <= 0 THEN "InvalidQuantity"
  ELSE IF notional <= 0 \/ fee < 0 THEN "ZeroAmount"
  ELSE IF b.reserved[a] < notional THEN "InsufficientReserved"
  ELSE IF fee > 0 /\ b.cash[a] < fee THEN "InsufficientFunds" ELSE "none"

\* Mutant of SettleBuy: a repeated settlement moves the position again.
SettleBuyAgain(b, a, qty, notional, fee, key) ==
  [Post(b, Entry(key, a, -fee, -notional, 0, notional, fee)) EXCEPT !.position[a] = @ + qty]

\* The position moves only when the entry is new.
SettleBuy(b, a, qty, notional, fee, key) ==
  IF Posted(b, key) THEN b
  ELSE [Post(b, Entry(key, a, -fee, -notional, 0, notional, fee))
          EXCEPT !.position[a] = @ + qty]

ReservePositionError(b, a, qty) ==
  IF qty <= 0 THEN "InvalidQuantity"
  ELSE IF b.position[a] - b.posReserved[a] < qty THEN "InsufficientPosition" ELSE "none"

ReservePosition(b, a, qty) == [b EXCEPT !.posReserved[a] = @ + qty]

ReleasePositionError(b, a, qty) ==
  IF qty <= 0 THEN "InvalidQuantity"
  ELSE IF b.posReserved[a] < qty THEN "InsufficientPosition" ELSE "none"

ReleasePosition(b, a, qty) == [b EXCEPT !.posReserved[a] = @ - qty]

\* settle_sell debits the customer with the proceeds minus the fee and credits
\* both the broker with the proceeds and the fee account with the fee.
SellEntry(a, proceeds, fee, key) == Entry(key, a, proceeds - fee, 0, 0, -proceeds, -fee)

SettleSellError(b, a, qty, proceeds, fee, key) ==
  IF qty <= 0 THEN "InvalidQuantity"
  ELSE IF proceeds <= 0 \/ fee < 0 THEN "ZeroAmount"
  ELSE IF b.posReserved[a] < qty THEN "InsufficientPosition"
  ELSE IF b.position[a] < qty THEN "InvalidQuantity"
  ELSE IF proceeds - fee <= 0 THEN "ZeroAmount"
  ELSE IF ~Balanced(SellEntry(a, proceeds, fee, key)) THEN "Unbalanced" ELSE "none"

SettleSell(b, a, qty, proceeds, fee, key) ==
  IF Posted(b, key) THEN b
  ELSE [Post(b, SellEntry(a, proceeds, fee, key))
          EXCEPT !.position[a] = @ - qty, !.posReserved[a] = @ - qty]
=============================================================================
