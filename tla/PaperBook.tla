------------------------------ MODULE PaperBook ------------------------------
(***************************************************************************)
(* The paper book of crates/domain/ledger/src/paper.rs as a state machine: *)
(* every operation, with any amount and any idempotency key (fresh, or one *)
(* used before for the same or for another purpose).  A refused call       *)
(* leaves the book as it is, so only the calls that succeed are steps.     *)
(***************************************************************************)
EXTENDS Ledger

CONSTANTS
  Accounts,    \* account ids
  Keys,        \* idempotency keys
  Amounts,     \* amounts of money calls may carry
  Lots,        \* quantities calls may carry
  Fees         \* fees of settlements

ASSUME BookAssumption ==
  Amounts \subseteq Int /\ Lots \subseteq Int /\ Fees \subseteq Int

VARIABLES
  book,        \* the PaperBook in memory
  settled      \* history: the settlements booked, [key, account, side, lots]

vars == <<book, settled>>

-----------------------------------------------------------------------------
Init == book = EmptyBook(Accounts) /\ settled = {}

DepositCall(a, amount, key) ==
  /\ DepositError(book, a, amount) = "none"
  /\ book' = Deposit(book, a, amount, key)
  /\ UNCHANGED settled

WithdrawCall(a, amount, key) ==
  /\ WithdrawError(book, a, amount) = "none"
  /\ book' = Withdraw(book, a, amount, key)
  /\ UNCHANGED settled

ReserveForOrder(a, amount, key) ==
  /\ ReserveError(book, a, amount) = "none"
  /\ book' = Reserve(book, a, amount, key)
  /\ UNCHANGED settled

ReleaseReserve(a, amount, key) ==
  /\ ReleaseError(book, a, amount) = "none"
  /\ book' = Release(book, a, amount, key)
  /\ UNCHANGED settled

ReservePositionForOrder(a, qty) ==
  /\ ReservePositionError(book, a, qty) = "none"
  /\ book' = ReservePosition(book, a, qty)
  /\ UNCHANGED settled

ReleasePositionReserve(a, qty) ==
  /\ ReleasePositionError(book, a, qty) = "none"
  /\ book' = ReleasePosition(book, a, qty)
  /\ UNCHANGED settled

\* Records a settlement unless the key was posted.
Settles(a, side, lots, key) ==
  settled' = IF Posted(book, key) THEN settled
             ELSE settled \cup {[key |-> key, account |-> a, side |-> side, lots |-> lots]}

SettleBuyCall(a, qty, notional, fee, key) ==
  /\ SettleBuyError(book, a, qty, notional, fee) = "none"
  /\ book' = SettleBuy(book, a, qty, notional, fee, key)
  /\ Settles(a, "Buy", qty, key)

SettleSellCall(a, qty, proceeds, fee, key) ==
  /\ SettleSellError(book, a, qty, proceeds, fee, key) = "none"
  /\ book' = SettleSell(book, a, qty, proceeds, fee, key)
  /\ Settles(a, "Sell", qty, key)

Next ==
  \/ \E a \in Accounts, amount \in Amounts, key \in Keys :
       \/ DepositCall(a, amount, key) \/ WithdrawCall(a, amount, key)
       \/ ReserveForOrder(a, amount, key) \/ ReleaseReserve(a, amount, key)
       \/ \E qty \in Lots, fee \in Fees :
            \/ SettleBuyCall(a, qty, amount, fee, key)
            \/ SettleSellCall(a, qty, amount, fee, key)
  \/ \E a \in Accounts, qty \in Lots :
       ReservePositionForOrder(a, qty) \/ ReleasePositionReserve(a, qty)

Spec == Init /\ [][Next]_vars
-----------------------------------------------------------------------------
(* Properties.                                                             *)

Entries == [key : Keys, account : Accounts, cash : Int, reserved : Int,
            funding : Int, settlement : Int, fees : Int]

Books == [entries : SUBSET Entries, cash : [Accounts -> Int], reserved : [Accounts -> Int],
          funding : Int, settlement : Int, fees : Int,
          position : [Accounts -> Int], posReserved : [Accounts -> Int]]

\* Type invariant.
TypeOK == book \in Books

SolventBook(b) ==
  \A a \in Accounts :
    /\ b.cash[a] >= 0 /\ b.reserved[a] >= 0
    /\ 0 <= b.posReserved[a] /\ b.posReserved[a] <= b.position[a]

\* No sequence of calls and no reuse of a key overdraws an account: available
\* and reserved cash stay non-negative, and no more lots are reserved for sells
\* than are held (require_funds, release_reserve, settle_buy, settle_sell).
Solvent == SolventBook(book)

WellFormed(b) ==
  /\ \A e, f \in b.entries : e.key = f.key => e = f
  /\ \A e \in b.entries : Balanced(e)

\* An idempotency key stands for one movement of money (Journal::post), and
\* every entry in the journal is balanced (EntryBuilder::build).
JournalWellFormed == WellFormed(book)

\* The running balances are what a replay of the journal gives, so a restart
\* loses no cash, and they add up to zero (trial_balance_ok).
ReplayAgrees ==
  /\ LET r == Replay(book.entries, Accounts)
     IN  /\ r.cash = book.cash /\ r.reserved = book.reserved
         /\ r.funding = book.funding /\ r.settlement = book.settlement /\ r.fees = book.fees
  /\ MapThenSumSet(LAMBDA a : book.cash[a] + book.reserved[a], Accounts)
       + book.funding + book.settlement + book.fees = 0

\* The settlements of an account on one side, and their lots one by one.
SettledOn(a, side) == {s \in settled : s.account = a /\ s.side = side}
LotsOf(ts) == UNION {{s} \X (1 .. s.lots) : s \in ts}

\* The position is what was bought less what was sold, one settlement per key: a
\* settlement retried under its key moves neither cash nor lots again.
PositionExplained ==
  /\ \A a \in Accounts :
       book.position[a] = Cardinality(LotsOf(SettledOn(a, "Buy")))
                          - Cardinality(LotsOf(SettledOn(a, "Sell")))
  /\ \A s, t \in settled : s.key = t.key => s = t
  /\ \A s \in settled : Posted(book, s.key)

\* Withdrawals are "idempotent on ledger key" (PaperEngine::withdraw): repeating
\* one whose entry is in the journal succeeds and changes nothing.
WithdrawRetryOK ==
  \A e \in book.entries :
    e.funding > 0 => WithdrawError(book, e.account, e.funding) = "none"

\* settle_sell "credits cash with proceeds minus fee": a sell of reserved lots
\* settles for every fee smaller than the proceeds.
SellFeeOK ==
  \A a \in Accounts, qty \in Lots, proceeds \in Amounts, fee \in Fees, key \in Keys :
    (qty > 0 /\ qty <= book.posReserved[a] /\ fee >= 0 /\ proceeds > fee)
      => SettleSellError(book, a, qty, proceeds, fee, key) = "none"
=============================================================================
