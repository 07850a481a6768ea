--------------------------- MODULE PaperBookProofs ---------------------------
(***************************************************************************)
(* Proofs about PaperBook, for every set of accounts, keys, amounts,       *)
(* quantities and fees.                                                    *)
(***************************************************************************)
EXTENDS PaperBook, FiniteSetTheorems, TLAPS

\* What Journal::post does to each balance when the key is new.
LEMMA PostNew ==
  ASSUME NEW b \in Books, NEW e \in Entries, ~Posted(b, e.key)
  PROVE  /\ Post(b, e) \in Books
         /\ Post(b, e).entries = b.entries \cup {e}
         /\ Post(b, e).cash = [b.cash EXCEPT ![e.account] = @ + e.cash]
         /\ Post(b, e).reserved = [b.reserved EXCEPT ![e.account] = @ + e.reserved]
         /\ Post(b, e).position = b.position
         /\ Post(b, e).posReserved = b.posReserved
PROOF
<1> DEFINE p == Post(b, e)
<1>1. p = [b EXCEPT !.entries             = @ \cup {e},
                    !.cash[e.account]     = @ + e.cash,
                    !.reserved[e.account] = @ + e.reserved,
                    !.funding             = @ + e.funding,
                    !.settlement          = @ + e.settlement,
                    !.fees                = @ + e.fees]
  BY DEF Post
<1>2. /\ p.entries = b.entries \cup {e}
      /\ p.cash = [b.cash EXCEPT ![e.account] = @ + e.cash]
      /\ p.reserved = [b.reserved EXCEPT ![e.account] = @ + e.reserved]
      /\ p.funding = b.funding + e.funding
      /\ p.settlement = b.settlement + e.settlement
      /\ p.fees = b.fees + e.fees
      /\ p.position = b.position /\ p.posReserved = b.posReserved
  BY <1>1 DEF Books
<1>3. /\ e.account \in Accounts /\ e.cash \in Int /\ e.reserved \in Int
      /\ e.funding \in Int /\ e.settlement \in Int /\ e.fees \in Int
  BY DEF Entries
<1>4. p.cash \in [Accounts -> Int] /\ p.reserved \in [Accounts -> Int]
  BY <1>2, <1>3 DEF Books
<1>5. p.funding \in Int /\ p.settlement \in Int /\ p.fees \in Int
  BY <1>2, <1>3 DEF Books
<1>6. p.entries \in SUBSET Entries
  BY <1>2 DEF Books
<1>7. p \in Books
  BY <1>1, <1>2, <1>4, <1>5, <1>6 DEF Books
<1> QED  BY <1>2, <1>7

\* The inductive invariant, as a predicate on books: the guards of the
\* operations are on cash, reserved cash and lots together, so it takes all of it.
Good(b) == b \in Books /\ SolventBook(b) /\ WellFormed(b)

\* Posting a balanced entry keeps a book good if its customer can afford it.
LEMMA PostGood ==
  ASSUME NEW b, Good(b), NEW e \in Entries, Balanced(e),
         b.cash[e.account] + e.cash >= 0, b.reserved[e.account] + e.reserved >= 0
  PROVE  Good(Post(b, e))
PROOF
<1>1. CASE Posted(b, e.key)
  BY <1>1 DEF Post
<1>2. CASE ~Posted(b, e.key)
  <2> DEFINE p == Post(b, e)
  <2>1. /\ p \in Books /\ p.entries = b.entries \cup {e}
        /\ p.cash = [b.cash EXCEPT ![e.account] = @ + e.cash]
        /\ p.reserved = [b.reserved EXCEPT ![e.account] = @ + e.reserved]
        /\ p.position = b.position /\ p.posReserved = b.posReserved
    BY <1>2, PostNew DEF Good
  <2> HIDE DEF p
  <2>2. SolventBook(p)
    <3> SUFFICES ASSUME NEW a \in Accounts
        PROVE /\ p.cash[a] >= 0 /\ p.reserved[a] >= 0
              /\ 0 <= p.posReserved[a] /\ p.posReserved[a] <= p.position[a]
      BY DEF SolventBook
    <3>1. /\ b.cash \in [Accounts -> Int] /\ b.reserved \in [Accounts -> Int]
          /\ b.cash[a] >= 0 /\ b.reserved[a] >= 0
      BY DEF Good, Books, SolventBook
    <3>2. p.cash[a] >= 0 /\ p.reserved[a] >= 0
      BY <2>1, <3>1
    <3>3. 0 <= p.posReserved[a] /\ p.posReserved[a] <= p.position[a]
      BY <2>1 DEF Good, SolventBook
    <3> QED  BY <3>2, <3>3
  <2>3. WellFormed(p)
    BY <1>2, <2>1 DEF Good, WellFormed, Posted
  <2> QED  BY <2>1, <2>2, <2>3 DEF Good, p
<1> QED  BY <1>1, <1>2

LEMMA EntryFacts ==
  ASSUME NEW key \in Keys, NEW a \in Accounts, NEW c \in Int, NEW r \in Int,
         NEW f \in Int, NEW s \in Int, NEW x \in Int
  PROVE  /\ Entry(key, a, c, r, f, s, x) \in Entries
         /\ Entry(key, a, c, r, f, s, x).key = key
         /\ Entry(key, a, c, r, f, s, x).account = a
         /\ Entry(key, a, c, r, f, s, x).cash = c
         /\ Entry(key, a, c, r, f, s, x).reserved = r
         /\ (Balanced(Entry(key, a, c, r, f, s, x)) <=> c + r + f + s + x = 0)
PROOF BY DEF Entry, Entries, Balanced

\* Changing the lots of one account keeps a book good if what is reserved stays
\* between nothing and what is held.
LEMMA LotsGood ==
  ASSUME NEW b, Good(b), NEW c \in Books, NEW a \in Accounts,
         c.entries = b.entries, c.cash = b.cash, c.reserved = b.reserved,
         \A x \in Accounts \ {a} : c.position[x] = b.position[x]
                                  /\ c.posReserved[x] = b.posReserved[x],
         0 <= c.posReserved[a], c.posReserved[a] <= c.position[a]
  PROVE  Good(c)
PROOF
<1>1. SolventBook(c)
  BY DEF Good, SolventBook
<1>2. WellFormed(c)
  BY DEF Good, WellFormed
<1> QED  BY <1>1, <1>2 DEF Good

\* Deposit, withdraw, reserve_for_order and release_reserve.
LEMMA CashGood ==
  ASSUME NEW b, Good(b), NEW a \in Accounts, NEW amount \in Int, NEW key \in Keys
  PROVE  /\ DepositError(b, a, amount) = "none" => Good(Deposit(b, a, amount, key))
         /\ WithdrawError(b, a, amount) = "none" => Good(Withdraw(b, a, amount, key))
         /\ ReserveError(b, a, amount) = "none" => Good(Reserve(b, a, amount, key))
         /\ ReleaseError(b, a, amount) = "none" => Good(Release(b, a, amount, key))
PROOF
<1>1. b.cash[a] \in Int /\ b.reserved[a] \in Int /\ b.cash[a] >= 0 /\ b.reserved[a] >= 0
  BY DEF Good, Books, SolventBook
<1>2. -amount \in Int /\ 0 \in Int
  OBVIOUS
<1>3. ASSUME DepositError(b, a, amount) = "none" PROVE Good(Deposit(b, a, amount, key))
  <2> DEFINE e == Entry(key, a, amount, 0, -amount, 0, 0)
  <2>1. e \in Entries /\ e.account = a /\ e.cash = amount /\ e.reserved = 0 /\ Balanced(e)
    BY <1>2, EntryFacts
  <2>2. amount > 0
    BY <1>3 DEF DepositError
  <2> HIDE DEF e
  <2>3. Good(Post(b, e))
    BY <1>1, <2>1, <2>2, PostGood
  <2> QED  BY <2>3 DEF Deposit, e
<1>4. ASSUME WithdrawError(b, a, amount) = "none" PROVE Good(Withdraw(b, a, amount, key))
  <2> DEFINE e == Entry(key, a, -amount, 0, amount, 0, 0)
  <2>1. e \in Entries /\ e.account = a /\ e.cash = -amount /\ e.reserved = 0 /\ Balanced(e)
    BY <1>2, EntryFacts
  <2>2. amount <= b.cash[a]
    BY <1>1, <1>4 DEF WithdrawError
  <2> HIDE DEF e
  <2>3. Good(Post(b, e))
    BY <1>1, <2>1, <2>2, PostGood
  <2> QED  BY <2>3 DEF Withdraw, e
<1>5. ASSUME ReserveError(b, a, amount) = "none" PROVE Good(Reserve(b, a, amount, key))
  <2> DEFINE e == Entry(key, a, -amount, amount, 0, 0, 0)
  <2>1. e \in Entries /\ e.account = a /\ e.cash = -amount /\ e.reserved = amount /\ Balanced(e)
    BY <1>2, EntryFacts
  <2>2. amount > 0 /\ amount <= b.cash[a]
    BY <1>1, <1>5 DEF ReserveError
  <2> HIDE DEF e
  <2>3. Good(Post(b, e))
    BY <1>1, <2>1, <2>2, PostGood
  <2> QED  BY <2>3 DEF Reserve, e
<1>6. ASSUME ReleaseError(b, a, amount) = "none" PROVE Good(Release(b, a, amount, key))
  <2> DEFINE e == Entry(key, a, amount, -amount, 0, 0, 0)
  <2>1. e \in Entries /\ e.account = a /\ e.cash = amount /\ e.reserved = -amount /\ Balanced(e)
    BY <1>2, EntryFacts
  <2>2. amount > 0 /\ amount <= b.reserved[a]
    BY <1>1, <1>6 DEF ReleaseError
  <2> HIDE DEF e
  <2>3. Good(Post(b, e))
    BY <1>1, <2>1, <2>2, PostGood
  <2> QED  BY <2>3 DEF Release, e
<1> QED  BY <1>3, <1>4, <1>5, <1>6

\* reserve_position_for_order and release_position_reserve.
LEMMA PositionGood ==
  ASSUME NEW b, Good(b), NEW a \in Accounts, NEW qty \in Int
  PROVE  /\ ReservePositionError(b, a, qty) = "none" => Good(ReservePosition(b, a, qty))
         /\ ReleasePositionError(b, a, qty) = "none" => Good(ReleasePosition(b, a, qty))
PROOF
<1>1. /\ b \in Books /\ b.position[a] \in Int /\ b.posReserved[a] \in Int
      /\ b.posReserved \in [Accounts -> Int]
      /\ 0 <= b.posReserved[a] /\ b.posReserved[a] <= b.position[a]
  BY DEF Good, Books, SolventBook
<1>2. ASSUME NEW d \in Int, b.posReserved[a] + d >= 0, b.posReserved[a] + d <= b.position[a],
             NEW c, c = [b EXCEPT !.posReserved[a] = b.posReserved[a] + d]
      PROVE  Good(c)
  <2>1. c \in Books
    BY <1>1, <1>2 DEF Books
  <2>2. /\ c.entries = b.entries /\ c.cash = b.cash /\ c.reserved = b.reserved
        /\ c.position = b.position
        /\ c.posReserved = [b.posReserved EXCEPT ![a] = b.posReserved[a] + d]
    BY <1>2 DEF Books, Good
  <2>3. /\ \A x \in Accounts \ {a} : c.posReserved[x] = b.posReserved[x]
        /\ c.posReserved[a] = b.posReserved[a] + d
    BY <1>1, <2>2
  <2>4. 0 <= c.posReserved[a] /\ c.posReserved[a] <= c.position[a]
    BY <1>1, <1>2, <2>2, <2>3
  <2>5. \A x \in Accounts \ {a} : c.position[x] = b.position[x]
                                /\ c.posReserved[x] = b.posReserved[x]
    BY <2>2, <2>3
  <2> QED  BY <2>1, <2>2, <2>4, <2>5, LotsGood
<1>3. ASSUME ReservePositionError(b, a, qty) = "none" PROVE Good(ReservePosition(b, a, qty))
  <2>1. qty > 0 /\ b.posReserved[a] + qty <= b.position[a]
    BY <1>1, <1>3 DEF ReservePositionError
  <2>2. ReservePosition(b, a, qty) = [b EXCEPT !.posReserved[a] = b.posReserved[a] + qty]
    BY <1>1 DEF ReservePosition, Books
  <2>3. b.posReserved[a] + qty >= 0
    BY <1>1, <2>1
  <2> QED  BY <1>2, <2>1, <2>2, <2>3
<1>4. ASSUME ReleasePositionError(b, a, qty) = "none" PROVE Good(ReleasePosition(b, a, qty))
  <2>1. qty > 0 /\ qty <= b.posReserved[a] /\ -qty \in Int
    BY <1>1, <1>4 DEF ReleasePositionError
  <2>2. ReleasePosition(b, a, qty) = [b EXCEPT !.posReserved[a] = b.posReserved[a] + (-qty)]
    BY <1>1, <2>1 DEF ReleasePosition, Books
  <2> QED  BY <1>1, <1>2, <2>1, <2>2
<1> QED  BY <1>3, <1>4

LEMMA SettleBuyGood ==
  ASSUME NEW b, Good(b), NEW a \in Accounts, NEW qty \in Int, NEW n \in Int, NEW fee \in Int,
         NEW key \in Keys, SettleBuyError(b, a, qty, n, fee) = "none"
  PROVE  Good(SettleBuy(b, a, qty, n, fee, key))
PROOF
<1>1. CASE Posted(b, key)
  BY <1>1 DEF SettleBuy
<1>2. CASE ~Posted(b, key)
  <2> DEFINE e == Entry(key, a, -fee, -n, 0, n, fee)
             p == Post(b, e)
             c == [p EXCEPT !.position[a] = @ + qty]
  <2>1. b.cash[a] \in Int /\ b.reserved[a] \in Int /\ b.cash[a] >= 0
    BY DEF Good, Books, SolventBook
  <2>2. qty > 0 /\ n <= b.reserved[a] /\ fee <= b.cash[a] /\ fee >= 0
    BY <2>1 DEF SettleBuyError
  <2>3. -fee \in Int /\ -n \in Int /\ (-fee) + (-n) + 0 + n + fee = 0
    OBVIOUS
  <2>4. /\ e \in Entries /\ e.key = key /\ e.account = a /\ e.cash = -fee /\ e.reserved = -n
        /\ Balanced(e)
    BY <2>3, EntryFacts
  <2> HIDE DEF e
  <2>5. Good(p)
    BY <2>1, <2>2, <2>4, PostGood
  <2>6. c = SettleBuy(b, a, qty, n, fee, key)
    BY <1>2 DEF SettleBuy, e
  <2> HIDE DEF p
  <2>7. /\ p \in Books /\ p.position \in [Accounts -> Int] /\ p.posReserved[a] \in Int
        /\ 0 <= p.posReserved[a] /\ p.posReserved[a] <= p.position[a]
    BY <2>5 DEF Good, Books, SolventBook
  <2>8. /\ c \in Books /\ c.entries = p.entries /\ c.cash = p.cash /\ c.reserved = p.reserved
        /\ c.position = [p.position EXCEPT ![a] = @ + qty] /\ c.posReserved = p.posReserved
    BY <2>7 DEF Books
  <2> HIDE DEF c
  <2>9. /\ \A x \in Accounts \ {a} : c.position[x] = p.position[x]
        /\ c.position[a] = p.position[a] + qty
    BY <2>7, <2>8
  <2>10. 0 <= c.posReserved[a] /\ c.posReserved[a] <= c.position[a]
    BY <2>2, <2>7, <2>8, <2>9
  <2>11. Good(c)
    BY <2>5, <2>8, <2>9, <2>10, LotsGood
  <2> QED  BY <2>6, <2>11
<1> QED  BY <1>1, <1>2

LEMMA SettleSellGood ==
  ASSUME NEW b, Good(b), NEW a \in Accounts, NEW qty \in Int, NEW n \in Int, NEW fee \in Int,
         NEW key \in Keys, SettleSellError(b, a, qty, n, fee, key) = "none"
  PROVE  Good(SettleSell(b, a, qty, n, fee, key))
PROOF
<1>1. CASE Posted(b, key)
  BY <1>1 DEF SettleSell
<1>2. CASE ~Posted(b, key)
  <2> DEFINE e == SellEntry(a, n, fee, key)
             p == Post(b, e)
             c == [p EXCEPT !.position[a] = @ - qty, !.posReserved[a] = @ - qty]
  <2>1. /\ b.cash[a] \in Int /\ b.reserved[a] \in Int /\ b.cash[a] >= 0 /\ b.reserved[a] >= 0
        /\ b.position[a] \in Int /\ b.posReserved[a] \in Int
        /\ 0 <= b.posReserved[a] /\ b.posReserved[a] <= b.position[a]
    BY DEF Good, Books, SolventBook
  <2>2. qty > 0 /\ qty <= b.posReserved[a] /\ n - fee > 0 /\ Balanced(e)
    BY <2>1 DEF SettleSellError
  <2>3. n - fee \in Int /\ -n \in Int /\ -fee \in Int /\ 0 \in Int
    OBVIOUS
  <2>4. e \in Entries /\ e.key = key /\ e.account = a /\ e.cash = n - fee /\ e.reserved = 0
    BY <2>3, EntryFacts DEF SellEntry
  <2> HIDE DEF e
  <2>5. b.cash[a] + (n - fee) >= 0
    BY <2>1, <2>2, <2>3
  <2>6. Good(p)
    BY <2>1, <2>2, <2>4, <2>5, PostGood
  <2>7. p.position = b.position /\ p.posReserved = b.posReserved
    BY <1>2, <2>4, PostNew DEF Good
  <2>8. c = SettleSell(b, a, qty, n, fee, key)
    BY <1>2 DEF SettleSell, e
  <2> HIDE DEF p
  <2>9. /\ p \in Books /\ p.position \in [Accounts -> Int]
        /\ p.posReserved \in [Accounts -> Int]
    BY <2>6 DEF Good, Books
  <2>10. /\ c \in Books /\ c.entries = p.entries /\ c.cash = p.cash /\ c.reserved = p.reserved
         /\ c.position = [p.position EXCEPT ![a] = @ - qty]
         /\ c.posReserved = [p.posReserved EXCEPT ![a] = @ - qty]
    <3>1. /\ [p.position EXCEPT ![a] = @ - qty] \in [Accounts -> Int]
          /\ [p.posReserved EXCEPT ![a] = @ - qty] \in [Accounts -> Int]
      BY <2>9
    <3>2. c = [p EXCEPT !.position = [p.position EXCEPT ![a] = @ - qty],
                        !.posReserved = [p.posReserved EXCEPT ![a] = @ - qty]]
      BY <2>9 DEF Books
    <3>3. c \in Books
      BY <2>9, <3>1, <3>2, Zenon DEF Books
    <3> QED  BY <2>9, <3>2, <3>3 DEF Books
  <2> HIDE DEF c
  <2>11. /\ \A x \in Accounts \ {a} : c.position[x] = p.position[x]
                                     /\ c.posReserved[x] = p.posReserved[x]
         /\ c.position[a] = p.position[a] - qty /\ c.posReserved[a] = p.posReserved[a] - qty
    BY <2>9, <2>10
  <2>12. 0 <= c.posReserved[a] /\ c.posReserved[a] <= c.position[a]
    BY <2>1, <2>2, <2>7, <2>11
  <2>13. Good(c)
    BY <2>6, <2>10, <2>11, <2>12, LotsGood
  <2> QED  BY <2>8, <2>13
<1> QED  BY <1>1, <1>2

-----------------------------------------------------------------------------
LEMMA InitGood == Init => Good(book)
PROOF
<1> SUFFICES ASSUME Init PROVE Good(book)
  OBVIOUS
<1>1. book \in Books
  BY DEF Init, EmptyBook, Books
<1>2. SolventBook(book) /\ WellFormed(book)
  BY DEF Init, EmptyBook, SolventBook, WellFormed
<1> QED  BY <1>1, <1>2 DEF Good

LEMMA NextGood == Good(book) /\ [Next]_vars => Good(book')
PROOF
<1> SUFFICES ASSUME Good(book), [Next]_vars PROVE Good(book')
  OBVIOUS
<1>1. ASSUME NEW a \in Accounts, NEW amount \in Amounts, NEW key \in Keys,
             \/ DepositCall(a, amount, key) \/ WithdrawCall(a, amount, key)
             \/ ReserveForOrder(a, amount, key) \/ ReleaseReserve(a, amount, key)
      PROVE  Good(book')
  <2>1. amount \in Int
    BY BookAssumption
  <2> QED  BY <1>1, <2>1, CashGood
              DEF DepositCall, WithdrawCall, ReserveForOrder, ReleaseReserve
<1>2. ASSUME NEW a \in Accounts, NEW amount \in Amounts, NEW key \in Keys,
             NEW qty \in Lots, NEW fee \in Fees, SettleBuyCall(a, qty, amount, fee, key)
      PROVE  Good(book')
  <2>1. amount \in Int /\ qty \in Int /\ fee \in Int
    BY BookAssumption
  <2> QED  BY <1>2, <2>1, SettleBuyGood DEF SettleBuyCall
<1>3. ASSUME NEW a \in Accounts, NEW amount \in Amounts, NEW key \in Keys,
             NEW qty \in Lots, NEW fee \in Fees, SettleSellCall(a, qty, amount, fee, key)
      PROVE  Good(book')
  <2>1. amount \in Int /\ qty \in Int /\ fee \in Int
    BY BookAssumption
  <2> QED  BY <1>3, <2>1, SettleSellGood DEF SettleSellCall
<1>4. ASSUME NEW a \in Accounts, NEW qty \in Lots,
             ReservePositionForOrder(a, qty) \/ ReleasePositionReserve(a, qty)
      PROVE  Good(book')
  <2>1. qty \in Int
    BY BookAssumption
  <2> QED  BY <1>4, <2>1, PositionGood DEF ReservePositionForOrder, ReleasePositionReserve
<1>5. CASE UNCHANGED vars
  BY <1>5 DEF vars
<1> QED  BY <1>1, <1>2, <1>3, <1>4, <1>5 DEF Next

LEMMA AlwaysGood == Spec => []Good(book)
PROOF
<1>1. Init => Good(book)                          BY InitGood
<1>2. Good(book) /\ [Next]_vars => Good(book)'     BY NextGood DEF Good, Books, SolventBook, WellFormed, Balanced
<1> QED  BY <1>1, <1>2, PTL DEF Spec

\* Type correctness of the book.
THEOREM BookTyped == Spec => []TypeOK
PROOF
<1>1. Good(book) => TypeOK  BY DEF Good, TypeOK
<1> QED  BY <1>1, AlwaysGood, PTL

\* No sequence of calls, with any keys, overdraws cash, reserved cash or lots.
THEOREM BookSolvent == Spec => []Solvent
PROOF
<1>1. Good(book) => Solvent  BY DEF Good, Solvent
<1> QED  BY <1>1, AlwaysGood, PTL

\* The journal holds at most one entry per key and only balanced entries.
THEOREM JournalSound == Spec => []JournalWellFormed
PROOF
<1>1. Good(book) => JournalWellFormed  BY DEF Good, JournalWellFormed
<1> QED  BY <1>1, AlwaysGood, PTL
-----------------------------------------------------------------------------
(* The lots held and the settlements that explain them.                    *)

\* The inductive invariant: PositionExplained, with the lots countable.
PositionInv ==
  /\ settled \subseteq [key : Keys, account : Accounts, side : {"Buy", "Sell"}, lots : Nat \ {0}]
  /\ \A a \in Accounts, side \in {"Buy", "Sell"} : IsFiniteSet(LotsOf(SettledOn(a, side)))
  /\ PositionExplained

\* What an operation on cash leaves of the lots: posting only adds to the journal.
LEMMA PostLots ==
  ASSUME NEW b \in Books, NEW e \in Entries
  PROVE  Post(b, e).position = b.position /\ b.entries \subseteq Post(b, e).entries
PROOF
<1>1. CASE Posted(b, e.key)
  BY <1>1 DEF Post
<1>2. CASE ~Posted(b, e.key)
  BY <1>2, PostNew, ZenonT(60)
<1> QED  BY <1>1, <1>2

LEMMA CashLots ==
  ASSUME NEW b \in Books, NEW a \in Accounts, NEW amount \in Int, NEW key \in Keys,
         NEW c \in {Deposit(b, a, amount, key), Withdraw(b, a, amount, key),
                    Reserve(b, a, amount, key), Release(b, a, amount, key)}
  PROVE  c.position = b.position /\ b.entries \subseteq c.entries
PROOF
<1>1. -amount \in Int /\ 0 \in Int
  OBVIOUS
<1>2. \A x, r, f \in Int : Entry(key, a, x, r, f, 0, 0) \in Entries
  BY EntryFacts
<1>3. PICK x \in Int, r \in Int, f \in Int : c = Post(b, Entry(key, a, x, r, f, 0, 0))
  BY <1>1 DEF Deposit, Withdraw, Reserve, Release
<1> QED  BY <1>2, <1>3, PostLots

\* A settlement under a new key moves its lots and is in the journal.
LEMMA SettleLots ==
  ASSUME NEW b \in Books, NEW a \in Accounts, NEW qty \in Int, NEW n \in Int, NEW fee \in Int,
         NEW key \in Keys, ~Posted(b, key)
  PROVE  /\ \A x \in Accounts : SettleBuy(b, a, qty, n, fee, key).position[x]
                                   = b.position[x] + IF x = a THEN qty ELSE 0
         /\ b.entries \subseteq SettleBuy(b, a, qty, n, fee, key).entries
         /\ Posted(SettleBuy(b, a, qty, n, fee, key), key)
         /\ \A x \in Accounts : SettleSell(b, a, qty, n, fee, key).position[x]
                                   = b.position[x] - IF x = a THEN qty ELSE 0
         /\ b.entries \subseteq SettleSell(b, a, qty, n, fee, key).entries
         /\ Posted(SettleSell(b, a, qty, n, fee, key), key)
PROOF
<1>1. /\ -fee \in Int /\ -n \in Int /\ n - fee \in Int /\ 0 \in Int
  OBVIOUS
<1> DEFINE e == Entry(key, a, -fee, -n, 0, n, fee)
           d == SellEntry(a, n, fee, key)
<1>2. e \in Entries /\ e.key = key /\ d \in Entries /\ d.key = key
  BY <1>1, EntryFacts DEF SellEntry
<1> DEFINE p == Post(b, e)
           q == Post(b, d)
<1>3. /\ p \in Books /\ p.entries = b.entries \cup {e} /\ p.position = b.position
      /\ q \in Books /\ q.entries = b.entries \cup {d} /\ q.position = b.position
  <2> HIDE DEF e, d
  <2> QED  BY <1>2, PostNew
<1>4. /\ SettleBuy(b, a, qty, n, fee, key) = [p EXCEPT !.position[a] = @ + qty]
      /\ SettleSell(b, a, qty, n, fee, key)
           = [q EXCEPT !.position[a] = @ - qty, !.posReserved[a] = @ - qty]
  BY DEF SettleBuy, SettleSell
<1> HIDE DEF e, d, p, q
<1>5. /\ SettleBuy(b, a, qty, n, fee, key).position = [b.position EXCEPT ![a] = @ + qty]
      /\ SettleBuy(b, a, qty, n, fee, key).entries = b.entries \cup {e}
  BY <1>3, <1>4 DEF Books
<1>6. /\ SettleSell(b, a, qty, n, fee, key).position = [b.position EXCEPT ![a] = @ - qty]
      /\ SettleSell(b, a, qty, n, fee, key).entries = b.entries \cup {d}
  BY <1>3, <1>4 DEF Books
<1>7. b.position \in [Accounts -> Int]
  BY DEF Books
<1>8. \A x \in Accounts : /\ SettleBuy(b, a, qty, n, fee, key).position[x]
                               = b.position[x] + IF x = a THEN qty ELSE 0
                          /\ SettleSell(b, a, qty, n, fee, key).position[x]
                               = b.position[x] - IF x = a THEN qty ELSE 0
  BY <1>5, <1>6, <1>7
<1> QED  BY <1>2, <1>5, <1>6, <1>8 DEF Posted

\* One more settlement adds its own lots.
LEMMA LotsAdd ==
  ASSUME NEW ts, NEW t, t \notin ts, t.lots \in Nat, IsFiniteSet(LotsOf(ts))
  PROVE  /\ IsFiniteSet(LotsOf(ts \cup {t}))
         /\ Cardinality(LotsOf(ts \cup {t})) = Cardinality(LotsOf(ts)) + t.lots
PROOF
<1> DEFINE own == {t} \X (1 .. t.lots)
<1>1. LotsOf(ts \cup {t}) = LotsOf(ts) \cup own
  BY DEF LotsOf
<1>2. LotsOf(ts) \cap own = {}
  BY DEF LotsOf
<1>3. IsFiniteSet({t}) /\ Cardinality({t}) = 1
  BY FS_Singleton
<1>4. IsFiniteSet(1 .. t.lots) /\ Cardinality(1 .. t.lots) = t.lots
  <2>1. /\ IsFiniteSet(1 .. t.lots)
        /\ Cardinality(1 .. t.lots) = IF 1 > t.lots THEN 0 ELSE t.lots - 1 + 1
    BY FS_Interval
  <2> QED  BY <2>1
<1>5. IsFiniteSet(own) /\ Cardinality(own) = t.lots
  <2>1. IsFiniteSet(own) /\ Cardinality(own) = Cardinality({t}) * Cardinality(1 .. t.lots)
    BY <1>3, <1>4, FS_Product
  <2> HIDE DEF own
  <2> QED  BY <1>3, <1>4, <2>1
<1> HIDE DEF own
<1>6. Cardinality(LotsOf(ts) \cap own) = 0
  BY <1>2, FS_EmptySet
<1>7. Cardinality(LotsOf(ts)) \in Nat
  BY FS_CardinalityType
<1>8. /\ IsFiniteSet(LotsOf(ts) \cup own)
      /\ Cardinality(LotsOf(ts) \cup own) =
           Cardinality(LotsOf(ts)) + Cardinality(own) - Cardinality(LotsOf(ts) \cap own)
  BY <1>5, FS_Union
<1>9. Cardinality(LotsOf(ts) \cup own) = Cardinality(LotsOf(ts)) + t.lots
  BY <1>5, <1>6, <1>7, <1>8
<1> HIDE DEF LotsOf
<1> QED  BY <1>1, <1>8, <1>9

\* Book c is b with a settlement of `lots` more of account a, posted under key.
Moved(b, c, a, lots, key) ==
  /\ \A x \in Accounts : c.position[x] = b.position[x] + IF x = a THEN lots ELSE 0
  /\ b.entries \subseteq c.entries
  /\ Posted(c, key)

\* What a settlement leaves, in one fact.
LEMMA BuyLots ==
  ASSUME NEW b \in Books, NEW a \in Accounts, NEW qty \in Int, NEW n \in Int, NEW fee \in Int,
         NEW key \in Keys, ~Posted(b, key), NEW c, c = SettleBuy(b, a, qty, n, fee, key)
  PROVE  Moved(b, c, a, qty, key)
PROOF
<1>1. /\ \A x \in Accounts : SettleBuy(b, a, qty, n, fee, key).position[x]
                               = b.position[x] + IF x = a THEN qty ELSE 0
      /\ b.entries \subseteq SettleBuy(b, a, qty, n, fee, key).entries
      /\ Posted(SettleBuy(b, a, qty, n, fee, key), key)
  BY SettleLots
<1>2. b.position \in [Accounts -> Int]
  BY DEF Books
<1>3. /\ \A x \in Accounts : c.position[x] = b.position[x] + IF x = a THEN qty ELSE 0
      /\ b.entries \subseteq c.entries /\ Posted(c, key)
  BY <1>1, Zenon
<1> QED  BY <1>2, <1>3 DEF Moved

LEMMA SellLots ==
  ASSUME NEW b \in Books, NEW a \in Accounts, NEW qty \in Int, NEW n \in Int, NEW fee \in Int,
         NEW key \in Keys, ~Posted(b, key), NEW c, c = SettleSell(b, a, qty, n, fee, key)
  PROVE  Moved(b, c, a, -qty, key)
PROOF
<1>1. /\ \A x \in Accounts : SettleSell(b, a, qty, n, fee, key).position[x]
                               = b.position[x] - IF x = a THEN qty ELSE 0
      /\ b.entries \subseteq SettleSell(b, a, qty, n, fee, key).entries
      /\ Posted(SettleSell(b, a, qty, n, fee, key), key)
  BY SettleLots
<1>2. b.position \in [Accounts -> Int]
  BY DEF Books
<1>3. /\ \A x \in Accounts : c.position[x] = b.position[x] - IF x = a THEN qty ELSE 0
      /\ b.entries \subseteq c.entries /\ Posted(c, key)
  BY <1>1, Zenon
<1> QED  BY <1>2, <1>3 DEF Moved

\* A step that settles nothing.
LEMMA NoLotsMove ==
  ASSUME PositionInv, settled' = settled, book'.position = book.position,
         book.entries \subseteq book'.entries
  PROVE  PositionInv'
PROOF
<1>1. \A a, side : SettledOn(a, side)' = SettledOn(a, side)
  BY DEF SettledOn
<1>2. PositionExplained'
  BY <1>1 DEF PositionInv, PositionExplained, Posted
<1> QED  BY <1>1, <1>2 DEF PositionInv

\* A step that settles lots of one account on one side under a new key.
LEMMA LotsMove ==
  ASSUME PositionInv, TypeOK, NEW a \in Accounts, NEW side \in {"Buy", "Sell"}, NEW qty \in Nat \ {0},
         NEW key \in Keys, ~Posted(book, key), Settles(a, side, qty, key),
         \A x \in Accounts : book'.position[x] = book.position[x]
                               + (IF x = a THEN IF side = "Buy" THEN qty ELSE -qty ELSE 0),
         book.entries \subseteq book'.entries, Posted(book', key)
  PROVE  PositionInv'
PROOF
<1> DEFINE t == [key |-> key, account |-> a, side |-> side, lots |-> qty]
<1>1. settled' = settled \cup {t} /\ t \notin settled
  BY DEF Settles, PositionInv, PositionExplained
<1>2. t.key = key /\ t.account = a /\ t.side = side /\ t.lots = qty
  OBVIOUS
<1>3. t \in [key : Keys, account : Accounts, side : {"Buy", "Sell"}, lots : Nat \ {0}]
  OBVIOUS
<1> HIDE DEF t
<1>4. \A x \in Accounts, s \in {"Buy", "Sell"} :
        SettledOn(x, s)' = SettledOn(x, s) \cup (IF x = a /\ s = side THEN {t} ELSE {})
  BY <1>1, <1>2 DEF SettledOn
<1>5. ASSUME NEW x \in Accounts, NEW s \in {"Buy", "Sell"}
      PROVE  /\ IsFiniteSet(LotsOf(SettledOn(x, s)'))
             /\ Cardinality(LotsOf(SettledOn(x, s)'))
                  = Cardinality(LotsOf(SettledOn(x, s))) + (IF x = a /\ s = side THEN qty ELSE 0)
             /\ Cardinality(LotsOf(SettledOn(x, s))) \in Nat
  <2>1. IsFiniteSet(LotsOf(SettledOn(x, s)))
    BY DEF PositionInv
  <2>2. Cardinality(LotsOf(SettledOn(x, s))) \in Nat
    BY <2>1, FS_CardinalityType
  <2>3. CASE x = a /\ s = side
    <3>1. SettledOn(x, s)' = SettledOn(x, s) \cup {t} /\ t \notin SettledOn(x, s)
      BY <1>1, <1>4, <2>3 DEF SettledOn
    <3>2. /\ IsFiniteSet(LotsOf(SettledOn(x, s) \cup {t}))
          /\ Cardinality(LotsOf(SettledOn(x, s) \cup {t})) = Cardinality(LotsOf(SettledOn(x, s))) + qty
      BY <1>2, <2>1, <3>1, LotsAdd
    <3> QED  BY <2>2, <2>3, <3>1, <3>2
  <2>4. CASE ~(x = a /\ s = side)
    <3>1. SettledOn(x, s)' = SettledOn(x, s)
      BY <1>4, <2>4
    <3> QED  BY <2>1, <2>2, <2>4, <3>1
  <2> QED  BY <2>3, <2>4
<1>6. ASSUME NEW x \in Accounts
      PROVE  book'.position[x] = Cardinality(LotsOf(SettledOn(x, "Buy")'))
                                 - Cardinality(LotsOf(SettledOn(x, "Sell")'))
  <2>1. book.position \in [Accounts -> Int] /\ book.position[x] \in Int
    BY DEF TypeOK, Books
  <2>2. book'.position[x] = book.position[x] + (IF x = a THEN IF side = "Buy" THEN qty ELSE -qty ELSE 0)
    OBVIOUS
  <2>3. book.position[x] = Cardinality(LotsOf(SettledOn(x, "Buy")))
                           - Cardinality(LotsOf(SettledOn(x, "Sell")))
    BY DEF PositionInv, PositionExplained
  <2>4. /\ Cardinality(LotsOf(SettledOn(x, "Buy")'))
             = Cardinality(LotsOf(SettledOn(x, "Buy"))) + (IF x = a /\ side = "Buy" THEN qty ELSE 0)
        /\ Cardinality(LotsOf(SettledOn(x, "Sell")'))
             = Cardinality(LotsOf(SettledOn(x, "Sell"))) + (IF x = a /\ side = "Sell" THEN qty ELSE 0)
        /\ Cardinality(LotsOf(SettledOn(x, "Buy"))) \in Nat
        /\ Cardinality(LotsOf(SettledOn(x, "Sell"))) \in Nat
    BY <1>5
  <2> QED  BY <2>2, <2>3, <2>4
<1>7. \A s, u \in settled' : s.key = u.key => s = u
  BY <1>1, <1>2 DEF PositionInv, PositionExplained
<1>8. \A s \in settled' : Posted(book', s.key)
  <2>1. \A s \in settled : Posted(book, s.key)
    BY DEF PositionInv, PositionExplained
  <2> QED  BY <1>1, <1>2, <2>1 DEF Posted
<1>9. PositionExplained'
  BY <1>6, <1>7, <1>8 DEF PositionExplained
<1> QED  BY <1>1, <1>3, <1>5, <1>9 DEF PositionInv

LEMMA SettlementsMove ==
  ASSUME PositionInv, TypeOK, NEW a \in Accounts, NEW amount \in Int, NEW key \in Keys,
         NEW qty \in Int, NEW fee \in Int,
         SettleBuyCall(a, qty, amount, fee, key) \/ SettleSellCall(a, qty, amount, fee, key)
  PROVE  PositionInv'
PROOF
<1>1. qty \in Nat \ {0}
  BY DEF SettleBuyCall, SettleBuyError, SettleSellCall, SettleSellError
<1>2. CASE Posted(book, key)
  BY <1>2, NoLotsMove DEF SettleBuyCall, SettleSellCall, SettleBuy, SettleSell, Settles
<1>3. CASE ~Posted(book, key) /\ SettleBuyCall(a, qty, amount, fee, key)
  <2>1. book' = SettleBuy(book, a, qty, amount, fee, key) /\ Settles(a, "Buy", qty, key)
    BY <1>3 DEF SettleBuyCall
  <2>2. book \in Books
    BY DEF TypeOK
  <2>3. Moved(book, book', a, qty, key)
    BY <1>3, <2>1, <2>2, BuyLots, Zenon
  <2> QED  BY <1>1, <1>3, <2>1, <2>3, LotsMove DEF Moved
<1>4. CASE ~Posted(book, key) /\ SettleSellCall(a, qty, amount, fee, key)
  <2>1. book' = SettleSell(book, a, qty, amount, fee, key) /\ Settles(a, "Sell", qty, key)
    BY <1>4 DEF SettleSellCall
  <2>2. book \in Books
    BY DEF TypeOK
  <2>3. Moved(book, book', a, -qty, key)
    BY <1>4, <2>1, <2>2, SellLots, Zenon
  <2> QED  BY <1>1, <1>4, <2>1, <2>3, LotsMove DEF Moved
<1> QED  BY <1>2, <1>3, <1>4

LEMMA NextPosition ==
  ASSUME PositionInv, TypeOK, [Next]_vars
  PROVE  PositionInv'
PROOF
<1>1. ASSUME NEW a \in Accounts, NEW amount \in Amounts, NEW key \in Keys,
             \/ DepositCall(a, amount, key) \/ WithdrawCall(a, amount, key)
             \/ ReserveForOrder(a, amount, key) \/ ReleaseReserve(a, amount, key)
      PROVE  PositionInv'
  <2>1. amount \in Int
    BY BookAssumption
  <2>2. /\ settled' = settled
        /\ book' \in {Deposit(book, a, amount, key), Withdraw(book, a, amount, key),
                      Reserve(book, a, amount, key), Release(book, a, amount, key)}
    BY <1>1 DEF DepositCall, WithdrawCall, ReserveForOrder, ReleaseReserve
  <2>3. book'.position = book.position /\ book.entries \subseteq book'.entries
    BY <2>1, <2>2, CashLots, ZenonT(60) DEF TypeOK
  <2> QED  BY <2>2, <2>3, NoLotsMove
<1>2. ASSUME NEW a \in Accounts, NEW amount \in Amounts, NEW key \in Keys,
             NEW qty \in Lots, NEW fee \in Fees,
             SettleBuyCall(a, qty, amount, fee, key) \/ SettleSellCall(a, qty, amount, fee, key)
      PROVE  PositionInv'
  <2>1. amount \in Int /\ qty \in Int /\ fee \in Int
    BY BookAssumption
  <2> QED  BY <1>2, <2>1, SettlementsMove
<1>3. ASSUME NEW a \in Accounts, NEW qty \in Lots,
             ReservePositionForOrder(a, qty) \/ ReleasePositionReserve(a, qty)
      PROVE  PositionInv'
  <2>1. settled' = settled /\ book'.position = book.position /\ book'.entries = book.entries
    BY <1>3 DEF ReservePositionForOrder, ReleasePositionReserve, ReservePosition,
                ReleasePosition, TypeOK, Books
  <2> QED  BY <2>1, NoLotsMove
<1>4. CASE UNCHANGED vars
  BY <1>4, NoLotsMove DEF vars
<1> QED  BY <1>1, <1>2, <1>3, <1>4 DEF Next

\* The lots held are the lots bought less the lots sold, with one settlement per
\* key: a settlement retried under its key moves neither cash nor lots again
\* (settle_buy, settle_sell).
THEOREM LotsExplained == Spec => []PositionExplained
PROOF
<1>1. Init => PositionInv
  <2> SUFFICES ASSUME Init PROVE PositionInv
    OBVIOUS
  <2>1. \A a, side : LotsOf(SettledOn(a, side)) = {}
    BY DEF Init, SettledOn, LotsOf
  <2>2. IsFiniteSet({}) /\ Cardinality({}) = 0
    BY FS_EmptySet
  <2>3. settled = {} /\ \A a \in Accounts : book.position[a] = 0
    BY DEF Init, EmptyBook
  <2> QED  BY <2>1, <2>2, <2>3 DEF PositionInv, PositionExplained
<1>2. PositionInv /\ TypeOK /\ [Next]_vars => PositionInv'
  BY NextPosition
<1>3. PositionInv => PositionExplained
  BY DEF PositionInv
<1> QED  BY <1>1, <1>2, <1>3, BookTyped, PTL DEF Spec
=============================================================================
