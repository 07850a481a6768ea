---------------------------- MODULE PaperSessionProofs ----------------------------
(***************************************************************************)
(* Proofs about the paper engine on its simulated venue (PaperSession).    *)
(*                                                                         *)
(* The sums of the properties range over orders and trades. Facts about    *)
(* sums come first, by least counterexample; then what one lifecycle event *)
(* does to its order, its reserve and the ledger; then the stream: what    *)
(* the venue may have issued and the engine not yet read; then each        *)
(* operation of the venue and of the engine; and last the specification.   *)
(***************************************************************************)
EXTENDS PaperSession, FiniteSetTheorems, NaturalsInduction, WellFoundedInduction, TLAPS

-----------------------------------------------------------------------------
(* Minimal counterexamples, and sums over finite sets.                     *)

\* A property of numbers that fails somewhere fails somewhere first.
LEMMA LeastBad ==
  ASSUME NEW Bad \in SUBSET Nat, Bad # {}
  PROVE  \E n \in Bad : \A m \in Bad : n <= m
<1> DEFINE Less == {ss \in Nat \X Nat : ss[1] < ss[2]}
<1>1. IsWellFoundedOn(Less, Nat)
  BY NatLessThanWellFounded DEF OpToRel
<1>2. PICK n \in Bad : \A m \in Bad : <<m, n>> \notin Less
  <2> HIDE DEF Less
  <2> QED BY <1>1, WFMin
<1>3. ASSUME NEW m \in Bad, m < n PROVE <<m, n>> \in Less
  BY <1>3
<1> HIDE DEF Less
<1>4. \A m \in Bad : ~(m < n)
  BY <1>2, <1>3
<1> QED BY <1>4

\* One of sets fails for a set none of whose smaller sets fails.
LEMMA LeastSet ==
  ASSUME NEW S, IsFiniteSet(S), NEW Bad \in SUBSET SUBSET S, Bad # {}
  PROVE  \E T \in Bad : \A x \in T : T \ {x} \notin Bad
<1> DEFINE Sizes == {Cardinality(T) : T \in Bad}
<1>1. \A T \in SUBSET S : IsFiniteSet(T) /\ Cardinality(T) \in Nat
  BY FS_Subset, FS_CardinalityType
<1>2. Sizes \in SUBSET Nat /\ Sizes # {}
  BY <1>1
<1>3. PICK n \in Sizes : \A m \in Sizes : n <= m
  <2> HIDE DEF Sizes
  <2> QED BY <1>2, LeastBad
<1>4. PICK T \in Bad : Cardinality(T) = n
  BY <1>3
<1>5. ASSUME NEW x \in T, T \ {x} \in Bad PROVE FALSE
  <2>1. Cardinality(T \ {x}) = n - 1 /\ n \in Nat
    BY <1>1, <1>4, FS_RemoveElement
  <2>2. n <= n - 1
    BY <1>3, <1>5, <2>1
  <2> QED BY <2>1, <2>2
<1> QED BY <1>5

\* The recursion behind a sum over the subsets of a set.
Adds(f, S, it) ==
  it = [s \in SUBSET S |-> IF s = {} THEN 0
                           ELSE LET x == CHOOSE y \in s : TRUE IN f[x] + it[s \ {x}]]

\* A sum is what the fold's chosen table says of the whole set.
LEMMA SumIsFold ==
  ASSUME NEW f, NEW S
  PROVE  SumFunctionOnSet(f, S) = (CHOOSE it : Adds(f, S, it))[S]
BY DEF SumFunctionOnSet, FoldFunctionOnSet, MapThenFoldSet, Adds

\* Such a table exists over every finite set.
LEMMA AddsExists ==
  ASSUME NEW f, NEW S, IsFiniteSet(S)
  PROVE  \E it : Adds(f, S, it)
<1> DEFINE Small(n) == {s \in SUBSET S : Cardinality(s) <= n}
           First(s) == CHOOSE y \in s : TRUE
           Step(it, n) == [s \in Small(n) |-> IF s = {} THEN 0 ELSE f[First(s)] + it[s \ {First(s)}]]
           Exists(n) == \E it : it = Step(it, n)
           Bad == {n \in Nat : ~Exists(n)}
<1>1. \A s \in SUBSET S : IsFiniteSet(s) /\ Cardinality(s) \in Nat
  BY FS_Subset, FS_CardinalityType
<1>2. \A s \in SUBSET S : s # {} => /\ First(s) \in s /\ s \ {First(s)} \in SUBSET S
                                    /\ Cardinality(s \ {First(s)}) = Cardinality(s) - 1
  <2> SUFFICES ASSUME NEW s \in SUBSET S, s # {}
               PROVE  /\ First(s) \in s /\ s \ {First(s)} \in SUBSET S
                      /\ Cardinality(s \ {First(s)}) = Cardinality(s) - 1
    OBVIOUS
  <2>1. First(s) \in s
    OBVIOUS
  <2> QED BY <1>1, <2>1, FS_RemoveElement
<1>3. ASSUME Bad # {} PROVE FALSE
  <2>1. PICK n \in Bad : \A m \in Bad : n <= m
    <3>1. Bad \in SUBSET Nat
      <4> HIDE DEF Exists
      <4> QED OBVIOUS
    <3> HIDE DEF Bad
    <3> QED BY <1>3, <3>1, LeastBad
  <2>2. n \in Nat /\ ~Exists(n)
    <3> HIDE DEF Exists
    <3> QED OBVIOUS
  <2>3. n # 0
    <3> DEFINE g == [s \in Small(0) |-> 0]
    <3>1. \A s \in Small(0) : s = {}
      <4> TAKE s \in Small(0)
      <4>1. IsFiniteSet(s) /\ Cardinality(s) = 0
        BY <1>1
      <4> QED BY <4>1, FS_EmptySet
    <3>2. g = Step(g, 0)
      BY <3>1
    <3> QED BY <2>2, <3>2, ZenonT(60)
  <2>4. n - 1 \in Nat /\ Exists(n - 1)
    <3> HIDE DEF Exists
    <3>1. n - 1 \in Nat /\ ~(n <= n - 1)
      BY <2>2, <2>3
    <3> QED BY <2>1, <3>1
  <2>5. PICK g : g = Step(g, n - 1)
    BY <2>4
  <2> DEFINE h == [s \in Small(n) |-> IF s \in Small(n - 1) THEN g[s]
                                      ELSE f[First(s)] + g[s \ {First(s)}]]
  <2>6. \A s \in Small(n) : h[s] = Step(h, n)[s]
    <3> TAKE s \in Small(n)
    <3>1. s # {} => s \ {First(s)} \in Small(n - 1) /\ s \ {First(s)} \in Small(n)
      <4> HIDE DEF First
      <4> QED BY <1>1, <1>2, <2>2
    <3>2. {} \in Small(n - 1)
      BY <2>4, FS_EmptySet
    <3>3. s \in Small(n - 1) => g[s] = IF s = {} THEN 0 ELSE f[First(s)] + g[s \ {First(s)}]
      BY <2>5
    <3>4. s # {} => h[s \ {First(s)}] = g[s \ {First(s)}]
      <4> HIDE DEF First, Small
      <4> QED BY <3>1
    <3>5. Step(h, n)[s] = IF s = {} THEN 0 ELSE f[First(s)] + h[s \ {First(s)}]
      <4> HIDE DEF First, Small, h
      <4> QED OBVIOUS
    <3>6. h[s] = IF s \in Small(n - 1) THEN g[s] ELSE f[First(s)] + g[s \ {First(s)}]
      <4> HIDE DEF First, Small
      <4> QED OBVIOUS
    <3> HIDE DEF First, Small, h, Step
    <3> QED BY <3>2, <3>3, <3>4, <3>5, <3>6
  <2>7. h = Step(h, n)
    <3> HIDE DEF First, Small
    <3> QED BY <2>6
  <2> QED BY <2>2, <2>7
<1>4. Exists(Cardinality(S))
  <2> HIDE DEF Exists
  <2> QED BY <1>1, <1>3
<1>5. Small(Cardinality(S)) = SUBSET S
  <2>1. \A s \in SUBSET S : Cardinality(s) <= Cardinality(S)
    BY FS_Subset
  <2> QED BY <2>1
<1>6. PICK it : it = Step(it, Cardinality(S))
  BY <1>4
<1> HIDE DEF Small
<1>7. Adds(f, S, it)
  BY <1>5, <1>6 DEF Adds
<1> QED BY <1>7

\* So the table the fold chooses obeys the recursion.
LEMMA FoldAdds ==
  ASSUME NEW f, NEW S, IsFiniteSet(S)
  PROVE  Adds(f, S, CHOOSE it : Adds(f, S, it))
BY AddsExists

\* The recursion over a set and the one over a subset agree on the subset.
LEMMA AddsAgree ==
  ASSUME NEW f, NEW S, IsFiniteSet(S), NEW T \in SUBSET S, NEW g, Adds(f, S, g)
  PROVE  SumFunctionOnSet(f, T) = g[T]
<1> DEFINE h == CHOOSE it : Adds(f, T, it)
           First(s) == CHOOSE y \in s : TRUE
           Bad == {s \in SUBSET T : h[s] # g[s]}
<1>1. IsFiniteSet(T)
  BY FS_Subset
<1>2. Adds(f, T, h)
  BY <1>1, FoldAdds
<1> HIDE DEF h
<1>3. ASSUME NEW s \in SUBSET T
      PROVE  /\ h[s] = IF s = {} THEN 0 ELSE f[First(s)] + h[s \ {First(s)}]
             /\ g[s] = IF s = {} THEN 0 ELSE f[First(s)] + g[s \ {First(s)}]
             /\ s # {} => First(s) \in s
  <2>1. s \in SUBSET S
    OBVIOUS
  <2> QED BY <1>2, <2>1 DEF Adds
<1>4. ASSUME Bad # {} PROVE FALSE
  <2>1. Bad \in SUBSET SUBSET T
    OBVIOUS
  <2>2. PICK s \in Bad : \A x \in s : s \ {x} \notin Bad
    <3> HIDE DEF Bad
    <3> QED BY <1>1, <1>4, <2>1, LeastSet
  <2>3. s \in SUBSET T /\ h[s] # g[s]
    OBVIOUS
  <2>4. CASE s = {}
    BY <1>3, <2>3, <2>4
  <2>5. CASE s # {}
    <3>1. First(s) \in s /\ s \ {First(s)} \in SUBSET T
      BY <1>3, <2>3, <2>5
    <3>2. h[s \ {First(s)}] = g[s \ {First(s)}]
      <4> HIDE DEF First
      <4> QED BY <2>2, <3>1
    <3> HIDE DEF First
    <3> QED BY <1>3, <2>3, <2>5, <3>2
  <2> QED BY <2>4, <2>5
<1>5. h[T] = g[T]
  BY <1>4
<1>6. SumFunctionOnSet(f, T) = h[T]
  BY SumIsFold DEF h
<1> QED BY <1>5, <1>6

\* Nothing sums to zero.
LEMMA SumEmpty ==
  ASSUME NEW f
  PROVE  SumFunctionOnSet(f, {}) = 0
<1> DEFINE h == CHOOSE it : Adds(f, {}, it)
<1>1. Adds(f, {}, h)
  BY FoldAdds, FS_EmptySet
<1>2. SumFunctionOnSet(f, {}) = h[{}]
  BY SumIsFold
<1> HIDE DEF h
<1>3. h[{}] = 0
  BY <1>1 DEF Adds
<1> QED BY <1>2, <1>3

\* A sum takes one term off and is the sum of the rest.
LEMMA SumFirst ==
  ASSUME NEW f, NEW S, IsFiniteSet(S), S # {}
  PROVE  \E x \in S : SumFunctionOnSet(f, S) = f[x] + SumFunctionOnSet(f, S \ {x})
<1> DEFINE g == CHOOSE it : Adds(f, S, it)
           x == CHOOSE y \in S : TRUE
<1>1. Adds(f, S, g)
  BY FoldAdds
<1>2. SumFunctionOnSet(f, S) = g[S]
  BY SumIsFold
<1> HIDE DEF g
<1>3. g[S] = f[x] + g[S \ {x}]
  BY <1>1 DEF Adds
<1>4. x \in S
  OBVIOUS
<1> HIDE DEF x
<1>5. SumFunctionOnSet(f, S \ {x}) = g[S \ {x}]
  BY <1>1, AddsAgree
<1> QED BY <1>2, <1>3, <1>4, <1>5

\* The sum of a set is the sum of two functions that agree on it.
LEMMA SumSame ==
  ASSUME NEW f, NEW g, NEW S, IsFiniteSet(S), \A x \in S : f[x] = g[x]
  PROVE  SumFunctionOnSet(f, S) = SumFunctionOnSet(g, S)
<1> DEFINE First(s) == CHOOSE y \in s : TRUE
           F == CHOOSE it : Adds(f, S, it)
           G == CHOOSE it : Adds(g, S, it)
           Bad == {s \in SUBSET S : F[s] # G[s]}
<1>1. Adds(f, S, F) /\ Adds(g, S, G)
  BY FoldAdds
<1>2. SumFunctionOnSet(f, S) = F[S] /\ SumFunctionOnSet(g, S) = G[S]
  BY SumIsFold
<1> HIDE DEF F, G
<1>3. ASSUME NEW s \in SUBSET S
      PROVE  /\ F[s] = IF s = {} THEN 0 ELSE f[First(s)] + F[s \ {First(s)}]
             /\ G[s] = IF s = {} THEN 0 ELSE g[First(s)] + G[s \ {First(s)}]
             /\ s # {} => First(s) \in s
  BY <1>1 DEF Adds
<1> HIDE DEF First
<1>4. ASSUME Bad # {} PROVE FALSE
  <2>1. Bad \in SUBSET SUBSET S
    OBVIOUS
  <2>2. PICK s \in Bad : \A x \in s : s \ {x} \notin Bad
    <3> HIDE DEF Bad
    <3> QED BY <1>4, <2>1, LeastSet
  <2>3. s \in SUBSET S /\ F[s] # G[s] /\ s # {}
    BY <1>3
  <2>4. First(s) \in s /\ s \ {First(s)} \in SUBSET S
    BY <1>3, <2>3
  <2>5. F[s \ {First(s)}] = G[s \ {First(s)}]
    BY <2>2, <2>4
  <2>6. f[First(s)] = g[First(s)]
    BY <2>3, <2>4
  <2> QED BY <1>3, <2>3, <2>5, <2>6
<1>5. F[S] = G[S]
  BY <1>4
<1> QED BY <1>2, <1>5

\* Sums of integers are integers, of naturals naturals.
LEMMA SumType ==
  ASSUME NEW f, NEW S, IsFiniteSet(S)
  PROVE  /\ (\A x \in S : f[x] \in Int) => SumFunctionOnSet(f, S) \in Int
         /\ (\A x \in S : f[x] \in Nat) => SumFunctionOnSet(f, S) \in Nat
<1>1. ASSUME NEW R \in {Nat, Int}, \A x \in S : f[x] \in R, SumFunctionOnSet(f, S) \notin R
      PROVE  FALSE
  <2> DEFINE Bad == {s \in SUBSET S : SumFunctionOnSet(f, s) \notin R}
  <2>1. Bad \in SUBSET SUBSET S /\ Bad # {}
    BY <1>1
  <2>2. PICK s \in Bad : \A x \in s : s \ {x} \notin Bad
    <3> HIDE DEF Bad
    <3> QED BY <2>1, LeastSet
  <2>3. s \in SUBSET S /\ SumFunctionOnSet(f, s) \notin R /\ s # {} /\ IsFiniteSet(s)
    <3>1. s \in SUBSET S /\ SumFunctionOnSet(f, s) \notin R
      OBVIOUS
    <3>2. 0 \in R
      OBVIOUS
    <3>3. s # {}
      BY <3>1, <3>2, SumEmpty
    <3> QED BY <3>1, <3>3, FS_Subset
  <2>4. PICK x \in s : SumFunctionOnSet(f, s) = f[x] + SumFunctionOnSet(f, s \ {x})
    BY <2>3, SumFirst
  <2>5. SumFunctionOnSet(f, s \ {x}) \in R /\ f[x] \in R
    BY <1>1, <2>2, <2>3
  <2>6. \A m, n \in R : m + n \in R
    OBVIOUS
  <2> QED BY <2>3, <2>4, <2>5, <2>6
<1> QED BY <1>1

\* A sum may start with any element.
LEMMA SumTake ==
  ASSUME NEW f, NEW S, IsFiniteSet(S), \A x \in S : f[x] \in Int, NEW z \in S
  PROVE  /\ SumFunctionOnSet(f, S) = f[z] + SumFunctionOnSet(f, S \ {z})
         /\ SumFunctionOnSet(f, S \ {z}) \in Int
<1> DEFINE Bad == {s \in SUBSET S : \E x \in s :
                     SumFunctionOnSet(f, s) # f[x] + SumFunctionOnSet(f, s \ {x})}
<1>1. ASSUME NEW s \in SUBSET S
      PROVE  IsFiniteSet(s) /\ SumFunctionOnSet(f, s) \in Int
  BY FS_Subset, SumType
<1>2. ASSUME Bad # {} PROVE FALSE
  <2>1. Bad \in SUBSET SUBSET S
    OBVIOUS
  <2>2. PICK s \in Bad : \A x \in s : s \ {x} \notin Bad
    <3> HIDE DEF Bad
    <3> QED BY <1>2, <2>1, LeastSet
  <2>3. PICK x \in s : SumFunctionOnSet(f, s) # f[x] + SumFunctionOnSet(f, s \ {x})
    OBVIOUS
  <2>4. PICK y \in s : SumFunctionOnSet(f, s) = f[y] + SumFunctionOnSet(f, s \ {y})
    BY <1>1, SumFirst
  <2>5. x # y
    BY <2>3, <2>4
  <2>6. SumFunctionOnSet(f, s \ {x}) = f[y] + SumFunctionOnSet(f, (s \ {x}) \ {y})
    BY <2>2, <2>5
  <2>7. SumFunctionOnSet(f, s \ {y}) = f[x] + SumFunctionOnSet(f, (s \ {y}) \ {x})
    BY <2>2, <2>5
  <2>8. (s \ {x}) \ {y} = (s \ {y}) \ {x} /\ (s \ {x}) \ {y} \in SUBSET S
    OBVIOUS
  <2>9. /\ f[x] \in Int /\ f[y] \in Int /\ SumFunctionOnSet(f, (s \ {x}) \ {y}) \in Int
    BY <1>1, <2>8
  <2> DEFINE rest == SumFunctionOnSet(f, (s \ {x}) \ {y})
  <2>10. SumFunctionOnSet(f, s \ {x}) = f[y] + rest /\ SumFunctionOnSet(f, s \ {y}) = f[x] + rest
    BY <2>6, <2>7, <2>8
  <2>11. rest \in Int
    BY <2>9
  <2> HIDE DEF rest, Bad
  <2> QED BY <2>3, <2>4, <2>9, <2>10, <2>11
<1>3. S \notin Bad
  BY <1>2
<1> QED BY <1>1, <1>3

\* No term of naturals exceeds the sum.
LEMMA SumBound ==
  ASSUME NEW f, NEW S, IsFiniteSet(S), \A x \in S : f[x] \in Nat, NEW z \in S
  PROVE  f[z] <= SumFunctionOnSet(f, S)
<1>1. SumFunctionOnSet(f, S) = f[z] + SumFunctionOnSet(f, S \ {z})
  BY SumTake
<1>2. SumFunctionOnSet(f, S \ {z}) \in Nat
  BY FS_Subset, SumType
<1> QED BY <1>1, <1>2

\* A function that changes at one place, and a set that gets one more element.
LEMMA SumMoves ==
  ASSUME NEW f, NEW g, NEW S, IsFiniteSet(S), NEW z,
         \A x \in S : f[x] \in Int /\ g[x] \in Int,
         \A x \in S \ {z} : g[x] = f[x]
  PROVE  SumFunctionOnSet(g, S) = SumFunctionOnSet(f, S) + IF z \in S THEN g[z] - f[z] ELSE 0
<1>1. CASE z \notin S
  <2>1. SumFunctionOnSet(g, S) = SumFunctionOnSet(f, S) /\ SumFunctionOnSet(f, S) \in Int
    BY <1>1, SumSame, SumType
  <2> QED BY <1>1, <2>1
<1>2. CASE z \in S
  <2>1. /\ SumFunctionOnSet(f, S) = f[z] + SumFunctionOnSet(f, S \ {z})
        /\ SumFunctionOnSet(f, S \ {z}) \in Int
    BY <1>2, SumTake
  <2>3. SumFunctionOnSet(g, S) = g[z] + SumFunctionOnSet(g, S \ {z})
    BY <1>2, SumTake
  <2>2. SumFunctionOnSet(g, S \ {z}) = SumFunctionOnSet(f, S \ {z})
    BY FS_Subset, SumSame
  <2> QED BY <1>2, <2>1, <2>2, <2>3
<1> QED BY <1>1, <1>2

\* One more index adds its term.
LEMMA SumMore ==
  ASSUME NEW f, NEW g, NEW S, IsFiniteSet(S), NEW z, z \notin S,
         \A x \in S : f[x] \in Int /\ g[x] = f[x], g[z] \in Int
  PROVE  SumFunctionOnSet(g, S \cup {z}) = SumFunctionOnSet(f, S) + g[z]
<1> DEFINE T == S \cup {z}
<1>1. IsFiniteSet(T) /\ z \in T /\ T \ {z} = S /\ \A x \in T : g[x] \in Int
  BY FS_AddElement
<1> HIDE DEF T
<1>2. SumFunctionOnSet(g, T) = g[z] + SumFunctionOnSet(g, S)
  BY <1>1, SumTake
<1>3. SumFunctionOnSet(g, S) = SumFunctionOnSet(f, S) /\ SumFunctionOnSet(f, S) \in Int
  BY SumSame, SumType
<1> QED BY <1>2, <1>3 DEF T

-----------------------------------------------------------------------------
(* What is well formed.                                                    *)

\* The fields of an order in the engine (OrderAggregate).
OrderFields ==
  {"account", "client", "side", "tif", "status", "qty", "price", "cum", "leaves", "avg",
   "acked", "execs"}

\* An order in good shape: what is filled and what is left make its quantity.
OrderOk(o) ==
  /\ DOMAIN o = OrderFields
  /\ o.account \in Accounts /\ o.side \in Sides /\ o.status \in Statuses
  /\ o.qty \in Nat /\ o.price \in Nat \ {0} /\ o.cum \in Nat /\ o.leaves \in Nat
  /\ o.cum + o.leaves = o.qty
  /\ o.execs = {} => o.cum = 0

\* What an order may hold, and what it must.
ReserveOk(o, cash, lots) ==
  /\ cash \in Nat /\ lots \in Nat
  /\ o.side = "Buy" => lots = 0
  /\ o.side = "Sell" => cash = 0
  /\ o.status \in IsTerminal => cash = 0 /\ lots = 0
  /\ o.status \in IsWorking \cup {"PendingNew"} =>
       IF o.side = "Buy" THEN cash = o.price * o.leaves ELSE lots = o.leaves

\* The fields of the engine (PaperTradingEngine).
EngFields ==
  {"orders", "byClient", "nextId", "book", "remCash", "remLots", "venue", "kill", "session",
   "nextSeq"}

\* A map that stores only positive amounts, and only for some indices (PutUnlessZero).
PositiveOn(f, S) == DOMAIN f \subseteq S /\ \A i \in DOMAIN f : f[i] \in Nat \ {0}

\* What order i holds back is what its status calls for.
Holds(e, i) == ReserveOk(e.orders[i], GetOrZero(e.remCash, i), GetOrZero(e.remLots, i))

\* Every order the engine knows is in good shape and holds the right reserve.
OrdersOk(e) ==
  /\ DOMAIN e = EngFields /\ e.kill \in BOOLEAN
  /\ e.nextId \in Nat /\ DOMAIN e.orders = 1 .. e.nextId
  /\ PositiveOn(e.remCash, DOMAIN e.orders) /\ PositiveOn(e.remLots, DOMAIN e.orders)
  /\ \A i \in DOMAIN e.orders : OrderOk(e.orders[i]) /\ Holds(e, i)

\* The fields of the paper ledger.
BookFields ==
  {"entries", "cash", "reserved", "funding", "settlement", "fees", "position", "posReserved"}

\* A ledger whose balances are integers for every account.
BookShape(b) ==
  /\ DOMAIN b = BookFields
  /\ DOMAIN b.reserved = Accounts /\ DOMAIN b.position = Accounts /\ DOMAIN b.posReserved = Accounts
  /\ \A a \in Accounts : b.reserved[a] \in Int /\ b.position[a] \in Int /\ b.posReserved[a] \in Int

\* The orders of an account.
In(e, a) == {i \in DOMAIN e.orders : e.orders[i].account = a}
\* What each order holds back, in cash.
CashOf(e) == [i \in DOMAIN e.orders |-> GetOrZero(e.remCash, i)]
\* What each order holds back, in lots.
LotsOf(e) == [i \in DOMAIN e.orders |-> GetOrZero(e.remLots, i)]
\* What an order has moved its account's position by.
Net(o) == IF o.side = "Buy" THEN o.cum ELSE -o.cum
\* The same, order by order.
NetOf(e) == [i \in DOMAIN e.orders |-> Net(e.orders[i])]

\* The book has what the orders hold and filled.
Backed(e, a) ==
  /\ e.book.reserved[a] = SumFunctionOnSet(CashOf(e), In(e, a))
  /\ e.book.posReserved[a] = SumFunctionOnSet(LotsOf(e), In(e, a))
  /\ e.book.position[a] = SumFunctionOnSet(NetOf(e), In(e, a))
  /\ e.book.posReserved[a] <= e.book.position[a]

\* The ledger agrees with the orders in every account.
BookOk(e) == BookShape(e.book) /\ \A a \in Accounts : Backed(e, a)

\* What the keys of the journal say of the orders: each is of an order that has
\* passed the point at which it is posted.
KeyOk(e, asked, k) ==
  /\ k.kind = "rsv" => k.n \in DOMAIN e.orders
  /\ k.kind = "rel" => k.n \in DOMAIN e.orders /\ e.orders[k.n].status \in IsTerminal
  /\ k.kind = "rsv-repl" => k.n \in DOMAIN e.orders /\ asked[k.n] > 0
  /\ k.kind = "rel-repl" => /\ k.n \in DOMAIN e.orders /\ asked[k.n] > 0
                            /\ e.orders[k.n].status # "PendingReplace"
  /\ k.kind = "fill" => \E i \in DOMAIN e.orders : k.n \in e.orders[i].execs

\* Every posted key is one whose order has been through the step that posts it.
KeysOk(e, asked) == \A x \in e.book.entries : KeyOk(e, asked, x.key)

-----------------------------------------------------------------------------
(* Orders.                                                                 *)

\* Two orders of one account and one side.
Same(o, p) == p.account = o.account /\ p.side = o.side
\* Two orders alike in all that reserves and positions depend on.
SameFill(o, p) == p.qty = o.qty /\ p.price = o.price /\ p.cum = o.cum /\ p.leaves = o.leaves /\ p.execs = o.execs

\* What an accepted event makes of an order.
Moves(o, p, ev) ==
  CASE ev.type = "Accepted" -> o.status = "PendingNew" /\ p.status = "New" /\ SameFill(o, p)
    [] ev.type = "Rejected" -> o.status = "PendingNew" /\ p.status = "Rejected" /\ SameFill(o, p)
    [] ev.type = "CancelRequested" ->
         o.status \in IsWorking /\ p.status = "PendingCancel" /\ SameFill(o, p)
    [] ev.type = "Canceled" ->
         /\ o.status \in IsWorking \cup {"PendingCancel"} /\ p.status = "Canceled"
         /\ SameFill(o, p)
    [] ev.type = "ReplaceRequested" ->
         /\ o.status \in IsWorking /\ p.status = "PendingReplace" /\ SameFill(o, p)
         /\ ev.qty >= o.cum /\ ev.qty > 0 /\ ev.price > 0
    [] ev.type = "Expired" -> o.status \in IsWorking /\ p.status = "Expired" /\ SameFill(o, p)
    [] ev.type = "Trade" ->
         /\ o.status \in IsWorking
         /\ ev.qty > 0 /\ ev.price > 0 /\ ev.qty <= o.leaves /\ ev.exec \notin o.execs
         /\ p.qty = o.qty /\ p.price = o.price /\ p.cum = o.cum + ev.qty
         /\ p.leaves = o.leaves - ev.qty /\ p.execs = o.execs \cup {ev.exec}
         /\ p.status = IF p.leaves = 0 THEN "Filled" ELSE "PartiallyFilled"
    [] ev.type = "Replaced" ->
         /\ o.status = "PendingReplace"
         /\ ev.qty >= o.cum /\ ev.qty > 0 /\ ev.price > 0
         /\ p.qty = ev.qty /\ p.price = ev.price /\ p.cum = o.cum
         /\ p.leaves = ev.qty - o.cum /\ p.execs = o.execs
         /\ p.status = IF o.cum = 0 THEN "New" ELSE IF p.leaves = 0 THEN "Filled" ELSE "PartiallyFilled"
    [] OTHER -> FALSE

\* An accepted lifecycle event keeps an order in shape and moves it as Moves says.
LEMMA AppliedMoves ==
  ASSUME NEW o, OrderOk(o), NEW ev, ev.qty \in Int, ev.price \in Int, ApplyError(o, ev) = "none"
  PROVE  /\ OrderOk(Applied(o, ev)) /\ Same(o, Applied(o, ev)) /\ Moves(o, Applied(o, ev), ev)
<1> DEFINE p == Applied(o, ev)
<1>1. LegalTransition(o.status, ev.type)
  BY DEF ApplyError
<1>2. o.status \notin IsTerminal /\ ev.type \in EventTypes
  BY <1>1 DEF LegalTransition, IsTerminal, IsWorking, EventTypes
<1>3. /\ o.qty \in Nat /\ o.price \in Nat \ {0} /\ o.cum \in Nat /\ o.leaves \in Nat
      /\ o.cum + o.leaves = o.qty /\ DOMAIN o = OrderFields
      /\ o.account \in Accounts /\ o.side \in Sides /\ o.status \in Statuses
      /\ o.execs = {} => o.cum = 0
  BY DEF OrderOk
<1>4. ASSUME NEW status \in Statuses, p = [o EXCEPT !.status = status]
      PROVE  OrderOk(p) /\ Same(o, p) /\ SameFill(o, p) /\ p.status = status
  <2> HIDE DEF p
  <2>1. /\ DOMAIN p = OrderFields /\ p.status = status /\ p.qty = o.qty /\ p.price = o.price
        /\ p.cum = o.cum /\ p.leaves = o.leaves /\ p.execs = o.execs /\ p.account = o.account
        /\ p.side = o.side
    BY <1>3, <1>4 DEF OrderFields
  <2> QED BY <1>3, <2>1 DEF OrderOk, Same, SameFill
<1>5. CASE ev.type = "Accepted"
  <2>1. p = [o EXCEPT !.status = "New", !.acked = TRUE]
    BY <1>5 DEF Applied
  <2>2. o.status = "PendingNew"
    BY <1>1, <1>5 DEF LegalTransition
  <2> HIDE DEF p
  <2>3. /\ DOMAIN p = OrderFields /\ p.status = "New" /\ p.qty = o.qty /\ p.price = o.price
        /\ p.cum = o.cum /\ p.leaves = o.leaves /\ p.execs = o.execs /\ p.account = o.account
        /\ p.side = o.side
    BY <1>3, <2>1 DEF OrderFields
  <2>4. Moves(o, p, ev)
    BY <1>5, <2>2, <2>3 DEF Moves, SameFill
  <2>5. OrderOk(p) /\ Same(o, p)
    BY <1>3, <2>3 DEF OrderOk, Same, Statuses
  <2> QED BY <2>4, <2>5 DEF p
<1>6. CASE ev.type \in {"Rejected", "CancelRequested", "Canceled", "Expired"}
  <2> DEFINE status == CASE ev.type = "Rejected" -> "Rejected"
                         [] ev.type = "CancelRequested" -> "PendingCancel"
                         [] ev.type = "Canceled" -> "Canceled"
                         [] OTHER -> "Expired"
  <2>1. p = [o EXCEPT !.status = status] /\ status \in Statuses
    BY <1>6 DEF Applied, Statuses
  <2>2. /\ ev.type = "Rejected" => o.status = "PendingNew"
        /\ ev.type \in {"CancelRequested", "Expired"} => o.status \in IsWorking
        /\ ev.type = "Canceled" => o.status \in IsWorking \cup {"PendingCancel"}
    BY <1>1, <1>6 DEF LegalTransition
  <2>3. OrderOk(p) /\ Same(o, p) /\ SameFill(o, p) /\ p.status = status
    BY <1>4, <2>1
  <2> HIDE DEF p
  <2>4. Moves(o, p, ev)
    BY <1>6, <2>2, <2>3 DEF Moves
  <2> QED BY <2>3, <2>4 DEF p
<1>7. CASE ev.type = "ReplaceRequested"
  <2>1. p = [o EXCEPT !.status = "PendingReplace"] /\ "PendingReplace" \in Statuses
    BY <1>7 DEF Applied, Statuses
  <2>2. o.status \in IsWorking
    BY <1>1, <1>7 DEF LegalTransition
  <2>3. OrderOk(p) /\ Same(o, p) /\ SameFill(o, p) /\ p.status = "PendingReplace"
    BY <1>4, <2>1
  <2>4. ReplaceError(o, ev) = "none"
    BY <1>1, <1>7 DEF ApplyError
  <2>5. ev.qty >= o.cum /\ ev.qty > 0 /\ ev.price > 0
    BY <1>3, <2>4 DEF ReplaceError
  <2> HIDE DEF p
  <2>6. Moves(o, p, ev)
    BY <1>7, <2>2, <2>3, <2>5 DEF Moves
  <2> QED BY <2>3, <2>6 DEF p
<1>8. CASE ev.type = "Trade"
  <2>1. p = ApplyTrade(o, ev)
    BY <1>8 DEF Applied
  <2>2. o.status \in IsWorking /\ TradeError(o, ev) = "none"
    BY <1>1, <1>8 DEF LegalTransition, ApplyError
  <2>3. ev.qty > 0 /\ ev.price > 0 /\ ev.qty <= o.leaves /\ ev.exec \notin o.execs
    BY <1>3, <2>2 DEF TradeError
  <2> HIDE DEF p
  <2>4. /\ DOMAIN p = OrderFields /\ p.qty = o.qty /\ p.price = o.price
        /\ p.cum = o.cum + ev.qty /\ p.leaves = o.qty - (o.cum + ev.qty)
        /\ p.execs = o.execs \cup {ev.exec} /\ p.account = o.account /\ p.side = o.side
        /\ p.status = IF o.qty - (o.cum + ev.qty) = 0 THEN "Filled" ELSE "PartiallyFilled"
    BY <1>3, <2>1 DEF ApplyTrade, OrderFields
  <2>5. p.leaves = o.leaves - ev.qty
    BY <1>3, <2>4
  <2>6. Moves(o, p, ev)
    BY <1>3, <1>8, <2>2, <2>3, <2>4, <2>5 DEF Moves
  <2>7. OrderOk(p) /\ Same(o, p)
    <3>1. p.execs # {}
      BY <2>4
    <3>2. p.cum \in Nat /\ p.leaves \in Nat /\ p.cum + p.leaves = p.qty
      <4>1. ev.qty \in Int /\ ev.qty > 0 /\ ev.qty <= o.leaves
        BY <2>3
      <4>2. p.cum \in Nat
        <5>1. p.cum = o.cum + ev.qty
          BY <2>4
        <5>2. o.cum \in Nat
          BY <1>3
        <5> QED BY ONLY <4>1, <5>1, <5>2
      <4>3. p.leaves \in Nat
        <5>1. o.leaves \in Nat
          BY <1>3
        <5> QED BY ONLY <2>5, <4>1, <5>1
      <4>4. p.cum + p.leaves = p.qty
        <5>1. p.cum = o.cum + ev.qty /\ p.leaves = o.leaves - ev.qty /\ p.qty = o.qty
          BY <2>4, <2>5
        <5>2. o.cum \in Nat /\ o.leaves \in Nat /\ o.cum + o.leaves = o.qty
          BY <1>3
        <5> QED BY ONLY <4>1, <5>1, <5>2
      <4> QED BY <4>2, <4>3, <4>4
    <3>3. p.status \in Statuses
      BY <2>4 DEF Statuses
    <3> QED BY <1>3, <2>4, <3>1, <3>2, <3>3 DEF OrderOk, Same
  <2> QED BY <2>6, <2>7 DEF p
<1>9. CASE ev.type = "Replaced"
  <2>1. p = ApplyReplaced(o, ev)
    BY <1>9 DEF Applied
  <2>2. o.status = "PendingReplace" /\ ReplaceError(o, ev) = "none"
    BY <1>1, <1>9 DEF LegalTransition, ApplyError
  <2>3. ev.qty >= o.cum /\ ev.qty > 0 /\ ev.price > 0
    BY <1>3, <2>2 DEF ReplaceError
  <2> HIDE DEF p
  <2>4. /\ DOMAIN p = OrderFields /\ p.qty = ev.qty /\ p.price = ev.price
        /\ p.cum = o.cum /\ p.leaves = ev.qty - o.cum
        /\ p.execs = o.execs /\ p.account = o.account /\ p.side = o.side
        /\ p.status = IF o.cum = 0 THEN "New"
                      ELSE IF ev.qty - o.cum = 0 THEN "Filled" ELSE "PartiallyFilled"
    BY <1>3, <2>1 DEF ApplyReplaced, OrderFields
  <2>5. Moves(o, p, ev)
    BY <1>9, <2>2, <2>3, <2>4 DEF Moves
  <2>6. OrderOk(p) /\ Same(o, p)
    BY <1>3, <2>3, <2>4 DEF OrderOk, Same, Statuses
  <2> QED BY <2>5, <2>6 DEF p
<1> QED BY <1>2, <1>5, <1>6, <1>7, <1>8, <1>9 DEF EventTypes

-----------------------------------------------------------------------------
(* The maps of reserves, and the book.                                     *)

\* g is f with the reserve of id set to v.
SetsTo(f, g, S, id, v) ==
  /\ PositiveOn(g, S)
  /\ \A i \in S : GetOrZero(g, i) = IF i = id THEN v ELSE GetOrZero(f, i)

\* An amount a map of positive amounts gives is a natural, and zero when absent.
LEMMA ReserveNat ==
  ASSUME NEW f, NEW S, PositiveOn(f, S), NEW i
  PROVE  /\ GetOrZero(f, i) \in Nat
         /\ GetOrZero(f, i) = 0 <=> i \notin DOMAIN f
BY DEF PositiveOn, GetOrZero

\* What the map operations of the engine do to one index.
LEMMA MapSets ==
  ASSUME NEW f, NEW S, PositiveOn(f, S), NEW id \in S, NEW v \in Nat
  PROVE  /\ SetsTo(f, PutUnlessZero(f, id, v), S, id, v)
         /\ v # 0 => SetsTo(f, Put(f, id, v), S, id, v)
         /\ SetsTo(f, Drop(f, id), S, id, 0)
         /\ SetsTo(f, f, S, id, GetOrZero(f, id))
<1>1. SetsTo(f, Drop(f, id), S, id, 0)
  BY DEF SetsTo, PositiveOn, Drop, GetOrZero
<1>2. v # 0 => SetsTo(f, Put(f, id, v), S, id, v)
  BY DEF SetsTo, PositiveOn, Put, GetOrZero
<1>3. SetsTo(f, f, S, id, GetOrZero(f, id))
  BY DEF SetsTo
<1> QED BY <1>1, <1>2, <1>3 DEF PutUnlessZero

\* Two updates of one index: the later one counts.
LEMMA SetsTwice ==
  ASSUME NEW f, NEW g, NEW h, NEW S, NEW id, NEW v, NEW w, SetsTo(f, g, S, id, v), SetsTo(g, h, S, id, w)
  PROVE  SetsTo(f, h, S, id, w)
BY DEF SetsTo

\* c is b with the account's reserved cash, reserved lots and position moved, and
\* the keys added.
BookMoves(b, c, a, cash, lots, net, keys) ==
  /\ BookShape(c)
  /\ \A x \in Accounts :
       /\ c.reserved[x] = b.reserved[x] + IF x = a THEN cash ELSE 0
       /\ c.posReserved[x] = b.posReserved[x] + IF x = a THEN lots ELSE 0
       /\ c.position[x] = b.position[x] + IF x = a THEN net ELSE 0
  /\ \A x \in c.entries : x \in b.entries \/ x.key \in keys

\* A ledger that does not move.
LEMMA BookStays ==
  ASSUME NEW b, BookShape(b), NEW a
  PROVE  BookMoves(b, b, a, 0, 0, 0, {})
BY DEF BookMoves, BookShape

\* Two moves of one account add up.
LEMMA BookMovesTwice ==
  ASSUME NEW b, BookShape(b), NEW c, NEW d, NEW a, NEW m \in Int, NEW l \in Int, NEW n \in Int,
         NEW m2 \in Int, NEW l2 \in Int, NEW n2 \in Int, NEW K, NEW K2,
         BookMoves(b, c, a, m, l, n, K), BookMoves(c, d, a, m2, l2, n2, K2)
  PROVE  BookMoves(b, d, a, m + m2, l + l2, n + n2, K \cup K2)
<1>1. BookShape(d)
  BY DEF BookMoves
<1>2. \A x \in d.entries : x \in b.entries \/ x.key \in K \cup K2
  BY Zenon DEF BookMoves
<1>3. ASSUME NEW x \in Accounts
      PROVE  /\ d.reserved[x] = b.reserved[x] + IF x = a THEN m + m2 ELSE 0
             /\ d.posReserved[x] = b.posReserved[x] + IF x = a THEN l + l2 ELSE 0
             /\ d.position[x] = b.position[x] + IF x = a THEN n + n2 ELSE 0
  <2>1. b.reserved[x] \in Int /\ b.posReserved[x] \in Int /\ b.position[x] \in Int
    BY DEF BookShape
  <2>2. /\ c.reserved[x] = b.reserved[x] + IF x = a THEN m ELSE 0
        /\ c.posReserved[x] = b.posReserved[x] + IF x = a THEN l ELSE 0
        /\ c.position[x] = b.position[x] + IF x = a THEN n ELSE 0
    BY DEF BookMoves
  <2>3. /\ d.reserved[x] = c.reserved[x] + IF x = a THEN m2 ELSE 0
        /\ d.posReserved[x] = c.posReserved[x] + IF x = a THEN l2 ELSE 0
        /\ d.position[x] = c.position[x] + IF x = a THEN n2 ELSE 0
    BY DEF BookMoves
  <2> QED BY <2>1, <2>2, <2>3
<1> QED BY <1>1, <1>2, <1>3 DEF BookMoves

\* A new entry moves the reserved cash of its customer.
LEMMA PostMoves ==
  ASSUME NEW b, BookShape(b), NEW a \in Accounts, NEW key, ~Posted(b, key), NEW m, NEW n \in Int,
         NEW f, NEW s, NEW t
  PROVE  BookMoves(b, Post(b, Entry(key, a, m, n, f, s, t)), a, n, 0, 0, {key})
<1> DEFINE e == Entry(key, a, m, n, f, s, t)
           c == Post(b, e)
<1>1. e.key = key /\ e.account = a /\ e.reserved = n
  BY DEF Entry
<1>2. c = [b EXCEPT !.entries = @ \cup {e}, !.cash[e.account] = @ + e.cash,
                    !.reserved[e.account] = @ + e.reserved, !.funding = @ + e.funding,
                    !.settlement = @ + e.settlement, !.fees = @ + e.fees]
  BY <1>1 DEF Post
<1> HIDE DEF c, e
<1>3. /\ DOMAIN c = BookFields /\ c.entries = b.entries \cup {e}
      /\ c.reserved = [b.reserved EXCEPT ![a] = @ + n]
      /\ c.position = b.position /\ c.posReserved = b.posReserved
  BY <1>1, <1>2 DEF BookShape, BookFields
<1>4. BookShape(c)
  BY <1>3 DEF BookShape
<1>5. BookMoves(b, c, a, n, 0, 0, {key})
  BY <1>1, <1>3, <1>4 DEF BookMoves, BookShape
<1> QED BY <1>5 DEF c, e

\* Reserve and Release move the reserve by the amount, when the key is new.
LEMMA ReserveMoves ==
  ASSUME NEW b, BookShape(b), NEW a \in Accounts, NEW key, ~Posted(b, key), NEW n \in Int
  PROVE  /\ BookMoves(b, Reserve(b, a, n, key), a, n, 0, 0, {key})
         /\ BookMoves(b, Release(b, a, n, key), a, -n, 0, 0, {key})
<1>1. -n \in Int
  OBVIOUS
<1> QED BY <1>1, PostMoves, Zenon DEF Reserve, Release

\* ReservePosition and ReleasePosition move the reserved lots.
LEMMA PositionMoves ==
  ASSUME NEW b, BookShape(b), NEW a \in Accounts, NEW n \in Int
  PROVE  /\ BookMoves(b, ReservePosition(b, a, n), a, 0, n, 0, {})
         /\ BookMoves(b, ReleasePosition(b, a, n), a, 0, -n, 0, {})
<1>1. BookMoves(b, ReservePosition(b, a, n), a, 0, n, 0, {})
  <2> DEFINE c == ReservePosition(b, a, n)
  <2>1. /\ DOMAIN c = BookFields /\ c.entries = b.entries /\ c.reserved = b.reserved
        /\ c.position = b.position /\ c.posReserved = [b.posReserved EXCEPT ![a] = @ + n]
    BY DEF ReservePosition, BookShape, BookFields
  <2> HIDE DEF c
  <2>2. BookMoves(b, c, a, 0, n, 0, {})
    BY <2>1 DEF BookMoves, BookShape
  <2> QED BY <2>2 DEF c
<1>2. BookMoves(b, ReleasePosition(b, a, n), a, 0, -n, 0, {})
  <2> DEFINE c == ReleasePosition(b, a, n)
  <2>1. /\ DOMAIN c = BookFields /\ c.entries = b.entries /\ c.reserved = b.reserved
        /\ c.position = b.position /\ c.posReserved = [b.posReserved EXCEPT ![a] = @ - n]
    BY DEF ReleasePosition, BookShape, BookFields
  <2> HIDE DEF c
  <2>2. BookMoves(b, c, a, 0, -n, 0, {})
    BY <2>1 DEF BookMoves, BookShape
  <2> QED BY <2>2 DEF c
<1> QED BY <1>1, <1>2

\* Settling a fill moves the reserve, the reserved lots and the position together.
LEMMA SettleMoves ==
  ASSUME NEW b, BookShape(b), NEW a \in Accounts, NEW key, ~Posted(b, key), NEW n \in Int,
         NEW q \in Int
  PROVE  /\ BookMoves(b, SettleBuy(b, a, q, n, 0, key), a, -n, 0, q, {key})
         /\ BookMoves(b, SettleSell(b, a, q, n, 0, key), a, 0, -q, -q, {key})
<1>1. BookMoves(b, SettleBuy(b, a, q, n, 0, key), a, -n, 0, q, {key})
  <2> DEFINE c == Post(b, Entry(key, a, -0, -n, 0, n, 0))
             d == [c EXCEPT !.position[a] = @ + q]
  <2>1. BookMoves(b, c, a, -n, 0, 0, {key})
    <3>1. -n \in Int
      OBVIOUS
    <3> QED BY <3>1, PostMoves
  <2>2. SettleBuy(b, a, q, n, 0, key) = d
    BY DEF SettleBuy
  <2> HIDE DEF c
  <2>3. /\ DOMAIN d = BookFields /\ d.entries = c.entries /\ d.reserved = c.reserved
        /\ d.posReserved = c.posReserved /\ d.position = [c.position EXCEPT ![a] = @ + q]
    BY <2>1 DEF BookMoves, BookShape, BookFields
  <2> HIDE DEF d
  <2>4. BookMoves(b, d, a, -n, 0, q, {key})
    BY <2>1, <2>3 DEF BookMoves, BookShape
  <2> QED BY <2>2, <2>4
<1>2. BookMoves(b, SettleSell(b, a, q, n, 0, key), a, 0, -q, -q, {key})
  <2> DEFINE c == Post(b, SellEntry(a, n, 0, key))
             d == [c EXCEPT !.position[a] = @ - q, !.posReserved[a] = @ - q]
  <2>1. BookMoves(b, c, a, 0, 0, 0, {key})
    BY PostMoves DEF SellEntry
  <2>2. SettleSell(b, a, q, n, 0, key) = d
    BY DEF SettleSell
  <2> HIDE DEF c
  <2>3. /\ DOMAIN d = BookFields /\ d.entries = c.entries /\ d.reserved = c.reserved
        /\ d.posReserved = [c.posReserved EXCEPT ![a] = @ - q]
        /\ d.position = [c.position EXCEPT ![a] = @ - q]
    BY <2>1 DEF BookMoves, BookShape, BookFields
  <2> HIDE DEF d
  <2>4. BookMoves(b, d, a, 0, -q, -q, {key})
    BY <2>1, <2>3 DEF BookMoves, BookShape
  <2> QED BY <2>2, <2>4
<1> QED BY <1>1, <1>2

-----------------------------------------------------------------------------
(* What a report does to reserves and book.                                *)

\* x is e with the reserve of id set to cash and lots, and the book moved with it;
\* the position moves by net.
Effect(e, x, id, cash, lots, net, keys) ==
  /\ DOMAIN x = EngFields
  /\ x.orders = e.orders /\ x.byClient = e.byClient /\ x.nextId = e.nextId
  /\ x.venue = e.venue /\ x.kill = e.kill /\ x.session = e.session /\ x.nextSeq = e.nextSeq
  /\ SetsTo(e.remCash, x.remCash, DOMAIN e.orders, id, cash)
  /\ SetsTo(e.remLots, x.remLots, DOMAIN e.orders, id, lots)
  /\ BookMoves(e.book, x.book, e.orders[id].account, cash - GetOrZero(e.remCash, id),
               lots - GetOrZero(e.remLots, id), net, keys)

\* What an effect needs to know of the engine.
Ready(e, id) ==
  /\ DOMAIN e = EngFields /\ id \in DOMAIN e.orders /\ e.orders[id].account \in Accounts
  /\ BookShape(e.book)
  /\ PositiveOn(e.remCash, DOMAIN e.orders) /\ PositiveOn(e.remLots, DOMAIN e.orders)
  /\ GetOrZero(e.remCash, id) <= e.book.reserved[e.orders[id].account]
  /\ GetOrZero(e.remLots, id) <= e.book.posReserved[e.orders[id].account]
  /\ e.book.posReserved[e.orders[id].account] <= e.book.position[e.orders[id].account]

\* What a ready order holds back is a natural.
LEMMA ReadyNat ==
  ASSUME NEW e, NEW id, Ready(e, id)
  PROVE  GetOrZero(e.remCash, id) \in Nat /\ GetOrZero(e.remLots, id) \in Nat
BY ReserveNat DEF Ready

\* No effect.
LEMMA EffectStays ==
  ASSUME NEW e, NEW id, Ready(e, id)
  PROVE  Effect(e, e, id, GetOrZero(e.remCash, id), GetOrZero(e.remLots, id), 0, {})
<1> DEFINE c == GetOrZero(e.remCash, id)
           l == GetOrZero(e.remLots, id)
<1>1. c \in Nat /\ l \in Nat
  BY ReadyNat
<1>2. SetsTo(e.remCash, e.remCash, DOMAIN e.orders, id, c) /\ SetsTo(e.remLots, e.remLots, DOMAIN e.orders, id, l)
  BY DEF SetsTo, Ready
<1> HIDE DEF c, l
<1>3. c - c = 0 /\ l - l = 0
  BY <1>1
<1>4. BookMoves(e.book, e.book, e.orders[id].account, c - c, l - l, 0, {})
  BY <1>3, BookStays DEF Ready
<1> QED BY <1>2, <1>4 DEF Effect, Ready, c, l

\* An effect that changes the map of cash, or of lots, and the book with it.
LEMMA CashEffect ==
  ASSUME NEW e, NEW id, Ready(e, id), NEW f, NEW b, NEW cash \in Nat, NEW net, NEW keys,
         SetsTo(e.remCash, f, DOMAIN e.orders, id, cash),
         BookMoves(e.book, b, e.orders[id].account, cash - GetOrZero(e.remCash, id), 0, net, keys)
  PROVE  Effect(e, [e EXCEPT !.book = b, !.remCash = f], id, cash, GetOrZero(e.remLots, id), net, keys)
<1> DEFINE x == [e EXCEPT !.book = b, !.remCash = f]
           l == GetOrZero(e.remLots, id)
<1>1. /\ DOMAIN x = EngFields
      /\ x.orders = e.orders /\ x.byClient = e.byClient /\ x.nextId = e.nextId
      /\ x.venue = e.venue /\ x.kill = e.kill /\ x.session = e.session /\ x.nextSeq = e.nextSeq
      /\ x.book = b /\ x.remCash = f /\ x.remLots = e.remLots
  BY DEF Ready, EngFields
<1> HIDE DEF x
<1>2. l \in Nat
  BY ReadyNat
<1>3. SetsTo(e.remLots, e.remLots, DOMAIN e.orders, id, l)
  BY DEF SetsTo, Ready
<1> HIDE DEF l
<1>4. l - l = 0
  BY <1>2
<1>5. BookMoves(e.book, b, e.orders[id].account, cash - GetOrZero(e.remCash, id), l - l, net, keys)
  BY <1>4
<1>6. Effect(e, x, id, cash, l, net, keys)
  BY <1>1, <1>3, <1>5 DEF Effect, l
<1> QED BY <1>6 DEF x, l

\* An effect on the lots an order holds back, with the ledger moved to match.
LEMMA LotsEffect ==
  ASSUME NEW e, NEW id, Ready(e, id), NEW f, NEW b, NEW lots \in Nat, NEW net, NEW keys,
         SetsTo(e.remLots, f, DOMAIN e.orders, id, lots),
         BookMoves(e.book, b, e.orders[id].account, 0, lots - GetOrZero(e.remLots, id), net, keys)
  PROVE  Effect(e, [e EXCEPT !.book = b, !.remLots = f], id, GetOrZero(e.remCash, id), lots, net, keys)
<1> DEFINE x == [e EXCEPT !.book = b, !.remLots = f]
           c == GetOrZero(e.remCash, id)
<1>1. /\ DOMAIN x = EngFields
      /\ x.orders = e.orders /\ x.byClient = e.byClient /\ x.nextId = e.nextId
      /\ x.venue = e.venue /\ x.kill = e.kill /\ x.session = e.session /\ x.nextSeq = e.nextSeq
      /\ x.book = b /\ x.remLots = f /\ x.remCash = e.remCash
  BY DEF Ready, EngFields
<1> HIDE DEF x
<1>2. c \in Nat
  BY ReadyNat
<1>3. SetsTo(e.remCash, e.remCash, DOMAIN e.orders, id, c)
  BY DEF SetsTo, Ready
<1> HIDE DEF c
<1>4. c - c = 0
  BY <1>2
<1>5. BookMoves(e.book, b, e.orders[id].account, c - c, lots - GetOrZero(e.remLots, id), net, keys)
  BY <1>4
<1>6. Effect(e, x, id, c, lots, net, keys)
  BY <1>1, <1>3, <1>5 DEF Effect, c
<1> QED BY <1>6 DEF x, c

\* After an effect the order holds back what the effect says.
LEMMA EffectNat ==
  ASSUME NEW e, NEW x, NEW id, Ready(e, id), NEW c, NEW l, NEW n, NEW K, Effect(e, x, id, c, l, n, K)
  PROVE  GetOrZero(x.remCash, id) = c /\ GetOrZero(x.remLots, id) = l
BY DEF Effect, SetsTo, Ready

\* Two effects on one order add up.
LEMMA EffectTwice ==
  ASSUME NEW e, NEW x, NEW y, NEW id, Ready(e, id), NEW c \in Nat, NEW l \in Nat, NEW n \in Int,
         NEW d \in Nat, NEW m \in Nat, NEW o \in Int, NEW K, NEW L,
         Effect(e, x, id, c, l, n, K), Effect(x, y, id, d, m, o, L)
  PROVE  Effect(e, y, id, d, m, n + o, K \cup L)
<1> DEFINE c0 == GetOrZero(e.remCash, id)
           l0 == GetOrZero(e.remLots, id)
           a  == e.orders[id].account
<1>1. c0 \in Nat /\ l0 \in Nat /\ BookShape(e.book)
  BY ReadyNat DEF Ready
<1>2. /\ BookMoves(e.book, x.book, a, c - c0, l - l0, n, K)
      /\ BookMoves(x.book, y.book, a, d - c, m - l, o, L)
  BY EffectNat DEF Effect
<1>3. /\ SetsTo(e.remCash, y.remCash, DOMAIN e.orders, id, d)
      /\ SetsTo(e.remLots, y.remLots, DOMAIN e.orders, id, m)
  BY SetsTwice DEF Effect
<1> HIDE DEF c0, l0, a
<1>4. BookMoves(e.book, y.book, a, (c - c0) + (d - c), (l - l0) + (m - l), n + o, K \cup L)
  BY <1>1, <1>2, BookMovesTwice
<1>5. (c - c0) + (d - c) = d - c0 /\ (l - l0) + (m - l) = m - l0
  BY <1>1
<1>6. BookMoves(e.book, y.book, a, d - c0, m - l0, n + o, K \cup L)
  BY <1>4, <1>5
<1> QED BY <1>3, <1>6 DEF Effect, c0, l0, a

\* release_remaining.
LEMMA ReleaseEffect ==
  ASSUME NEW e, NEW id, Ready(e, id), ~Posted(e.book, Key("rel", e.orders[id].account, id))
  PROVE  /\ ReleaseRemaining(e, id).err = "none"
         /\ Effect(e, ReleaseRemaining(e, id).eng, id, 0, 0, 0, {Key("rel", e.orders[id].account, id)})
<1> DEFINE a     == e.orders[id].account
           cash  == GetOrZero(e.remCash, id)
           lots  == GetOrZero(e.remLots, id)
           key   == Key("rel", a, id)
           noMap == [e EXCEPT !.remCash = Drop(@, id)]
           paid  == IF cash = 0 THEN noMap ELSE [noMap EXCEPT !.book = Release(@, a, cash, key)]
           free  == [paid EXCEPT !.remLots = Drop(@, id)]
           last  == [free EXCEPT !.book = ReleasePosition(@, a, lots)]
           b1    == IF cash = 0 THEN e.book ELSE Release(e.book, a, cash, key)
           paid1 == [e EXCEPT !.book = b1, !.remCash = Drop(e.remCash, id)]
           b2    == IF lots = 0 THEN paid1.book ELSE ReleasePosition(paid1.book, a, lots)
           last1 == [paid1 EXCEPT !.book = b2, !.remLots = Drop(paid1.remLots, id)]
<1>1. cash \in Nat /\ lots \in Nat /\ a \in Accounts /\ BookShape(e.book) /\ ~Posted(e.book, key)
  BY ReadyNat DEF Ready
<1>2. cash # 0 => ReleaseError(e.book, a, cash) = "none"
  <2>1. cash <= e.book.reserved[a] /\ e.book.reserved[a] \in Int
    BY <1>1 DEF Ready, BookShape
  <2> HIDE DEF cash, a
  <2> QED BY <1>1, <2>1 DEF ReleaseError
<1>3. ReleaseRemaining(e, id) =
        IF cash # 0 /\ ReleaseError(e.book, a, cash) # "none" THEN Fail(noMap, "Ledger")
        ELSE IF lots <= 0 THEN Ok(free)
        ELSE IF ReleasePositionError(free.book, a, lots) # "none" THEN Fail(free, "Ledger")
        ELSE Ok(last)
  BY DEF ReleaseRemaining
<1>4. paid = paid1
  BY DEF Ready, EngFields
<1>5. /\ lots = 0 => free = last1
      /\ lots # 0 => last = last1
  <2>1. free = [paid1 EXCEPT !.remLots = Drop(paid1.remLots, id)]
    BY <1>4
  <2>2. DOMAIN paid1 = EngFields
    BY DEF Ready
  <2>3. ASSUME lots = 0 PROVE free = last1
    <3>1. b2 = paid1.book
      BY <2>3
    <3> HIDE DEF paid1, free, last, b2, lots
    <3>2. last1 = [paid1 EXCEPT !.book = b2, !.remLots = Drop(paid1.remLots, id)]
      OBVIOUS
    <3> QED BY <2>1, <2>2, <3>1 DEF EngFields
  <2>4. ASSUME lots # 0 PROVE last = last1
    <3>1. b2 = ReleasePosition(paid1.book, a, lots)
      BY <2>4
    <3>2. last = [free EXCEPT !.book = ReleasePosition(free.book, a, lots)]
      OBVIOUS
    <3> HIDE DEF paid1, free, last, b2, lots
    <3>3. free.book = paid1.book
      BY <2>1, <2>2 DEF EngFields
    <3> QED BY <2>1, <2>2, <3>1, <3>2, <3>3 DEF EngFields
  <2> QED BY <2>3, <2>4
<1>6. BookMoves(e.book, b1, a, 0 - cash, 0, 0, {key})
  <2>1. CASE cash = 0
    <3>1. BookMoves(e.book, e.book, a, 0, 0, 0, {})
      BY <1>1, BookStays
    <3> QED BY <2>1, <3>1 DEF BookMoves
  <2>2. CASE cash # 0
    <3>1. BookMoves(e.book, Release(e.book, a, cash, key), a, -cash, 0, 0, {key})
      BY <1>1, ReserveMoves
    <3>2. -cash = 0 - cash
      BY <1>1
    <3> QED BY <2>2, <3>1, <3>2
  <2> QED BY <2>1, <2>2
<1>7. Effect(e, paid1, id, 0, lots, 0, {key})
  <2>1. SetsTo(e.remCash, Drop(e.remCash, id), DOMAIN e.orders, id, 0)
    BY MapSets DEF Ready
  <2> HIDE DEF b1, key
  <2> QED BY <1>6, <2>1, CashEffect, Zenon
<1>8. paid1.book = b1 /\ paid1.remLots = e.remLots /\ DOMAIN paid1 = EngFields /\ paid1.orders = e.orders
  BY DEF Ready, EngFields
<1>9. Ready(paid1, id)
  <2> HIDE DEF paid1, b1
  <2>1. BookShape(b1) /\ b1.posReserved[a] = e.book.posReserved[a] /\ b1.position[a] = e.book.position[a]
        /\ b1.reserved[a] = e.book.reserved[a] - cash
    <3>1. /\ BookShape(b1)
          /\ b1.reserved[a] = e.book.reserved[a] + (0 - cash)
          /\ b1.posReserved[a] = e.book.posReserved[a] + 0
          /\ b1.position[a] = e.book.position[a] + 0
      BY <1>1, <1>6 DEF BookMoves
    <3> QED BY <1>1, <3>1 DEF BookShape
  <2>2. GetOrZero(paid1.remCash, id) = 0 /\ GetOrZero(paid1.remLots, id) = lots
    BY <1>7, EffectNat
  <2>3. PositiveOn(paid1.remCash, DOMAIN e.orders) /\ PositiveOn(paid1.remLots, DOMAIN e.orders)
    BY <1>7 DEF Effect, SetsTo
  <2>4. 0 <= b1.reserved[a]
    BY <1>1, <2>1 DEF Ready, BookShape
  <2> QED BY <1>1, <1>8, <2>1, <2>2, <2>3, <2>4 DEF Ready
<1>10. lots # 0 => ReleasePositionError(free.book, a, lots) = "none"
  <2>1. free.book = paid1.book
    BY <1>4, <1>8 DEF EngFields
  <2>2. b1.posReserved[a] = e.book.posReserved[a] + 0
    BY <1>1, <1>6 DEF BookMoves
  <2>3. lots <= b1.posReserved[a] /\ b1.posReserved[a] \in Int
    BY <1>1, <2>2 DEF Ready, BookShape
  <2>4. free.book.posReserved = b1.posReserved
    BY <1>8, <2>1
  <2> HIDE DEF free, paid1, b1, lots, a
  <2> QED BY <1>1, <2>3, <2>4 DEF ReleasePositionError
<1>11. Effect(paid1, last1, id, 0, 0, 0, {})
  <2>1. BookMoves(paid1.book, b2, a, 0, 0 - lots, 0, {})
    <3>1. BookShape(paid1.book)
      BY <1>9 DEF Ready
    <3>2. CASE lots = 0
      BY <3>1, <3>2, BookStays
    <3>3. CASE lots # 0
      <4>1. -lots = 0 - lots
        BY <1>1
      <4>2. BookMoves(paid1.book, ReleasePosition(paid1.book, a, lots), a, 0, -lots, 0, {})
        <5> HIDE DEF paid1, lots
        <5> QED BY <1>1, <3>1, PositionMoves
      <4> QED BY <3>3, <4>1, <4>2
    <3> QED BY <3>2, <3>3
  <2>2. SetsTo(paid1.remLots, Drop(paid1.remLots, id), DOMAIN paid1.orders, id, 0)
    <3> HIDE DEF paid1
    <3> QED BY <1>9, MapSets DEF Ready
  <2>3. GetOrZero(paid1.remLots, id) = lots /\ GetOrZero(paid1.remCash, id) = 0
    <3> HIDE DEF paid1, lots, key
    <3> QED BY <1>7, EffectNat
  <2>4. paid1.orders[id].account = a
    BY <1>8
  <2> HIDE DEF paid1, b2, a, lots
  <2>5. BookMoves(paid1.book, b2, paid1.orders[id].account, 0, 0 - GetOrZero(paid1.remLots, id), 0, {})
    BY <2>1, <2>3, <2>4
  <2>6. Effect(paid1, last1, id, GetOrZero(paid1.remCash, id), 0, 0, {})
    <3> HIDE DEF last1
    <3>1. [paid1 EXCEPT !.book = b2, !.remLots = Drop(paid1.remLots, id)] = last1
      BY DEF last1
    <3>2. Effect(paid1, [paid1 EXCEPT !.book = b2, !.remLots = Drop(paid1.remLots, id)], id, GetOrZero(paid1.remCash, id), 0, 0, {})
      BY <1>9, <2>2, <2>5, LotsEffect, Zenon
    <3> QED BY <3>1, <3>2
  <2> QED BY <2>3, <2>6
<1>12. Effect(e, last1, id, 0, 0, 0, {key})
  <2>1. {key} \cup {} = {key} /\ 0 + 0 = 0
    OBVIOUS
  <2> HIDE DEF paid1, last1, key
  <2>2. Effect(e, last1, id, 0, 0, 0 + 0, {key} \cup {})
    BY <1>1, <1>7, <1>11, EffectTwice
  <2> QED BY <2>1, <2>2
<1>13. ReleaseRemaining(e, id) = Ok(last1)
  <2> HIDE DEF last1, free, last, noMap, cash, lots
  <2> QED BY <1>1, <1>2, <1>3, <1>5, <1>10
<1> HIDE DEF last1, key
<1>14. ReleaseRemaining(e, id).err = "none" /\ ReleaseRemaining(e, id).eng = last1
  BY <1>13 DEF Ok
<1> QED BY <1>12, <1>14 DEF key

\* After an effect that reserves no more lots than it brings in, the order is ready again.
LEMMA EffectReady ==
  ASSUME NEW e, NEW x, NEW id, Ready(e, id), NEW c \in Nat, NEW l \in Nat, NEW n \in Int, NEW K,
         Effect(e, x, id, c, l, n, K), l - GetOrZero(e.remLots, id) <= n
  PROVE  /\ Ready(x, id)
         /\ \A key : ~Posted(e.book, key) /\ key \notin K => ~Posted(x.book, key)
<1> DEFINE a  == e.orders[id].account
           c0 == GetOrZero(e.remCash, id)
           l0 == GetOrZero(e.remLots, id)
<1>1. /\ c0 \in Nat /\ l0 \in Nat /\ a \in Accounts /\ BookShape(e.book)
      /\ c0 <= e.book.reserved[a] /\ l0 <= e.book.posReserved[a]
      /\ e.book.posReserved[a] <= e.book.position[a]
      /\ e.book.reserved[a] \in Int /\ e.book.posReserved[a] \in Int /\ e.book.position[a] \in Int
  BY ReadyNat DEF Ready, BookShape
<1>2. BookMoves(e.book, x.book, a, c - c0, l - l0, n, K) /\ x.orders = e.orders /\ DOMAIN x = EngFields
  BY DEF Effect
<1>3. PositiveOn(x.remCash, DOMAIN e.orders) /\ PositiveOn(x.remLots, DOMAIN e.orders)
  BY DEF Effect, SetsTo
<1>4. GetOrZero(x.remCash, id) = c /\ GetOrZero(x.remLots, id) = l
  BY EffectNat
<1>5. id \in DOMAIN e.orders
  BY DEF Ready
<1>6. /\ BookShape(x.book)
      /\ x.book.reserved[a] = e.book.reserved[a] + (c - c0)
      /\ x.book.posReserved[a] = e.book.posReserved[a] + (l - l0)
      /\ x.book.position[a] = e.book.position[a] + n
  <2> HIDE DEF a, c0, l0
  <2> QED BY <1>1, <1>2 DEF BookMoves
<1>7. /\ c <= x.book.reserved[a] /\ l <= x.book.posReserved[a]
      /\ x.book.posReserved[a] <= x.book.position[a]
  <2>1. l - l0 <= n
    OBVIOUS
  <2> HIDE DEF a, c0, l0
  <2> QED BY <1>1, <1>6, <2>1
<1>8. Ready(x, id)
  BY <1>1, <1>2, <1>3, <1>4, <1>5, <1>6, <1>7 DEF Ready
<1>9. \A key : ~Posted(e.book, key) /\ key \notin K => ~Posted(x.book, key)
  BY <1>2 DEF BookMoves, Posted
<1> QED BY <1>8, <1>9

\* A product of positive naturals is positive.
LEMMA TimesPositive ==
  ASSUME NEW p \in Nat \ {0}, NEW q \in Nat \ {0}
  PROVE  p * q \in Nat \ {0}
BY SMT

\* The fill of a trade, before a filled order gives back what it holds.
LEMMA FillEffect ==
  ASSUME NEW e, NEW id, Ready(e, id), NEW q \in Nat \ {0}, NEW n \in Nat \ {0}, NEW key,
         ~Posted(e.book, key)
  PROVE  LET a == e.orders[id].account
             c == GetOrZero(e.remCash, id)
             l == GetOrZero(e.remLots, id)
         IN  /\ n <= c => /\ SettleBuyError(e.book, a, q, n, 0) = "none"
                          /\ Effect(e, [e EXCEPT !.book = SettleBuy(e.book, a, q, n, 0, key),
                                                 !.remCash = PutUnlessZero(e.remCash, id, c - n)],
                                    id, c - n, l, q, {key})
             /\ q <= l => /\ SettleSellError(e.book, a, q, n, 0, key) = "none"
                          /\ Effect(e, [e EXCEPT !.book = SettleSell(e.book, a, q, n, 0, key),
                                                 !.remLots = PutUnlessZero(e.remLots, id, l - q)],
                                    id, c, l - q, -q, {key})
<1> DEFINE a == e.orders[id].account
           c == GetOrZero(e.remCash, id)
           l == GetOrZero(e.remLots, id)
<1>1. /\ c \in Nat /\ l \in Nat /\ a \in Accounts /\ BookShape(e.book)
      /\ c <= e.book.reserved[a] /\ l <= e.book.posReserved[a]
      /\ e.book.posReserved[a] <= e.book.position[a]
      /\ e.book.reserved[a] \in Int /\ e.book.posReserved[a] \in Int /\ e.book.position[a] \in Int
  BY ReadyNat DEF Ready, BookShape
<1>2. ASSUME n <= c
      PROVE  /\ SettleBuyError(e.book, a, q, n, 0) = "none"
             /\ Effect(e, [e EXCEPT !.book = SettleBuy(e.book, a, q, n, 0, key),
                                    !.remCash = PutUnlessZero(e.remCash, id, c - n)],
                       id, c - n, l, q, {key})
  <2>1. SettleBuyError(e.book, a, q, n, 0) = "none"
    <3> HIDE DEF a, c, l
    <3> QED BY <1>1, <1>2 DEF SettleBuyError
  <2>2. c - n \in Nat /\ (c - n) - c = -n
    <3> HIDE DEF a, c, l
    <3> QED BY <1>1, <1>2
  <2>3. BookMoves(e.book, SettleBuy(e.book, a, q, n, 0, key), a, -n, 0, q, {key})
    <3> HIDE DEF a, c, l
    <3> QED BY <1>1, SettleMoves
  <2>4. SetsTo(e.remCash, PutUnlessZero(e.remCash, id, c - n), DOMAIN e.orders, id, c - n)
    <3> HIDE DEF a, c, l
    <3> QED BY <2>2, MapSets DEF Ready
  <2>5. BookMoves(e.book, SettleBuy(e.book, a, q, n, 0, key), a, (c - n) - c, 0, q, {key})
    BY <2>2, <2>3
  <2>6. Effect(e, [e EXCEPT !.book = SettleBuy(e.book, a, q, n, 0, key),
                            !.remCash = PutUnlessZero(e.remCash, id, c - n)],
               id, c - n, l, q, {key})
    BY <2>2, <2>4, <2>5, CashEffect, Zenon
  <2> QED BY <2>1, <2>6
<1>3. ASSUME q <= l
      PROVE  /\ SettleSellError(e.book, a, q, n, 0, key) = "none"
             /\ Effect(e, [e EXCEPT !.book = SettleSell(e.book, a, q, n, 0, key),
                                    !.remLots = PutUnlessZero(e.remLots, id, l - q)],
                       id, c, l - q, -q, {key})
  <2>1. SettleSellError(e.book, a, q, n, 0, key) = "none"
    <3>1. Balanced(SellEntry(a, n, 0, key))
      BY DEF Balanced, SellEntry, Entry
    <3>2. q <= e.book.posReserved[a] /\ q <= e.book.position[a]
      <4> HIDE DEF a, c, l
      <4> QED BY <1>1, <1>3
    <3> HIDE DEF a, c, l
    <3> QED BY <1>1, <3>1, <3>2 DEF SettleSellError
  <2>2. l - q \in Nat /\ (l - q) - l = -q /\ -q \in Int
    <3> HIDE DEF a, c, l
    <3> QED BY <1>1, <1>3
  <2>3. BookMoves(e.book, SettleSell(e.book, a, q, n, 0, key), a, 0, -q, -q, {key})
    <3> HIDE DEF a, c, l
    <3> QED BY <1>1, SettleMoves
  <2>4. SetsTo(e.remLots, PutUnlessZero(e.remLots, id, l - q), DOMAIN e.orders, id, l - q)
    <3> HIDE DEF a, c, l
    <3> QED BY <2>2, MapSets DEF Ready
  <2>5. BookMoves(e.book, SettleSell(e.book, a, q, n, 0, key), a, 0, (l - q) - l, -q, {key})
    BY <2>2, <2>3
  <2>6. Effect(e, [e EXCEPT !.book = SettleSell(e.book, a, q, n, 0, key),
                            !.remLots = PutUnlessZero(e.remLots, id, l - q)],
               id, c, l - q, -q, {key})
    BY <2>2, <2>4, <2>5, LotsEffect, Zenon
  <2> QED BY <2>1, <2>6
<1> QED BY <1>2, <1>3

\* The Trade arm of apply_effects, on an engine whose OMS has booked the trade.
LEMMA TradeEffect ==
  ASSUME NEW e, NEW id, Ready(e, id), NEW ev, ev.qty \in Nat \ {0}, ev.price \in Nat \ {0},
         e.orders[id].side \in Sides,
         ~Posted(e.book, FillKey(ev.exec)),
         e.orders[id].status = "Filled" => ~Posted(e.book, Key("rel", e.orders[id].account, id)),
         e.orders[id].side = "Buy" => ev.price * ev.qty <= GetOrZero(e.remCash, id),
         e.orders[id].side = "Sell" => ev.qty <= GetOrZero(e.remLots, id)
  PROVE  LET o == e.orders[id]
             c == GetOrZero(e.remCash, id)
             l == GetOrZero(e.remLots, id)
             r == SettleTrade(e, id, ev)
         IN  /\ r.err = "none"
             /\ o.side = "Buy" /\ o.status # "Filled" =>
                  Effect(e, r.eng, id, c - ev.price * ev.qty, l, ev.qty, {FillKey(ev.exec)})
             /\ o.side = "Sell" /\ o.status # "Filled" =>
                  Effect(e, r.eng, id, c, l - ev.qty, -ev.qty, {FillKey(ev.exec)})
             /\ o.status = "Filled" =>
                  Effect(e, r.eng, id, 0, 0, IF o.side = "Buy" THEN ev.qty ELSE -ev.qty,
                         {FillKey(ev.exec), Key("rel", o.account, id)})
<1> DEFINE o    == e.orders[id]
           a    == o.account
           n    == ev.price * ev.qty
           q    == ev.qty
           c    == GetOrZero(e.remCash, id)
           l    == GetOrZero(e.remLots, id)
           key  == FillKey(ev.exec)
           rel  == Key("rel", a, id)
           buy  == [e EXCEPT !.book = SettleBuy(e.book, a, q, n, 0, key),
                             !.remCash = PutUnlessZero(e.remCash, id, c - n)]
           sell == [e EXCEPT !.book = SettleSell(e.book, a, q, n, 0, key),
                             !.remLots = PutUnlessZero(e.remLots, id, l - q)]
           r    == SettleTrade(e, id, ev)
<1>1. n \in Nat \ {0}
  BY TimesPositive
<1>2. c \in Nat /\ l \in Nat
  BY ReadyNat
<1>3. a \in Accounts
  BY DEF Ready
<1>4. rel # key
  BY DEF Key, FillKey
\* What follows the fill, whichever map it took from.
<1>5. ASSUME NEW x, NEW c1 \in Nat, NEW l1 \in Nat, NEW net \in Int, Effect(e, x, id, c1, l1, net, {key}),
             l1 - l <= net
      PROVE  /\ AfterFill(x, id).err = "none"
             /\ o.status # "Filled" => AfterFill(x, id).eng = x
             /\ o.status = "Filled" => Effect(e, AfterFill(x, id).eng, id, 0, 0, net, {key, rel})
  <2>1. Ready(x, id) /\ (o.status = "Filled" => ~Posted(x.book, rel))
    <3> HIDE DEF key, rel
    <3>1. Ready(x, id) /\ \A k : ~Posted(e.book, k) /\ k \notin {key} => ~Posted(x.book, k)
      BY <1>5, EffectReady DEF l
    <3>2. o.status = "Filled" => ~Posted(e.book, rel)
      BY DEF rel
    <3> QED BY <1>4, <3>1, <3>2
  <2>2. x.orders[id] = o
    BY <1>5 DEF Effect
  <2>3. CASE o.status # "Filled"
    BY <2>2, <2>3 DEF AfterFill, Ok
  <2>4. CASE o.status = "Filled"
    <3> DEFINE y == ReleaseRemaining(x, id).eng
    <3>1. AfterFill(x, id) = ReleaseRemaining(x, id)
      BY <2>2, <2>4 DEF AfterFill
    <3>2. ReleaseRemaining(x, id).err = "none" /\ Effect(x, y, id, 0, 0, 0, {rel})
      <4>1. ~Posted(x.book, Key("rel", x.orders[id].account, id))
        BY <2>1, <2>2, <2>4
      <4>2. /\ ReleaseRemaining(x, id).err = "none"
            /\ Effect(x, y, id, 0, 0, 0, {Key("rel", x.orders[id].account, id)})
        BY <2>1, <4>1, ReleaseEffect
      <4> QED BY <2>2, <4>2
    <3> HIDE DEF y, key, rel
    <3>3. Effect(e, y, id, 0, 0, net + 0, {key} \cup {rel})
      BY <1>5, <3>2, EffectTwice
    <3>4. net + 0 = net /\ {key} \cup {rel} = {key, rel}
      BY <1>5
    <3>5. Effect(e, y, id, 0, 0, net, {key, rel})
      BY <3>3, <3>4
    <3> QED BY <2>4, <3>1, <3>2, <3>5 DEF y
  <2> QED BY <2>3, <2>4
<1>6. CASE o.side = "Buy"
  <2>1. n <= c
    BY <1>6
  <2>2. SettleBuyError(e.book, a, q, n, 0) = "none" /\ Effect(e, buy, id, c - n, l, q, {key})
    BY <1>1, <2>1, FillEffect, Zenon
  <2>3. c - n \in Nat /\ l - l <= q
    <3> HIDE DEF c, l, n
    <3> QED BY <1>1, <1>2, <2>1
  <2>4. r = AfterFill(buy, id)
    <3>1. [e EXCEPT !.book = SettleBuy(@, o.account, ev.qty, n, 0, key),
                    !.remCash = PutUnlessZero(@, id, GetOrZero(@, id) - n)] = buy
      OBVIOUS
    <3>2. ~(GetOrZero(e.remCash, id) < n)
      <4> HIDE DEF n
      <4> QED BY <1>1, <1>2, <2>1
    <3> HIDE DEF buy, n, key
    <3> QED BY <1>6, <2>2, <3>1, <3>2 DEF SettleTrade, n, key
  <2> HIDE DEF buy, key, rel, n, r
  <2>5. /\ AfterFill(buy, id).err = "none"
        /\ o.status # "Filled" => AfterFill(buy, id).eng = buy
        /\ o.status = "Filled" => Effect(e, AfterFill(buy, id).eng, id, 0, 0, q, {key, rel})
    <3>1. q \in Int
      OBVIOUS
    <3> HIDE DEF c, l, q
    <3> QED BY <1>2, <1>5, <2>2, <2>3, <3>1
  <2>6. /\ r.err = "none"
        /\ o.status # "Filled" => Effect(e, r.eng, id, c - n, l, q, {key})
        /\ o.status = "Filled" => Effect(e, r.eng, id, 0, 0, q, {key, rel})
    BY <2>2, <2>4, <2>5
  <2> QED BY <1>6, <2>6 DEF r, n, key, rel
<1>7. CASE o.side = "Sell"
  <2>1. q <= l
    BY <1>7
  <2>2. SettleSellError(e.book, a, q, n, 0, key) = "none" /\ Effect(e, sell, id, c, l - q, -q, {key})
    BY <1>1, <2>1, FillEffect, Zenon
  <2>3. l - q \in Nat /\ (l - q) - l <= -q /\ -q \in Int
    <3> HIDE DEF c, l
    <3> QED BY <1>2, <2>1
  <2>4. r = AfterFill(sell, id)
    <3>1. [e EXCEPT !.book = SettleSell(@, o.account, ev.qty, n, 0, key),
                    !.remLots = PutUnlessZero(@, id, GetOrZero(@, id) - ev.qty)] = sell
      OBVIOUS
    <3>2. ~(GetOrZero(e.remLots, id) < q)
      BY <1>2, <2>1
    <3> HIDE DEF sell, n, key
    <3> QED BY <1>7, <2>2, <3>1, <3>2 DEF SettleTrade, n, key
  <2> HIDE DEF sell, key, rel, n, r
  <2>5. /\ AfterFill(sell, id).err = "none"
        /\ o.status # "Filled" => AfterFill(sell, id).eng = sell
        /\ o.status = "Filled" => Effect(e, AfterFill(sell, id).eng, id, 0, 0, -q, {key, rel})
    BY <1>2, <1>5, <2>2, <2>3
  <2>6. /\ r.err = "none"
        /\ o.status # "Filled" => Effect(e, r.eng, id, c, l - q, -q, {key})
        /\ o.status = "Filled" => Effect(e, r.eng, id, 0, 0, -q, {key, rel})
    BY <2>2, <2>4, <2>5
  <2> QED BY <1>7, <2>6 DEF r, n, key, rel
<1> QED BY <1>6, <1>7 DEF Sides

\* The Replaced arm of apply_effects, on an engine whose OMS has replaced the order.
LEMMA ReplaceEffect ==
  ASSUME NEW e, NEW id, Ready(e, id), NEW ev, ev.price \in Nat \ {0},
         e.orders[id].side \in Sides, e.orders[id].leaves \in Nat,
         ~Posted(e.book, Key("rel-repl", e.orders[id].account, id)),
         e.orders[id].side = "Buy" => /\ e.orders[id].leaves > 0
                                      /\ ev.price * e.orders[id].leaves <= GetOrZero(e.remCash, id),
         e.orders[id].side = "Sell" => e.orders[id].leaves <= GetOrZero(e.remLots, id)
  PROVE  LET o == e.orders[id]
             r == SettleReplace(e, id, ev)
             K == {Key("rel-repl", o.account, id)}
         IN  /\ r.err = "none"
             /\ o.side = "Buy" =>
                  Effect(e, r.eng, id, ev.price * o.leaves, GetOrZero(e.remLots, id), 0, K)
             /\ o.side = "Sell" =>
                  Effect(e, r.eng, id, GetOrZero(e.remCash, id), o.leaves, 0, K)
<1> DEFINE o    == e.orders[id]
           a    == o.account
           t    == ev.price * o.leaves
           c    == GetOrZero(e.remCash, id)
           l    == GetOrZero(e.remLots, id)
           key  == Key("rel-repl", a, id)
           r    == SettleReplace(e, id, ev)
           bBuy == IF c - t > 0 THEN Release(e.book, a, c - t, key) ELSE e.book
           bSell == IF l - o.leaves > 0 THEN ReleasePosition(e.book, a, l - o.leaves) ELSE e.book
           buy  == [e EXCEPT !.book = bBuy, !.remCash = PutUnlessZero(e.remCash, id, t)]
           sell == [e EXCEPT !.book = bSell, !.remLots = PutUnlessZero(e.remLots, id, o.leaves)]
<1>1. /\ c \in Nat /\ l \in Nat /\ a \in Accounts /\ BookShape(e.book)
      /\ c <= e.book.reserved[a] /\ l <= e.book.posReserved[a]
      /\ e.book.reserved[a] \in Int /\ e.book.posReserved[a] \in Int
  BY ReadyNat DEF Ready, BookShape
<1>2. ~Posted(e.book, key) /\ id \in DOMAIN e.orders
  BY DEF Ready
<1>3. BookMoves(e.book, e.book, a, 0, 0, 0, {})
  BY <1>1, BookStays
<1>4. ASSUME o.side = "Buy"
      PROVE  r.err = "none" /\ Effect(e, r.eng, id, t, l, 0, {key})
  <2>1. t \in Nat \ {0} /\ t <= c
    BY <1>4, TimesPositive
  <2>2. BookMoves(e.book, bBuy, a, t - c, 0, 0, {key})
    <3>1. CASE c - t > 0
      <4>1. c - t \in Int /\ -(c - t) = t - c
        <5> HIDE DEF t, c
        <5> QED BY <1>1, <2>1
      <4> HIDE DEF t, c, key, a
      <4>2. BookMoves(e.book, Release(e.book, a, c - t, key), a, -(c - t), 0, 0, {key})
        BY <1>1, <1>2, <4>1, ReserveMoves
      <4> QED BY <3>1, <4>1, <4>2
    <3>2. CASE ~(c - t > 0)
      <4>1. t - c = 0
        <5> HIDE DEF t, c
        <5> QED BY <1>1, <2>1, <3>2
      <4> HIDE DEF t, c, key, a
      <4>2. BookMoves(e.book, e.book, a, 0, 0, 0, {key})
        BY <1>3 DEF BookMoves
      <4> QED BY <3>2, <4>1, <4>2
    <3> QED BY <3>1, <3>2
  <2>3. SetsTo(e.remCash, PutUnlessZero(e.remCash, id, t), DOMAIN e.orders, id, t)
    <3> HIDE DEF t
    <3> QED BY <1>2, <2>1, MapSets DEF Ready
  <2>4. Effect(e, buy, id, t, l, 0, {key})
    <3> HIDE DEF t, key, bBuy
    <3> QED BY <2>1, <2>2, <2>3, CashEffect, Zenon
  <2>5. c - t > 0 => ReleaseError(e.book, a, c - t) = "none"
    <3> HIDE DEF t, c, a
    <3> QED BY <1>1, <2>1 DEF ReleaseError
  <2>6. r = Ok(buy)
    <3>1. [e EXCEPT !.book = IF c - t > 0 THEN Release(@, a, c - t, Key("rel-repl", a, id)) ELSE @,
                    !.remCash = PutUnlessZero(@, id, t)] = buy
      OBVIOUS
    <3>2. ~(o.leaves <= 0)
      BY <1>4
    <3> HIDE DEF t, buy
    <3> QED BY <1>4, <2>5, <3>1, <3>2 DEF SettleReplace, t
  <2> HIDE DEF buy, r, key
  <2>7. r.err = "none" /\ r.eng = buy
    BY <2>6 DEF Ok
  <2> QED BY <2>4, <2>7
<1>5. ASSUME o.side = "Sell"
      PROVE  r.err = "none" /\ Effect(e, r.eng, id, c, o.leaves, 0, {key})
  <2>1. o.leaves \in Nat /\ o.leaves <= l
    BY <1>5
  <2> DEFINE k == o.leaves
  <2>2. BookMoves(e.book, bSell, a, 0, k - l, 0, {key})
    <3>1. CASE l - k > 0
      <4>1. l - k \in Int /\ -(l - k) = k - l
        <5> HIDE DEF k, l
        <5> QED BY <1>1, <2>1 DEF k
      <4>2. bSell = ReleasePosition(e.book, a, l - k)
        BY <3>1
      <4> HIDE DEF l, k, key, a, bSell
      <4>3. BookMoves(e.book, ReleasePosition(e.book, a, l - k), a, 0, -(l - k), 0, {})
        BY <1>1, <1>2, <4>1, PositionMoves
      <4>4. BookMoves(e.book, bSell, a, 0, k - l, 0, {})
        BY <4>1, <4>2, <4>3
      <4> QED BY <4>4 DEF BookMoves
    <3>2. CASE ~(l - k > 0)
      <4>1. k - l = 0
        <5> HIDE DEF k, l
        <5> QED BY <1>1, <2>1, <3>2 DEF k
      <4>2. bSell = e.book
        BY <3>2
      <4> HIDE DEF l, k, key, a, bSell
      <4>3. BookMoves(e.book, e.book, a, 0, 0, 0, {key})
        BY <1>3 DEF BookMoves
      <4> QED BY <4>1, <4>2, <4>3
    <3> QED BY <3>1, <3>2
  <2>3. SetsTo(e.remLots, PutUnlessZero(e.remLots, id, k), DOMAIN e.orders, id, k)
    <3>1. k \in Nat
      BY <2>1
    <3> HIDE DEF k
    <3> QED BY <1>2, <3>1, MapSets DEF Ready
  <2>4. Effect(e, sell, id, c, k, 0, {key})
    <3>1. k \in Nat
      BY <2>1
    <3>2. sell = [e EXCEPT !.book = bSell, !.remLots = PutUnlessZero(e.remLots, id, k)]
      OBVIOUS
    <3> HIDE DEF k, key, bSell, sell
    <3>3. Effect(e, [e EXCEPT !.book = bSell, !.remLots = PutUnlessZero(e.remLots, id, k)], id, c, k, 0, {key})
      BY <2>2, <2>3, <3>1, LotsEffect, Zenon
    <3> QED BY <3>2, <3>3
  <2>5. l - k > 0 => ReleasePositionError(e.book, a, l - k) = "none"
    <3>1. k \in Nat /\ k <= l
      BY <2>1
    <3> HIDE DEF k, l, a
    <3> QED BY <1>1, <3>1 DEF ReleasePositionError
  <2>6. r = Ok(sell)
    <3>1. [e EXCEPT !.book = IF l - k > 0 THEN ReleasePosition(@, a, l - k) ELSE @,
                    !.remLots = PutUnlessZero(@, id, k)] = sell
      OBVIOUS
    <3> HIDE DEF sell
    <3> QED BY <1>5, <2>5, <3>1 DEF SettleReplace
  <2> HIDE DEF sell, r, key
  <2>7. r.err = "none" /\ r.eng = sell
    BY <2>6 DEF Ok
  <2> QED BY <2>4, <2>7
<1>6. r.err = "none"
  BY <1>4, <1>5 DEF Sides
<1> HIDE DEF r
<1>7. /\ r.err = "none"
      /\ o.side = "Buy" => Effect(e, r.eng, id, t, l, 0, {key})
      /\ o.side = "Sell" => Effect(e, r.eng, id, c, o.leaves, 0, {key})
  BY <1>4, <1>5, <1>6
<1> QED BY <1>7 DEF r

-----------------------------------------------------------------------------
(* An order and its reserve move: orders, book and journal still agree.    *)

\* x is e with another order id, whose reserve and fills may have moved.
OnlyOrder(e, x, id) ==
  /\ DOMAIN x.orders = DOMAIN e.orders
  /\ \A i \in DOMAIN e.orders \ {id} :
       /\ x.orders[i] = e.orders[i]
       /\ GetOrZero(x.remCash, i) = GetOrZero(e.remCash, i)
       /\ GetOrZero(x.remLots, i) = GetOrZero(e.remLots, i)
  /\ x.byClient = e.byClient /\ x.nextId = e.nextId
  /\ x.venue = e.venue /\ x.kill = e.kill /\ x.session = e.session /\ x.nextSeq = e.nextSeq

\* Orders are finitely many.
LEMMA InFinite ==
  ASSUME NEW e, OrdersOk(e), NEW a
  PROVE  IsFiniteSet(In(e, a)) /\ IsFiniteSet(DOMAIN e.orders)
<1>1. IsFiniteSet(DOMAIN e.orders)
  BY FS_Interval DEF OrdersOk
<1> QED BY <1>1, FS_Subset DEF In

\* Net is an integer.
LEMMA NetInt ==
  ASSUME NEW o, OrderOk(o)
  PROVE  Net(o) \in Int
BY DEF OrderOk, Net

\* The terms of the sums are numbers.
LEMMA SumsInt ==
  ASSUME NEW e, OrdersOk(e), NEW i \in DOMAIN e.orders
  PROVE  /\ CashOf(e)[i] = GetOrZero(e.remCash, i) /\ CashOf(e)[i] \in Nat
         /\ LotsOf(e)[i] = GetOrZero(e.remLots, i) /\ LotsOf(e)[i] \in Nat
         /\ NetOf(e)[i] = Net(e.orders[i]) /\ NetOf(e)[i] \in Int
BY ReserveNat, NetInt DEF OrdersOk, CashOf, LotsOf, NetOf

\* The sums of an account's orders follow the order that moved.
LEMMA SumsMove ==
  ASSUME NEW e, NEW x, OrdersOk(e), OrdersOk(x), NEW id \in DOMAIN e.orders, OnlyOrder(e, x, id),
         Same(e.orders[id], x.orders[id]), NEW a
  PROVE  LET here == a = e.orders[id].account
         IN  /\ SumFunctionOnSet(CashOf(x), In(x, a)) = SumFunctionOnSet(CashOf(e), In(e, a))
                  + IF here THEN GetOrZero(x.remCash, id) - GetOrZero(e.remCash, id) ELSE 0
             /\ SumFunctionOnSet(LotsOf(x), In(x, a)) = SumFunctionOnSet(LotsOf(e), In(e, a))
                  + IF here THEN GetOrZero(x.remLots, id) - GetOrZero(e.remLots, id) ELSE 0
             /\ SumFunctionOnSet(NetOf(x), In(x, a)) = SumFunctionOnSet(NetOf(e), In(e, a))
                  + IF here THEN Net(x.orders[id]) - Net(e.orders[id]) ELSE 0
<1> DEFINE S == In(e, a)
<1>1. In(x, a) = S /\ (id \in S <=> a = e.orders[id].account) /\ S \subseteq DOMAIN e.orders
  BY DEF OnlyOrder, Same, In
<1>2. IsFiniteSet(S)
  BY InFinite
<1>3. ASSUME NEW i \in S
      PROVE  /\ CashOf(e)[i] \in Int /\ LotsOf(e)[i] \in Int /\ NetOf(e)[i] \in Int
             /\ CashOf(x)[i] \in Int /\ LotsOf(x)[i] \in Int /\ NetOf(x)[i] \in Int
  <2>1. i \in DOMAIN e.orders /\ i \in DOMAIN x.orders
    BY <1>1 DEF OnlyOrder
  <2>2. CashOf(e)[i] \in Int /\ LotsOf(e)[i] \in Int /\ NetOf(e)[i] \in Int
    BY <2>1, SumsInt
  <2>3. CashOf(x)[i] \in Int /\ LotsOf(x)[i] \in Int /\ NetOf(x)[i] \in Int
    BY <2>1, SumsInt
  <2> QED BY <2>2, <2>3
<1>4. ASSUME NEW i \in S \ {id}
      PROVE  CashOf(x)[i] = CashOf(e)[i] /\ LotsOf(x)[i] = LotsOf(e)[i] /\ NetOf(x)[i] = NetOf(e)[i]
  BY <1>1 DEF OnlyOrder, CashOf, LotsOf, NetOf
<1>5. /\ CashOf(x)[id] = GetOrZero(x.remCash, id) /\ CashOf(e)[id] = GetOrZero(e.remCash, id)
      /\ LotsOf(x)[id] = GetOrZero(x.remLots, id) /\ LotsOf(e)[id] = GetOrZero(e.remLots, id)
      /\ NetOf(x)[id] = Net(x.orders[id]) /\ NetOf(e)[id] = Net(e.orders[id])
  BY DEF OnlyOrder, CashOf, LotsOf, NetOf
<1> HIDE DEF S
<1>6. SumFunctionOnSet(CashOf(x), S) = SumFunctionOnSet(CashOf(e), S)
        + IF id \in S THEN CashOf(x)[id] - CashOf(e)[id] ELSE 0
  BY <1>2, <1>3, <1>4, SumMoves
<1>7. SumFunctionOnSet(LotsOf(x), S) = SumFunctionOnSet(LotsOf(e), S)
        + IF id \in S THEN LotsOf(x)[id] - LotsOf(e)[id] ELSE 0
  BY <1>2, <1>3, <1>4, SumMoves
<1>8. SumFunctionOnSet(NetOf(x), S) = SumFunctionOnSet(NetOf(e), S)
        + IF id \in S THEN NetOf(x)[id] - NetOf(e)[id] ELSE 0
  BY <1>2, <1>3, <1>4, SumMoves
<1> QED BY <1>1, <1>5, <1>6, <1>7, <1>8 DEF S

\* The ledger stays backed when one order and the ledger move by the same amounts.
LEMMA BackedMove ==
  ASSUME NEW e, NEW x, OrdersOk(e), BookOk(e), OrdersOk(x), NEW id \in DOMAIN e.orders,
         OnlyOrder(e, x, id), Same(e.orders[id], x.orders[id]), NEW K,
         BookMoves(e.book, x.book, e.orders[id].account,
                   GetOrZero(x.remCash, id) - GetOrZero(e.remCash, id),
                   GetOrZero(x.remLots, id) - GetOrZero(e.remLots, id),
                   Net(x.orders[id]) - Net(e.orders[id]), K),
         e.book.posReserved[e.orders[id].account] + (GetOrZero(x.remLots, id) - GetOrZero(e.remLots, id))
           <= e.book.position[e.orders[id].account] + (Net(x.orders[id]) - Net(e.orders[id]))
  PROVE  BookOk(x)
<1> DEFINE cash == GetOrZero(x.remCash, id) - GetOrZero(e.remCash, id)
           lots == GetOrZero(x.remLots, id) - GetOrZero(e.remLots, id)
           net  == Net(x.orders[id]) - Net(e.orders[id])
<1>1. BookShape(x.book) /\ BookShape(e.book)
  BY DEF BookMoves, BookOk
<1>2. ASSUME NEW a \in Accounts
      PROVE  Backed(x, a)
  <2> DEFINE here == a = e.orders[id].account
  <2>1. Backed(e, a)
    BY DEF BookOk
  <2>2. /\ SumFunctionOnSet(CashOf(x), In(x, a)) = SumFunctionOnSet(CashOf(e), In(e, a)) + IF here THEN cash ELSE 0
        /\ SumFunctionOnSet(LotsOf(x), In(x, a)) = SumFunctionOnSet(LotsOf(e), In(e, a)) + IF here THEN lots ELSE 0
        /\ SumFunctionOnSet(NetOf(x), In(x, a)) = SumFunctionOnSet(NetOf(e), In(e, a)) + IF here THEN net ELSE 0
    BY SumsMove
  <2>3. /\ x.book.reserved[a] = e.book.reserved[a] + IF here THEN cash ELSE 0
        /\ x.book.posReserved[a] = e.book.posReserved[a] + IF here THEN lots ELSE 0
        /\ x.book.position[a] = e.book.position[a] + IF here THEN net ELSE 0
    BY DEF BookMoves
  <2>4. /\ lots \in Int /\ net \in Int
        /\ here => e.book.posReserved[a] + lots <= e.book.position[a] + net
    <3>1. id \in DOMAIN x.orders /\ id \in DOMAIN e.orders
      BY DEF OnlyOrder
    <3>2. Net(x.orders[id]) \in Int /\ GetOrZero(x.remLots, id) \in Int
      BY <3>1, SumsInt
    <3>3. Net(e.orders[id]) \in Int /\ GetOrZero(e.remLots, id) \in Int
      BY <3>1, SumsInt
    <3> QED BY <3>2, <3>3
  <2> HIDE DEF cash, lots, net, here
  <2>5. x.book.posReserved[a] <= x.book.position[a]
    <3>1. e.book.posReserved[a] \in Int /\ e.book.position[a] \in Int /\ e.book.posReserved[a] <= e.book.position[a]
      BY <1>1, <2>1 DEF BookShape, Backed
    <3> QED BY <2>3, <2>4, <3>1
  <2> QED BY <2>1, <2>2, <2>3, <2>5 DEF Backed
<1> QED BY <1>1, <1>2 DEF BookOk

\* The same when the lots reserved grow by no more than the position does.
LEMMA BackedStep ==
  ASSUME NEW e, NEW x, OrdersOk(e), BookOk(e), OrdersOk(x), NEW id \in DOMAIN e.orders,
         OnlyOrder(e, x, id), Same(e.orders[id], x.orders[id]), NEW K,
         BookMoves(e.book, x.book, e.orders[id].account,
                   GetOrZero(x.remCash, id) - GetOrZero(e.remCash, id),
                   GetOrZero(x.remLots, id) - GetOrZero(e.remLots, id),
                   Net(x.orders[id]) - Net(e.orders[id]), K),
         GetOrZero(x.remLots, id) - GetOrZero(e.remLots, id) <= Net(x.orders[id]) - Net(e.orders[id])
  PROVE  BookOk(x)
<1> DEFINE a    == e.orders[id].account
           lots == GetOrZero(x.remLots, id) - GetOrZero(e.remLots, id)
           net  == Net(x.orders[id]) - Net(e.orders[id])
<1>1. id \in DOMAIN x.orders /\ a \in Accounts
  BY DEF OnlyOrder, OrdersOk, OrderOk
<1>2. Net(x.orders[id]) \in Int /\ GetOrZero(x.remLots, id) \in Int
  BY <1>1, SumsInt
<1>3. Net(e.orders[id]) \in Int /\ GetOrZero(e.remLots, id) \in Int
  BY SumsInt
<1>4. lots \in Int /\ net \in Int
  BY <1>2, <1>3
<1>5. /\ e.book.posReserved[a] \in Int /\ e.book.position[a] \in Int
      /\ e.book.posReserved[a] <= e.book.position[a]
  BY <1>1 DEF BookOk, BookShape, Backed
<1>6. lots <= net
  OBVIOUS
<1> HIDE DEF lots, net
<1>7. e.book.posReserved[a] + lots <= e.book.position[a] + net
  BY <1>4, <1>5, <1>6
<1> QED BY <1>7, BackedMove DEF lots, net

\* Posting keys that are accounted for keeps every key accounted for.
LEMMA KeysStep ==
  ASSUME NEW e, NEW x, NEW asked, KeysOk(e, asked), NEW id \in DOMAIN e.orders, OnlyOrder(e, x, id),
         e.orders[id].status \notin IsTerminal, x.orders[id].status # "PendingReplace",
         e.orders[id].execs \subseteq x.orders[id].execs, NEW K, \A k \in K : KeyOk(x, asked, k),
         \A y \in x.book.entries : y \in e.book.entries \/ y.key \in K
  PROVE  KeysOk(x, asked)
<1> SUFFICES ASSUME NEW y \in x.book.entries PROVE KeyOk(x, asked, y.key)
  BY DEF KeysOk
<1>1. CASE y.key \in K
  BY <1>1
<1>2. CASE y \in e.book.entries
  <2>1. KeyOk(e, asked, y.key)
    BY <1>2 DEF KeysOk
  <2> QED BY <2>1 DEF KeyOk, OnlyOrder
<1> QED BY <1>1, <1>2

\* What ApplyOms does to the engine: one order takes the event, the rest stays.
LEMMA OmsFacts ==
  ASSUME NEW e, OrdersOk(e), NEW id \in DOMAIN e.orders, NEW ev
  PROVE  LET m == ApplyOms(e, id, ev)
         IN  /\ DOMAIN m = EngFields /\ OnlyOrder(e, m, id)
             /\ m.orders[id] = Applied(e.orders[id], ev)
             /\ m.book = e.book /\ m.remCash = e.remCash /\ m.remLots = e.remLots
             /\ m.kill = e.kill
<1> DEFINE p == Applied(e.orders[id], ev)
           m == [e EXCEPT !.orders[id] = p]
<1>1. ApplyOms(e, id, ev) = m
  BY DEF ApplyOms
<1> HIDE DEF p
<1>2. /\ DOMAIN m = EngFields /\ m.orders = [e.orders EXCEPT ![id] = p]
      /\ m.book = e.book /\ m.remCash = e.remCash /\ m.remLots = e.remLots /\ m.kill = e.kill
      /\ m.byClient = e.byClient /\ m.nextId = e.nextId /\ m.venue = e.venue
      /\ m.session = e.session /\ m.nextSeq = e.nextSeq
  BY DEF OrdersOk, EngFields
<1> HIDE DEF m
<1>3. OnlyOrder(e, m, id) /\ m.orders[id] = p
  BY <1>2 DEF OnlyOrder
<1> QED BY <1>1, <1>2, <1>3 DEF p

\* An engine that holds its orders' reserves in the book can give them back.
LEMMA OmsReady ==
  ASSUME NEW e, OrdersOk(e), BookOk(e), NEW id \in DOMAIN e.orders, NEW ev,
         Applied(e.orders[id], ev).account = e.orders[id].account
  PROVE  Ready(ApplyOms(e, id, ev), id)
<1> DEFINE m == ApplyOms(e, id, ev)
           a == e.orders[id].account
<1>1. /\ DOMAIN m = EngFields /\ DOMAIN m.orders = DOMAIN e.orders
      /\ m.orders[id].account = a
      /\ m.book = e.book /\ m.remCash = e.remCash /\ m.remLots = e.remLots
  BY OmsFacts DEF OnlyOrder
<1>2. a \in Accounts
  BY DEF OrdersOk, OrderOk
<1>3. id \in In(e, a) /\ IsFiniteSet(In(e, a)) /\ \A i \in In(e, a) : i \in DOMAIN e.orders
  BY InFinite DEF In
<1>4. GetOrZero(e.remCash, id) <= SumFunctionOnSet(CashOf(e), In(e, a))
  <2>1. \A i \in In(e, a) : CashOf(e)[i] \in Nat
    BY <1>3, SumsInt
  <2>2. CashOf(e)[id] <= SumFunctionOnSet(CashOf(e), In(e, a))
    BY <1>3, <2>1, SumBound
  <2> QED BY <2>2, SumsInt
<1>5. GetOrZero(e.remLots, id) <= SumFunctionOnSet(LotsOf(e), In(e, a))
  <2>1. \A i \in In(e, a) : LotsOf(e)[i] \in Nat
    BY <1>3, SumsInt
  <2>2. LotsOf(e)[id] <= SumFunctionOnSet(LotsOf(e), In(e, a))
    BY <1>3, <2>1, SumBound
  <2> QED BY <2>2, SumsInt
<1>6. /\ GetOrZero(e.remCash, id) <= e.book.reserved[a]
      /\ GetOrZero(e.remLots, id) <= e.book.posReserved[a]
      /\ e.book.posReserved[a] <= e.book.position[a]
  BY <1>2, <1>4, <1>5 DEF BookOk, Backed
<1> HIDE DEF m, a
<1> QED BY <1>1, <1>2, <1>6 DEF Ready, m, a, BookOk, OrdersOk

\* What a step of one order keeps.
AllOk(e, asked) == OrdersOk(e) /\ BookOk(e) /\ KeysOk(e, asked)

\* Order id of e becomes p, as in m, and what it holds cash and lots, as in x.
Fits(e, asked, id, p, m, x, cash, lots, net, K) ==
  /\ OrderOk(p) /\ Same(e.orders[id], p)
  /\ e.orders[id].status \notin IsTerminal /\ p.status # "PendingReplace"
  /\ e.orders[id].execs \subseteq p.execs
  /\ net = Net(p) - Net(e.orders[id]) /\ lots - GetOrZero(e.remLots, id) <= net
  /\ Effect(m, x, id, cash, lots, net, K)
  /\ ReserveOk(p, cash, lots)
  /\ \A k \in K : KeyOk(m, asked, k)

\* x follows e, order id of which took event ev.
Follows(e, x, asked, id, ev) ==
  AllOk(x, asked) /\ OnlyOrder(e, x, id) /\ x.orders[id] = Applied(e.orders[id], ev)

\* An event and its ledger effect together keep orders, ledger and keys in agreement.
LEMMA EffectStep ==
  ASSUME NEW e, NEW asked, AllOk(e, asked), NEW id \in DOMAIN e.orders, NEW ev, NEW x,
         NEW c, NEW l, NEW net, NEW K, NEW p, NEW m,
         p = Applied(e.orders[id], ev), m = ApplyOms(e, id, ev),
         Fits(e, asked, id, p, m, x, c, l, net, K)
  PROVE  Follows(e, x, asked, id, ev)
<1> DEFINE o == e.orders[id]
<1>1. /\ DOMAIN m = EngFields /\ OnlyOrder(e, m, id) /\ m.orders[id] = p
      /\ m.book = e.book /\ m.remCash = e.remCash /\ m.remLots = e.remLots /\ m.kill = e.kill
  BY OmsFacts DEF AllOk
<1>2. /\ OrderOk(p) /\ Same(o, p) /\ net = Net(p) - Net(o) /\ ReserveOk(p, c, l)
      /\ Effect(m, x, id, c, l, net, K) /\ o.status \notin IsTerminal /\ p.status # "PendingReplace"
      /\ o.execs \subseteq p.execs /\ (\A k \in K : KeyOk(m, asked, k))
      /\ l - GetOrZero(e.remLots, id) <= net
  BY DEF Fits
<1>3. /\ DOMAIN x = EngFields /\ x.orders = m.orders /\ x.byClient = m.byClient
      /\ x.nextId = m.nextId /\ x.venue = m.venue /\ x.kill = m.kill
      /\ x.session = m.session /\ x.nextSeq = m.nextSeq
      /\ SetsTo(m.remCash, x.remCash, DOMAIN m.orders, id, c)
      /\ SetsTo(m.remLots, x.remLots, DOMAIN m.orders, id, l)
      /\ BookMoves(m.book, x.book, m.orders[id].account, c - GetOrZero(m.remCash, id),
                   l - GetOrZero(m.remLots, id), net, K)
  BY <1>2 DEF Effect
<1>4. DOMAIN m.orders = DOMAIN e.orders /\ id \in DOMAIN e.orders
  BY <1>1 DEF OnlyOrder
<1>5. OnlyOrder(e, x, id)
  BY <1>1, <1>3, <1>4 DEF OnlyOrder, SetsTo
<1>6. /\ x.orders[id] = p /\ GetOrZero(x.remCash, id) = c /\ GetOrZero(x.remLots, id) = l
      /\ PositiveOn(x.remCash, DOMAIN e.orders) /\ PositiveOn(x.remLots, DOMAIN e.orders)
  BY <1>1, <1>3, <1>4 DEF SetsTo
<1>7. OrdersOk(x)
  <2>1. OrdersOk(e)
    BY DEF AllOk
  <2>2. ASSUME NEW i \in DOMAIN x.orders
        PROVE  OrderOk(x.orders[i]) /\ Holds(x, i)
    <3>1. CASE i = id
      BY <1>2, <1>6, <3>1 DEF Holds
    <3>2. CASE i # id
      <4>1. i \in DOMAIN e.orders \ {id}
        BY <1>5, <3>2 DEF OnlyOrder
      <4>2. OrderOk(e.orders[i]) /\ Holds(e, i)
        BY <2>1, <4>1 DEF OrdersOk
      <4> QED BY <1>5, <4>1, <4>2 DEF OnlyOrder, Holds
    <3> QED BY <3>1, <3>2
  <2>3. /\ DOMAIN x = EngFields /\ x.kill \in BOOLEAN /\ x.nextId \in Nat /\ DOMAIN x.orders = 1 .. x.nextId
        /\ DOMAIN x.orders = DOMAIN e.orders
    BY <1>1, <1>3, <1>5, <2>1 DEF OrdersOk, OnlyOrder
  <2> QED BY <1>6, <2>2, <2>3 DEF OrdersOk
<1>8. m.orders[id].account = o.account
  BY <1>1, <1>2 DEF Same
<1>9. BookOk(x)
  <2>1. BookMoves(e.book, x.book, o.account, GetOrZero(x.remCash, id) - GetOrZero(e.remCash, id),
                  GetOrZero(x.remLots, id) - GetOrZero(e.remLots, id), Net(x.orders[id]) - Net(o), K)
    BY <1>1, <1>2, <1>3, <1>6, <1>8
  <2>2. GetOrZero(x.remLots, id) - GetOrZero(e.remLots, id) <= Net(x.orders[id]) - Net(o)
    BY <1>2, <1>6
  <2>3. OrdersOk(e) /\ BookOk(e)
    BY DEF AllOk
  <2>4. Same(o, x.orders[id])
    BY <1>2, <1>6
  <2> QED BY <1>5, <1>7, <2>1, <2>2, <2>3, <2>4, BackedStep
<1>10. KeysOk(x, asked)
  <2>1. \A y \in x.book.entries : y \in e.book.entries \/ y.key \in K
    BY <1>1, <1>3 DEF BookMoves
  <2>2. \A k \in K : KeyOk(x, asked, k)
    BY <1>2, <1>3 DEF KeyOk
  <2>3. KeysOk(e, asked)
    BY DEF AllOk
  <2>4. x.orders[id].status # "PendingReplace" /\ o.execs \subseteq x.orders[id].execs
    BY <1>2, <1>6
  <2> QED BY <1>2, <1>5, <2>1, <2>2, <2>3, <2>4, KeysStep
<1> QED BY <1>5, <1>6, <1>7, <1>9, <1>10 DEF AllOk, Follows

\* What a report that the OMS accepts leaves behind.
Booked(e, asked, id, ev, r) ==
  /\ r.err = "none" /\ AllOk(r.eng, asked) /\ OnlyOrder(e, r.eng, id)
  /\ r.eng.orders[id] = Applied(e.orders[id], ev)

\* A working order's reserve has not been released: its release key is unposted.
LEMMA NotReleased ==
  ASSUME NEW e, NEW asked, KeysOk(e, asked), NEW id, NEW a, e.orders[id].status \notin IsTerminal
  PROVE  ~Posted(e.book, Key("rel", a, id))
BY DEF KeysOk, KeyOk, Posted, Key

\* Booking an acknowledgement.
LEMMA AcceptedStep ==
  ASSUME NEW e, NEW asked, AllOk(e, asked), NEW id \in DOMAIN e.orders, NEW ev,
         ev.qty \in Int, ev.price \in Int, ev.type = "Accepted",
         ApplyError(e.orders[id], ev) = "none"
  PROVE  Booked(e, asked, id, ev, ApplyEffects(ApplyOms(e, id, ev), id, ev))
<1> DEFINE m == ApplyOms(e, id, ev)
           o == e.orders[id]
           p == Applied(o, ev)
           c == GetOrZero(e.remCash, id)
           l == GetOrZero(e.remLots, id)
<1>1. ApplyEffects(m, id, ev) = Ok(m)
  BY DEF ApplyEffects
<1>2. OrderOk(o) /\ ReserveOk(o, c, l) /\ OrdersOk(e) /\ BookOk(e)
  BY DEF AllOk, OrdersOk, Holds
<1>3. OrderOk(p) /\ Same(o, p) /\ Moves(o, p, ev)
  BY <1>2, AppliedMoves
<1>4. Ready(m, id) /\ m.remCash = e.remCash /\ m.remLots = e.remLots
  BY <1>2, <1>3, OmsReady, OmsFacts DEF Same
<1> HIDE DEF m, p, c, l
<1>5. o.status = "PendingNew" /\ p.status = "New" /\ SameFill(o, p)
  BY <1>3 DEF Moves
<1>6. Effect(m, m, id, c, l, 0, {})
  BY <1>4, EffectStays DEF c, l
<1>7. ReserveOk(p, c, l)
  BY <1>2, <1>3, <1>5 DEF ReserveOk, Same, SameFill, IsWorking, IsTerminal
<1>8. Net(p) - Net(o) = 0
  <2>1. Net(p) = Net(o) /\ Net(o) \in Int
    BY <1>2, <1>3, <1>5, NetInt DEF Net, Same, SameFill
  <2> QED BY <2>1
<1>9. c \in Nat /\ l \in Nat /\ l - l <= 0
  BY <1>2 DEF ReserveOk
<1>10. o.status \notin IsTerminal /\ p.status # "PendingReplace" /\ o.execs \subseteq p.execs
  BY <1>5 DEF IsTerminal, SameFill
<1>11. AllOk(m, asked) /\ OnlyOrder(e, m, id) /\ m.orders[id] = p
  <2>1. Fits(e, asked, id, p, m, m, c, l, 0, {})
    BY <1>3, <1>6, <1>7, <1>8, <1>9, <1>10 DEF Fits, l
  <2>2. Follows(e, m, asked, id, ev)
    BY <2>1, EffectStep DEF m, p
  <2> QED BY <2>2 DEF Follows, p
<1>12. Ok(m).err = "none" /\ Ok(m).eng = m
  BY DEF Ok
<1> QED BY <1>1, <1>11, <1>12 DEF Booked, m, p

\* Booking a rejection, a cancel or an expiry: the whole remaining reserve goes back.
LEMMA ReleasedStep ==
  ASSUME NEW e, NEW asked, AllOk(e, asked), NEW id \in DOMAIN e.orders, NEW ev,
         ev.qty \in Int, ev.price \in Int, ev.type \in {"Rejected", "Canceled", "Expired"},
         ApplyError(e.orders[id], ev) = "none"
  PROVE  Booked(e, asked, id, ev, ApplyEffects(ApplyOms(e, id, ev), id, ev))
<1> DEFINE m == ApplyOms(e, id, ev)
           o == e.orders[id]
           p == Applied(o, ev)
           l == GetOrZero(e.remLots, id)
           x == ReleaseRemaining(m, id).eng
           rel == Key("rel", o.account, id)
<1>1. ApplyEffects(m, id, ev) = ReleaseRemaining(m, id)
  BY DEF ApplyEffects
<1>2. OrderOk(o) /\ OrdersOk(e) /\ BookOk(e) /\ KeysOk(e, asked) /\ l \in Nat
  BY DEF AllOk, OrdersOk, Holds, ReserveOk
<1>3. OrderOk(p) /\ Same(o, p) /\ Moves(o, p, ev)
  BY <1>2, AppliedMoves
<1>4. Ready(m, id) /\ m.orders[id] = p /\ m.book = e.book /\ DOMAIN m.orders = DOMAIN e.orders
  BY <1>2, <1>3, OmsReady, OmsFacts DEF Same, OnlyOrder
<1> HIDE DEF m, p, l, x
<1>5. /\ o.status \notin IsTerminal /\ p.status \in IsTerminal /\ p.status # "PendingReplace"
      /\ SameFill(o, p)
  BY <1>3 DEF Moves, IsTerminal, IsWorking
<1>6. ~Posted(m.book, rel) /\ m.orders[id].account = o.account
  BY <1>2, <1>3, <1>4, <1>5, NotReleased DEF Same
<1>7. ReleaseRemaining(m, id).err = "none" /\ Effect(m, x, id, 0, 0, 0, {rel})
  <2>1. ~Posted(m.book, Key("rel", m.orders[id].account, id))
    BY <1>6
  <2>2. /\ ReleaseRemaining(m, id).err = "none"
        /\ Effect(m, x, id, 0, 0, 0, {Key("rel", m.orders[id].account, id)})
    BY <1>4, <2>1, ReleaseEffect DEF x
  <2> QED BY <1>6, <2>2
<1>8. ReserveOk(p, 0, 0)
  BY <1>5 DEF ReserveOk, IsWorking, IsTerminal
<1>9. Net(p) - Net(o) = 0
  <2>1. Net(p) = Net(o) /\ Net(o) \in Int
    BY <1>2, <1>3, <1>5, NetInt DEF Net, Same, SameFill
  <2> QED BY <2>1
<1>10. 0 - l <= 0
  BY <1>2
<1>11. \A k \in {rel} : KeyOk(m, asked, k)
  BY <1>4, <1>5 DEF KeyOk, Key
<1>12. o.execs \subseteq p.execs
  BY <1>5 DEF SameFill
<1> HIDE DEF rel
<1>13. AllOk(x, asked) /\ OnlyOrder(e, x, id) /\ x.orders[id] = p
  <2>1. Fits(e, asked, id, p, m, x, 0, 0, 0, {rel})
    BY <1>3, <1>5, <1>7, <1>8, <1>9, <1>10, <1>11, <1>12 DEF Fits, l
  <2>2. p = Applied(e.orders[id], ev) /\ m = ApplyOms(e, id, ev)
    BY DEF p, m
  <2>3. Follows(e, x, asked, id, ev)
    BY <2>1, <2>2, EffectStep
  <2> QED BY <2>3 DEF Follows, p
<1> QED BY <1>1, <1>7, <1>13 DEF Booked, m, p, x

\* What a working order holds back, by side.
LEMMA WorkingHolds ==
  ASSUME NEW o, NEW c, NEW l, OrderOk(o), ReserveOk(o, c, l), o.status \in IsWorking \cup {"PendingNew"}
  PROVE  /\ o.side = "Buy" => c = o.price * o.leaves /\ l = 0
         /\ o.side = "Sell" => l = o.leaves /\ c = 0
BY DEF ReserveOk

\* Products of a price and fewer lots.
LEMMA LessTimes ==
  ASSUME NEW p \in Nat, NEW q \in Nat, NEW r \in Nat, q <= r
  PROVE  /\ p * q <= p * r /\ p * r - p * q = p * (r - q) /\ r - q \in Nat
         /\ p * q \in Nat /\ p * r \in Nat /\ p * (r - q) \in Nat
<1>1. r - q \in Nat /\ q + (r - q) = r
  OBVIOUS
<1>2. p * q \in Nat /\ p * r \in Nat /\ p * (r - q) \in Nat
  BY <1>1
<1>3. p * r = p * q + p * (r - q)
  BY <1>1
<1> QED BY <1>1, <1>2, <1>3

\* Booking a trade at the order's price whose execution id is new to every other order.
LEMMA TradeStep ==
  ASSUME NEW e, NEW asked, AllOk(e, asked), NEW id \in DOMAIN e.orders, NEW ev,
         ev.qty \in Int, ev.price \in Int, ev.type = "Trade",
         ApplyError(e.orders[id], ev) = "none", ev.price = e.orders[id].price,
         \A i \in DOMAIN e.orders : ev.exec \in e.orders[i].execs => i = id
  PROVE  Booked(e, asked, id, ev, ApplyEffects(ApplyOms(e, id, ev), id, ev))
<1> DEFINE m == ApplyOms(e, id, ev)
           o == e.orders[id]
           p == Applied(o, ev)
           c == GetOrZero(e.remCash, id)
           l == GetOrZero(e.remLots, id)
           q == ev.qty
           n == ev.price * ev.qty
           r == SettleTrade(m, id, ev)
           rel == Key("rel", o.account, id)
           key == FillKey(ev.exec)
<1>1. ApplyEffects(m, id, ev) = r
  BY DEF ApplyEffects
<1>2. OrderOk(o) /\ ReserveOk(o, c, l) /\ OrdersOk(e) /\ BookOk(e) /\ KeysOk(e, asked)
  BY DEF AllOk, OrdersOk, Holds
<1>3. OrderOk(p) /\ Same(o, p) /\ Moves(o, p, ev)
  BY <1>2, AppliedMoves
<1>4. /\ Ready(m, id) /\ m.orders[id] = p /\ m.book = e.book /\ DOMAIN m.orders = DOMAIN e.orders
      /\ m.remCash = e.remCash /\ m.remLots = e.remLots
  BY <1>2, <1>3, OmsReady, OmsFacts DEF Same, OnlyOrder
<1> HIDE DEF m, p, r
<1>5. /\ o.status \in IsWorking
      /\ q > 0 /\ ev.price > 0 /\ q <= o.leaves /\ ev.exec \notin o.execs
      /\ p.qty = o.qty /\ p.price = o.price /\ p.cum = o.cum + q
      /\ p.leaves = o.leaves - q /\ p.execs = o.execs \cup {ev.exec}
      /\ p.status = IF p.leaves = 0 THEN "Filled" ELSE "PartiallyFilled"
  BY <1>3 DEF Moves
<1>6. /\ o.price \in Nat \ {0} /\ o.leaves \in Nat /\ o.cum \in Nat /\ o.side \in Sides
      /\ q \in Nat \ {0} /\ ev.price \in Nat \ {0} /\ p.side = o.side /\ p.account = o.account
  BY <1>2, <1>3, <1>5 DEF OrderOk, Same
<1>7. /\ o.side = "Buy" => c = o.price * o.leaves /\ l = 0
      /\ o.side = "Sell" => l = o.leaves /\ c = 0
  BY <1>2, <1>5, WorkingHolds
<1>8. /\ n <= o.price * o.leaves /\ o.price * o.leaves - n = o.price * (o.leaves - q)
      /\ o.price * (o.leaves - q) \in Nat
  <2>1. q \in Nat /\ o.price \in Nat
    BY <1>6
  <2>2. /\ o.price * q <= o.price * o.leaves
        /\ o.price * o.leaves - o.price * q = o.price * (o.leaves - q)
        /\ o.price * (o.leaves - q) \in Nat
    BY <1>5, <1>6, <2>1, LessTimes
  <2> QED BY <2>2
<1>9. ~Posted(m.book, key) /\ ~Posted(m.book, rel)
  <2>1. ~Posted(e.book, key)
    BY <1>2, <1>5 DEF KeysOk, KeyOk, Posted, Key, FillKey
  <2>2. ~Posted(e.book, rel)
    BY <1>2, <1>5, NotReleased DEF IsWorking, IsTerminal
  <2> QED BY <1>4, <2>1, <2>2
<1> HIDE DEF n, key, rel, c, l
<1>10. /\ r.err = "none"
       /\ p.side = "Buy" /\ p.status # "Filled" => Effect(m, r.eng, id, c - n, l, q, {key})
       /\ p.side = "Sell" /\ p.status # "Filled" => Effect(m, r.eng, id, c, l - q, -q, {key})
       /\ p.status = "Filled" =>
            Effect(m, r.eng, id, 0, 0, IF p.side = "Buy" THEN q ELSE -q, {key, rel})
  <2>1. p.side = "Buy" => n <= GetOrZero(m.remCash, id)
    BY <1>4, <1>6, <1>7, <1>8 DEF c
  <2>2. p.side = "Sell" => q <= GetOrZero(m.remLots, id)
    BY <1>4, <1>5, <1>6, <1>7 DEF l
  <2>3. ~Posted(m.book, FillKey(ev.exec)) /\ ~Posted(m.book, Key("rel", m.orders[id].account, id))
    BY <1>4, <1>6, <1>9 DEF key, rel
  <2>4. m.orders[id].side = p.side /\ p.side \in Sides
    BY <1>4, <1>6
  <2>5. LET x == m.orders[id]
            d == GetOrZero(m.remCash, id)
            k == GetOrZero(m.remLots, id)
            s == SettleTrade(m, id, ev)
        IN  /\ s.err = "none"
            /\ x.side = "Buy" /\ x.status # "Filled" =>
                 Effect(m, s.eng, id, d - ev.price * ev.qty, k, ev.qty, {FillKey(ev.exec)})
            /\ x.side = "Sell" /\ x.status # "Filled" =>
                 Effect(m, s.eng, id, d, k - ev.qty, -ev.qty, {FillKey(ev.exec)})
            /\ x.status = "Filled" =>
                 Effect(m, s.eng, id, 0, 0, IF x.side = "Buy" THEN ev.qty ELSE -ev.qty,
                        {FillKey(ev.exec), Key("rel", x.account, id)})
    BY <1>4, <1>6, <2>1, <2>2, <2>3, <2>4, TradeEffect DEF n
  <2> QED BY <1>4, <1>6, <2>5 DEF c, l, n, key, rel, r
<1>11. o.status \notin IsTerminal /\ p.status # "PendingReplace" /\ o.execs \subseteq p.execs
  BY <1>5 DEF IsTerminal, IsWorking
<1>12. Net(p) - Net(o) = IF o.side = "Buy" THEN q ELSE -q
  BY <1>5, <1>6 DEF Net, Sides
<1>13. KeyOk(m, asked, key) /\ (p.status = "Filled" => KeyOk(m, asked, rel))
  BY <1>4, <1>5 DEF KeyOk, Key, FillKey, key, rel, IsTerminal
<1>14. CASE p.status = "Filled"
  <2> DEFINE net == IF p.side = "Buy" THEN q ELSE -q
  <2>1. Effect(m, r.eng, id, 0, 0, net, {key, rel})
    BY <1>10, <1>14
  <2>2. ReserveOk(p, 0, 0)
    BY <1>14 DEF ReserveOk, IsWorking
  <2>3. 0 - l <= net
    BY <1>5, <1>6, <1>7 DEF Sides
  <2>4. net = Net(p) - Net(o)
    BY <1>6, <1>12
  <2>5. \A k \in {key, rel} : KeyOk(m, asked, k)
    BY <1>13, <1>14
  <2> DEFINE K == {key, rel}
  <2> HIDE DEF net, K
  <2>6. Fits(e, asked, id, p, m, r.eng, 0, 0, net, K)
    BY <1>3, <1>11, <2>1, <2>2, <2>3, <2>4, <2>5 DEF Fits, l, K
  <2>7. p = Applied(e.orders[id], ev) /\ m = ApplyOms(e, id, ev)
    BY DEF p, m
  <2>8. Follows(e, r.eng, asked, id, ev)
    BY <2>6, <2>7, EffectStep
  <2> QED BY <1>1, <1>10, <2>8 DEF Booked, Follows, m
<1>15. CASE p.status # "Filled" /\ o.side = "Buy"
  <2>1. Effect(m, r.eng, id, c - n, l, q, {key})
    BY <1>6, <1>10, <1>15
  <2>2. c - n = p.price * p.leaves /\ c - n \in Nat /\ l = 0
    BY <1>5, <1>7, <1>8, <1>15
  <2>3. ReserveOk(p, c - n, l)
    BY <1>5, <1>6, <1>15, <2>2 DEF ReserveOk, IsWorking, IsTerminal
  <2>4. l - l <= q
    BY <1>6, <2>2
  <2>5. \A k \in {key} : KeyOk(m, asked, k)
    BY <1>13
  <2>6. q = Net(p) - Net(o)
    BY <1>12, <1>15
  <2> DEFINE d == c - n
  <2> HIDE DEF d
  <2>7. Fits(e, asked, id, p, m, r.eng, d, l, q, {key})
    BY <1>3, <1>11, <2>1, <2>3, <2>4, <2>5, <2>6 DEF Fits, l, d
  <2>8. p = Applied(e.orders[id], ev) /\ m = ApplyOms(e, id, ev)
    BY DEF p, m
  <2>9. Follows(e, r.eng, asked, id, ev)
    BY <2>7, <2>8, EffectStep
  <2> QED BY <1>1, <1>10, <2>9 DEF Booked, Follows, m
<1>16. CASE p.status # "Filled" /\ o.side = "Sell"
  <2> DEFINE k == l - q
             net == -q
  <2>1. Effect(m, r.eng, id, c, k, net, {key})
    BY <1>6, <1>10, <1>16
  <2>2. k = p.leaves /\ k \in Nat /\ c = 0
    BY <1>5, <1>6, <1>7, <1>16
  <2>3. ReserveOk(p, c, k)
    BY <1>5, <1>6, <1>16, <2>2 DEF ReserveOk, IsWorking, IsTerminal
  <2>4. k - l <= net
    BY <1>6, <1>7, <1>16
  <2>5. \A y \in {key} : KeyOk(m, asked, y)
    BY <1>13
  <2>6. net = Net(p) - Net(o)
    BY <1>12, <1>16
  <2> HIDE DEF k, net
  <2>7. Fits(e, asked, id, p, m, r.eng, c, k, net, {key})
    BY <1>3, <1>11, <2>1, <2>3, <2>4, <2>5, <2>6 DEF Fits, l
  <2>8. p = Applied(e.orders[id], ev) /\ m = ApplyOms(e, id, ev)
    BY DEF p, m
  <2>9. Follows(e, r.eng, asked, id, ev)
    BY <2>7, <2>8, EffectStep
  <2> QED BY <1>1, <1>10, <2>9 DEF Booked, Follows, m
<1> QED BY <1>6, <1>14, <1>15, <1>16 DEF Sides

\* Booking a replace whose new leaves the reserve covers.
LEMMA ReplacedStep ==
  ASSUME NEW e, NEW asked, AllOk(e, asked), NEW id \in DOMAIN e.orders, NEW ev,
         ev.qty \in Int, ev.price \in Int, ev.type = "Replaced",
         ApplyError(e.orders[id], ev) = "none", asked[id] > 0,
         e.orders[id].side = "Buy" =>
           /\ ev.qty > e.orders[id].cum
           /\ ev.price * (ev.qty - e.orders[id].cum) <= GetOrZero(e.remCash, id),
         e.orders[id].side = "Sell" => ev.qty - e.orders[id].cum <= GetOrZero(e.remLots, id)
  PROVE  Booked(e, asked, id, ev, ApplyEffects(ApplyOms(e, id, ev), id, ev))
<1> DEFINE m == ApplyOms(e, id, ev)
           o == e.orders[id]
           p == Applied(o, ev)
           c == GetOrZero(e.remCash, id)
           l == GetOrZero(e.remLots, id)
           r == SettleReplace(m, id, ev)
           key == Key("rel-repl", o.account, id)
           K == {key}
<1>1. ApplyEffects(m, id, ev) = r
  BY DEF ApplyEffects
<1>2. OrderOk(o) /\ ReserveOk(o, c, l) /\ OrdersOk(e) /\ BookOk(e) /\ KeysOk(e, asked)
  BY DEF AllOk, OrdersOk, Holds
<1>3. OrderOk(p) /\ Same(o, p) /\ Moves(o, p, ev)
  BY <1>2, AppliedMoves
<1>4. /\ Ready(m, id) /\ m.orders[id] = p /\ m.book = e.book /\ DOMAIN m.orders = DOMAIN e.orders
      /\ m.remCash = e.remCash /\ m.remLots = e.remLots
  BY <1>2, <1>3, OmsReady, OmsFacts DEF Same, OnlyOrder
<1> HIDE DEF m, p, r
<1>5. /\ o.status = "PendingReplace"
      /\ ev.qty >= o.cum /\ ev.qty > 0 /\ ev.price > 0
      /\ p.qty = ev.qty /\ p.price = ev.price /\ p.cum = o.cum
      /\ p.leaves = ev.qty - o.cum /\ p.execs = o.execs
      /\ p.status = IF o.cum = 0 THEN "New" ELSE IF p.leaves = 0 THEN "Filled" ELSE "PartiallyFilled"
  BY <1>3 DEF Moves
<1>6. /\ o.cum \in Nat /\ o.side \in Sides /\ ev.price \in Nat \ {0}
      /\ p.side = o.side /\ p.account = o.account /\ p.leaves \in Nat
      /\ (o.side = "Buy" => p.leaves > 0)
  <2>1. o.cum \in Nat /\ o.side \in Sides /\ p.side = o.side /\ p.account = o.account /\ p.leaves \in Nat
    BY <1>2, <1>3 DEF OrderOk, Same
  <2>2. o.side = "Buy" => p.leaves > 0
    BY <1>5, <2>1
  <2>3. ev.price \in Nat \ {0}
    BY <1>5
  <2> QED BY <2>1, <2>2, <2>3
<1>7. /\ o.side = "Buy" => l = 0 /\ ev.price * p.leaves <= c
      /\ o.side = "Sell" => c = 0 /\ p.leaves <= l
      /\ c \in Nat /\ l \in Nat
  BY <1>2, <1>5 DEF ReserveOk
<1>8. ~Posted(m.book, key)
  BY <1>2, <1>4, <1>5 DEF KeysOk, KeyOk, Posted, Key
<1>9. KeyOk(m, asked, key)
  BY <1>4, <1>5 DEF KeyOk, Key
<1> HIDE DEF c, l, key
<1>10. /\ r.err = "none"
       /\ p.side = "Buy" => Effect(m, r.eng, id, ev.price * p.leaves, l, 0, K)
       /\ p.side = "Sell" => Effect(m, r.eng, id, c, p.leaves, 0, K)
  <2>1. m.orders[id].side \in Sides /\ m.orders[id].leaves \in Nat
    BY <1>4, <1>6
  <2>2. ~Posted(m.book, Key("rel-repl", m.orders[id].account, id))
    BY <1>4, <1>6, <1>8 DEF key
  <2>3. m.orders[id].side = "Buy" => /\ m.orders[id].leaves > 0
                                    /\ ev.price * m.orders[id].leaves <= GetOrZero(m.remCash, id)
    BY <1>4, <1>6, <1>7 DEF c
  <2>4. m.orders[id].side = "Sell" => m.orders[id].leaves <= GetOrZero(m.remLots, id)
    BY <1>4, <1>6, <1>7 DEF l
  <2>5. LET x == m.orders[id]
            s == SettleReplace(m, id, ev)
            L == {Key("rel-repl", x.account, id)}
        IN  /\ s.err = "none"
            /\ x.side = "Buy" =>
                 Effect(m, s.eng, id, ev.price * x.leaves, GetOrZero(m.remLots, id), 0, L)
            /\ x.side = "Sell" =>
                 Effect(m, s.eng, id, GetOrZero(m.remCash, id), x.leaves, 0, L)
    BY <1>4, <1>6, <2>1, <2>2, <2>3, <2>4, ReplaceEffect
  <2> QED BY <1>4, <1>6, <2>5 DEF c, l, key, r
<1>11. o.status \notin IsTerminal /\ p.status # "PendingReplace" /\ o.execs \subseteq p.execs
  BY <1>5 DEF IsTerminal
<1>12. Net(p) - Net(o) = 0
  BY <1>5, <1>6 DEF Net, Sides
<1> DEFINE z == 0
           d == IF p.side = "Buy" THEN ev.price * p.leaves ELSE c
           k == IF p.side = "Buy" THEN l ELSE p.leaves
<1>13. Effect(m, r.eng, id, d, k, 0, K)
  BY <1>6, <1>10 DEF Sides
<1>14. ReserveOk(p, d, k)
  <2>1. d \in Nat /\ k \in Nat
    BY <1>6, <1>7, TimesPositive DEF Sides
  <2>2. (p.side = "Buy" => k = 0) /\ (p.side = "Sell" => d = 0)
    BY <1>6, <1>7
  <2>3. p.status \in IsTerminal => d = 0 /\ k = 0
    <3>1. p.status \in IsTerminal => p.leaves = 0
      BY <1>5 DEF IsTerminal
    <3> QED BY <1>6, <1>7, <3>1 DEF Sides
  <2>4. IF p.side = "Buy" THEN d = p.price * p.leaves ELSE k = p.leaves
    BY <1>5
  <2> QED BY <2>1, <2>2, <2>3, <2>4 DEF ReserveOk
<1>15. k - l <= 0
  <2>1. CASE p.side = "Buy"
    <3>1. k = l /\ l \in Nat
      BY <1>7, <2>1
    <3> HIDE DEF k
    <3> QED BY <3>1
  <2>2. CASE p.side # "Buy"
    <3>1. k = p.leaves /\ k <= l /\ l \in Nat /\ k \in Nat
      BY <1>6, <1>7, <2>2 DEF Sides
    <3> HIDE DEF k
    <3> QED BY <3>1
  <2> QED BY <2>1, <2>2
<1> HIDE DEF z, d, k
<1>16. Fits(e, asked, id, p, m, r.eng, d, k, z, K)
  BY <1>3, <1>9, <1>11, <1>12, <1>13, <1>14, <1>15 DEF Fits, l, z
<1>17. p = Applied(e.orders[id], ev) /\ m = ApplyOms(e, id, ev)
  BY DEF p, m
<1> HIDE DEF K
<1>18. Follows(e, r.eng, asked, id, ev)
  BY <1>16, <1>17, EffectStep
<1> QED BY <1>1, <1>10, <1>18 DEF Booked, Follows, m

-----------------------------------------------------------------------------
(* The venue and the consumer's side of its report stream.                 *)

\* The execution reports the simulator issues.
ReportTypes == {"New", "Rejected", "Trade", "Canceled", "Replaced", "Expired", "CancelReject"}

\* Reports in shape.
Reports ==
  [order : Nat, type : ReportTypes, exec : Nat, qty : Int, price : Int, session : Nat, seq : Nat]

\* Orders as the simulator keeps them.
Sims == [qty : Int, price : Int, cum : Int, canceled : BOOLEAN]

\* Fault configurations in shape.
FaultsOk(faults) ==
  /\ faults.first \in Int /\ faults.delayTicks \in Nat
  /\ faults.fillPolicy \in {"Rest", "Full", "Split"}

\* The fields of the simulator (SimulatedExchange).
VenueFields ==
  {"connected", "session", "nextSeq", "nextExec", "now", "faults", "inflight", "scheduled",
   "outbox", "history"}

\* All reports the venue has issued.
Issued(v) == ToSet(v.history)

\* The history is the session's reports, numbered from 1; each trade has an execution
\* id of its own, and what waits for delivery was issued.
HistoryOk(v) ==
  /\ v.history \in Seq(Reports) /\ Len(v.history) = v.nextSeq - 1
  /\ \A k \in DOMAIN v.history : v.history[k].seq = k /\ v.history[k].session = v.session
  /\ \A k \in DOMAIN v.history :
       v.history[k].type = "Trade" => v.history[k].exec < v.nextExec
  /\ \A j, k \in DOMAIN v.history :
       (/\ v.history[j].type = "Trade" /\ v.history[k].type = "Trade"
        /\ v.history[j].exec = v.history[k].exec) => j = k

\* A venue in shape: all it will ever deliver is in its history.
VenueOk(v) ==
  /\ DOMAIN v = VenueFields /\ FaultsOk(v.faults)
  /\ v.session \in Nat \ {0} /\ v.nextSeq \in Nat \ {0} /\ v.nextExec \in Nat /\ v.now \in Int
  /\ HistoryOk(v)
  /\ v.outbox \in Seq(Issued(v))
  /\ IsFiniteSet(DOMAIN v.scheduled) /\ DOMAIN v.scheduled \subseteq Int
  /\ \A t \in DOMAIN v.scheduled : v.scheduled[t] \in Seq(Issued(v))
  /\ \A i \in DOMAIN v.inflight : v.inflight[i] \in Sims

\* The engine's cursor is in the venue's session, and not beyond what was issued.
CursorOk(e) ==
  /\ e.session \in {0, e.venue.session} /\ e.nextSeq \in Nat \ {0}
  /\ e.session = e.venue.session => e.nextSeq <= e.venue.nextSeq

\* Report k of the venue's session is still ahead of the consumer.
Pending(e, k) == e.session = e.venue.session => k >= e.nextSeq

\* Reports are of known orders, and an execution belongs to one order.
KnownOk(e) ==
  LET h == e.venue.history
  IN  /\ DOMAIN e.venue.inflight \subseteq DOMAIN e.orders
      /\ \A k \in DOMAIN h : h[k].order \in DOMAIN e.orders
      /\ \A i \in DOMAIN e.orders : \A x \in e.orders[i].execs : x \in Nat /\ x < e.venue.nextExec
      /\ \A k \in DOMAIN h : \A i \in DOMAIN e.orders :
           h[k].type = "Trade" /\ h[k].exec \in e.orders[i].execs => h[k].order = i

\* Statuses a cancel or replace report would not be stale for.
Open == {"PendingNew", "New", "PartiallyFilled", "PendingReplace"}

\* A fill under way has the price its order reserved at.
PricesOk(e) ==
  LET h == e.venue.history
  IN  \A k \in DOMAIN h :
        Pending(e, k) /\ h[k].type = "Trade" /\ e.orders[h[k].order].status \in Open
          => h[k].price = e.orders[h[k].order].price

\* A confirmed replace under way finds its order waiting, with enough reserved for it,
\* and no fill or other replace of the order comes behind it.
ReplaceOk(e, asked, r) ==
  LET o == e.orders[r.order]
  IN  /\ o.status = "PendingReplace" /\ asked[r.order] > 0
      /\ r.price > 0 /\ r.qty >= o.cum
      /\ o.side = "Buy" => /\ r.qty > o.cum
                           /\ r.price * (r.qty - o.cum) <= GetOrZero(e.remCash, r.order)
      /\ o.side = "Sell" => r.qty - o.cum <= GetOrZero(e.remLots, r.order)

\* A replace report the engine has yet to read fits its order, and nothing that moves the
\* order's leaves was issued after it.
ReplacesOk(e, asked) ==
  LET h == e.venue.history
  IN  \A k \in DOMAIN h : Pending(e, k) /\ h[k].type = "Replaced" =>
        /\ ReplaceOk(e, asked, h[k])
        /\ \A j \in DOMAIN h : h[j].order = h[k].order /\ h[j].type \in {"Trade", "Replaced"} => j <= k

\* The position is what the session's trades say, once booked, where all of the
\* account's fills are of this session.
TradeExecs(v) == {r.exec : r \in VenueTrades(v)}
\* The venue's trades of this session that the engine has booked for an account.
SeenTrades(e, a) ==
  {r \in VenueTrades(e.venue) : r.order \in In(e, a) /\ r.exec \in e.orders[r.order].execs}
\* A trade's effect on the position.
SignedOf(e, r) == IF e.orders[r.order].side = "Buy" THEN r.qty ELSE -r.qty
\* Their net.
SeenNet(e, a) ==
  SumFunctionOnSet([r \in SeenTrades(e, a) |-> SignedOf(e, r)], SeenTrades(e, a))
\* All an account's executions come from the present venue session.
SessionOnly(e, a) == \A i \in In(e, a) : e.orders[i].execs \subseteq TradeExecs(e.venue)
\* An account whose executions all come from this session holds the net of the trades seen.
SettledOk(e) ==
  \A a \in Accounts :
    /\ e.venue.session = 1 => SessionOnly(e, a)
    /\ SessionOnly(e, a) => e.book.position[a] = SeenNet(e, a)

\* What the report stream still owes the engine will be booked soundly.
StreamOk(e, asked) ==
  /\ VenueOk(e.venue) /\ CursorOk(e) /\ KnownOk(e) /\ PricesOk(e) /\ ReplacesOk(e, asked)
  /\ SettledOk(e)

\* The inductive invariant of the engine.
Inv(e, asked) == AllOk(e, asked) /\ StreamOk(e, asked)

-----------------------------------------------------------------------------
\* The consumer's cursor and the kill switch move, nothing else.
Steers(e, x) ==
  /\ DOMAIN x = EngFields /\ x.kill \in BOOLEAN
  /\ x.orders = e.orders /\ x.byClient = e.byClient /\ x.nextId = e.nextId /\ x.book = e.book
  /\ x.remCash = e.remCash /\ x.remLots = e.remLots /\ x.venue = e.venue

\* Moving the cursor or the kill switch disturbs no order, ledger or key.
LEMMA AllSteers ==
  ASSUME NEW e, NEW x, NEW asked, AllOk(e, asked), Steers(e, x)
  PROVE  AllOk(x, asked)
<1>1. OrdersOk(x)
  BY DEF AllOk, OrdersOk, Steers, Holds
<1>2. BookOk(x)
  <2>1. CashOf(x) = CashOf(e) /\ LotsOf(x) = LotsOf(e) /\ NetOf(x) = NetOf(e)
    BY DEF CashOf, LotsOf, NetOf, Steers
  <2>2. \A a : In(x, a) = In(e, a)
    BY DEF In, Steers
  <2>3. x.book = e.book /\ BookOk(e)
    BY DEF AllOk, Steers
  <2> QED BY <2>1, <2>2, <2>3 DEF BookOk, Backed
<1>3. KeysOk(x, asked)
  BY DEF AllOk, KeysOk, KeyOk, Steers
<1> QED BY <1>1, <1>2, <1>3 DEF AllOk

\* A cursor that moves on over reports keeps the invariant.
LEMMA Steered ==
  ASSUME NEW e, NEW x, NEW asked, Inv(e, asked), Steers(e, x), CursorOk(x),
         \A k \in DOMAIN e.venue.history : Pending(x, k) => Pending(e, k)
  PROVE  Inv(x, asked)
<1>1. AllOk(x, asked) /\ VenueOk(x.venue) /\ x.venue = e.venue /\ x.orders = e.orders
  BY AllSteers DEF Inv, StreamOk, Steers
<1>2. KnownOk(x)
  BY <1>1 DEF Inv, StreamOk, KnownOk
<1>3. PricesOk(x)
  BY <1>1 DEF Inv, StreamOk, PricesOk
<1>4. ReplacesOk(x, asked)
  BY <1>1, ZenonT(60) DEF Inv, StreamOk, ReplacesOk, ReplaceOk, Steers
<1>5. SettledOk(x)
  <2>1. \A a : SessionOnly(x, a) <=> SessionOnly(e, a)
    BY <1>1 DEF SessionOnly, In
  <2>2. \A a : SeenTrades(x, a) = SeenTrades(e, a)
    BY <1>1 DEF SeenTrades, In
  <2>3. \A a : SeenNet(x, a) = SeenNet(e, a)
    BY <1>1, <2>2 DEF SeenNet, SignedOf
  <2> QED BY <1>1, <2>1, <2>3, Zenon DEF Inv, StreamOk, SettledOk, Steers
<1> QED BY <1>1, <1>2, <1>3, <1>4, <1>5 DEF Inv, StreamOk

-----------------------------------------------------------------------------
(* The position and the trades of the session.                             *)

\* The venue's trades are finitely many reports with distinct execution ids.
LEMMA TradesFinite ==
  ASSUME NEW v, VenueOk(v)
  PROVE  /\ IsFiniteSet(VenueTrades(v)) /\ VenueTrades(v) \subseteq Reports
         /\ \A r \in VenueTrades(v) : \E k \in DOMAIN v.history : r = v.history[k]
         /\ \A r, u \in VenueTrades(v) : r.exec = u.exec => r = u
<1>1. v.history \in Seq(Reports)
  BY DEF VenueOk, HistoryOk
<1>2. IsFiniteSet(ToSet(v.history))
  <2> DEFINE n == Len(v.history)
  <2>0. n \in Nat /\ DOMAIN v.history = 1 .. n
    BY <1>1
  <2>1. IsFiniteSet(DOMAIN v.history)
    <3> HIDE DEF n
    <3>1. IsFiniteSet(1 .. n)
      BY <2>0, FS_Interval
    <3> QED BY <2>0, <3>1
  <2>2. v.history \in Surjection(DOMAIN v.history, ToSet(v.history))
    BY <1>1 DEF Surjection, ToSet
  <2> QED BY <2>1, <2>2, FS_Surjection
<1>3. IsFiniteSet(VenueTrades(v))
  BY <1>2, FS_Subset DEF VenueTrades
<1>4. \A r \in VenueTrades(v) : r.type = "Trade" /\ \E k \in DOMAIN v.history : r = v.history[k]
  BY DEF VenueTrades, ToSet
<1>5. VenueTrades(v) \subseteq Reports
  BY <1>1, <1>4
<1>6. \A r, u \in VenueTrades(v) : r.exec = u.exec => r = u
  BY <1>4 DEF VenueOk, HistoryOk
<1> QED BY <1>3, <1>4, <1>5, <1>6

\* So are the ones seen.
LEMMA SeenFinite ==
  ASSUME NEW e, VenueOk(e.venue), NEW a
  PROVE  /\ IsFiniteSet(SeenTrades(e, a))
         /\ \A r \in SeenTrades(e, a) : SignedOf(e, r) \in Int
<1>1. IsFiniteSet(SeenTrades(e, a))
  BY TradesFinite, FS_Subset DEF SeenTrades
<1>2. ASSUME NEW r \in SeenTrades(e, a) PROVE SignedOf(e, r) \in Int
  <2>1. r.qty \in Int
    BY TradesFinite DEF SeenTrades, Reports
  <2> QED BY <2>1 DEF SignedOf
<1> QED BY <1>1, <1>2

\* Sums of the same amounts over the same trades are equal.
LEMMA SeenSame ==
  ASSUME NEW e, NEW x, NEW a, VenueOk(e.venue), SeenTrades(x, a) = SeenTrades(e, a),
         \A r \in SeenTrades(e, a) : SignedOf(x, r) = SignedOf(e, r)
  PROVE  SeenNet(x, a) = SeenNet(e, a)
<1> DEFINE S == SeenTrades(e, a)
           f == [r \in S |-> SignedOf(e, r)]
           g == [r \in S |-> SignedOf(x, r)]
<1>1. \A r \in S : f[r] = g[r]
  OBVIOUS
<1>2. IsFiniteSet(S)
  BY SeenFinite
<1> HIDE DEF S
<1>3. SumFunctionOnSet(f, S) = SumFunctionOnSet(g, S)
  <2> HIDE DEF f, g
  <2> QED BY <1>1, <1>2, SumSame
<1> QED BY <1>3 DEF SeenNet, S

\* The position moves with the fills of an account's orders.
LEMMA PositionSteps ==
  ASSUME NEW e, NEW x, OrdersOk(e), BookOk(e), OrdersOk(x), BookOk(x), NEW id \in DOMAIN e.orders,
         OnlyOrder(e, x, id), Same(e.orders[id], x.orders[id]), NEW a \in Accounts
  PROVE  /\ x.book.position[a] = e.book.position[a]
              + IF a = e.orders[id].account THEN Net(x.orders[id]) - Net(e.orders[id]) ELSE 0
         /\ e.book.position[a] \in Int
<1>1. SumFunctionOnSet(NetOf(x), In(x, a)) = SumFunctionOnSet(NetOf(e), In(e, a))
        + IF a = e.orders[id].account THEN Net(x.orders[id]) - Net(e.orders[id]) ELSE 0
  BY SumsMove
<1>2. /\ x.book.position[a] = SumFunctionOnSet(NetOf(x), In(x, a))
      /\ e.book.position[a] = SumFunctionOnSet(NetOf(e), In(e, a))
  BY DEF BookOk, Backed
<1> QED BY <1>1, <1>2 DEF BookOk, BookShape

\* Fills that are not of this session's trades stay unbooked: the order moves, its fills do not.
LEMMA SettledStays ==
  ASSUME NEW e, NEW x, OrdersOk(e), BookOk(e), OrdersOk(x), BookOk(x), NEW id \in DOMAIN e.orders,
         VenueOk(e.venue),
         OnlyOrder(e, x, id), Same(e.orders[id], x.orders[id]), SettledOk(e),
         x.orders[id].execs = e.orders[id].execs, x.orders[id].cum = e.orders[id].cum
  PROVE  SettledOk(x)
<1>1. /\ x.venue = e.venue /\ DOMAIN x.orders = DOMAIN e.orders
      /\ \A i \in DOMAIN e.orders : /\ x.orders[i].execs = e.orders[i].execs
                                    /\ Same(e.orders[i], x.orders[i])
  BY DEF OnlyOrder, Same
<1>2. \A a : In(x, a) = In(e, a)
  BY <1>1 DEF In, Same
<1>3. ASSUME NEW a \in Accounts
      PROVE  x.book.position[a] = e.book.position[a]
  <2>1. Net(x.orders[id]) = Net(e.orders[id]) /\ Net(e.orders[id]) \in Int
    BY <1>1, NetInt DEF Net, Same, OrdersOk
  <2>2. /\ x.book.position[a] = e.book.position[a]
             + IF a = e.orders[id].account THEN Net(x.orders[id]) - Net(e.orders[id]) ELSE 0
        /\ e.book.position[a] \in Int
    BY PositionSteps
  <2> QED BY <2>1, <2>2
<1>4. ASSUME NEW a PROVE SeenNet(x, a) = SeenNet(e, a)
  <2>1. SeenTrades(x, a) = SeenTrades(e, a)
    BY <1>1, <1>2 DEF SeenTrades, In
  <2>2. \A r \in SeenTrades(e, a) : SignedOf(x, r) = SignedOf(e, r)
    BY <1>1 DEF SeenTrades, In, SignedOf, Same
  <2> QED BY <2>1, <2>2, SeenSame
<1>5. \A a : SessionOnly(x, a) <=> SessionOnly(e, a)
  BY <1>1, <1>2 DEF SessionOnly, In
<1> QED BY <1>1, <1>3, <1>4, <1>5, Zenon DEF SettledOk

\* Booking one more trade of the history keeps the position the net of those seen.
LEMMA SettledTrades ==
  ASSUME NEW e, NEW x, OrdersOk(e), BookOk(e), OrdersOk(x), BookOk(x), VenueOk(e.venue),
         SettledOk(e), NEW r \in VenueTrades(e.venue), r.order \in DOMAIN e.orders,
         OnlyOrder(e, x, r.order), Same(e.orders[r.order], x.orders[r.order]),
         r.exec \notin e.orders[r.order].execs,
         x.orders[r.order].execs = e.orders[r.order].execs \cup {r.exec},
         x.orders[r.order].cum = e.orders[r.order].cum + r.qty
  PROVE  SettledOk(x)
<1> DEFINE id == r.order
           o  == e.orders[id]
           p  == x.orders[id]
<1>1. /\ x.venue = e.venue /\ DOMAIN x.orders = DOMAIN e.orders
      /\ \A i \in DOMAIN e.orders : /\ e.orders[i].execs \subseteq x.orders[i].execs
                                    /\ i # id => x.orders[i].execs = e.orders[i].execs
                                    /\ Same(e.orders[i], x.orders[i])
  BY DEF OnlyOrder, Same
<1>2. \A a : In(x, a) = In(e, a)
  BY <1>1 DEF In, Same
<1>3. r.exec \in TradeExecs(e.venue) /\ r.qty \in Int
  BY TradesFinite DEF TradeExecs, Reports
<1>4. \A a : SessionOnly(x, a) <=> SessionOnly(e, a)
  <2>1. ASSUME NEW i \in DOMAIN e.orders
        PROVE  x.orders[i].execs \subseteq TradeExecs(e.venue) <=> e.orders[i].execs \subseteq TradeExecs(e.venue)
    <3>1. x.orders[i].execs \subseteq e.orders[i].execs \cup {r.exec}
      BY <1>1
    <3> QED BY <1>1, <1>3, <3>1
  <2>2. \A a : In(e, a) \subseteq DOMAIN e.orders
    BY DEF In
  <2> QED BY <1>1, <1>2, <2>1, <2>2 DEF SessionOnly
<1>5. Net(p) - Net(o) = SignedOf(e, r) /\ SignedOf(e, r) \in Int
  <2>1. o.cum \in Int /\ p.cum = o.cum + r.qty /\ p.side = o.side
    BY <1>1 DEF OrdersOk, OrderOk, Same
  <2> QED BY <1>3, <2>1 DEF Net, SignedOf
<1>6. ASSUME NEW a \in Accounts, SessionOnly(e, a), e.book.position[a] = SeenNet(e, a)
      PROVE  x.book.position[a] = SeenNet(x, a)
  <2> DEFINE S == SeenTrades(e, a)
             T == SeenTrades(x, a)
             f == [u \in S |-> SignedOf(e, u)]
             g == [u \in T |-> SignedOf(x, u)]
  <2>1. /\ x.book.position[a] = e.book.position[a] + IF a = o.account THEN Net(p) - Net(o) ELSE 0
        /\ e.book.position[a] \in Int
    BY PositionSteps
  <2>2. \A u \in VenueTrades(e.venue) : u.order \in DOMAIN e.orders => SignedOf(x, u) = SignedOf(e, u)
    BY <1>1 DEF SignedOf, Same
  <2>3. CASE a # o.account
    <3>1. id \notin In(e, a)
      BY <2>3 DEF In
    <3>2. T = S
      <4>1. \A i \in In(e, a) : x.orders[i].execs = e.orders[i].execs
        BY <1>1, <3>1 DEF In
      <4> QED BY <1>1, <1>2, <4>1 DEF SeenTrades
    <3>3. \A u \in S : SignedOf(x, u) = SignedOf(e, u)
      BY <2>2 DEF SeenTrades, In
    <3>4. SeenNet(x, a) = SeenNet(e, a)
      BY <3>2, <3>3, SeenSame
    <3> QED BY <1>6, <2>1, <2>3, <3>4
  <2>4. CASE a = o.account
    <3>1. id \in In(e, a)
      BY <2>4 DEF In
    <3>2. T = S \cup {r} /\ r \notin S
      <4>1. \A u \in T : u \in S \/ u = r
        <5> SUFFICES ASSUME NEW u \in T, u \notin S PROVE u = r
          OBVIOUS
        <5>1. u \in VenueTrades(e.venue) /\ u.order \in In(e, a) /\ u.exec \in x.orders[u.order].execs
          BY <1>1, <1>2 DEF SeenTrades
        <5>2. u.order = id /\ u.exec = r.exec
          BY <1>1, <5>1 DEF SeenTrades, In
        <5> QED BY <5>1, <5>2, TradesFinite
      <4>2. S \subseteq T
        <5>1. \A i \in In(e, a) : e.orders[i].execs \subseteq x.orders[i].execs
          BY <1>1 DEF In
        <5> QED BY <1>1, <1>2, <5>1 DEF SeenTrades
      <4>3. r \in T /\ r \notin S
        BY <1>1, <1>2, <3>1 DEF SeenTrades
      <4> QED BY <4>1, <4>2, <4>3
    <3>3. IsFiniteSet(S) /\ \A u \in S : SignedOf(e, u) \in Int
      BY SeenFinite
    <3>4. \A u \in S : f[u] \in Int /\ g[u] = f[u]
      BY <2>2, <3>2, <3>3 DEF SeenTrades, In
    <3>5. g[r] = SignedOf(e, r)
      BY <2>2, <3>2
    <3>6. SumFunctionOnSet(g, S \cup {r}) = SumFunctionOnSet(f, S) + g[r]
      <4>1. g[r] \in Int
        BY <1>5, <3>5
      <4> HIDE DEF S, f, g, T
      <4> QED BY <3>2, <3>3, <3>4, <4>1, SumMore
    <3>7. SeenNet(x, a) = SumFunctionOnSet(g, S \cup {r}) /\ SeenNet(e, a) = SumFunctionOnSet(f, S)
      BY <3>2 DEF SeenNet
    <3> QED BY <1>5, <1>6, <2>1, <2>4, <3>5, <3>6, <3>7, Zenon
  <2> QED BY <2>3, <2>4
<1> QED BY <1>1, <1>4, <1>6, Zenon DEF SettledOk

-----------------------------------------------------------------------------
(* A report the OMS accepts.                                               *)

\* The lifecycle event a report turns into.
LEMMA EventOf ==
  ASSUME NEW r \in Reports, r.type # "CancelReject"
  PROVE  LET ev == ToOrderEvent(r)
         IN  /\ ev.exec = r.exec /\ ev.qty = r.qty /\ ev.price = r.price
             /\ ev.qty \in Int /\ ev.price \in Int
             /\ ev.type \in {"Accepted", "Rejected", "Trade", "Canceled", "Replaced", "Expired"}
             /\ ev.type = "Trade" <=> r.type = "Trade"
             /\ ev.type = "Replaced" <=> r.type = "Replaced"
BY DEF ToOrderEvent, Event, Reports, ReportTypes

\* A pending report the order accepts is booked soundly.
LEMMA ReportBooked ==
  ASSUME NEW e, NEW asked, Inv(e, asked), NEW k \in DOMAIN e.venue.history, Pending(e, k),
         e.venue.history[k].type # "CancelReject",
         ApplyError(e.orders[e.venue.history[k].order], ToOrderEvent(e.venue.history[k])) = "none"
  PROVE  LET r  == e.venue.history[k]
             ev == ToOrderEvent(r)
         IN  Booked(e, asked, r.order, ev, ApplyEffects(ApplyOms(e, r.order, ev), r.order, ev))
<1> DEFINE r  == e.venue.history[k]
           ev == ToOrderEvent(r)
           id == r.order
<1>1. AllOk(e, asked) /\ KnownOk(e) /\ PricesOk(e) /\ ReplacesOk(e, asked) /\ r \in Reports
  BY DEF Inv, StreamOk, VenueOk, HistoryOk
<1>2. id \in DOMAIN e.orders
  BY <1>1 DEF KnownOk
<1>3. /\ ev.exec = r.exec /\ ev.qty = r.qty /\ ev.price = r.price
      /\ ev.qty \in Int /\ ev.price \in Int
      /\ ev.type \in {"Accepted", "Rejected", "Trade", "Canceled", "Replaced", "Expired"}
      /\ ev.type = "Trade" <=> r.type = "Trade"
      /\ ev.type = "Replaced" <=> r.type = "Replaced"
  BY <1>1, EventOf
<1>4. ApplyError(e.orders[id], ev) = "none"
  OBVIOUS
<1> HIDE DEF ev
<1>5. CASE ev.type = "Accepted"
  BY <1>1, <1>2, <1>3, <1>4, <1>5, AcceptedStep DEF ev
<1>6. CASE ev.type \in {"Rejected", "Canceled", "Expired"}
  BY <1>1, <1>2, <1>3, <1>4, <1>6, ReleasedStep DEF ev
<1>7. CASE ev.type = "Trade"
  <2>1. e.orders[id].status \in Open
    <3>1. LegalTransition(e.orders[id].status, ev.type)
      BY <1>4 DEF ApplyError
    <3> QED BY <1>7, <3>1 DEF LegalTransition, IsWorking, Open
  <2>2. ev.price = e.orders[id].price
    BY <1>1, <1>3, <1>7, <2>1 DEF PricesOk
  <2>3. \A i \in DOMAIN e.orders : ev.exec \in e.orders[i].execs => i = id
    BY <1>1, <1>3, <1>7 DEF KnownOk
  <2> QED BY <1>1, <1>2, <1>3, <1>4, <1>7, <2>2, <2>3, TradeStep DEF ev
<1>8. CASE ev.type = "Replaced"
  <2>1. ReplaceOk(e, asked, r)
    BY <1>1, <1>3, <1>8 DEF ReplacesOk
  <2>2. /\ asked[id] > 0
        /\ e.orders[id].side = "Buy" =>
             /\ ev.qty > e.orders[id].cum
             /\ ev.price * (ev.qty - e.orders[id].cum) <= GetOrZero(e.remCash, id)
        /\ e.orders[id].side = "Sell" => ev.qty - e.orders[id].cum <= GetOrZero(e.remLots, id)
    BY <1>3, <2>1 DEF ReplaceOk
  <2> QED BY <1>1, <1>2, <1>3, <1>4, <1>8, <2>2, ReplacedStep DEF ev
<1> QED BY <1>3, <1>5, <1>6, <1>7, <1>8 DEF ev

\* The stream agrees with what the report left.
LEMMA StreamBooked ==
  ASSUME NEW e, NEW x, NEW asked, Inv(e, asked), NEW k \in DOMAIN e.venue.history,
         e.session = e.venue.session, e.nextSeq = k,
         e.venue.history[k].type # "CancelReject",
         ApplyError(e.orders[e.venue.history[k].order], ToOrderEvent(e.venue.history[k])) = "none",
         AllOk(x, asked), OnlyOrder(e, x, e.venue.history[k].order),
         x.orders[e.venue.history[k].order]
           = Applied(e.orders[e.venue.history[k].order], ToOrderEvent(e.venue.history[k]))
  PROVE  Inv([x EXCEPT !.nextSeq = k + 1], asked)
<1> DEFINE h  == e.venue.history
           r  == h[k]
           ev == ToOrderEvent(r)
           id == r.order
           o  == e.orders[id]
           p  == x.orders[id]
           y  == [x EXCEPT !.nextSeq = k + 1]
<1>1. /\ AllOk(e, asked) /\ KnownOk(e) /\ PricesOk(e) /\ ReplacesOk(e, asked) /\ r \in Reports
      /\ VenueOk(e.venue) /\ SettledOk(e) /\ CursorOk(e) /\ OrdersOk(e) /\ BookOk(e) /\ OrdersOk(x) /\ BookOk(x)
  BY DEF Inv, AllOk, StreamOk, VenueOk, HistoryOk
<1>2. id \in DOMAIN e.orders
  BY <1>1 DEF KnownOk
<1>3. /\ ev.exec = r.exec /\ ev.qty = r.qty /\ ev.price = r.price
      /\ ev.qty \in Int /\ ev.price \in Int
      /\ ev.type \in {"Accepted", "Rejected", "Trade", "Canceled", "Replaced", "Expired"}
      /\ ev.type = "Trade" <=> r.type = "Trade"
      /\ ev.type = "Replaced" <=> r.type = "Replaced"
  BY <1>1, EventOf
<1>4. Same(o, p) /\ Moves(o, p, ev)
  BY <1>1, <1>2, <1>3, AppliedMoves DEF OrdersOk
<1>5. /\ x.venue = e.venue /\ DOMAIN x.orders = DOMAIN e.orders /\ x.session = e.session
      /\ \A i \in DOMAIN e.orders \ {id} :
           /\ x.orders[i] = e.orders[i]
           /\ GetOrZero(x.remCash, i) = GetOrZero(e.remCash, i)
           /\ GetOrZero(x.remLots, i) = GetOrZero(e.remLots, i)
  BY DEF OnlyOrder
<1>6. k \in Nat \ {0} /\ k < e.venue.nextSeq /\ e.venue.nextSeq \in Nat
  <2>1. h \in Seq(Reports) /\ Len(h) = e.venue.nextSeq - 1 /\ e.venue.nextSeq \in Nat
    BY <1>1 DEF VenueOk, HistoryOk
  <2> QED BY <2>1
<1>7. DOMAIN h \subseteq Nat
  BY <1>1 DEF VenueOk, HistoryOk
<1>8. Steers(x, y) /\ y.nextSeq = k + 1 /\ y.session = e.session
  <2>1. DOMAIN x = EngFields /\ x.kill \in BOOLEAN
    BY <1>1 DEF OrdersOk
  <2> QED BY <1>5, <2>1 DEF Steers, EngFields
<1> HIDE DEF y, ev
<1>9. AllOk(y, asked)
  BY <1>8, AllSteers
<1>10. y.orders = x.orders /\ y.remCash = x.remCash /\ y.remLots = x.remLots /\ y.venue = e.venue /\ y.book = x.book
  BY <1>5, <1>8 DEF Steers
<1>11. CursorOk(y)
  BY <1>1, <1>6, <1>8, <1>10 DEF CursorOk
<1>12. \A j \in DOMAIN h : Pending(y, j) => Pending(e, j) /\ j > k
  BY <1>5, <1>6, <1>7, <1>8, <1>10 DEF Pending
<1>13. /\ p.execs = IF r.type = "Trade" THEN o.execs \cup {r.exec} ELSE o.execs
       /\ p.cum = IF r.type = "Trade" THEN o.cum + r.qty ELSE o.cum
       /\ r.type = "Trade" => r.exec \notin o.execs
       /\ r.type # "Replaced" => p.price = o.price
       /\ o.status = "PendingReplace" => r.type = "Replaced"
       /\ p.status \in Open => o.status \in Open
  BY <1>3, <1>4, ZenonT(60) DEF Moves, SameFill, Open, IsWorking
<1>14. KnownOk(y)
  <2>1. \A i \in DOMAIN e.orders : \A q \in y.orders[i].execs : q \in Nat /\ q < e.venue.nextExec
    <3>1. r.type = "Trade" => r.exec \in Nat /\ r.exec < e.venue.nextExec
      BY <1>1 DEF VenueOk, HistoryOk, Reports
    <3>2. \A q \in p.execs : q \in o.execs \/ (r.type = "Trade" /\ q = r.exec)
      BY <1>13, ZenonT(60)
    <3>3. \A i \in DOMAIN e.orders : \A q \in e.orders[i].execs : q \in Nat /\ q < e.venue.nextExec
      BY <1>1 DEF KnownOk
    <3>4. \A q \in p.execs : q \in Nat /\ q < e.venue.nextExec
      BY <1>2, <3>1, <3>2, <3>3, Zenon
    <3> QED BY <1>5, <1>10, <3>3, <3>4, ZenonT(60)
  <2>2. ASSUME NEW j \in DOMAIN h, NEW i \in DOMAIN e.orders, h[j].type = "Trade", h[j].exec \in y.orders[i].execs
        PROVE  h[j].order = i
    <3>1. CASE h[j].exec \in e.orders[i].execs
      BY <1>1, <2>2, <3>1 DEF KnownOk
    <3>2. CASE h[j].exec \notin e.orders[i].execs
      <4>1. i = id /\ r.type = "Trade" /\ h[j].exec = r.exec
        <5>1. i = id
          BY <1>5, <1>10, <2>2, <3>2
        <5>2. h[j].exec \in p.execs /\ h[j].exec \notin o.execs
          BY <1>10, <2>2, <3>2, <5>1
        <5> QED BY <1>13, <5>1, <5>2
      <4>2. j = k
        BY <1>1, <2>2, <4>1 DEF VenueOk, HistoryOk
      <4> QED BY <4>1, <4>2
    <3> QED BY <3>1, <3>2
  <2> QED BY <1>1, <1>5, <1>10, <2>1, <2>2 DEF KnownOk
<1>15. PricesOk(y)
  <2>1. ASSUME NEW j \in DOMAIN h, Pending(y, j), h[j].type = "Trade", y.orders[h[j].order].status \in Open
        PROVE  h[j].price = y.orders[h[j].order].price
    <3>1. Pending(e, j) /\ j > k /\ h[j].order \in DOMAIN e.orders
      BY <1>1, <1>12, <2>1 DEF KnownOk
    <3>2. CASE h[j].order # id
      BY <1>1, <1>5, <1>10, <2>1, <3>1, <3>2, ZenonT(60) DEF PricesOk
    <3>3. CASE h[j].order = id
      <4>1. h[j].price = o.price
        BY <1>1, <1>10, <1>13, <2>1, <3>1, <3>3, Zenon DEF PricesOk
      <4>2. r.type # "Replaced"
        <5>1. Pending(e, k)
          BY <1>6 DEF Pending
        <5>2. r.type = "Replaced" => j <= k
          BY <1>1, <2>1, <3>3, <5>1 DEF ReplacesOk
        <5> QED BY <1>6, <1>7, <3>1, <5>2
      <4> QED BY <1>10, <1>13, <3>3, <4>1, <4>2, Zenon
    <3> QED BY <3>2, <3>3
  <2> QED BY <1>10, <2>1, Zenon DEF PricesOk
<1>16. ReplacesOk(y, asked)
  <2>1. ASSUME NEW j \in DOMAIN h, Pending(y, j), h[j].type = "Replaced"
        PROVE  /\ ReplaceOk(y, asked, h[j])
               /\ \A n \in DOMAIN h : h[n].order = h[j].order /\ h[n].type \in {"Trade", "Replaced"} => n <= j
    <3>1. Pending(e, j) /\ j > k /\ h[j].order \in DOMAIN e.orders
      BY <1>1, <1>12, <2>1 DEF KnownOk
    <3>2. /\ ReplaceOk(e, asked, h[j])
          /\ \A n \in DOMAIN h : h[n].order = h[j].order /\ h[n].type \in {"Trade", "Replaced"} => n <= j
      BY <1>1, <2>1, <3>1 DEF ReplacesOk
    <3>3. h[j].order # id
      <4>1. SUFFICES ASSUME h[j].order = id PROVE FALSE
        OBVIOUS
      <4>2. r.type = "Replaced"
        BY <1>13, <3>2, <4>1, Zenon DEF ReplaceOk
      <4>3. Pending(e, k)
        BY <1>6 DEF Pending
      <4>4. j <= k
        BY <1>1, <2>1, <4>1, <4>2, <4>3 DEF ReplacesOk
      <4> QED BY <1>6, <1>7, <3>1, <4>4
    <3> QED BY <1>5, <1>10, <3>1, <3>2, <3>3, ZenonT(60) DEF ReplaceOk
  <2> QED BY <1>10, <2>1 DEF ReplacesOk
<1>17. SettledOk(x)
  <2>1. CASE r.type = "Trade"
    <3>1. r \in VenueTrades(e.venue)
      BY <2>1 DEF VenueTrades, ToSet
    <3>2. p.execs = o.execs \cup {r.exec} /\ p.cum = o.cum + r.qty /\ r.exec \notin o.execs
      BY <1>13, <2>1, Zenon
    <3> QED BY <1>1, <1>2, <1>4, <3>1, <3>2, SettledTrades, Zenon
  <2>2. CASE r.type # "Trade"
    <3>1. p.execs = o.execs /\ p.cum = o.cum
      BY <1>13, <2>2
    <3> QED BY <1>1, <1>2, <1>4, <3>1, SettledStays, Zenon
  <2> QED BY <2>1, <2>2
<1>18. SettledOk(y)
  <2>1. y.orders = x.orders /\ y.venue = x.venue /\ y.book = x.book
    BY <1>5, <1>10
  <2>2. \A a : In(y, a) = In(x, a)
    BY <2>1 DEF In
  <2>3. \A a : SeenTrades(y, a) = SeenTrades(x, a)
    BY <2>1, <2>2 DEF SeenTrades
  <2>4. \A a : SeenNet(y, a) = SeenNet(x, a)
    BY <2>1, <2>3 DEF SeenNet, SignedOf
  <2>5. \A a : SessionOnly(y, a) <=> SessionOnly(x, a)
    BY <2>1, <2>2 DEF SessionOnly
  <2> QED BY <1>17, <2>1, <2>4, <2>5, Zenon DEF SettledOk
<1>19. VenueOk(y.venue)
  BY <1>1, <1>10
<1>20. Inv(y, asked)
  BY <1>9, <1>11, <1>14, <1>15, <1>16, <1>18, <1>19 DEF Inv, StreamOk
<1> QED BY <1>20 DEF y

\* Where the consumer stands in the venue's session.
At(e) == IF e.session = e.venue.session THEN e.nextSeq ELSE 1

\* r is what became of e on the way through the reports of the session.
Consumes(e, asked, r) ==
  /\ Inv(r.eng, asked) /\ r.eng.venue = e.venue
  /\ r.err \in {"none", "SeqGap", "Order", "Venue"}
  /\ At(r.eng) >= At(e)
  /\ DOMAIN r.eng.orders = DOMAIN e.orders

\* The cursor is a positive natural.
LEMMA AtNat ==
  ASSUME NEW e, NEW asked, Inv(e, asked)
  PROVE  At(e) \in Nat \ {0}
BY DEF Inv, StreamOk, CursorOk, At

\* Reading reports in two goes.
LEMMA ConsumesTrans ==
  ASSUME NEW e, NEW asked, Inv(e, asked), NEW r, NEW s, Consumes(e, asked, r), Consumes(r.eng, asked, s)
  PROVE  Consumes(e, asked, s)
<1>1. At(e) \in Nat /\ At(r.eng) \in Nat /\ At(s.eng) \in Nat
  BY AtNat DEF Consumes
<1>2. At(s.eng) >= At(r.eng) /\ At(r.eng) >= At(e)
  BY DEF Consumes
<1>3. At(s.eng) >= At(e)
  BY <1>1, <1>2
<1> QED BY <1>3 DEF Consumes

\* The consumer opens the session of the report: nothing it has not seen comes back.
LEMMA HereSound ==
  ASSUME NEW e, NEW asked, Inv(e, asked)
  PROVE  LET x == IF e.session = e.venue.session THEN e
                  ELSE [e EXCEPT !.session = e.venue.session, !.nextSeq = 1]
         IN  /\ Inv(x, asked) /\ Steers(e, x) /\ x.session = e.venue.session /\ x.nextSeq = At(e)
<1> DEFINE x == [e EXCEPT !.session = e.venue.session, !.nextSeq = 1]
<1>0. DOMAIN e = EngFields /\ e.kill \in BOOLEAN /\ CursorOk(e) /\ VenueOk(e.venue)
  BY DEF Inv, AllOk, OrdersOk, StreamOk
<1>1. CASE e.session = e.venue.session
  BY <1>0, <1>1 DEF Steers, At
<1>2. CASE e.session # e.venue.session
  <2>1. Steers(e, x) /\ x.session = e.venue.session /\ x.nextSeq = 1 /\ x.venue = e.venue
    BY <1>0 DEF Steers, EngFields
  <2> HIDE DEF x
  <2>2. CursorOk(x)
    BY <1>0, <2>1 DEF CursorOk, VenueOk
  <2>3. \A k \in DOMAIN e.venue.history : Pending(x, k) => Pending(e, k)
    BY <1>2 DEF Pending
  <2>4. Inv(x, asked)
    BY <2>1, <2>2, <2>3, Steered
  <2> QED BY <1>2, <2>1, <2>4 DEF At, x
<1> QED BY <1>1, <1>2

\* Applying any report of the history (duplicate, gap, stale or new) is sound and, without
\* an error, leaves the cursor beyond it.
LEMMA ReportSound ==
  ASSUME NEW e, NEW asked, Inv(e, asked), NEW k \in DOMAIN e.venue.history
  PROVE  LET r == ApplyReport(e, e.venue.history[k])
         IN  /\ Consumes(e, asked, r) /\ r.eng.session = e.venue.session
             /\ r.err = "none" => At(r.eng) > k
<1> DEFINE r      == e.venue.history[k]
           ev     == ToOrderEvent(r)
           id     == r.order
           here   == IF e.session = r.session THEN e
                     ELSE [e EXCEPT !.session = r.session, !.nextSeq = 1]
           error  == ApplyError(here.orders[id], ev)
           effect == ApplyEffects(ApplyOms(here, id, ev), id, ev)
           halt   == [here EXCEPT !.kill = TRUE]
           eaten  == [here EXCEPT !.nextSeq = r.seq + 1]
           done   == [effect.eng EXCEPT !.nextSeq = r.seq + 1]
           res    == ApplyReport(e, r)
<1>1. /\ r.seq = k /\ r.session = e.venue.session /\ k \in Nat \ {0} /\ k < e.venue.nextSeq
      /\ e.venue.nextSeq \in Nat
  <2>1. /\ e.venue.history \in Seq(Reports) /\ Len(e.venue.history) = e.venue.nextSeq - 1
        /\ e.venue.nextSeq \in Nat /\ r.seq = k /\ r.session = e.venue.session
    BY DEF Inv, StreamOk, VenueOk, HistoryOk
  <2> QED BY <2>1
<1>2. /\ Inv(here, asked) /\ Steers(e, here) /\ here.session = e.venue.session /\ here.nextSeq = At(e)
  BY <1>1, HereSound, Zenon
<1>3. /\ here.venue = e.venue /\ here.orders = e.orders /\ DOMAIN here = EngFields /\ here.kill \in BOOLEAN
      /\ here.nextSeq \in Nat /\ AllOk(here, asked) /\ CursorOk(here)
  BY <1>2, AtNat DEF Steers, Inv, StreamOk
<1>4. id \in DOMAIN here.orders
  BY <1>2, <1>3, Zenon DEF Inv, StreamOk, KnownOk
<1>5. res = IF k < here.nextSeq THEN Ok(here)
            ELSE IF k > here.nextSeq THEN Fail(halt, "SeqGap")
            ELSE IF r.type = "CancelReject" THEN Ok(eaten)
            ELSE IF error \in {"IllegalTransition", "DuplicateExec"} THEN Ok(eaten)
            ELSE IF error # "none" THEN Fail(here, "Order")
            ELSE IF effect.err # "none" THEN effect
            ELSE Ok(done)
  BY <1>1, <1>4 DEF ApplyReport
<1> HIDE DEF here, ev, effect, error, halt, eaten, done, res
\* A move of the cursor within the session.
<1>6. ASSUME NEW x, Inv(x, asked), x.venue = e.venue, x.session = e.venue.session,
             DOMAIN x.orders = DOMAIN e.orders, x.nextSeq >= here.nextSeq,
             NEW c \in {"none", "SeqGap", "Order"}, res.eng = x, res.err = c
      PROVE  /\ Consumes(e, asked, res) /\ res.eng.session = e.venue.session
             /\ At(res.eng) = x.nextSeq
  BY <1>2, <1>6 DEF Consumes, At
<1>7. CASE k < here.nextSeq
  <2>1. res.eng = here /\ res.err = "none"
    BY <1>5, <1>7 DEF Ok
  <2>2. here.nextSeq >= here.nextSeq
    BY <1>3
  <2>3. Consumes(e, asked, res) /\ res.eng.session = e.venue.session /\ At(res.eng) = here.nextSeq
    BY <1>2, <1>3, <1>6, <2>1, <2>2
  <2> QED BY <1>1, <1>3, <1>7, <2>1, <2>3 DEF res
<1>8. CASE k > here.nextSeq
  <2>1. res.eng = halt /\ res.err = "SeqGap"
    BY <1>1, <1>3, <1>5, <1>8 DEF Fail
  <2>2. /\ Steers(here, halt) /\ halt.session = here.session /\ halt.nextSeq = here.nextSeq
        /\ halt.venue = e.venue /\ halt.orders = e.orders
    BY <1>3 DEF Steers, EngFields, halt
  <2>3. CursorOk(halt) /\ \A j \in DOMAIN here.venue.history : Pending(halt, j) => Pending(here, j)
    BY <1>3, <2>2 DEF CursorOk, Pending
  <2>4. Inv(halt, asked)
    BY <1>2, <2>2, <2>3, Steered
  <2>5. halt.nextSeq >= here.nextSeq
    BY <1>3, <2>2
  <2>6. Consumes(e, asked, res) /\ res.eng.session = e.venue.session
    BY <1>2, <1>6, <2>1, <2>2, <2>4, <2>5
  <2> QED BY <2>1, <2>6 DEF res
<1>9. ASSUME k = here.nextSeq
      PROVE  /\ Inv(eaten, asked) /\ eaten.venue = e.venue /\ eaten.session = e.venue.session
             /\ eaten.orders = e.orders /\ eaten.nextSeq = k + 1 /\ eaten.nextSeq >= here.nextSeq
  <2>1. /\ Steers(here, eaten) /\ eaten.session = here.session /\ eaten.nextSeq = k + 1
        /\ eaten.venue = e.venue /\ eaten.orders = e.orders
    BY <1>1, <1>3 DEF Steers, EngFields, eaten
  <2>2. CursorOk(eaten)
    BY <1>1, <1>2, <1>3, <2>1 DEF CursorOk
  <2>3. \A j \in DOMAIN here.venue.history : Pending(eaten, j) => Pending(here, j)
    <3>1. DOMAIN here.venue.history \subseteq Nat
      BY <1>2, SMTT(60) DEF Inv, StreamOk, VenueOk, HistoryOk
    <3> QED BY <1>1, <1>2, <1>3, <1>9, <2>1, <3>1 DEF Pending
  <2>4. Inv(eaten, asked)
    BY <1>2, <2>1, <2>2, <2>3, Steered
  <2> QED BY <1>1, <1>2, <1>9, <2>1, <2>4
<1>10. ASSUME k = here.nextSeq, res = Ok(eaten)
       PROVE  /\ Consumes(e, asked, res) /\ res.eng.session = e.venue.session /\ At(res.eng) > k
  <2>1. res.eng = eaten /\ res.err = "none"
    BY <1>10 DEF Ok
  <2>2. Consumes(e, asked, res) /\ res.eng.session = e.venue.session /\ At(res.eng) = k + 1
    BY <1>6, <1>9, <1>10, <2>1
  <2> QED BY <1>1, <2>2
<1>11. CASE k = here.nextSeq /\ (r.type = "CancelReject" \/ error \in {"IllegalTransition", "DuplicateExec"})
  <2>1. res = Ok(eaten)
    BY <1>3, <1>5, <1>11
  <2> QED BY <1>10, <1>11, <2>1 DEF res
<1>12. CASE k = here.nextSeq /\ r.type # "CancelReject" /\ error \notin {"IllegalTransition", "DuplicateExec", "none"}
  <2>1. res.eng = here /\ res.err = "Order"
    BY <1>3, <1>5, <1>12 DEF Fail
  <2>2. here.nextSeq >= here.nextSeq
    BY <1>3
  <2>3. Consumes(e, asked, res) /\ res.eng.session = e.venue.session
    BY <1>2, <1>3, <1>6, <2>1, <2>2
  <2> QED BY <2>1, <2>3 DEF res
<1>13. CASE k = here.nextSeq /\ r.type # "CancelReject" /\ error = "none"
  <2>1. k \in DOMAIN here.venue.history /\ here.venue.history[k] = r /\ Pending(here, k)
    BY <1>3, <1>13 DEF Pending
  <2>2. Booked(here, asked, id, ev, effect)
    <3>1. ApplyError(here.orders[here.venue.history[k].order], ToOrderEvent(here.venue.history[k])) = "none"
      BY <1>13, <2>1 DEF error, ev
    <3> QED BY <1>2, <1>13, <2>1, <3>1, ReportBooked DEF ev, effect
  <2>3. /\ effect.err = "none" /\ AllOk(effect.eng, asked) /\ OnlyOrder(here, effect.eng, id)
        /\ effect.eng.orders[id] = Applied(here.orders[id], ev)
    BY <2>2 DEF Booked
  <2>4. Inv(done, asked)
    <3>1. ApplyError(here.orders[here.venue.history[k].order], ToOrderEvent(here.venue.history[k])) = "none"
      BY <1>13, <2>1 DEF error, ev
    <3>2. Inv([effect.eng EXCEPT !.nextSeq = k + 1], asked)
      BY <1>2, <1>3, <1>13, <2>1, <2>3, <3>1, StreamBooked, Zenon DEF ev
    <3> QED BY <1>1, <3>2 DEF done
  <2>5. /\ done.venue = e.venue /\ done.session = e.venue.session /\ done.nextSeq = k + 1
        /\ DOMAIN done.orders = DOMAIN e.orders
    BY <1>1, <1>2, <1>3, <2>3 DEF done, OnlyOrder, AllOk, OrdersOk, EngFields
  <2>6. res.eng = done /\ res.err = "none"
    BY <1>3, <1>5, <1>13, <2>3 DEF Ok
  <2>7. done.nextSeq >= here.nextSeq /\ done.nextSeq > k
    BY <1>1, <1>13, <2>5
  <2>8. Consumes(e, asked, res) /\ res.eng.session = e.venue.session /\ At(res.eng) = done.nextSeq
    BY <1>6, <2>4, <2>5, <2>6, <2>7
  <2> QED BY <2>7, <2>8 DEF res
<1> QED BY <1>1, <1>3, <1>7, <1>8, <1>11, <1>12, <1>13

\* Where the drain of reports s left the consumer: past each of them, or at an error.
Reads(e, asked, r, s) ==
  /\ Consumes(e, asked, r)
  /\ r.err = "none" => \A i \in DOMAIN s : At(r.eng) > s[i].seq

\* An issued report stands in the history at its sequence number.
LEMMA IssuedSound ==
  ASSUME NEW e, NEW asked, Inv(e, asked), NEW r \in Issued(e.venue)
  PROVE  /\ r.seq \in DOMAIN e.venue.history /\ r = e.venue.history[r.seq]
         /\ r.seq \in Nat \ {0} /\ r.session = e.venue.session /\ r \in Reports
<1>1. /\ e.venue.history \in Seq(Reports)
      /\ \A k \in DOMAIN e.venue.history :
            e.venue.history[k].seq = k /\ e.venue.history[k].session = e.venue.session
  BY DEF Inv, StreamOk, VenueOk, HistoryOk
<1>2. PICK k \in DOMAIN e.venue.history : r = e.venue.history[k]
  BY <1>1 DEF Issued, ToSet
<1> QED BY <1>1, <1>2

\* Applying a whole batch stops at the first error and is sound up to there.
LEMMA ApplyAllSound ==
  ASSUME NEW e, NEW asked, Inv(e, asked), NEW s \in Seq(Issued(e.venue))
  PROVE  Reads(e, asked, ApplyAll(e, s), s)
<1> DEFINE Step(g, k) == [n \in 0 .. k |->
             IF n = 0 THEN Ok(e)
             ELSE IF g[n - 1].err # "none" THEN g[n - 1] ELSE ApplyReport(g[n - 1].eng, s[n])]
           out == CHOOSE g : g = Step(g, Len(s))
           Exists(k) == \E g : g = Step(g, k)
           Good(k) == /\ Consumes(e, asked, out[k])
                      /\ out[k].err = "none" => \A i \in 1 .. k : At(out[k].eng) > s[i].seq
           Bad == {k \in Nat : k <= Len(s) /\ ~Exists(k)}
           Worse == {k \in Nat : k <= Len(s) /\ ~Good(k)}
<1>1. ApplyAll(e, s) = out[Len(s)]
  BY DEF ApplyAll
<1>2. Len(s) \in Nat /\ DOMAIN s = 1 .. Len(s)
  OBVIOUS
<1>3. ASSUME Bad # {} PROVE FALSE
  <2>1. PICK k \in Bad : \A m \in Bad : k <= m
    <3>1. Bad \in SUBSET Nat
      <4> HIDE DEF Exists
      <4> QED OBVIOUS
    <3> HIDE DEF Bad
    <3> QED BY <1>3, <3>1, LeastBad
  <2>2. k \in Nat /\ k <= Len(s) /\ ~Exists(k)
    <3> HIDE DEF Exists
    <3> QED OBVIOUS
  <2>3. k # 0
    <3> DEFINE g == [n \in 0 .. 0 |-> Ok(e)]
    <3>1. g = Step(g, 0)
      OBVIOUS
    <3> QED BY <2>2, <3>1
  <2>4. k - 1 \in Nat /\ k - 1 <= Len(s) /\ Exists(k - 1)
    <3> HIDE DEF Exists
    <3>1. k - 1 \in Nat /\ k - 1 <= Len(s) /\ ~(k <= k - 1)
      BY <1>2, <2>2, <2>3
    <3> QED BY <2>1, <3>1
  <2>5. PICK g : g = Step(g, k - 1)
    BY <2>4
  <2> DEFINE last == IF g[k - 1].err # "none" THEN g[k - 1] ELSE ApplyReport(g[k - 1].eng, s[k])
             h == [n \in 0 .. k |-> IF n = k THEN last ELSE g[n]]
  <2>6. \A n \in 0 .. k : h[n] = Step(h, k)[n]
    <3> TAKE n \in 0 .. k
    <3>1. CASE n = k
      BY <2>2, <2>3, <2>4, <3>1
    <3>2. CASE n # k
      <4>1. n \in 0 .. k - 1 /\ (n # 0 => n - 1 \in 0 .. k - 1)
        BY <2>2, <2>4, <3>2
      <4>2. g[n] = Step(g, k - 1)[n]
        BY <2>5
      <4> QED BY <3>2, <4>1, <4>2
    <3> QED BY <3>1, <3>2
  <2>7. h = Step(h, k)
    BY <2>6
  <2> QED BY <2>2, <2>7
<1>4. \E g : g = Step(g, Len(s))
  <2> HIDE DEF Exists
  <2>1. Exists(Len(s))
    BY <1>2, <1>3
  <2> QED BY <2>1 DEF Exists
<1>5. out = Step(out, Len(s))
  <2> HIDE DEF Step
  <2> QED BY <1>4
<1> HIDE DEF out
<1>6. ASSUME Worse # {} PROVE FALSE
  <2>1. PICK k \in Worse : \A m \in Worse : k <= m
    <3>1. Worse \in SUBSET Nat
      <4> HIDE DEF Good
      <4> QED OBVIOUS
    <3> HIDE DEF Worse
    <3> QED BY <1>6, <3>1, LeastBad
  <2>2. k \in Nat /\ k \in 0 .. Len(s) /\ ~Good(k)
    <3> HIDE DEF Good
    <3> QED BY <1>2
  <2>3. out[k] = IF k = 0 THEN Ok(e)
                 ELSE IF out[k - 1].err # "none" THEN out[k - 1]
                 ELSE ApplyReport(out[k - 1].eng, s[k])
    BY <1>5, <2>2
  <2>4. k # 0
    <3> SUFFICES ASSUME k = 0 PROVE FALSE
      OBVIOUS
    <3>1. out[k].eng = e /\ out[k].err = "none"
      BY <2>3 DEF Ok
    <3>2. At(e) >= At(e)
      BY AtNat
    <3>3. Consumes(e, asked, out[k])
      BY <3>1, <3>2 DEF Consumes
    <3>4. \A i \in 1 .. k : FALSE
      OBVIOUS
    <3> QED BY <2>2, <3>3, <3>4
  <2>5. k - 1 \in Nat /\ k - 1 <= Len(s) /\ ~(k <= k - 1) /\ k \in 1 .. Len(s)
    BY <1>2, <2>2, <2>4
  <2>6. Good(k - 1) /\ s[k] \in Issued(e.venue)
    <3>1. s[k] \in Issued(e.venue)
      BY <2>5
    <3> HIDE DEF Good
    <3> QED BY <2>1, <2>5, <3>1
  <2> DEFINE b == out[k - 1]  c == ApplyReport(b.eng, s[k])
  <2>7. Inv(b.eng, asked) /\ b.eng.venue = e.venue
    BY <2>6 DEF Consumes
  <2>8. s[k].seq \in DOMAIN b.eng.venue.history /\ s[k] = b.eng.venue.history[s[k].seq]
    BY <2>6, <2>7, IssuedSound
  <2>9. Consumes(b.eng, asked, c) /\ (c.err = "none" => At(c.eng) > s[k].seq)
    <3>1. PICK j \in DOMAIN b.eng.venue.history : j = s[k].seq /\ s[k] = b.eng.venue.history[j]
      BY <2>8
    <3> QED BY <2>7, <3>1, ReportSound
  <2>10. Consumes(e, asked, c)
    <3> HIDE DEF b, c
    <3>1. Consumes(e, asked, b)
      BY <2>6 DEF b
    <3> QED BY <2>9, <3>1, ConsumesTrans
  <2>11. CASE b.err # "none"
    BY <2>2, <2>3, <2>4, <2>6, <2>11
  <2>12. CASE b.err = "none"
    <3>1. out[k] = c
      BY <2>3, <2>4, <2>12
    <3>2. ASSUME c.err = "none", NEW i \in 1 .. k
          PROVE  At(c.eng) > s[i].seq
      <4>1. CASE i = k
        BY <2>9, <3>2, <4>1
      <4>2. CASE i # k
        <5>1. i \in 1 .. k - 1 /\ i \in DOMAIN s
          BY <1>2, <2>2, <2>5, <4>2
        <5>2. At(b.eng) > s[i].seq
          BY <2>6, <2>12, <5>1
        <5>3. At(c.eng) >= At(b.eng)
          BY <2>9 DEF Consumes
        <5>4. At(c.eng) \in Nat /\ At(b.eng) \in Nat
          BY <2>7, <2>9, AtNat DEF Consumes
        <5>5. s[i].seq \in Nat
          BY <5>1, IssuedSound
        <5> HIDE DEF b, c
        <5> QED BY <5>2, <5>3, <5>4, <5>5
      <4> QED BY <4>1, <4>2
    <3> HIDE DEF b, c
    <3> QED BY <2>2, <2>10, <3>1, <3>2
  <2> QED BY <2>11, <2>12
<1>7. Good(Len(s))
  <2> HIDE DEF Good
  <2> QED BY <1>2, <1>6
<1> QED BY <1>1, <1>2, <1>7 DEF Reads

\* What is kept of a sequence, report by report.
KeptSteps(s, I, out) ==
  /\ Kept(s, I) = out[Len(s)]
  /\ \A n \in 0 .. Len(s) :
       out[n] = IF n = 0 THEN <<>>
                ELSE IF n \in I THEN Append(out[n - 1], s[n]) ELSE out[n - 1]

\* The fold behind Kept, step by step.
LEMMA KeptUnfolds ==
  ASSUME NEW R, NEW s \in Seq(R), NEW I
  PROVE  \E out : KeptSteps(s, I, out)
<1> DEFINE Step(g, k) == [n \in 0 .. k |->
             IF n = 0 THEN <<>> ELSE IF n \in I THEN Append(g[n - 1], s[n]) ELSE g[n - 1]]
           out == CHOOSE g : g = Step(g, Len(s))
           Exists(k) == \E g : g = Step(g, k)
           Bad == {k \in Nat : k <= Len(s) /\ ~Exists(k)}
<1>1. Kept(s, I) = out[Len(s)]
  BY DEF Kept
<1>2. Len(s) \in Nat
  OBVIOUS
<1>3. ASSUME Bad # {} PROVE FALSE
  <2>1. PICK k \in Bad : \A m \in Bad : k <= m
    <3>1. Bad \in SUBSET Nat
      <4> HIDE DEF Exists
      <4> QED OBVIOUS
    <3> HIDE DEF Bad
    <3> QED BY <1>3, <3>1, LeastBad
  <2>a. k \in Nat /\ k <= Len(s) /\ ~Exists(k)
    <3> HIDE DEF Exists
    <3> QED OBVIOUS
  <2>2. k # 0
    <3> DEFINE g == [n \in 0 .. 0 |-> <<>>]
    <3>1. g = Step(g, 0)
      OBVIOUS
    <3> QED BY <2>a, <3>1
  <2>3. k - 1 \in Nat /\ k - 1 <= Len(s) /\ Exists(k - 1)
    <3> HIDE DEF Exists
    <3>1. k - 1 \in Nat /\ k - 1 <= Len(s) /\ ~(k <= k - 1)
      BY <1>2, <2>a, <2>2
    <3> QED BY <2>1, <3>1
  <2>4. PICK g : g = Step(g, k - 1)
    BY <2>3
  <2> DEFINE last == IF k \in I THEN Append(g[k - 1], s[k]) ELSE g[k - 1]
             h == [n \in 0 .. k |-> IF n = k THEN last ELSE g[n]]
  <2>5. \A n \in 0 .. k : h[n] = Step(h, k)[n]
    <3> TAKE n \in 0 .. k
    <3>1. CASE n = k
      BY <2>2, <2>3, <3>1
    <3>2. CASE n # k
      <4>1. n \in 0 .. k - 1 /\ (n # 0 => n - 1 \in 0 .. k - 1)
        BY <2>3, <3>2
      <4>2. g[n] = Step(g, k - 1)[n]
        BY <2>4
      <4> QED BY <3>2, <4>1, <4>2
    <3> QED BY <3>1, <3>2
  <2>6. h = Step(h, k)
    BY <2>5
  <2> QED BY <2>a, <2>6
<1>4. \E g : g = Step(g, Len(s))
  <2> HIDE DEF Exists
  <2>1. Exists(Len(s))
    BY <1>2, <1>3
  <2> QED BY <2>1 DEF Exists
<1>5. out = Step(out, Len(s))
  <2> HIDE DEF Step
  <2> QED BY <1>4
<1> HIDE DEF out
<1>6. KeptSteps(s, I, out)
  BY <1>1, <1>5 DEF KeptSteps
<1> QED BY <1>6

\* Each step of it is a sequence of the same reports.
LEMMA KeptParts ==
  ASSUME NEW R, NEW s \in Seq(R), NEW I, NEW out, KeptSteps(s, I, out), NEW k \in 0 .. Len(s)
  PROVE  out[k] \in Seq(R)
<1> DEFINE Off == {m \in Nat : m <= Len(s) /\ out[m] \notin Seq(R)}
<1>1. Len(s) \in Nat
  OBVIOUS
<1>2. ASSUME Off # {} PROVE FALSE
  <2>1. PICK m \in Off : \A i \in Off : m <= i
    <3>1. Off \in SUBSET Nat OBVIOUS
    <3> HIDE DEF Off
    <3> QED BY <1>2, <3>1, LeastBad
  <2>2. m \in Nat /\ m \in 0 .. Len(s) /\ out[m] \notin Seq(R)
    BY <1>1, <2>1
  <2>3. out[m] = IF m = 0 THEN <<>>
                 ELSE IF m \in I THEN Append(out[m - 1], s[m]) ELSE out[m - 1]
    BY <2>2 DEF KeptSteps
  <2>4. m # 0
    BY <2>2, <2>3
  <2>5. m - 1 \in Nat /\ m - 1 <= Len(s) /\ ~(m <= m - 1) /\ m \in 1 .. Len(s)
    BY <1>1, <2>2, <2>4
  <2>6. out[m - 1] \in Seq(R) /\ s[m] \in R
    BY <2>1, <2>5
  <2> QED BY <2>2, <2>3, <2>4, <2>6
<1> QED BY <1>1, <1>2

\* So filtering a batch leaves a sequence of the same reports.
LEMMA KeptIsSeq ==
  ASSUME NEW R, NEW s \in Seq(R), NEW I
  PROVE  Kept(s, I) \in Seq(R)
<1>1. PICK out : KeptSteps(s, I, out)
  BY KeptUnfolds
<1>2. Len(s) \in 0 .. Len(s)
  OBVIOUS
<1> QED BY <1>1, <1>2, KeptParts DEF KeptSteps

\* Nothing that is kept is lost.
LEMMA KeptHas ==
  ASSUME NEW R, NEW s \in Seq(R), NEW I, NEW j \in DOMAIN s, j \in I
  PROVE  \E n \in DOMAIN Kept(s, I) : Kept(s, I)[n] = s[j]
<1>1. PICK out : KeptSteps(s, I, out)
  BY KeptUnfolds
<1> DEFINE Has(k) == \E n \in DOMAIN out[k] : out[k][n] = s[j]
           Worse == {k \in Nat : k <= Len(s) /\ j <= k /\ ~Has(k)}
<1>2. Len(s) \in Nat /\ j \in 1 .. Len(s)
  OBVIOUS
<1>a. ASSUME NEW k \in 0 .. Len(s) PROVE out[k] \in Seq(R)
  BY <1>1, KeptParts
<1>3. ASSUME Worse # {} PROVE FALSE
  <2>1. PICK k \in Worse : \A m \in Worse : k <= m
    <3>1. Worse \in SUBSET Nat
      <4> HIDE DEF Has
      <4> QED OBVIOUS
    <3> HIDE DEF Worse
    <3> QED BY <1>3, <3>1, LeastBad
  <2>2. k \in Nat /\ k <= Len(s) /\ j <= k /\ ~Has(k)
    <3> HIDE DEF Has
    <3> QED OBVIOUS
  <2>3. k \in 0 .. Len(s) /\ k # 0 /\ k - 1 \in 0 .. Len(s)
    BY <1>2, <2>2
  <2>4. out[k] = IF k \in I THEN Append(out[k - 1], s[k]) ELSE out[k - 1]
    BY <1>1, <2>3 DEF KeptSteps
  <2>5. out[k - 1] \in Seq(R) /\ s[k] \in R
    BY <1>a, <1>2, <2>2, <2>3
  <2>6. CASE j = k
    <3> DEFINE t == out[k - 1]
    <3>1. out[k] = Append(t, s[k]) /\ t \in Seq(R)
      BY <2>4, <2>5, <2>6
    <3> HIDE DEF t
    <3>2. Len(t) + 1 \in DOMAIN out[k] /\ out[k][Len(t) + 1] = s[k]
      BY <2>5, <3>1
    <3> QED BY <2>2, <2>6, <3>2
  <2>7. CASE j # k
    <3>1. k - 1 \in Nat /\ k - 1 <= Len(s) /\ j <= k - 1 /\ ~(k <= k - 1)
      BY <1>2, <2>2, <2>3, <2>7
    <3>2. Has(k - 1)
      <4> HIDE DEF Has
      <4> QED BY <2>1, <3>1
    <3>3. PICK n \in DOMAIN out[k - 1] : out[k - 1][n] = s[j]
      BY <3>2
    <3> DEFINE t == out[k - 1]
    <3>4. t \in Seq(R) /\ n \in DOMAIN t /\ t[n] = s[j] /\ out[k] \in {t, Append(t, s[k])}
      BY <2>4, <2>5, <3>3
    <3> HIDE DEF t
    <3>5. n \in DOMAIN Append(t, s[k]) /\ Append(t, s[k])[n] = t[n]
      BY <3>4
    <3>6. n \in DOMAIN out[k] /\ out[k][n] = s[j]
      BY <3>4, <3>5
    <3> QED BY <2>2, <3>6
  <2> QED BY <2>6, <2>7
<1>4. Has(Len(s))
  <2> HIDE DEF Has
  <2> QED BY <1>2, <1>3
<1> QED BY <1>1, <1>4 DEF KeptSteps

\* dedupe_session_seq loses no sequence number.
LEMMA DedupeHas ==
  ASSUME NEW R, NEW s \in Seq(R), NEW i \in DOMAIN s
  PROVE  \E n \in DOMAIN DedupeSessionSeq(s) : DedupeSessionSeq(s)[n].seq = s[i].seq
<1> DEFINE I == {m \in DOMAIN s : \A j \in 1 .. m - 1 :
                   <<s[j].session, s[j].seq>> # <<s[m].session, s[m].seq>>}
           Like == {m \in DOMAIN s : <<s[m].session, s[m].seq>> = <<s[i].session, s[i].seq>>}
<1>1. PICK m \in Like : \A j \in Like : m <= j
  <2>1. Like \in SUBSET Nat /\ i \in Like
    OBVIOUS
  <2> HIDE DEF Like
  <2> QED BY <2>1, LeastBad
<1>2. m \in I
  <2>1. ASSUME NEW j \in 1 .. m - 1, <<s[j].session, s[j].seq>> = <<s[m].session, s[m].seq>>
        PROVE  FALSE
    <3>1. j \in DOMAIN s /\ ~(m <= j)
      OBVIOUS
    <3> QED BY <1>1, <2>1, <3>1
  <2> QED BY <2>1
<1>3. m \in DOMAIN s /\ s[m].seq = s[i].seq /\ DedupeSessionSeq(s) = Kept(s, I)
  BY <1>1 DEF DedupeSessionSeq
<1> HIDE DEF I
<1>4. \E n \in DOMAIN Kept(s, I) : Kept(s, I)[n] = s[m]
  BY <1>2, <1>3, KeptHas
<1> QED BY <1>3, <1>4

\* w is v with reports on their way, nothing issued.
Delivers(v, w) ==
  /\ w.session = v.session /\ w.nextSeq = v.nextSeq /\ w.nextExec = v.nextExec
  /\ w.faults = v.faults /\ w.inflight = v.inflight /\ w.history = v.history

\* x is e with venue w.
Swaps(e, x, w) ==
  /\ DOMAIN x = EngFields /\ x.venue = w
  /\ x.orders = e.orders /\ x.byClient = e.byClient /\ x.nextId = e.nextId /\ x.book = e.book
  /\ x.remCash = e.remCash /\ x.remLots = e.remLots
  /\ x.kill = e.kill /\ x.session = e.session /\ x.nextSeq = e.nextSeq

\* A venue that moves by itself disturbs no order, ledger or key.
LEMMA SwapsAll ==
  ASSUME NEW e, NEW asked, AllOk(e, asked), NEW x, NEW w, Swaps(e, x, w)
  PROVE  AllOk(x, asked)
<1>1. OrdersOk(x)
  BY DEF AllOk, OrdersOk, Swaps, Holds
<1>2. BookOk(x)
  <2>1. CashOf(x) = CashOf(e) /\ LotsOf(x) = LotsOf(e) /\ NetOf(x) = NetOf(e)
    BY DEF CashOf, LotsOf, NetOf, Swaps
  <2>2. \A a : In(x, a) = In(e, a)
    BY DEF In, Swaps
  <2>3. x.book = e.book /\ BookOk(e)
    BY DEF AllOk, Swaps
  <2> QED BY <2>1, <2>2, <2>3 DEF BookOk, Backed
<1>3. KeysOk(x, asked)
  BY DEF AllOk, KeysOk, KeyOk, Swaps
<1> QED BY <1>1, <1>2, <1>3 DEF AllOk

\* Nor the stream, when all it does is deliver, lose or reorder what was issued.
LEMMA Delivered ==
  ASSUME NEW e, NEW asked, Inv(e, asked), NEW x, NEW w, Swaps(e, x, w), VenueOk(w),
         Delivers(e.venue, w)
  PROVE  Inv(x, asked) /\ At(x) = At(e)
<1>1. AllOk(x, asked) /\ VenueOk(x.venue) /\ x.venue = w /\ x.orders = e.orders
  BY SwapsAll DEF Inv, Swaps
<1>2. At(x) = At(e) /\ CursorOk(x) /\ \A k : Pending(x, k) <=> Pending(e, k)
  BY DEF Inv, StreamOk, CursorOk, At, Pending, Swaps, Delivers
<1>3. KnownOk(x)
  BY <1>1 DEF Inv, StreamOk, KnownOk, Delivers
<1>4. PricesOk(x)
  BY <1>1, <1>2 DEF Inv, StreamOk, PricesOk, Delivers
<1>5. ReplacesOk(x, asked)
  <2>1. x.orders = e.orders /\ x.remCash = e.remCash /\ x.remLots = e.remLots
        /\ x.venue.history = e.venue.history
    BY <1>1 DEF Swaps, Delivers
  <2>2. \A r : ReplaceOk(e, asked, r) => ReplaceOk(x, asked, r)
    BY <2>1 DEF ReplaceOk
  <2>3. ReplacesOk(e, asked)
    BY DEF Inv, StreamOk
  <2> QED BY <1>2, <2>1, <2>2, <2>3, ZenonT(60) DEF ReplacesOk
<1>6. SettledOk(x)
  <2>1. VenueTrades(x.venue) = VenueTrades(e.venue) /\ x.venue.session = e.venue.session
    BY <1>1 DEF VenueTrades, Delivers
  <2>2. \A a : SessionOnly(x, a) <=> SessionOnly(e, a)
    BY <1>1, <2>1 DEF SessionOnly, In, TradeExecs
  <2>3. \A a : SeenTrades(x, a) = SeenTrades(e, a)
    BY <1>1, <2>1 DEF SeenTrades, In
  <2>4. \A a : SeenNet(x, a) = SeenNet(e, a)
    BY <1>1, <2>3 DEF SeenNet, SignedOf
  <2>5. x.book = e.book
    BY DEF Swaps
  <2> QED BY <2>1, <2>2, <2>4, <2>5, Zenon DEF Inv, StreamOk, SettledOk
<1> QED BY <1>1, <1>2, <1>3, <1>4, <1>5, <1>6 DEF Inv, StreamOk

\* The history as a batch.
LEMMA HistoryIssued ==
  ASSUME NEW e, NEW asked, Inv(e, asked)
  PROVE  e.venue.history \in Seq(Issued(e.venue))
<1>1. e.venue.history \in Seq(Reports)
  BY DEF Inv, StreamOk, VenueOk, HistoryOk
<1>2. ASSUME NEW s \in Seq(Reports) PROVE s \in Seq(ToSet(s))
  BY DEF ToSet
<1> QED BY <1>1, <1>2 DEF Issued

-----------------------------------------------------------------------------
(* The drain.                                                              *)

\* How a drain can end.
Errors == {"none", "SeqGap", "Order", "Venue"}

\* r is what a drain of e's venue left.
Drained(e, asked, r) ==
  /\ Inv(r.eng, asked) /\ Delivers(e.venue, r.eng.venue)
  /\ r.eng.venue.scheduled = e.venue.scheduled /\ r.eng.venue.outbox = <<>>
  /\ r.err \in Errors /\ DOMAIN r.eng.orders = DOMAIN e.orders
  /\ r.err = "none" => \A i \in DOMAIN e.venue.outbox : At(r.eng) > e.venue.outbox[i].seq

\* Draining the venue, with recovery of the gap from its history, is sound.
LEMMA DrainSound ==
  ASSUME NEW e, NEW asked, Inv(e, asked)
  PROVE  Drained(e, asked, Drain(e))
<1> DEFINE polled  == [e EXCEPT !.venue.outbox = <<>>]
           reports == e.venue.outbox
           first   == reports[1]
           at      == IF polled.session = first.session THEN polled
                      ELSE [polled EXCEPT !.session = first.session, !.nextSeq = 1]
           told    == VRecovery(e.venue, at.nextSeq) \o reports
           healed  == DedupeSessionSeq(told)
           rest    == Kept(reports, {i \in DOMAIN reports :
                             reports[i].session = at.session /\ reports[i].seq >= at.nextSeq})
           gap     == first.seq > at.nextSeq
           res     == Drain(e)
<1>1. res = IF reports = <<>> THEN Ok(polled)
            ELSE IF gap /\ ~e.venue.connected THEN Fail(at, "Venue")
            ELSE ApplyAll(at, IF gap THEN healed ELSE rest)
  BY DEF Drain, DrainPolled
<1>2. reports \in Seq(Issued(e.venue)) /\ DOMAIN e = EngFields /\ DOMAIN e.venue = VenueFields
  BY DEF Inv, AllOk, OrdersOk, StreamOk, VenueOk
<1>3. /\ Inv(polled, asked) /\ At(polled) = At(e) /\ Delivers(e.venue, polled.venue)
      /\ polled.venue.outbox = <<>> /\ polled.venue.scheduled = e.venue.scheduled
      /\ polled.orders = e.orders /\ Issued(polled.venue) = Issued(e.venue)
      /\ polled.venue.session = e.venue.session /\ DOMAIN polled = EngFields
  <2> DEFINE w == [e.venue EXCEPT !.outbox = <<>>]
  <2>1. /\ DOMAIN w = VenueFields /\ Delivers(e.venue, w) /\ w.outbox = <<>>
        /\ w.scheduled = e.venue.scheduled /\ w.now = e.venue.now
    BY <1>2 DEF Delivers, VenueFields
  <2>2. Swaps(e, polled, w)
    BY <1>2 DEF Swaps, EngFields
  <2> HIDE DEF w, polled
  <2>3. Issued(w) = Issued(e.venue) /\ <<>> \in Seq(Issued(w))
    BY <2>1 DEF Issued, Delivers
  <2>4. VenueOk(w)
    BY <2>1, <2>3 DEF Inv, StreamOk, VenueOk, HistoryOk, Delivers
  <2>5. Inv(polled, asked) /\ At(polled) = At(e)
    BY <2>1, <2>2, <2>4, Delivered
  <2> QED BY <2>1, <2>2, <2>3, <2>5 DEF Swaps, Delivers
<1> HIDE DEF polled, res
<1>4. CASE reports = <<>>
  <2>1. res.eng = polled /\ res.err = "none" /\ DOMAIN reports = {}
    BY <1>1, <1>4 DEF Ok
  <2> QED BY <1>3, <2>1 DEF Drained, Errors, res
<1>5. CASE reports # <<>>
  <2>1. 1 \in DOMAIN reports /\ first \in Issued(e.venue) /\ first.session = polled.venue.session
    <3>1. 1 \in DOMAIN reports /\ first \in Issued(e.venue)
      BY <1>2, <1>5
    <3> QED BY <1>3, <3>1, IssuedSound
  <2>2. /\ Inv(at, asked) /\ Steers(polled, at) /\ at.session = polled.venue.session
        /\ at.nextSeq = At(e)
    BY <1>3, <2>1, HereSound, Zenon
  <2> HIDE DEF at, gap
  <2>3. /\ at.venue = polled.venue /\ at.orders = e.orders /\ At(at) = At(e)
        /\ At(at) \in Nat \ {0} /\ at.nextSeq \in Nat
    BY <1>3, <2>2, AtNat DEF Steers, At
  <2>4. ASSUME NEW s, Reads(at, asked, res, s),
               \A i \in DOMAIN reports : \/ reports[i].seq < At(at)
                                         \/ \E n \in DOMAIN s : s[n].seq = reports[i].seq
        PROVE  Drained(e, asked, res)
    <3>1. /\ Inv(res.eng, asked) /\ res.eng.venue = polled.venue /\ At(res.eng) >= At(at)
          /\ DOMAIN res.eng.orders = DOMAIN e.orders /\ res.err \in Errors
      BY <2>3, <2>4 DEF Reads, Consumes, Errors
    <3>2. ASSUME res.err = "none", NEW i \in DOMAIN reports
          PROVE  At(res.eng) > reports[i].seq
      <4>1. CASE reports[i].seq < At(at)
        <5>1. reports[i].seq \in Nat
          BY <1>2, IssuedSound
        <5>2. At(res.eng) \in Nat
          BY <3>1, AtNat
        <5> QED BY <2>3, <3>1, <4>1, <5>1, <5>2
      <4>2. CASE \E n \in DOMAIN s : s[n].seq = reports[i].seq
        BY <2>4, <3>2, <4>2 DEF Reads
      <4> QED BY <2>4, <4>1, <4>2
    <3> QED BY <1>3, <3>1, <3>2 DEF Drained
  <2>5. CASE gap /\ ~e.venue.connected
    <3>1. res.eng = at /\ res.err = "Venue"
      BY <1>1, <1>5, <2>5 DEF Fail
    <3> QED BY <1>3, <2>2, <2>3, <3>1 DEF Drained, Errors, res
  <2>6. CASE gap /\ e.venue.connected
    <3>1. told \in Seq(Issued(e.venue)) /\ healed \in Seq(Issued(at.venue))
      <4>1. e.venue.history \in Seq(Issued(e.venue))
        BY HistoryIssued
      <4>2. VRecovery(e.venue, at.nextSeq) \in Seq(Issued(e.venue))
        BY <4>1, KeptIsSeq DEF VRecovery
      <4>3. told \in Seq(Issued(e.venue))
        BY <1>2, <4>2
      <4> HIDE DEF told
      <4>4. healed \in Seq(Issued(e.venue))
        BY <4>3, KeptIsSeq DEF DedupeSessionSeq
      <4> QED BY <1>3, <2>3, <4>3, <4>4
    <3>2. res = ApplyAll(at, healed)
      BY <1>1, <1>5, <2>6
    <3>3. Reads(at, asked, res, healed)
      <4> HIDE DEF healed
      <4> QED BY <2>2, <3>1, <3>2, ApplyAllSound
    <3>4. ASSUME NEW i \in DOMAIN reports
          PROVE  \E n \in DOMAIN healed : healed[n].seq = reports[i].seq
      <4> DEFINE front == VRecovery(e.venue, at.nextSeq)
      <4>1. e.venue.history \in Seq(Issued(e.venue))
        BY HistoryIssued
      <4>2. front \in Seq(Issued(e.venue))
        BY <4>1, KeptIsSeq DEF VRecovery
      <4> HIDE DEF front
      <4>3. Len(front) + i \in DOMAIN (front \o reports) /\ (front \o reports)[Len(front) + i] = reports[i]
        BY <1>2, <4>2
      <4>4. told = front \o reports
        BY DEF front
      <4>5. PICK j \in DOMAIN told : told[j] = reports[i]
        BY <4>3, <4>4
      <4> HIDE DEF told
      <4> QED BY <3>1, <4>5, DedupeHas
    <3> HIDE DEF healed
    <3> QED BY <2>4, <3>3, <3>4 DEF res
  <2>7. CASE ~gap
    <3> DEFINE I == {i \in DOMAIN reports :
                       reports[i].session = at.session /\ reports[i].seq >= at.nextSeq}
    <3>1. rest = Kept(reports, I) /\ rest \in Seq(Issued(at.venue))
      BY <1>2, <1>3, <2>3, KeptIsSeq
    <3>2. res = ApplyAll(at, rest)
      BY <1>1, <1>5, <2>7
    <3>3. Reads(at, asked, res, rest)
      <4> HIDE DEF rest
      <4> QED BY <2>2, <3>1, <3>2, ApplyAllSound
    <3>4. ASSUME NEW i \in DOMAIN reports
          PROVE  \/ reports[i].seq < At(at)
                 \/ \E n \in DOMAIN rest : rest[n].seq = reports[i].seq
      <4>1. reports[i].session = at.session /\ reports[i].seq \in Nat
        <5>1. reports[i] \in Issued(e.venue)
          BY <1>2
        <5>2. reports[i].session = e.venue.session /\ reports[i].seq \in Nat
          BY <5>1, IssuedSound
        <5> QED BY <1>3, <2>2, <5>2
      <4>2. CASE reports[i].seq >= at.nextSeq
        <5>1. i \in I
          BY <4>1, <4>2
        <5> HIDE DEF I
        <5>2. \E n \in DOMAIN Kept(reports, I) : Kept(reports, I)[n] = reports[i]
          BY <1>2, <5>1, KeptHas
        <5> QED BY <3>1, <5>2
      <4>3. CASE ~(reports[i].seq >= at.nextSeq)
        BY <2>2, <2>3, <4>1, <4>3
      <4> QED BY <4>2, <4>3
    <3> HIDE DEF rest
    <3> QED BY <2>4, <3>3, <3>4 DEF res
  <2> QED BY <2>5, <2>6, <2>7
<1> QED BY <1>4, <1>5

\* What a venue command leaves, whether the venue took it or not.
LEMMA AfterVenueSound ==
  ASSUME NEW e, NEW asked, Inv(e, asked), NEW error
  PROVE  LET r == AfterVenue(e, error)
         IN  /\ Inv(r.eng, asked) /\ r.err \in Errors /\ DOMAIN r.eng.orders = DOMAIN e.orders
             /\ r.err = "none" => error = "none" /\ Drained(e, asked, r)
<1>1. CASE error = "none"
  BY <1>1, DrainSound DEF AfterVenue, Drained
<1>2. CASE error # "none"
  <2> DEFINE x == [e EXCEPT !.kill = @ \/ error = "Disconnected"]
  <2>1. AfterVenue(e, error).eng = x /\ AfterVenue(e, error).err = "Venue"
    BY <1>2 DEF AfterVenue, Fail
  <2>2. DOMAIN e = EngFields /\ e.kill \in BOOLEAN /\ CursorOk(e)
    BY DEF Inv, AllOk, OrdersOk, StreamOk
  <2>3. x.kill \in BOOLEAN
    BY <2>2, Zenon DEF EngFields
  <2>4. Steers(e, x) /\ CursorOk(x) /\ \A k : Pending(x, k) <=> Pending(e, k)
    BY <2>2, <2>3 DEF Steers, EngFields, CursorOk, Pending
  <2>5. Inv(x, asked) /\ x.orders = e.orders
    <3> HIDE DEF x
    <3> QED BY <2>4, Steered DEF Steers
  <2> QED BY <2>1, <2>5 DEF Errors
<1> QED BY <1>1, <1>2

-----------------------------------------------------------------------------
(* What the venue does with a command: it builds reports one by one.       *)

\* Report r of v goes to the outbox, or is scheduled.
Sends(v, w, r) ==
  /\ w.scheduled = v.scheduled
  /\ w.outbox \in {Append(v.outbox, r), v.outbox \o <<r>>, v.outbox \o <<r, r>>}

\* The report is scheduled for later, once or twice.
Delays(v, w, r) ==
  /\ w.outbox = v.outbox
  /\ \E t \in Int, s \in {<<r>>, <<r, r>>} : w.scheduled = Schedule(v, t, s).scheduled

\* w is v once it built report r.
Issues(v, w, r) ==
  /\ DOMAIN w = VenueFields
  /\ w.connected = v.connected /\ w.session = v.session /\ w.faults = v.faults /\ w.now = v.now
  /\ r \in Reports /\ r.session = v.session /\ r.seq = v.nextSeq
  /\ r.type = "Trade" => r.exec = v.nextExec
  /\ w.history = Append(v.history, r) /\ w.nextSeq = v.nextSeq + 1
  /\ w.nextExec = IF r.type = "Trade" THEN v.nextExec + 1 ELSE v.nextExec
  /\ DOMAIN w.inflight \subseteq DOMAIN v.inflight \cup {r.order}
  /\ \A i \in DOMAIN w.inflight : w.inflight[i] \in Sims
  /\ Sends(v, w, r) \/ Delays(v, w, r)

\* Issuing a report appends it to the history.
LEMMA IssuesHistory ==
  ASSUME NEW v, VenueOk(v), NEW w, NEW r, Issues(v, w, r)
  PROVE  /\ HistoryOk(w) /\ Issued(w) = Issued(v) \cup {r}
         /\ w.nextSeq \in Nat \ {0} /\ w.nextExec \in Nat
         /\ Len(w.history) = v.nextSeq /\ w.history[v.nextSeq] = r
         /\ v.nextSeq \in DOMAIN w.history
         /\ DOMAIN w.history = DOMAIN v.history \cup {v.nextSeq} /\ v.nextSeq \notin DOMAIN v.history
         /\ \A k \in DOMAIN v.history : w.history[k] = v.history[k] /\ k < v.nextSeq
<1> DEFINE h == v.history  g == w.history  n == v.nextSeq
<1>1. /\ h \in Seq(Reports) /\ Len(h) = n - 1 /\ n \in Nat \ {0} /\ v.nextExec \in Nat
      /\ (\A k \in DOMAIN h : h[k].seq = k /\ h[k].session = v.session)
      /\ (\A k \in DOMAIN h : h[k].type = "Trade" => h[k].exec < v.nextExec)
      /\ (\A j, k \in DOMAIN h :
            h[j].type = "Trade" /\ h[k].type = "Trade" /\ h[j].exec = h[k].exec => j = k)
  BY DEF VenueOk, HistoryOk
<1>2. /\ r \in Reports /\ r.session = v.session /\ r.seq = n /\ g = Append(h, r)
      /\ r.type = "Trade" => r.exec = v.nextExec
      /\ w.nextSeq = n + 1 /\ w.session = v.session
      /\ w.nextExec = IF r.type = "Trade" THEN v.nextExec + 1 ELSE v.nextExec
  BY DEF Issues
<1> HIDE DEF h, g, n
<1>3. /\ g \in Seq(Reports) /\ Len(g) = n /\ g[n] = r /\ n \in DOMAIN g
      /\ DOMAIN g = DOMAIN h \cup {n} /\ n \notin DOMAIN h
      /\ \A k \in DOMAIN h : g[k] = h[k] /\ k < n
  BY <1>1, <1>2
<1>4. ToSet(g) = ToSet(h) \cup {r}
  BY <1>1, <1>3 DEF ToSet
<1>5. \A k \in DOMAIN g : g[k].seq = k /\ g[k].session = w.session
  BY <1>1, <1>2, <1>3
<1>6. ASSUME NEW k \in DOMAIN g, g[k].type = "Trade" PROVE g[k].exec < w.nextExec
  <2>1. CASE k = n
    BY <1>1, <1>2, <1>3, <1>6, <2>1
  <2>2. CASE k # n
    <3>1. k \in DOMAIN h /\ g[k] = h[k] /\ h[k] \in Reports
      BY <1>1, <1>3, <2>2
    <3>2. h[k].exec < v.nextExec /\ h[k].exec \in Nat
      BY <1>1, <1>6, <3>1 DEF Reports
    <3> QED BY <1>1, <1>2, <3>1, <3>2
  <2> QED BY <2>1, <2>2
<1>7. ASSUME NEW j \in DOMAIN g, NEW k \in DOMAIN g, g[j].type = "Trade", g[k].type = "Trade",
             g[j].exec = g[k].exec
      PROVE  j = k
  <2>1. \A i \in DOMAIN h : h[i].type = "Trade" => h[i].exec # v.nextExec
    <3> TAKE i \in DOMAIN h
    <3>1. h[i] \in Reports
      BY <1>1
    <3>2. h[i].exec \in Nat
      BY <3>1 DEF Reports
    <3> QED BY <1>1, <3>2
  <2> QED BY <1>1, <1>2, <1>3, <1>7, <2>1
<1>8. HistoryOk(w)
  BY <1>1, <1>2, <1>3, <1>5, <1>6, <1>7 DEF HistoryOk, g
<1>9. w.nextSeq \in Nat \ {0} /\ w.nextExec \in Nat
  BY <1>1, <1>2
<1> QED BY <1>3, <1>4, <1>8, <1>9 DEF h, g, n, Issued

\* And keeps the venue in shape.
LEMMA IssuesOk ==
  ASSUME NEW v, VenueOk(v), NEW w, NEW r, Issues(v, w, r)
  PROVE  VenueOk(w)
<1>1. HistoryOk(w) /\ Issued(w) = Issued(v) \cup {r} /\ w.nextSeq \in Nat \ {0} /\ w.nextExec \in Nat
  BY IssuesHistory
<1>2. /\ v.outbox \in Seq(Issued(w))
      /\ \A t \in DOMAIN v.scheduled : v.scheduled[t] \in Seq(Issued(w))
  <2>1. ASSUME NEW s \in Seq(Issued(v)) PROVE s \in Seq(Issued(w))
    BY <1>1
  <2> QED BY <2>1 DEF VenueOk
<1>3. /\ r \in Issued(w) /\ <<r>> \in Seq(Issued(w)) /\ <<r, r>> \in Seq(Issued(w))
  BY <1>1
<1>4. w.outbox \in Seq(Issued(w))
  <2>1. CASE Sends(v, w, r)
    <3>1. w.outbox \in {Append(v.outbox, r), v.outbox \o <<r>>, v.outbox \o <<r, r>>}
      BY <2>1 DEF Sends
    <3>2. Append(v.outbox, r) \in Seq(Issued(w))
      BY <1>2, <1>3
    <3>3. v.outbox \o <<r>> \in Seq(Issued(w))
      BY <1>2, <1>3
    <3>4. v.outbox \o <<r, r>> \in Seq(Issued(w))
      BY <1>2, <1>3
    <3> QED BY <3>1, <3>2, <3>3, <3>4
  <2>2. CASE Delays(v, w, r)
    BY <1>2, <2>2 DEF Delays
  <2> QED BY <2>1, <2>2 DEF Issues
<1>5. /\ IsFiniteSet(DOMAIN w.scheduled) /\ DOMAIN w.scheduled \subseteq Int
      /\ \A t \in DOMAIN w.scheduled : w.scheduled[t] \in Seq(Issued(w))
  <2>0. IsFiniteSet(DOMAIN v.scheduled) /\ DOMAIN v.scheduled \subseteq Int /\ DOMAIN v = VenueFields
    BY DEF VenueOk
  <2>1. CASE Sends(v, w, r)
    BY <1>2, <2>0, <2>1 DEF Sends
  <2>2. CASE Delays(v, w, r)
    <3>1. PICK t \in Int, s \in {<<r>>, <<r, r>>} : w.scheduled = Schedule(v, t, s).scheduled
      BY <2>2 DEF Delays
    <3>2. w.scheduled = [x \in DOMAIN v.scheduled \cup {t} |->
                           (IF x \in DOMAIN v.scheduled THEN v.scheduled[x] ELSE <<>>)
                             \o (IF x = t THEN s ELSE <<>>)]
      BY <2>0, <3>1 DEF Schedule, VenueFields
    <3>3. DOMAIN w.scheduled = DOMAIN v.scheduled \cup {t}
      BY <3>2
    <3>4. IsFiniteSet(DOMAIN w.scheduled)
      BY <2>0, <3>3, FS_AddElement
    <3>5. s \in Seq(Issued(w)) /\ <<>> \in Seq(Issued(w))
      <4>1. s = <<r>> \/ s = <<r, r>>
        BY <3>1
      <4>2. <<>> \in Seq(Issued(w))
        OBVIOUS
      <4> QED BY <1>3, <4>1, <4>2, Zenon
    <3>6. ASSUME NEW x \in DOMAIN w.scheduled
          PROVE  w.scheduled[x] \in Seq(Issued(w))
      <4> DEFINE a == IF x \in DOMAIN v.scheduled THEN v.scheduled[x] ELSE <<>>
                 b == IF x = t THEN s ELSE <<>>
      <4>1. a \in Seq(Issued(w)) /\ b \in Seq(Issued(w))
        BY <1>2, <3>5
      <4>2. w.scheduled[x] = a \o b
        BY <3>2, <3>3
      <4> HIDE DEF a, b
      <4> QED BY <4>1, <4>2
    <3> QED BY <2>0, <3>3, <3>4, <3>6
  <2> QED BY <2>1, <2>2 DEF Issues
<1> QED BY <1>1, <1>4, <1>5 DEF VenueOk, Issues

\* Some report in the outbox has behind it only what is scheduled.
Awaited(v, r) == \E t \in DOMAIN v.scheduled : \E i \in DOMAIN v.scheduled[t] : v.scheduled[t][i] = r

\* Some report in the outbox has nothing but awaited reports issued after it: reading it
\* shows the engine every gap before it.
Shown(v) ==
  \E i \in DOMAIN v.outbox :
    \A k \in DOMAIN v.history : k > v.outbox[i].seq => Awaited(v, v.history[k])

\* Issuing a report keeps that so, when it is sent at once or one was shown before.
LEMMA IssuesShown ==
  ASSUME NEW v, VenueOk(v), NEW w, NEW r, Issues(v, w, r), Shown(v) \/ Sends(v, w, r)
  PROVE  Shown(w)
<1>1. /\ w.history[v.nextSeq] = r /\ r.seq = v.nextSeq /\ v.nextSeq \in Nat
      /\ DOMAIN w.history = DOMAIN v.history \cup {v.nextSeq}
      /\ \A k \in DOMAIN v.history : w.history[k] = v.history[k] /\ k < v.nextSeq
      /\ DOMAIN v.history \subseteq Nat
  <2>1. v.history \in Seq(Reports) /\ v.nextSeq \in Nat
    BY DEF VenueOk, HistoryOk
  <2>2. DOMAIN v.history \subseteq Nat
    BY <2>1
  <2>3. r.seq = v.nextSeq
    BY DEF Issues
  <2> QED BY <2>1, <2>2, <2>3, IssuesHistory
<1>2. v.outbox \in Seq(Issued(v)) /\ DOMAIN v = VenueFields
  BY DEF VenueOk
<1>3. CASE Sends(v, w, r)
  <2>1. \E i \in DOMAIN w.outbox : w.outbox[i] = r
    <3> DEFINE n == Len(v.outbox) + 1
    <3>1. n \in DOMAIN Append(v.outbox, r) /\ Append(v.outbox, r)[n] = r
      BY <1>2
    <3>2. n \in DOMAIN (v.outbox \o <<r>>) /\ (v.outbox \o <<r>>)[n] = r
      BY <1>2
    <3>3. n \in DOMAIN (v.outbox \o <<r, r>>) /\ (v.outbox \o <<r, r>>)[n] = r
      BY <1>2
    <3> QED BY <1>3, <3>1, <3>2, <3>3 DEF Sends
  <2> QED BY <1>1, <2>1 DEF Shown
<1>4. CASE Shown(v) /\ ~Sends(v, w, r)
  <2>1. PICK t \in Int, s \in {<<r>>, <<r, r>>} : w.scheduled = Schedule(v, t, s).scheduled
    BY <1>4 DEF Issues, Delays
  <2>2. w.outbox = v.outbox
    BY <1>4 DEF Issues, Delays
  <2>3. /\ DOMAIN w.scheduled = DOMAIN v.scheduled \cup {t}
        /\ \A x \in DOMAIN w.scheduled :
             w.scheduled[x] = (IF x \in DOMAIN v.scheduled THEN v.scheduled[x] ELSE <<>>)
                                \o (IF x = t THEN s ELSE <<>>)
    BY <1>2, <2>1 DEF Schedule, VenueFields
  <2>4. /\ s \in Seq({r}) /\ 1 \in DOMAIN s /\ s[1] = r
        /\ \A x \in DOMAIN v.scheduled : v.scheduled[x] \in Seq(Issued(v))
    <3>1. <<r>> \in Seq({r}) /\ 1 \in DOMAIN <<r>> /\ <<r>>[1] = r
      OBVIOUS
    <3>2. <<r, r>> \in Seq({r}) /\ 1 \in DOMAIN <<r, r>> /\ <<r, r>>[1] = r
      OBVIOUS
    <3>3. s = <<r>> \/ s = <<r, r>>
      BY <2>1
    <3>4. \A x \in DOMAIN v.scheduled : v.scheduled[x] \in Seq(Issued(v))
      BY DEF VenueOk
    <3> QED BY <3>1, <3>2, <3>3, <3>4
  <2>5. Awaited(w, r)
    <3> DEFINE a == IF t \in DOMAIN v.scheduled THEN v.scheduled[t] ELSE <<>>
    <3>0. <<>> \in Seq(Issued(v))
      OBVIOUS
    <3>1. a \in Seq(Issued(v)) /\ w.scheduled[t] = a \o s /\ t \in DOMAIN w.scheduled
      BY <2>3, <2>4, <3>0
    <3> HIDE DEF a
    <3>2. Len(a) + 1 \in DOMAIN (a \o s) /\ (a \o s)[Len(a) + 1] = s[1]
      BY <2>4, <3>1
    <3> QED BY <2>4, <3>1, <3>2 DEF Awaited
  <2>6. ASSUME NEW q, Awaited(v, q) PROVE Awaited(w, q)
    <3>1. PICK x \in DOMAIN v.scheduled : \E i \in DOMAIN v.scheduled[x] : v.scheduled[x][i] = q
      BY <2>6 DEF Awaited
    <3> DEFINE a == v.scheduled[x]  b == IF x = t THEN s ELSE <<>>
    <3>2. PICK i \in DOMAIN a : a[i] = q
      BY <3>1
    <3>0. <<>> \in Seq({r})
      OBVIOUS
    <3>3. a \in Seq(Issued(v)) /\ b \in Seq({r}) /\ x \in DOMAIN w.scheduled /\ w.scheduled[x] = a \o b
      BY <2>3, <2>4, <3>0, <3>1
    <3> HIDE DEF a, b
    <3>4. i \in DOMAIN (a \o b) /\ (a \o b)[i] = a[i]
      BY <3>2, <3>3
    <3> QED BY <3>2, <3>3, <3>4 DEF Awaited
  <2>7. PICK i \in DOMAIN v.outbox :
          \A k \in DOMAIN v.history : k > v.outbox[i].seq => Awaited(v, v.history[k])
    BY <1>4 DEF Shown
  <2>8. \A k \in DOMAIN w.history : k > v.outbox[i].seq => Awaited(w, w.history[k])
    BY <1>1, <2>5, <2>6, <2>7
  <2> QED BY <2>2, <2>7, <2>8 DEF Shown
<1> QED BY <1>3, <1>4

\* No confirmed replace of the order is under way.
NoReplace(e, id) ==
  LET h == e.venue.history
  IN  \A k \in DOMAIN h : Pending(e, k) /\ h[k].type = "Replaced" => h[k].order # id

\* The venue may build reports for order id.
May(e, asked, id) == Inv(e, asked) /\ id \in DOMAIN e.orders /\ NoReplace(e, id)

\* Report r suits the order it is of.
Suits(e, asked, id, r) ==
  /\ r.order = id
  /\ r.type = "Trade" /\ e.orders[id].status \in Open => r.price = e.orders[id].price
  /\ r.type = "Replaced" => ReplaceOk(e, asked, r)

\* A new report has not been seen: positions stay the net of what was.
LEMMA IssueSettled ==
  ASSUME NEW e, NEW asked, Inv(e, asked), NEW x, NEW w, Swaps(e, x, w), NEW r, Issues(e.venue, w, r)
  PROVE  SettledOk(x)
<1> DEFINE v == e.venue
<1>1. /\ x.orders = e.orders /\ x.venue = w /\ x.book = e.book /\ w.session = v.session
  BY DEF Swaps, Issues
<1>2. ASSUME NEW i \in DOMAIN e.orders PROVE v.nextExec \notin e.orders[i].execs
  <2>1. \A y \in e.orders[i].execs : y \in Nat /\ y < v.nextExec
    BY DEF Inv, StreamOk, KnownOk
  <2>2. v.nextExec \in Nat
    BY DEF Inv, StreamOk, VenueOk
  <2> QED BY <2>1, <2>2
<1>3. VenueTrades(w) = IF r.type = "Trade" THEN VenueTrades(v) \cup {r} ELSE VenueTrades(v)
  <2>1. VenueOk(v)
    BY DEF Inv, StreamOk
  <2>2. ToSet(w.history) = ToSet(v.history) \cup {r}
    BY <2>1, IssuesHistory DEF Issued
  <2> QED BY <2>2 DEF VenueTrades
<1>4. r.type = "Trade" => r.exec = v.nextExec
  BY DEF Issues
<1>5. ASSUME NEW a PROVE In(x, a) = In(e, a) /\ In(e, a) \subseteq DOMAIN e.orders
  BY <1>1 DEF In
<1>6. ASSUME NEW a PROVE SessionOnly(x, a) <=> SessionOnly(e, a)
  <2>1. \A y : y # v.nextExec => (y \in TradeExecs(w) <=> y \in TradeExecs(v))
    BY <1>3, <1>4 DEF TradeExecs
  <2>2. \A i \in In(e, a) : e.orders[i].execs \subseteq TradeExecs(w)
                              <=> e.orders[i].execs \subseteq TradeExecs(v)
    BY <1>2, <1>5, <2>1
  <2> QED BY <1>1, <1>5, <2>2 DEF SessionOnly
<1>7. ASSUME NEW a PROVE SeenTrades(x, a) = SeenTrades(e, a)
  BY <1>1, <1>2, <1>3, <1>4, <1>5 DEF SeenTrades
<1>8. ASSUME NEW a PROVE SeenNet(x, a) = SeenNet(e, a)
  BY <1>1, <1>7 DEF SeenNet, SignedOf
<1> QED BY <1>1, <1>6, <1>8, Zenon DEF Inv, StreamOk, SettledOk

\* Issuing a report that suits its order keeps the invariant.
LEMMA IssueSound ==
  ASSUME NEW e, NEW asked, NEW id, May(e, asked, id), NEW x, NEW w, Swaps(e, x, w),
         NEW r, Issues(e.venue, w, r), Suits(e, asked, id, r)
  PROVE  Inv(x, asked) /\ (r.type # "Replaced" => May(x, asked, id))
<1> DEFINE v == e.venue  h == v.history  g == w.history  n == v.nextSeq
<1>1. Inv(e, asked) /\ AllOk(e, asked) /\ VenueOk(v) /\ id \in DOMAIN e.orders /\ r.order = id
  BY DEF May, Inv, StreamOk, Suits
<1>2. /\ x.orders = e.orders /\ x.venue = w /\ x.remCash = e.remCash /\ x.remLots = e.remLots
      /\ x.session = e.session /\ x.nextSeq = e.nextSeq
  BY DEF Swaps
<1>3. /\ w.session = v.session /\ w.nextSeq = n + 1 /\ n \in Nat \ {0}
      /\ v.nextExec \in Nat /\ w.nextExec \in {v.nextExec, v.nextExec + 1}
      /\ DOMAIN w.inflight \subseteq DOMAIN v.inflight \cup {id}
      /\ r.type = "Trade" => r.exec = v.nextExec
  BY <1>1 DEF Issues, VenueOk
<1>4. /\ g[n] = r /\ DOMAIN g = DOMAIN h \cup {n} /\ n \notin DOMAIN h
      /\ \A k \in DOMAIN h : g[k] = h[k] /\ k < n
  BY <1>1, IssuesHistory
<1> HIDE DEF v, h, g, n
<1>5. AllOk(x, asked) /\ VenueOk(w)
  BY <1>1, SwapsAll, IssuesOk DEF v
<1>6. CursorOk(x) /\ \A k : Pending(x, k) <=> Pending(e, k)
  <2>1. CursorOk(e)
    BY <1>1 DEF Inv, StreamOk
  <2> QED BY <1>2, <1>3, <2>1 DEF CursorOk, Pending, v, n
<1>7. KnownOk(x)
  <2>1. /\ DOMAIN v.inflight \subseteq DOMAIN e.orders
        /\ \A k \in DOMAIN h : h[k].order \in DOMAIN e.orders
        /\ \A i \in DOMAIN e.orders : \A y \in e.orders[i].execs : y \in Nat /\ y < v.nextExec
        /\ \A k \in DOMAIN h : \A i \in DOMAIN e.orders :
             h[k].type = "Trade" /\ h[k].exec \in e.orders[i].execs => h[k].order = i
    BY <1>1 DEF Inv, StreamOk, KnownOk, v, h
  <2>2. \A i \in DOMAIN e.orders : \A y \in e.orders[i].execs : y \in Nat /\ y < w.nextExec
    BY <1>3, <2>1
  <2>3. \A i \in DOMAIN e.orders : r.type = "Trade" => r.exec \notin e.orders[i].execs
    BY <1>3, <2>1
  <2>4. DOMAIN w.inflight \subseteq DOMAIN e.orders
    BY <1>1, <1>3, <2>1
  <2>5. \A k \in DOMAIN g : g[k].order \in DOMAIN e.orders
    BY <1>1, <1>4, <2>1
  <2>6. \A k \in DOMAIN g : \A i \in DOMAIN e.orders :
             g[k].type = "Trade" /\ g[k].exec \in e.orders[i].execs => g[k].order = i
    BY <1>4, <2>1, <2>3
  <2> QED BY <1>2, <2>2, <2>4, <2>5, <2>6 DEF KnownOk, g
<1>8. PricesOk(x)
  <2>1. \A k \in DOMAIN h :
          Pending(e, k) /\ h[k].type = "Trade" /\ e.orders[h[k].order].status \in Open
            => h[k].price = e.orders[h[k].order].price
    BY <1>1 DEF Inv, StreamOk, PricesOk, v, h
  <2>2. r.type = "Trade" /\ e.orders[id].status \in Open => r.price = e.orders[id].price
    BY DEF Suits
  <2>3. \A k \in DOMAIN g :
          Pending(x, k) /\ g[k].type = "Trade" /\ e.orders[g[k].order].status \in Open
            => g[k].price = e.orders[g[k].order].price
    BY <1>1, <1>4, <1>6, <2>1, <2>2
  <2> QED BY <1>2, <2>3 DEF PricesOk, g
<1>9. ReplacesOk(x, asked)
  <2>1. \A k \in DOMAIN h : Pending(e, k) /\ h[k].type = "Replaced" =>
          /\ ReplaceOk(e, asked, h[k])
          /\ \A j \in DOMAIN h : h[j].order = h[k].order /\ h[j].type \in {"Trade", "Replaced"} => j <= k
    BY <1>1 DEF Inv, StreamOk, ReplacesOk, v, h
  <2>2. \A q : ReplaceOk(x, asked, q) <=> ReplaceOk(e, asked, q)
    BY <1>2 DEF ReplaceOk
  <2>3. r.type = "Replaced" => ReplaceOk(e, asked, r)
    BY DEF Suits
  <2>4. \A k \in DOMAIN h : Pending(e, k) /\ h[k].type = "Replaced" => h[k].order # id
    BY DEF May, NoReplace, v, h
  <2>5. ASSUME NEW k \in DOMAIN g, Pending(x, k), g[k].type = "Replaced"
        PROVE  /\ ReplaceOk(x, asked, g[k])
               /\ \A j \in DOMAIN g : g[j].order = g[k].order /\ g[j].type \in {"Trade", "Replaced"} => j <= k
    <3>1. CASE k = n
      <4>1. ReplaceOk(x, asked, g[k])
        BY <1>4, <2>2, <2>3, <2>5, <3>1
      <4>2. \A j \in DOMAIN h : j <= n
        <5>1. DOMAIN h \subseteq Nat
          BY <1>5, <1>1 DEF VenueOk, HistoryOk, h
        <5> QED BY <1>3, <1>4, <5>1
      <4>3. n <= n
        BY <1>3
      <4> QED BY <1>4, <3>1, <4>1, <4>2, <4>3
    <3>2. CASE k # n
      <4>1. k \in DOMAIN h /\ g[k] = h[k] /\ Pending(e, k)
        BY <1>4, <1>6, <2>5, <3>2
      <4>2. h[k].order # id
        BY <2>4, <2>5, <4>1
      <4> QED BY <1>1, <1>4, <2>1, <2>2, <2>5, <4>1, <4>2
    <3> QED BY <3>1, <3>2
  <2> QED BY <1>2, <2>5 DEF ReplacesOk, g
<1>10. SettledOk(x)
  BY <1>1, IssueSettled
<1>11. Inv(x, asked)
  BY <1>2, <1>5, <1>6, <1>7, <1>8, <1>9, <1>10 DEF Inv, StreamOk
<1>12. r.type # "Replaced" => NoReplace(x, id)
  <2>1. \A k \in DOMAIN h : Pending(e, k) /\ h[k].type = "Replaced" => h[k].order # id
    BY DEF May, NoReplace, v, h
  <2>2. r.type # "Replaced" =>
          \A k \in DOMAIN g : Pending(x, k) /\ g[k].type = "Replaced" => g[k].order # id
    BY <1>4, <1>6, <2>1
  <2> QED BY <1>2, <2>2 DEF NoReplace, g
<1> QED BY <1>1, <1>2, <1>11, <1>12 DEF May

\* e with venue w would still be sound, and the venue may go on with order id.
Took(e, asked, id, w) == DOMAIN w = VenueFields /\ \A x : Swaps(e, x, w) => May(x, asked, id)

\* A venue operation that issues one more report.
LEMMA TookMore ==
  ASSUME NEW e, NEW asked, NEW id, DOMAIN e = EngFields, NEW v, Took(e, asked, id, v),
         NEW w, NEW r, Issues(v, w, r), Suits(e, asked, id, r), r.type # "Replaced"
  PROVE  Took(e, asked, id, w) /\ VenueOk(v) /\ VenueOk(w)
<1> DEFINE y == [e EXCEPT !.venue = v]
<1>1. Swaps(e, y, v)
  BY DEF Swaps, EngFields
<1> HIDE DEF y
<1>2. May(y, asked, id) /\ y.venue = v
  BY <1>1 DEF Took, Swaps
<1>3. Suits(y, asked, id, r)
  BY <1>1 DEF Suits, Swaps, ReplaceOk
<1>4. ASSUME NEW x, Swaps(e, x, w) PROVE May(x, asked, id)
  <2>1. Swaps(y, x, w)
    BY <1>1, <1>4 DEF Swaps
  <2> QED BY <1>2, <1>3, <2>1, IssueSound
<1>5. VenueOk(v)
  BY <1>2 DEF May, Inv, StreamOk
<1>6. VenueOk(w)
  BY <1>5, IssuesOk
<1> QED BY <1>4, <1>5, <1>6 DEF Took, VenueOk

\* u is v with what it keeps of order id rewritten.
Rewrites(v, u, id) ==
  /\ DOMAIN u = VenueFields
  /\ u.connected = v.connected /\ u.session = v.session /\ u.faults = v.faults /\ u.now = v.now
  /\ u.nextSeq = v.nextSeq /\ u.nextExec = v.nextExec /\ u.history = v.history
  /\ u.scheduled = v.scheduled /\ u.outbox = v.outbox
  /\ DOMAIN u.inflight \subseteq DOMAIN v.inflight \cup {id}
  /\ \A i \in DOMAIN u.inflight : u.inflight[i] \in Sims

\* The price of order id at the venue.
Priced(v, id, price) == id \in DOMAIN v.inflight /\ v.inflight[id].price = price

\* Emit issues one report and sends it.
LEMMA EmitIssues ==
  ASSUME NEW v, VenueOk(v), NEW id \in Nat, NEW type \in ReportTypes \ {"Trade"},
         NEW qty \in Int, NEW price \in Int, NEW u, Rewrites(v, u, id)
  PROVE  LET w == Emit(u, id, type, qty, price)
             r == NextReport(v, id, type, 0, qty, price)
         IN  Issues(v, w, r) /\ Sends(v, w, r) /\ w.inflight = u.inflight
<1> DEFINE w == Emit(u, id, type, qty, price)
           r == NextReport(v, id, type, 0, qty, price)
<1>1. /\ DOMAIN u = VenueFields /\ u.session = v.session /\ u.nextSeq = v.nextSeq
      /\ u.history = v.history /\ u.outbox = v.outbox /\ u.scheduled = v.scheduled
      /\ u.nextExec = v.nextExec /\ u.connected = v.connected /\ u.faults = v.faults /\ u.now = v.now
  BY DEF Rewrites
<1>2. v.session \in Nat /\ v.nextSeq \in Nat
  BY DEF VenueOk
<1>3. /\ r \in Reports /\ r.session = v.session /\ r.seq = v.nextSeq /\ r.type # "Trade" /\ r.order = id
  BY <1>2 DEF NextReport, Reports
<1>4. NextReport(u, id, type, 0, qty, price) = r
  BY <1>1 DEF NextReport
<1>5. w = [Record(u, r) EXCEPT !.outbox = Append(@, r)]
  BY <1>4 DEF Emit
<1> HIDE DEF r
<1>6. /\ DOMAIN w = VenueFields /\ w.connected = u.connected /\ w.session = u.session
      /\ w.faults = u.faults /\ w.now = u.now /\ w.inflight = u.inflight
      /\ w.scheduled = u.scheduled
      /\ w.history = Append(u.history, r) /\ w.nextSeq = u.nextSeq + 1 /\ w.nextExec = u.nextExec
      /\ w.outbox = Append(u.outbox, r)
  BY <1>1, <1>3, <1>5, SMTT(60) DEF Record, VenueFields
<1> HIDE DEF w
<1>7. Sends(v, w, r)
  BY <1>1, <1>6 DEF Sends
<1>8. /\ DOMAIN w.inflight \subseteq DOMAIN v.inflight \cup {r.order}
      /\ \A i \in DOMAIN w.inflight : w.inflight[i] \in Sims
  BY <1>3, <1>6 DEF Rewrites
<1>9. Issues(v, w, r)
  BY <1>1, <1>3, <1>6, <1>7, <1>8 DEF Issues
<1> QED BY <1>6, <1>7, <1>9 DEF r, w

\* The report of a fill.
LEMMA TradeIs ==
  ASSUME NEW v, VenueOk(v), NEW id \in Nat, id \in DOMAIN v.inflight, NEW qty \in Int
  PROVE  LET r == TradeReport(v, id, qty)
         IN  /\ r \in Reports /\ r.session = v.session /\ r.seq = v.nextSeq /\ r.type = "Trade"
             /\ r.exec = v.nextExec /\ r.order = id /\ r.price = v.inflight[id].price
<1>1. v.session \in Nat /\ v.nextSeq \in Nat /\ v.nextExec \in Nat /\ v.inflight[id] \in Sims
  BY DEF VenueOk
<1>2. v.inflight[id].price \in Int
  BY <1>1 DEF Sims
<1> QED BY <1>1, <1>2 DEF TradeReport, NextReport, Reports, ReportTypes

\* An immediate fill issues a trade at the order's price.
LEMMA FillIssues ==
  ASSUME NEW v, VenueOk(v), NEW id \in Nat, id \in DOMAIN v.inflight, NEW qty \in Int
  PROVE  LET w == FillNow(v, id, qty)
             r == TradeReport(v, id, qty)
         IN  Issues(v, w, r) /\ Priced(w, id, v.inflight[id].price)
<1> DEFINE r == TradeReport(v, id, qty)
           c == [Record(v, r) EXCEPT
                   !.inflight[id].cum = IF v.faults.delayTicks = 0 THEN @ + qty ELSE @]
           w == FillNow(v, id, qty)
           copies == IF v.faults.duplicateExec THEN <<r, r>> ELSE <<r>>
           t == v.now + v.faults.delayTicks
           sim == v.inflight[id]
<1>1. /\ r \in Reports /\ r.session = v.session /\ r.seq = v.nextSeq /\ r.type = "Trade"
      /\ r.exec = v.nextExec /\ r.order = id
  BY TradeIs
<1>2. DOMAIN v = VenueFields /\ t \in Int /\ \A i \in DOMAIN v.inflight : v.inflight[i] \in Sims
  BY DEF VenueOk, FaultsOk
<1>3. w = EnqueueFill(c, r)
  BY DEF FillNow
<1> HIDE DEF r
<1>4. DOMAIN Record(v, r) = VenueFields /\ Record(v, r).inflight = v.inflight
  BY <1>2 DEF Record, VenueFields
<1>5. /\ DOMAIN c = VenueFields /\ c.connected = v.connected /\ c.session = v.session
      /\ c.faults = v.faults /\ c.now = v.now /\ c.scheduled = v.scheduled
      /\ c.history = Append(v.history, r) /\ c.nextSeq = v.nextSeq + 1
      /\ c.nextExec = v.nextExec + 1 /\ c.outbox = v.outbox
      /\ c.inflight = [v.inflight EXCEPT ![id].cum = IF v.faults.delayTicks = 0 THEN @ + qty ELSE @]
  BY <1>1, <1>2, <1>4 DEF Record, VenueFields
<1> HIDE DEF c
<1>6. /\ DOMAIN c.inflight = DOMAIN v.inflight /\ c.inflight[id].price = sim.price
      /\ \A i \in DOMAIN c.inflight : c.inflight[i] \in Sims
  <2>1. sim \in Sims
    BY <1>2
  <2>2. /\ [sim EXCEPT !.cum = IF v.faults.delayTicks = 0 THEN @ + qty ELSE @] \in Sims
        /\ [sim EXCEPT !.cum = IF v.faults.delayTicks = 0 THEN @ + qty ELSE @].price = sim.price
    BY <2>1 DEF Sims
  <2>3. /\ DOMAIN c.inflight = DOMAIN v.inflight
        /\ c.inflight[id] = [sim EXCEPT !.cum = IF v.faults.delayTicks = 0 THEN @ + qty ELSE @]
        /\ \A i \in DOMAIN v.inflight : i # id => c.inflight[i] = v.inflight[i]
    BY <1>5
  <2> QED BY <1>2, <2>2, <2>3
<1>7. w = IF v.faults.delayTicks = 0 THEN [c EXCEPT !.outbox = @ \o copies] ELSE Schedule(c, t, copies)
  BY <1>3, <1>5 DEF EnqueueFill
<1>8. copies = <<r, r>> \/ copies = <<r>>
  OBVIOUS
<1> HIDE DEF t, w, copies
<1>9. /\ DOMAIN w = VenueFields /\ w.connected = c.connected /\ w.session = c.session
      /\ w.faults = c.faults /\ w.now = c.now /\ w.inflight = c.inflight
      /\ w.history = c.history /\ w.nextSeq = c.nextSeq /\ w.nextExec = c.nextExec
  BY <1>5, <1>7 DEF Schedule, VenueFields
<1>10. Sends(v, w, r) \/ Delays(v, w, r)
  <2>1. CASE v.faults.delayTicks = 0
    <3>1. w.scheduled = c.scheduled /\ w.outbox = c.outbox \o copies
      BY <1>5, <1>7, <2>1 DEF VenueFields
    <3> QED BY <1>5, <1>8, <3>1 DEF Sends
  <2>2. CASE v.faults.delayTicks # 0
    <3>1. w.outbox = c.outbox /\ w.scheduled = Schedule(v, t, copies).scheduled
      BY <1>2, <1>5, <1>7, <2>2 DEF Schedule, VenueFields
    <3> QED BY <1>2, <1>5, <1>8, <3>1 DEF Delays
  <2> QED BY <2>1, <2>2
<1>11. Issues(v, w, r)
  BY <1>1, <1>5, <1>6, <1>9, <1>10 DEF Issues
<1>12. Priced(w, id, v.inflight[id].price)
  BY <1>6, <1>9 DEF Priced
<1> QED BY <1>11, <1>12 DEF r, w

\* A delayed fill issues it and schedules it.
LEMMA FillLaterIssues ==
  ASSUME NEW v, VenueOk(v), NEW id \in Nat, id \in DOMAIN v.inflight, NEW qty \in Int, NEW t \in Int
  PROVE  Issues(v, FillLater(v, id, qty, t), TradeReport(v, id, qty))
<1> DEFINE r == TradeReport(v, id, qty)
           c == Record(v, r)
           w == FillLater(v, id, qty, t)
<1>1. /\ r \in Reports /\ r.session = v.session /\ r.seq = v.nextSeq /\ r.type = "Trade"
      /\ r.exec = v.nextExec /\ r.order = id
  BY TradeIs
<1>2. DOMAIN v = VenueFields /\ \A i \in DOMAIN v.inflight : v.inflight[i] \in Sims
  BY DEF VenueOk
<1>3. w = Schedule(c, t, <<r>>)
  BY DEF FillLater
<1> HIDE DEF r
<1>4. /\ DOMAIN c = VenueFields /\ c.connected = v.connected /\ c.session = v.session
      /\ c.faults = v.faults /\ c.now = v.now /\ c.scheduled = v.scheduled /\ c.inflight = v.inflight
      /\ c.history = Append(v.history, r) /\ c.nextSeq = v.nextSeq + 1
      /\ c.nextExec = v.nextExec + 1 /\ c.outbox = v.outbox
  BY <1>1, <1>2 DEF Record, VenueFields
<1> HIDE DEF c, w
<1>5. /\ DOMAIN w = VenueFields /\ w.connected = c.connected /\ w.session = c.session
      /\ w.faults = c.faults /\ w.now = c.now /\ w.inflight = c.inflight /\ w.outbox = c.outbox
      /\ w.history = c.history /\ w.nextSeq = c.nextSeq /\ w.nextExec = c.nextExec
      /\ w.scheduled = Schedule(v, t, <<r>>).scheduled
  BY <1>2, <1>3, <1>4 DEF Schedule, VenueFields
<1>6. Delays(v, w, r)
  BY <1>4, <1>5 DEF Delays
<1> QED BY <1>1, <1>2, <1>4, <1>5, <1>6 DEF Issues, r, w

\* The venue v has served order id for e so far, and told of all but what waits.
Serves(e, asked, id, v) ==
  DOMAIN e = EngFields /\ id \in Nat /\ Took(e, asked, id, v) /\ VenueOk(v)

\* Serving an order with a report that is no trade and no replace.
LEMMA EmitServes ==
  ASSUME NEW e, NEW asked, NEW id, NEW v, Serves(e, asked, id, v), NEW u, Rewrites(v, u, id),
         NEW type \in ReportTypes \ {"Trade", "Replaced"}, NEW qty \in Int, NEW price \in Int
  PROVE  LET w == Emit(u, id, type, qty, price)
         IN  Serves(e, asked, id, w) /\ Shown(w) /\ w.inflight = u.inflight /\ w.faults = v.faults
<1> DEFINE w == Emit(u, id, type, qty, price)
           r == NextReport(v, id, type, 0, qty, price)
<1>1. Issues(v, w, r) /\ Sends(v, w, r) /\ w.inflight = u.inflight
  BY EmitIssues DEF Serves
<1>2. r.order = id /\ r.type = type
  BY DEF NextReport
<1> HIDE DEF w, r
<1>3. Suits(e, asked, id, r) /\ r.type # "Replaced"
  BY <1>2 DEF Suits
<1>4. Took(e, asked, id, w) /\ VenueOk(w)
  BY <1>1, <1>3, TookMore DEF Serves
<1>5. Shown(w)
  BY <1>1, IssuesShown DEF Serves
<1> QED BY <1>1, <1>4, <1>5 DEF Serves, Issues, w

\* The venue trades at the price the order has while it is open.
PriceOf(e, id, price) == e.orders[id].status \in Open => price = e.orders[id].price

\* Serving it with an immediate fill at its price.
LEMMA FillServes ==
  ASSUME NEW e, NEW asked, NEW id, NEW v, Serves(e, asked, id, v), Shown(v),
         NEW price, Priced(v, id, price), PriceOf(e, id, price), NEW qty \in Int
  PROVE  LET w == FillNow(v, id, qty)
         IN  Serves(e, asked, id, w) /\ Shown(w) /\ Priced(w, id, price) /\ w.now = v.now
             /\ w.faults = v.faults
<1> DEFINE w == FillNow(v, id, qty)
           r == TradeReport(v, id, qty)
<1>1. Issues(v, w, r) /\ Priced(w, id, price)
  BY FillIssues DEF Serves, Priced
<1>2. r.order = id /\ r.type = "Trade" /\ r.price = price
  BY TradeIs DEF Serves, Priced
<1> HIDE DEF w, r
<1>3. Suits(e, asked, id, r) /\ r.type # "Replaced"
  BY <1>2 DEF Suits, PriceOf
<1>4. Took(e, asked, id, w) /\ VenueOk(w)
  BY <1>1, <1>3, TookMore DEF Serves
<1>5. Shown(w)
  BY <1>1, IssuesShown DEF Serves
<1> QED BY <1>1, <1>4, <1>5 DEF Serves, Issues, w

\* Serving it with a delayed fill.
LEMMA FillLaterServes ==
  ASSUME NEW e, NEW asked, NEW id, NEW v, Serves(e, asked, id, v), Shown(v),
         NEW price, Priced(v, id, price), PriceOf(e, id, price), NEW qty \in Int, NEW t \in Int
  PROVE  LET w == FillLater(v, id, qty, t)
         IN  Serves(e, asked, id, w) /\ Shown(w)
<1> DEFINE w == FillLater(v, id, qty, t)
           r == TradeReport(v, id, qty)
<1>1. Issues(v, w, r)
  BY FillLaterIssues DEF Serves, Priced
<1>2. r.order = id /\ r.type = "Trade" /\ r.price = price
  BY TradeIs DEF Serves, Priced
<1> HIDE DEF w, r
<1>3. Suits(e, asked, id, r) /\ r.type # "Replaced"
  BY <1>2 DEF Suits, PriceOf
<1>4. Took(e, asked, id, w) /\ VenueOk(w)
  BY <1>1, <1>3, TookMore DEF Serves
<1>5. Shown(w)
  BY <1>1, IssuesShown DEF Serves
<1> QED BY <1>4, <1>5 DEF Serves, w

\* Serving it with an expiry of the rest.
LEMMA ExpireServes ==
  ASSUME NEW e, NEW asked, NEW id, NEW v, Serves(e, asked, id, v), id \in DOMAIN v.inflight,
         NEW qty \in Int, NEW price \in Int
  PROVE  LET w == Emit([v EXCEPT !.inflight[id].canceled = TRUE], id, "Expired", qty, price)
         IN  Serves(e, asked, id, w) /\ Shown(w)
<1> DEFINE u == [v EXCEPT !.inflight[id].canceled = TRUE]
<1>1. DOMAIN v = VenueFields /\ \A i \in DOMAIN v.inflight : v.inflight[i] \in Sims
  BY DEF Serves, VenueOk
<1>2. [v.inflight[id] EXCEPT !.canceled = TRUE] \in Sims
  BY <1>1 DEF Sims
<1>3. /\ DOMAIN u = VenueFields /\ DOMAIN u.inflight = DOMAIN v.inflight
      /\ u.inflight = [v.inflight EXCEPT ![id].canceled = TRUE]
      /\ u.connected = v.connected /\ u.session = v.session /\ u.faults = v.faults /\ u.now = v.now
      /\ u.nextSeq = v.nextSeq /\ u.nextExec = v.nextExec /\ u.history = v.history
      /\ u.scheduled = v.scheduled /\ u.outbox = v.outbox
  BY <1>1 DEF VenueFields
<1>4. \A i \in DOMAIN u.inflight : u.inflight[i] \in Sims
  BY <1>1, <1>2, <1>3
<1>5. Rewrites(v, u, id)
  BY <1>3, <1>4 DEF Rewrites
<1>6. "Expired" \in ReportTypes \ {"Trade", "Replaced"}
  BY DEF ReportTypes
<1> HIDE DEF u
<1>7. Serves(e, asked, id, Emit(u, id, "Expired", qty, price)) /\ Shown(Emit(u, id, "Expired", qty, price))
  BY <1>5, <1>6, EmitServes
<1> QED BY <1>7 DEF u

\* Serving it with an acknowledgement.
LEMMA AcceptServes ==
  ASSUME NEW e, NEW asked, NEW id, NEW v, Serves(e, asked, id, v), NEW qty \in Int, NEW price \in Int
  PROVE  LET sim == [qty |-> qty, price |-> price, cum |-> 0, canceled |-> FALSE]
             w == Emit([v EXCEPT !.inflight = [x \in DOMAIN @ \cup {id} |->
                                                 IF x = id THEN sim ELSE @[x]]],
                       id, "New", qty, price)
         IN  Serves(e, asked, id, w) /\ Shown(w) /\ Priced(w, id, price) /\ w.faults = v.faults
<1> DEFINE sim == [qty |-> qty, price |-> price, cum |-> 0, canceled |-> FALSE]
           u == [v EXCEPT !.inflight = [x \in DOMAIN @ \cup {id} |-> IF x = id THEN sim ELSE @[x]]]
           w == Emit(u, id, "New", qty, price)
<1>1. DOMAIN v = VenueFields /\ \A i \in DOMAIN v.inflight : v.inflight[i] \in Sims
  BY DEF Serves, VenueOk
<1>2. sim \in Sims /\ sim.price = price
  BY DEF Sims
<1> HIDE DEF sim
<1>3. /\ DOMAIN u = VenueFields
      /\ u.inflight = [x \in DOMAIN v.inflight \cup {id} |-> IF x = id THEN sim ELSE v.inflight[x]]
      /\ u.connected = v.connected /\ u.session = v.session /\ u.faults = v.faults /\ u.now = v.now
      /\ u.nextSeq = v.nextSeq /\ u.nextExec = v.nextExec /\ u.history = v.history
      /\ u.scheduled = v.scheduled /\ u.outbox = v.outbox
  BY <1>1 DEF VenueFields
<1>4. /\ DOMAIN u.inflight = DOMAIN v.inflight \cup {id} /\ u.inflight[id] = sim
      /\ \A i \in DOMAIN u.inflight : u.inflight[i] \in Sims
  BY <1>1, <1>2, <1>3
<1>5. Rewrites(v, u, id)
  BY <1>3, <1>4 DEF Rewrites
<1>6. "New" \in ReportTypes \ {"Trade", "Replaced"}
  BY DEF ReportTypes
<1> HIDE DEF u
<1>7. Serves(e, asked, id, w) /\ Shown(w) /\ w.inflight = u.inflight /\ w.faults = v.faults
  BY <1>5, <1>6, EmitServes
<1>8. Priced(w, id, price)
  BY <1>2, <1>4, <1>7 DEF Priced
<1> QED BY <1>7, <1>8 DEF u, w, sim

\* The whole of the venue's submit, whatever faults it is configured with.
LEMMA SubmitServes ==
  ASSUME NEW e, NEW asked, NEW id, NEW v, Serves(e, asked, id, v), NEW tif,
         NEW qty \in Int, NEW price \in Int, e.orders[id].price = price
  PROVE  LET w == VSubmit(v, id, tif, qty, price)
         IN  /\ Took(e, asked, id, w)
             /\ VSubmitError(v, tif, qty, price) = "none" => Shown(w)
<1> DEFINE w == VSubmit(v, id, tif, qty, price)
           sim == [qty |-> qty, price |-> price, cum |-> 0, canceled |-> FALSE]
           a == Emit([v EXCEPT !.inflight = [x \in DOMAIN @ \cup {id} |->
                                               IF x = id THEN sim ELSE @[x]]],
                     id, "New", qty, price)
           now == a.now
           first == v.faults.first
           delay == IF v.faults.delayTicks > 1 THEN v.faults.delayTicks ELSE 1
<1>1. CASE ~v.connected \/ qty <= 0 \/ price <= 0
  BY <1>1 DEF VSubmit, VSubmitError, Serves
<1>2. CASE ~(~v.connected \/ qty <= 0 \/ price <= 0) /\ RejectsOrder(v, tif)
  <2>1. w = Emit(v, id, "Rejected", qty, price)
    BY <1>2 DEF VSubmit
  <2>2. Rewrites(v, v, id)
    BY DEF Rewrites, Serves, VenueOk
  <2>3. "Rejected" \in ReportTypes \ {"Trade", "Replaced"}
    BY DEF ReportTypes
  <2> HIDE DEF w
  <2>4. Serves(e, asked, id, w) /\ Shown(w)
    BY <2>1, <2>2, <2>3, EmitServes
  <2> QED BY <2>4 DEF Serves, w
<1>3. CASE ~(~v.connected \/ qty <= 0 \/ price <= 0) /\ ~RejectsOrder(v, tif)
  <2>1. Serves(e, asked, id, a) /\ Shown(a) /\ Priced(a, id, price) /\ a.faults = v.faults
    BY AcceptServes, SMTT(60)
  <2>2. w = IF tif = "IOC" THEN FillOrExpire(a, id, qty, price) ELSE ScheduleFills(a, id, qty)
    BY <1>3 DEF VSubmit
  <2>3. PriceOf(e, id, price) /\ id \in DOMAIN a.inflight
    BY <2>1 DEF PriceOf, Priced
  <2>4. /\ first \in Int /\ delay \in Nat /\ now \in Int
        /\ a.faults.fillPolicy \in {"Rest", "Full", "Split"}
    BY <2>1 DEF Serves, VenueOk, FaultsOk
  <2>5. SplitImpossible(a, qty) => VSubmitError(v, tif, qty, price) # "none"
    BY <1>3, <2>1 DEF VSubmitError, SplitImpossible
  <2> HIDE DEF a, now, delay, first
  <2>6. LET f == FillNow(a, id, qty)
        IN  Serves(e, asked, id, f) /\ Shown(f)
    BY <2>1, <2>3, FillServes
  <2> DEFINE f == FillNow(a, id, first)
  <2>7. Serves(e, asked, id, f) /\ Shown(f) /\ Priced(f, id, price) /\ f.now = now
    BY <2>1, <2>3, <2>4, FillServes DEF now
  <2>8. qty - first \in Int /\ now + delay \in Int
    BY <2>4
  <2>9. a.faults.first = first /\ a.faults.delayTicks = v.faults.delayTicks
    BY <2>1 DEF first
  <2> HIDE DEF f
  <2>10. LET g == FillLater(f, id, qty - first, now + delay)
         IN  Serves(e, asked, id, g) /\ Shown(g)
    BY <2>3, <2>7, <2>8, FillLaterServes
  <2>11. CASE tif = "IOC"
    <3> DEFINE x == Emit([a EXCEPT !.inflight[id].canceled = TRUE], id, "Expired", qty, price)
               y == Emit([f EXCEPT !.inflight[id].canceled = TRUE], id, "Expired", qty - first, price)
    <3>1. w = CASE a.faults.fillPolicy = "Rest"  -> x
                [] a.faults.fillPolicy = "Full"  -> FillNow(a, id, qty)
                [] a.faults.fillPolicy = "Split" -> IF SplitImpossible(a, qty) THEN a ELSE y
      BY <2>2, <2>9, <2>11 DEF FillOrExpire, f
    <3>2. Serves(e, asked, id, x) /\ Shown(x)
      BY <2>1, <2>3, ExpireServes
    <3>3. Serves(e, asked, id, y) /\ Shown(y)
      BY <2>7, <2>8, ExpireServes DEF Priced
    <3> HIDE DEF x, y, w
    <3> QED BY <2>1, <2>4, <2>5, <2>6, <3>1, <3>2, <3>3 DEF Serves, w
  <2>12. CASE tif # "IOC"
    <3> DEFINE g == FillLater(f, id, qty - first, now + delay)
    <3>1. w = CASE a.faults.fillPolicy = "Rest"  -> a
                [] a.faults.fillPolicy = "Full"  -> FillNow(a, id, qty)
                [] a.faults.fillPolicy = "Split" -> IF SplitImpossible(a, qty) THEN a ELSE g
      BY <2>2, <2>9, <2>12 DEF ScheduleFills, f, now, delay
    <3> HIDE DEF g, w
    <3> QED BY <2>1, <2>4, <2>5, <2>6, <2>10, <3>1 DEF Serves, w, g
  <2> QED BY <2>11, <2>12
<1> QED BY <1>1, <1>2, <1>3

\* The whole of the venue's cancel.
LEMMA CancelServes ==
  ASSUME NEW e, NEW asked, NEW id, NEW v, Serves(e, asked, id, v), e.orders[id].status \notin Open
  PROVE  LET w == VCancel(v, id)
         IN  Took(e, asked, id, w) /\ (VCancelError(v, id) = "none" => Shown(w))
<1> DEFINE w == VCancel(v, id)
           sim == v.inflight[id]
           leaves == sim.qty - sim.cum
           c == Emit(v, id, "Canceled", leaves, sim.price)
           acked == [c EXCEPT !.inflight[id].canceled = TRUE]
<1>1. CASE VCancelError(v, id) # "none"
  BY <1>1 DEF VCancel, Serves
<1>2. CASE VCancelError(v, id) = "none"
  <2>1. id \in DOMAIN v.inflight
    BY <1>2 DEF VCancelError
  <2>2. sim \in Sims /\ DOMAIN v = VenueFields /\ VenueOk(v) /\ v.now \in Int
    BY <2>1 DEF Serves, VenueOk
  <2>3. leaves \in Int /\ sim.price \in Int /\ 0 \in Int
    BY <2>2 DEF Sims
  <2>4. Rewrites(v, v, id)
    BY <2>2 DEF Rewrites, VenueOk
  <2>5. {"Canceled", "CancelReject"} \subseteq ReportTypes \ {"Trade", "Replaced"}
    BY DEF ReportTypes
  <2>6. w = IF leaves <= 0 THEN Emit(v, id, "CancelReject", 0, sim.price)
            ELSE IF v.faults.lateFill THEN FillLater(acked, id, leaves, v.now + 1) ELSE acked
    BY <1>2 DEF VCancel
  <2> HIDE DEF w, leaves
  <2> DEFINE price == sim.price
             j == Emit(v, id, "CancelReject", 0, price)
             r == NextReport(v, id, "Canceled", 0, leaves, price)
  <2>7. Serves(e, asked, id, j) /\ Shown(j)
    <3> HIDE DEF price
    <3> QED BY <2>3, <2>4, <2>5, EmitServes DEF price
  <2>8. Issues(v, c, r) /\ Sends(v, c, r) /\ c.inflight = v.inflight
    <3> HIDE DEF price
    <3>1. "Canceled" \in ReportTypes \ {"Trade"} /\ id \in Nat
      BY <2>5 DEF Serves
    <3> QED BY <2>2, <2>3, <2>4, <3>1, EmitIssues DEF price
  <2>9. Suits(e, asked, id, r) /\ r.type # "Replaced" /\ r.order = id
    BY DEF NextReport, Suits
  <2> HIDE DEF c, r
  <2>10. /\ DOMAIN acked = VenueFields
         /\ acked.connected = c.connected /\ acked.session = c.session /\ acked.faults = c.faults
         /\ acked.now = c.now /\ acked.history = c.history /\ acked.nextSeq = c.nextSeq
         /\ acked.nextExec = c.nextExec /\ acked.scheduled = c.scheduled /\ acked.outbox = c.outbox
         /\ acked.inflight = [v.inflight EXCEPT ![id].canceled = TRUE]
    BY <2>8 DEF Issues, VenueFields
  <2> HIDE DEF acked
  <2>11. /\ DOMAIN acked.inflight = DOMAIN v.inflight /\ acked.inflight[id].price = price
         /\ \A i \in DOMAIN acked.inflight : acked.inflight[i] \in Sims
    <3>1. [sim EXCEPT !.canceled = TRUE] \in Sims /\ [sim EXCEPT !.canceled = TRUE].price = price
      BY <2>2 DEF Sims
    <3>2. \A i \in DOMAIN v.inflight : v.inflight[i] \in Sims
      BY <2>2 DEF VenueOk
    <3>3. /\ DOMAIN acked.inflight = DOMAIN v.inflight
          /\ acked.inflight[id] = [sim EXCEPT !.canceled = TRUE]
          /\ \A i \in DOMAIN v.inflight : i # id => acked.inflight[i] = v.inflight[i]
      BY <2>1, <2>10
    <3> QED BY <3>1, <3>2, <3>3
  <2>12. Issues(v, acked, r) /\ Sends(v, acked, r)
    BY <2>8, <2>10, <2>11 DEF Issues, Sends
  <2>13. Serves(e, asked, id, acked) /\ Shown(acked)
    <3>1. Took(e, asked, id, acked) /\ VenueOk(acked)
      BY <2>9, <2>12, TookMore DEF Serves
    <3> QED BY <2>2, <2>12, <3>1, IssuesShown DEF Serves
  <2>14. Priced(acked, id, price) /\ PriceOf(e, id, price) /\ v.now + 1 \in Int
    BY <2>1, <2>2, <2>11 DEF Priced, PriceOf
  <2> DEFINE t == v.now + 1
             l == FillLater(acked, id, leaves, t)
  <2>15. Serves(e, asked, id, l) /\ Shown(l)
    <3> HIDE DEF price, t
    <3> QED BY <2>3, <2>13, <2>14, FillLaterServes DEF t
  <2> HIDE DEF j, l
  <2> QED BY <2>6, <2>7, <2>13, <2>15 DEF Serves, j, l, w
<1> QED BY <1>1, <1>2

\* Flattening batches gives a batch.
LEMMA FlattenIsSeq ==
  ASSUME NEW R, NEW ss \in Seq(Seq(R))
  PROVE  FlattenSeq(ss) \in Seq(R)
<1> DEFINE Step(g, k) == [i \in 1 .. k |-> IF i = 1 THEN ss[i] ELSE g[i - 1] \o ss[i]]
           out == CHOOSE g : g = Step(g, Len(ss))
           Exists(k) == \E g : g = Step(g, k)
           Bad == {k \in Nat : k <= Len(ss) /\ ~Exists(k)}
           Off == {k \in Nat : k <= Len(ss) /\ k # 0 /\ out[k] \notin Seq(R)}
<1>1. FlattenSeq(ss) = IF Len(ss) = 0 THEN ss ELSE out[Len(ss)]
  BY DEF FlattenSeq
<1>2. Len(ss) \in Nat
  OBVIOUS
<1>3. ASSUME Bad # {} PROVE FALSE
  <2>1. PICK k \in Bad : \A m \in Bad : k <= m
    <3>1. Bad \in SUBSET Nat
      <4> HIDE DEF Exists
      <4> QED OBVIOUS
    <3> HIDE DEF Bad
    <3> QED BY <1>3, <3>1, LeastBad
  <2>a. k \in Nat /\ k <= Len(ss) /\ ~Exists(k)
    <3> HIDE DEF Exists
    <3> QED OBVIOUS
  <2>2. k # 0
    <3> DEFINE g == [i \in 1 .. 0 |-> <<>>]
    <3>1. g = Step(g, 0)
      OBVIOUS
    <3> QED BY <2>a, <3>1
  <2>3. k - 1 \in Nat /\ k - 1 <= Len(ss) /\ Exists(k - 1)
    <3> HIDE DEF Exists
    <3>1. k - 1 \in Nat /\ k - 1 <= Len(ss) /\ ~(k <= k - 1)
      BY <1>2, <2>a, <2>2
    <3> QED BY <2>1, <3>1
  <2>4. PICK g : g = Step(g, k - 1)
    BY <2>3
  <2> DEFINE last == IF k = 1 THEN ss[k] ELSE g[k - 1] \o ss[k]
             h == [i \in 1 .. k |-> IF i = k THEN last ELSE g[i]]
  <2>5. \A i \in 1 .. k : h[i] = Step(h, k)[i]
    <3> TAKE i \in 1 .. k
    <3>1. CASE i = k
      <4>1. k # 1 => k - 1 \in 1 .. k /\ k - 1 # k
        BY <2>2, <2>3
      <4> QED BY <3>1, <4>1
    <3>2. CASE i # k
      <4>1. i \in 1 .. k - 1 /\ (i # 1 => i - 1 \in 1 .. k - 1 /\ i - 1 # k)
        BY <2>3, <3>2
      <4>2. g[i] = Step(g, k - 1)[i]
        BY <2>4
      <4> QED BY <3>2, <4>1, <4>2
    <3> QED BY <3>1, <3>2
  <2>6. h = Step(h, k)
    BY <2>5
  <2> QED BY <2>a, <2>6
<1>4. \E g : g = Step(g, Len(ss))
  <2> HIDE DEF Exists
  <2>1. Exists(Len(ss))
    BY <1>2, <1>3
  <2> QED BY <2>1 DEF Exists
<1>5. out = Step(out, Len(ss))
  <2> HIDE DEF Step
  <2> QED BY <1>4
<1> HIDE DEF out
<1>6. ASSUME Off # {} PROVE FALSE
  <2>1. PICK k \in Off : \A m \in Off : k <= m
    <3>1. Off \in SUBSET Nat OBVIOUS
    <3> HIDE DEF Off
    <3> QED BY <1>6, <3>1, LeastBad
  <2>2. k \in Nat /\ k \in 1 .. Len(ss) /\ out[k] \notin Seq(R)
    BY <1>2, <2>1
  <2>3. out[k] = IF k = 1 THEN ss[k] ELSE out[k - 1] \o ss[k]
    BY <1>5, <2>2
  <2>4. ss[k] \in Seq(R)
    BY <2>2
  <2>5. k # 1
    BY <2>2, <2>3, <2>4
  <2>6. k - 1 \in Nat /\ k - 1 <= Len(ss) /\ ~(k <= k - 1) /\ k - 1 # 0
    BY <1>2, <2>2, <2>5
  <2>7. out[k - 1] \in Seq(R)
    BY <2>1, <2>6
  <2> QED BY <2>2, <2>3, <2>4, <2>5, <2>7
<1>7. CASE Len(ss) = 0
  <2>1. ss = <<>>
    BY <1>7
  <2> QED BY <1>1, <1>7, <2>1
<1>8. CASE Len(ss) # 0
  BY <1>1, <1>2, <1>6, <1>8
<1> QED BY <1>7, <1>8

\* Each place of a finite set of times has its time.
LEMMA RankHits ==
  ASSUME NEW S, IsFiniteSet(S), S \subseteq Int, NEW i \in 1 .. Cardinality(S)
  PROVE  \E t \in S : Cardinality({u \in S : u <= t}) = i
<1> DEFINE Upto(t) == {u \in S : u <= t}
           n == Cardinality(S)
           f == [t \in S |-> Cardinality(Upto(t))]
<1>1. n \in Nat
  BY FS_CardinalityType
<1>2. ASSUME NEW t \in S
      PROVE  /\ IsFiniteSet(Upto(t)) /\ Cardinality(Upto(t)) \in Nat
             /\ Cardinality(Upto(t)) <= n /\ Cardinality(Upto(t)) # 0
  <2>1. Upto(t) \in SUBSET S /\ t \in Upto(t)
    OBVIOUS
  <2> HIDE DEF Upto
  <2>2. IsFiniteSet(Upto(t)) /\ Cardinality(Upto(t)) <= n
    BY <2>1, FS_Subset
  <2>3. Cardinality(Upto(t)) \in Nat
    BY <2>2, FS_CardinalityType
  <2>4. Cardinality(Upto(t)) # 0
    BY <2>1, <2>2, FS_EmptySet
  <2> QED BY <2>2, <2>3, <2>4
<1>3. ASSUME NEW t \in S, NEW u \in S, Cardinality(Upto(t)) = Cardinality(Upto(u)), t <= u
      PROVE  t = u
  <2>0. \A x \in S : x <= t => x <= u
    <3> TAKE x \in S
    <3>1. x \in Int /\ t \in Int /\ u \in Int /\ t <= u
      BY <1>3
    <3> QED BY ONLY <3>1
  <2>1. Upto(t) \in SUBSET Upto(u)
    BY <2>0
  <2>2. u \in Upto(u)
    OBVIOUS
  <2>3. Upto(u) = Upto(t)
    <3>1. IsFiniteSet(Upto(u))
      BY <1>2
    <3> HIDE DEF Upto
    <3> QED BY <1>3, <2>1, <3>1, FS_Subset
  <2>4. u <= t
    BY <2>2, <2>3
  <2> QED BY <1>3, <2>4
<1>4. f \in Injection(S, 1 .. n)
  <2>1. \A t \in S : Cardinality(Upto(t)) \in 1 .. n
    <3> HIDE DEF Upto
    <3> QED BY <1>1, <1>2
  <2>2. f \in [S -> 1 .. n]
    <3> HIDE DEF Upto
    <3> QED BY <2>1
  <2>3. \A t, u \in S : f[t] = f[u] => t = u
    <3> TAKE t \in S, u \in S
    <3>1. t <= u \/ u <= t
      OBVIOUS
    <3> HIDE DEF Upto
    <3> QED BY <1>3, <3>1
  <2> HIDE DEF f
  <2> QED BY <2>2, <2>3 DEF Injection, IsInjective
<1>5. f \in Surjection(S, 1 .. n)
  <2>1. IsFiniteSet(1 .. n) /\ Cardinality(1 .. n) = n
    BY <1>1, FS_Interval
  <2> HIDE DEF f
  <2> QED BY <1>4, <2>1, FS_Injection
<1>6. \E t \in S : f[t] = i
  <2> HIDE DEF f
  <2> QED BY <1>5 DEF Surjection
<1> QED BY <1>6

\* A clock tick only delivers what was scheduled.
LEMMA TickDelivers ==
  ASSUME NEW v, VenueOk(v), NEW ticks \in Int
  PROVE  VenueOk(VTick(v, ticks)) /\ Delivers(v, VTick(v, ticks))
<1> DEFINE due == {t \in DOMAIN v.scheduled : t <= v.now + ticks}
           At1(i) == CHOOSE t \in due : Cardinality({u \in due : u <= t}) = i
           deliveries == [i \in 1 .. Cardinality(due) |-> v.scheduled[At1(i)]]
           w == VTick(v, ticks)
           R == Issued(v)
<1>1. /\ DOMAIN v = VenueFields /\ v.now \in Int /\ v.outbox \in Seq(R)
      /\ IsFiniteSet(DOMAIN v.scheduled) /\ DOMAIN v.scheduled \subseteq Int
      /\ \A t \in DOMAIN v.scheduled : v.scheduled[t] \in Seq(R)
  BY DEF VenueOk
<1>2. due \in SUBSET DOMAIN v.scheduled /\ due \subseteq Int
  BY <1>1
<1>3. IsFiniteSet(due) /\ Cardinality(due) \in Nat
  <2> HIDE DEF due
  <2>1. IsFiniteSet(due)
    BY <1>1, <1>2, FS_Subset
  <2> QED BY <2>1, FS_CardinalityType
<1>4. ASSUME NEW i \in 1 .. Cardinality(due) PROVE v.scheduled[At1(i)] \in Seq(R)
  <2> HIDE DEF due
  <2>1. \E t \in due : Cardinality({u \in due : u <= t}) = i
    BY <1>2, <1>3, RankHits
  <2>2. At1(i) \in due
    BY <2>1
  <2> HIDE DEF At1
  <2> QED BY <1>1, <1>2, <2>2
<1>5. deliveries \in Seq(Seq(R))
  <2> HIDE DEF due, At1, R
  <2> QED BY <1>3, <1>4
<1> HIDE DEF R
<1>6. w = [v EXCEPT !.now = @ + ticks,
                    !.scheduled = [t \in DOMAIN @ \ due |-> @[t]],
                    !.outbox = @ \o FlattenSeq(deliveries)]
  BY DEF VTick
<1> HIDE DEF deliveries, w
<1>7. FlattenSeq(deliveries) \in Seq(R)
  BY <1>5, FlattenIsSeq
<1> DEFINE flat == FlattenSeq(deliveries)
<1> HIDE DEF flat, due
<1>8. /\ DOMAIN w = VenueFields /\ w.now = v.now + ticks
      /\ w.scheduled = [t \in DOMAIN v.scheduled \ due |-> v.scheduled[t]]
      /\ w.outbox = v.outbox \o flat
      /\ w.connected = v.connected /\ w.session = v.session /\ w.faults = v.faults
      /\ w.nextSeq = v.nextSeq /\ w.nextExec = v.nextExec /\ w.history = v.history
      /\ w.inflight = v.inflight
  BY <1>1, <1>6 DEF VenueFields, flat
<1>9. Delivers(v, w) /\ Issued(w) = R
  BY <1>8 DEF Delivers, Issued, R
<1>10. w.outbox \in Seq(R)
  BY <1>1, <1>7, <1>8 DEF flat
<1>11. DOMAIN w.scheduled \in SUBSET DOMAIN v.scheduled
  BY <1>8
<1>12. IsFiniteSet(DOMAIN w.scheduled)
  BY <1>1, <1>11, FS_Subset
<1>13. \A t \in DOMAIN w.scheduled : w.scheduled[t] \in Seq(R)
  BY <1>1, <1>8
<1>14. HistoryOk(w)
  BY <1>8 DEF VenueOk, HistoryOk
<1>15. w.now \in Int
  BY <1>1, <1>8
<1> QED BY <1>1, <1>8, <1>9, <1>10, <1>11, <1>12, <1>13, <1>14, <1>15 DEF VenueOk, w

\* A disconnect only loses.
LEMMA DisconnectDelivers ==
  ASSUME NEW v, VenueOk(v)
  PROVE  VenueOk(VDisconnect(v)) /\ Delivers(v, VDisconnect(v))
<1> DEFINE w == VDisconnect(v)
<1>1. /\ DOMAIN w = VenueFields /\ w.now = v.now /\ w.scheduled = v.scheduled /\ w.outbox = v.outbox
      /\ w.session = v.session /\ w.faults = v.faults
      /\ w.nextSeq = v.nextSeq /\ w.nextExec = v.nextExec /\ w.history = v.history
      /\ w.inflight = v.inflight
  BY DEF VDisconnect, VenueOk, VenueFields
<1> HIDE DEF w
<1> QED BY <1>1 DEF VenueOk, HistoryOk, Delivers, Issued, w

\* Zeros sum to zero.
LEMMA SumZero ==
  ASSUME NEW f, NEW S, IsFiniteSet(S), \A x \in S : f[x] = 0
  PROVE  SumFunctionOnSet(f, S) = 0
<1> DEFINE Bad == {T \in SUBSET S : SumFunctionOnSet(f, T) # 0}
<1>1. ASSUME Bad # {} PROVE FALSE
  <2>1. PICK T \in Bad : \A x \in T : T \ {x} \notin Bad
    <3>1. Bad \in SUBSET SUBSET S
      OBVIOUS
    <3> HIDE DEF Bad
    <3> QED BY <1>1, <3>1, LeastSet
  <2>2. T \in SUBSET S /\ SumFunctionOnSet(f, T) # 0
    BY <2>1
  <2>3. IsFiniteSet(T) /\ T # {}
    BY <2>2, FS_Subset, SumEmpty
  <2>4. PICK x \in T : SumFunctionOnSet(f, T) = f[x] + SumFunctionOnSet(f, T \ {x})
    BY <2>3, SumFirst
  <2>5. SumFunctionOnSet(f, T \ {x}) = 0
    BY <2>1, <2>2
  <2>6. f[x] = 0
    BY <2>2
  <2> QED BY <2>2, <2>4, <2>5, <2>6
<1>2. S \notin Bad
  BY <1>1
<1> QED BY <1>2

\* Net as a difference, for the solver's arithmetic.
LEMMA NetIs ==
  ASSUME NEW o, o.cum \in Int
  PROVE  Net(o) = IF o.side = "Buy" THEN o.cum ELSE 0 - o.cum
<1>1. CASE o.side = "Buy"
  BY <1>1 DEF Net
<1>2. CASE o.side # "Buy"
  <2>1. Net(o) = -o.cum
    BY <1>2 DEF Net
  <2>2. -o.cum = 0 - o.cum
    OBVIOUS
  <2> QED BY <1>2, <2>1, <2>2
<1> QED BY <1>1, <1>2

\* An order without fills moves nothing.
LEMMA NetZero ==
  ASSUME NEW o, OrderOk(o), o.cum = 0
  PROVE  Net(o) = 0
<1>1. o.cum \in Int
  BY DEF OrderOk
<1>2. Net(o) = IF o.side = "Buy" THEN o.cum ELSE 0 - o.cum
  BY <1>1, NetIs
<1> QED BY <1>2

-----------------------------------------------------------------------------
(* The commands that need no reserve, on the whole session.                *)

\* Before the venue has done anything.
LEMMA TookHere ==
  ASSUME NEW e, NEW asked, NEW id, May(e, asked, id)
  PROVE  Serves(e, asked, id, e.venue)
<1>1. /\ DOMAIN e = EngFields /\ DOMAIN e.orders \subseteq Nat /\ VenueOk(e.venue)
      /\ id \in DOMAIN e.orders
  BY DEF May, Inv, AllOk, OrdersOk, StreamOk
<1>2. ASSUME NEW x, Swaps(e, x, e.venue) PROVE May(x, asked, id)
  <2>1. Steers(e, x) /\ CursorOk(x) /\ \A k : Pending(x, k) <=> Pending(e, k)
    <3>1. e.kill \in BOOLEAN /\ CursorOk(e)
      BY DEF May, Inv, AllOk, OrdersOk, StreamOk
    <3> QED BY <1>2, <3>1 DEF Swaps, Steers, CursorOk, Pending
  <2>2. Inv(x, asked)
    BY <2>1, Steered DEF May
  <2> QED BY <1>2, <2>1, <2>2 DEF May, NoReplace, Swaps
<1> QED BY <1>1, <1>2 DEF Serves, Took, VenueOk

\* The whole of the venue's replace, when the reserve covers what is asked.
LEMMA ReplaceServes ==
  ASSUME NEW e, NEW asked, NEW id, May(e, asked, id), NEW qty \in Int, NEW price \in Int,
         e.orders[id].status = "PendingReplace", asked[id] > 0, qty >= e.orders[id].cum,
         e.orders[id].side = "Buy" =>
            /\ qty > e.orders[id].cum
            /\ price * (qty - e.orders[id].cum) <= GetOrZero(e.remCash, id),
         e.orders[id].side = "Sell" => qty - e.orders[id].cum <= GetOrZero(e.remLots, id),
         NEW x, Swaps(e, x, VReplace(e.venue, id, qty, price))
  PROVE  /\ Inv(x, asked)
         /\ VReplaceError(e.venue, id, qty, price) = "none" => Shown(x.venue)
<1> DEFINE v == e.venue
           u == [v EXCEPT !.inflight[id].qty = qty, !.inflight[id].price = price]
           r == NextReport(v, id, "Replaced", 0, qty, price)
           w == Emit(u, id, "Replaced", qty, price)
<1>1. Serves(e, asked, id, v) /\ VenueOk(v) /\ id \in Nat
  BY TookHere DEF Serves
<1>2. CASE VReplaceError(v, id, qty, price) # "none"
  <2>1. Swaps(e, x, v)
    BY <1>2 DEF VReplace
  <2> QED BY <1>1, <1>2, <2>1 DEF Serves, Took, May
<1>3. CASE VReplaceError(v, id, qty, price) = "none"
  <2>1. id \in DOMAIN v.inflight /\ price > 0
    BY <1>3 DEF VReplaceError
  <2>2. DOMAIN v = VenueFields /\ \A i \in DOMAIN v.inflight : v.inflight[i] \in Sims
    BY <1>1 DEF VenueOk
  <2>3. /\ DOMAIN u = VenueFields
        /\ u.connected = v.connected /\ u.session = v.session /\ u.faults = v.faults /\ u.now = v.now
        /\ u.nextSeq = v.nextSeq /\ u.nextExec = v.nextExec /\ u.history = v.history
        /\ u.scheduled = v.scheduled /\ u.outbox = v.outbox
        /\ u.inflight = [[v.inflight EXCEPT ![id].qty = qty] EXCEPT ![id].price = price]
    <3> DEFINE y == [v EXCEPT !.inflight[id].qty = qty]
    <3>1. /\ DOMAIN y = VenueFields
          /\ y.connected = v.connected /\ y.session = v.session /\ y.faults = v.faults /\ y.now = v.now
          /\ y.nextSeq = v.nextSeq /\ y.nextExec = v.nextExec /\ y.history = v.history
          /\ y.scheduled = v.scheduled /\ y.outbox = v.outbox
          /\ y.inflight = [v.inflight EXCEPT ![id].qty = qty]
      BY <2>2 DEF VenueFields
    <3>2. u = [y EXCEPT !.inflight[id].price = price]
      OBVIOUS
    <3> HIDE DEF y, u
    <3> QED BY <3>1, <3>2 DEF VenueFields
  <2>4. DOMAIN u.inflight = DOMAIN v.inflight /\ \A i \in DOMAIN u.inflight : u.inflight[i] \in Sims
    <3>1. [[v.inflight[id] EXCEPT !.qty = qty] EXCEPT !.price = price] \in Sims
      BY <2>1, <2>2 DEF Sims
    <3>2. /\ DOMAIN u.inflight = DOMAIN v.inflight
          /\ u.inflight[id] = [[v.inflight[id] EXCEPT !.qty = qty] EXCEPT !.price = price]
          /\ \A i \in DOMAIN v.inflight : i # id => u.inflight[i] = v.inflight[i]
      BY <2>1, <2>3, ZenonT(60)
    <3> QED BY <2>2, <3>1, <3>2
  <2>5. Rewrites(v, u, id)
    BY <2>3, <2>4 DEF Rewrites
  <2>6. "Replaced" \in ReportTypes \ {"Trade"}
    BY DEF ReportTypes
  <2> HIDE DEF u
  <2>7. Issues(v, w, r) /\ Sends(v, w, r)
    BY <1>1, <2>5, <2>6, EmitIssues
  <2>8. VReplace(v, id, qty, price) = w
    BY <1>3 DEF VReplace, u
  <2>9. Suits(e, asked, id, r)
    <3>1. r.order = id /\ r.type = "Replaced" /\ r.qty = qty /\ r.price = price
      BY DEF NextReport
    <3> HIDE DEF r
    <3>2. ReplaceOk(e, asked, r)
      BY <2>1, <3>1 DEF ReplaceOk
    <3> QED BY <3>1, <3>2 DEF Suits
  <2> HIDE DEF w, r
  <2>10. Swaps(e, x, w)
    BY <2>8
  <2>11. Inv(x, asked)
    BY <2>7, <2>9, <2>10, IssueSound
  <2>12. Shown(x.venue)
    <3>1. Shown(w)
      BY <1>1, <2>7, IssuesShown
    <3> QED BY <2>10, <3>1 DEF Swaps
  <2> QED BY <2>11, <2>12
<1> QED BY <1>2, <1>3

\* The engine's tick keeps the invariant.
LEMMA TickSound ==
  ASSUME NEW e, NEW asked, Inv(e, asked)
  PROVE  /\ Inv(Tick(e, 1).eng, asked) /\ Tick(e, 1).err \in Errors
         /\ DOMAIN Tick(e, 1).eng.orders = DOMAIN e.orders
<1> DEFINE w == VTick(e.venue, 1)
           x == [e EXCEPT !.venue = w]
<1>1. VenueOk(e.venue) /\ DOMAIN e = EngFields
  BY DEF Inv, AllOk, OrdersOk, StreamOk
<1>2. VenueOk(w) /\ Delivers(e.venue, w)
  BY <1>1, TickDelivers
<1>3. Swaps(e, x, w)
  BY <1>1 DEF Swaps, EngFields
<1>4. Tick(e, 1) = Drain(x)
  BY DEF Tick
<1> HIDE DEF w, x
<1>5. Inv(x, asked) /\ x.orders = e.orders
  BY <1>2, <1>3, Delivered DEF Swaps
<1> QED BY <1>4, <1>5, DrainSound DEF Drained

\* So does losing the venue session.
LEMMA DisconnectSound ==
  ASSUME NEW e, NEW asked, Inv(e, asked)
  PROVE  Inv(Disconnect(e), asked) /\ Disconnect(e).orders = e.orders
<1> DEFINE w == VDisconnect(e.venue)
           x == [e EXCEPT !.venue = w]
<1>1. VenueOk(e.venue) /\ DOMAIN e = EngFields
  BY DEF Inv, AllOk, OrdersOk, StreamOk
<1>2. VenueOk(w) /\ Delivers(e.venue, w)
  BY <1>1, DisconnectDelivers
<1>3. Swaps(e, x, w)
  BY <1>1 DEF Swaps, EngFields
<1>4. Disconnect(e) = x
  BY DEF Disconnect
<1> HIDE DEF w, x
<1> QED BY <1>2, <1>3, <1>4, Delivered DEF Swaps

\* So does clearing the kill switch.
LEMMA ClearKillSound ==
  ASSUME NEW e, NEW asked, Inv(e, asked)
  PROVE  LET x == [e EXCEPT !.kill = FALSE]
         IN  Inv(x, asked) /\ x.orders = e.orders
<1> DEFINE x == [e EXCEPT !.kill = FALSE]
<1>1. DOMAIN e = EngFields /\ CursorOk(e)
  BY DEF Inv, AllOk, OrdersOk, StreamOk
<1>2. Steers(e, x) /\ CursorOk(x) /\ \A k : Pending(x, k) <=> Pending(e, k)
  BY <1>1 DEF Steers, EngFields, CursorOk, Pending
<1> HIDE DEF x
<1>3. Inv(x, asked) /\ x.orders = e.orders
  BY <1>2, Steered DEF Steers
<1> QED BY <1>3 DEF x

\* The new session has no trades: its fills are all of the position that is left to explain.
LEMMA ReconnectSound ==
  ASSUME NEW e, NEW asked, Inv(e, asked)
  PROVE  Inv(Reconnect(e), asked) /\ Reconnect(e).orders = e.orders
<1> DEFINE v == e.venue
           w == VReconnect(v)
           y == [e EXCEPT !.venue = w]
           x == Reconnect(e)
<1>1. DOMAIN e = EngFields /\ e.kill \in BOOLEAN /\ VenueOk(v) /\ DOMAIN v = VenueFields /\ AllOk(e, asked)
  BY DEF Inv, AllOk, OrdersOk, StreamOk, VenueOk
<1>2. /\ DOMAIN w = VenueFields /\ w.session = v.session + 1 /\ w.nextSeq = 1 /\ w.history = <<>>
      /\ w.outbox = <<>> /\ w.scheduled = [t \in {} |-> <<>>]
      /\ w.nextExec = v.nextExec /\ w.now = v.now /\ w.faults = v.faults /\ w.inflight = v.inflight
  BY <1>1 DEF VReconnect, VenueFields
<1>3. Swaps(e, y, w)
  BY <1>1 DEF Swaps, EngFields
<1>4. /\ DOMAIN x = EngFields /\ x.venue = w /\ x.session = 0 /\ x.nextSeq = 1
      /\ x.orders = e.orders /\ x.byClient = e.byClient /\ x.nextId = e.nextId /\ x.book = e.book
      /\ x.remCash = e.remCash /\ x.remLots = e.remLots /\ x.kill = e.kill
  BY <1>1 DEF Reconnect, EngFields
<1> HIDE DEF w, y, x
<1>5. Steers(y, x)
  BY <1>1, <1>3, <1>4 DEF Steers, Swaps
<1>6. AllOk(x, asked)
  <2>1. AllOk(y, asked)
    BY <1>1, <1>3, SwapsAll
  <2> QED BY <1>5, <2>1, AllSteers
<1>7. VenueOk(w)
  <2>1. /\ v.session \in Nat \ {0} /\ v.nextExec \in Nat /\ v.now \in Int /\ FaultsOk(v.faults)
        /\ \A i \in DOMAIN v.inflight : v.inflight[i] \in Sims
    BY <1>1 DEF VenueOk
  <2>2. HistoryOk(w)
    <3>1. w.history \in Seq(Reports) /\ Len(w.history) = 0 /\ DOMAIN w.history = {}
      BY <1>2
    <3> QED BY <1>2, <3>1 DEF HistoryOk
  <2>3. w.outbox \in Seq(Issued(w))
    BY <1>2
  <2>4. IsFiniteSet(DOMAIN w.scheduled) /\ DOMAIN w.scheduled = {}
    BY <1>2, FS_EmptySet
  <2>5. w.session \in Nat \ {0} /\ w.nextSeq \in Nat \ {0}
    BY <1>2, <2>1
  <2> QED BY <1>2, <2>1, <2>2, <2>3, <2>4, <2>5 DEF VenueOk
<1>8. DOMAIN w.history = {}
  BY <1>2
<1>9. CursorOk(x)
  <2>1. w.session # 0
    BY <1>7 DEF VenueOk
  <2> QED BY <1>4, <2>1 DEF CursorOk
<1>10. KnownOk(x)
  <2>1. /\ DOMAIN v.inflight \subseteq DOMAIN e.orders
        /\ \A i \in DOMAIN e.orders : \A z \in e.orders[i].execs : z \in Nat /\ z < v.nextExec
    BY DEF Inv, StreamOk, KnownOk
  <2> QED BY <1>2, <1>4, <1>8, <2>1 DEF KnownOk
<1>11. PricesOk(x) /\ ReplacesOk(x, asked)
  BY <1>4, <1>8 DEF PricesOk, ReplacesOk
<1>12. SettledOk(x)
  <2>1. w.session # 1
    <3>1. v.session \in Nat \ {0}
      BY <1>1 DEF VenueOk
    <3> QED BY <1>2, <3>1
  <2>2. VenueTrades(w) = {}
    BY <1>8 DEF VenueTrades, ToSet
  <2>3. ASSUME NEW a \in Accounts, SessionOnly(x, a)
        PROVE  x.book.position[a] = SeenNet(x, a)
    <3>1. SeenTrades(x, a) = {}
      BY <1>4, <2>2 DEF SeenTrades
    <3>2. SeenNet(x, a) = 0
      BY <3>1, SumEmpty DEF SeenNet
    <3>3. OrdersOk(x) /\ BookOk(x)
      BY <1>6 DEF AllOk
    <3>4. IsFiniteSet(In(x, a)) /\ In(x, a) \subseteq DOMAIN x.orders
      BY <3>3, InFinite DEF In
    <3>5. ASSUME NEW i \in In(x, a) PROVE NetOf(x)[i] = 0
      <4>1. x.orders[i].execs = {}
        BY <1>4, <2>2, <2>3 DEF SessionOnly, TradeExecs
      <4>2. OrderOk(x.orders[i]) /\ i \in DOMAIN x.orders
        BY <3>3, <3>4 DEF OrdersOk
      <4>3. x.orders[i].cum = 0
        BY <4>1, <4>2 DEF OrderOk
      <4>4. Net(x.orders[i]) = 0
        BY <4>2, <4>3, NetZero
      <4> QED BY <4>2, <4>4 DEF NetOf
    <3>6. SumFunctionOnSet(NetOf(x), In(x, a)) = 0
      BY <3>4, <3>5, SumZero
    <3>7. x.book.position[a] = SumFunctionOnSet(NetOf(x), In(x, a))
      BY <3>3 DEF BookOk, Backed
    <3> QED BY <3>2, <3>6, <3>7
  <2> QED BY <1>4, <2>1, <2>3, Zenon DEF SettledOk
<1>13. VenueOk(x.venue)
  BY <1>4, <1>7
<1>14. StreamOk(x, asked)
  BY <1>9, <1>10, <1>11, <1>12, <1>13 DEF StreamOk
<1> QED BY <1>4, <1>6, <1>14 DEF Inv, x

-----------------------------------------------------------------------------
(* A new order.                                                            *)

\* x is e with one more order p, numbered id, which holds cash and lots.
Grows(e, x, id, p, cash, lots, K) ==
  /\ DOMAIN x = EngFields /\ id = e.nextId + 1 /\ x.nextId = id
  /\ DOMAIN x.orders = DOMAIN e.orders \cup {id} /\ x.orders[id] = p
  /\ \A i \in DOMAIN e.orders :
       /\ x.orders[i] = e.orders[i]
       /\ GetOrZero(x.remCash, i) = GetOrZero(e.remCash, i)
       /\ GetOrZero(x.remLots, i) = GetOrZero(e.remLots, i)
  /\ GetOrZero(x.remCash, id) = cash /\ GetOrZero(x.remLots, id) = lots
  /\ PositiveOn(x.remCash, DOMAIN x.orders) /\ PositiveOn(x.remLots, DOMAIN x.orders)
  /\ x.venue = e.venue /\ x.kill = e.kill /\ x.session = e.session /\ x.nextSeq = e.nextSeq
  /\ BookMoves(e.book, x.book, p.account, cash, lots, 0, K)

\* A new order, with what it reserves, keeps orders, ledger and keys in agreement.
LEMMA GrowsAll ==
  ASSUME NEW e, NEW asked, AllOk(e, asked), NEW x, NEW id, NEW p, NEW cash, NEW lots, NEW K,
         Grows(e, x, id, p, cash, lots, K), OrderOk(p), p.cum = 0, ReserveOk(p, cash, lots),
         p.status # "PendingReplace",
         e.book.posReserved[p.account] + lots <= e.book.position[p.account],
         \A k \in K : KeyOk(x, asked, k)
  PROVE  AllOk(x, asked)
<1>1. /\ OrdersOk(e) /\ BookOk(e) /\ KeysOk(e, asked) /\ e.kill \in BOOLEAN
      /\ e.nextId \in Nat /\ DOMAIN e.orders = 1 .. e.nextId /\ p.account \in Accounts
  BY DEF AllOk, OrdersOk, OrderOk
<1>2. /\ DOMAIN x = EngFields /\ id = e.nextId + 1 /\ x.nextId = id
      /\ DOMAIN x.orders = DOMAIN e.orders \cup {id} /\ x.orders[id] = p
      /\ x.kill = e.kill
      /\ GetOrZero(x.remCash, id) = cash /\ GetOrZero(x.remLots, id) = lots
      /\ PositiveOn(x.remCash, DOMAIN x.orders) /\ PositiveOn(x.remLots, DOMAIN x.orders)
      /\ BookMoves(e.book, x.book, p.account, cash, lots, 0, K)
  BY DEF Grows
<1>3. \A i \in DOMAIN e.orders :
       /\ x.orders[i] = e.orders[i]
       /\ GetOrZero(x.remCash, i) = GetOrZero(e.remCash, i)
       /\ GetOrZero(x.remLots, i) = GetOrZero(e.remLots, i)
  BY DEF Grows
<1>4. id \notin DOMAIN e.orders
  BY <1>1, <1>2
<1>5. OrdersOk(x)
  <2>1. x.nextId \in Nat /\ DOMAIN x.orders = 1 .. x.nextId
    BY <1>1, <1>2
  <2>2. ASSUME NEW i \in DOMAIN x.orders PROVE OrderOk(x.orders[i]) /\ Holds(x, i)
    <3>1. CASE i = id
      BY <1>2, <3>1 DEF Holds
    <3>2. CASE i # id
      <4>1. i \in DOMAIN e.orders
        BY <1>2, <3>2
      <4>2. OrderOk(e.orders[i]) /\ Holds(e, i)
        BY <1>1, <4>1 DEF OrdersOk
      <4> QED BY <1>3, <4>1, <4>2 DEF Holds
    <3> QED BY <3>1, <3>2
  <2> QED BY <1>1, <1>2, <2>1, <2>2 DEF OrdersOk
<1>6. ASSUME NEW a \in Accounts PROVE Backed(x, a)
  <2>1. Backed(e, a)
    BY <1>1 DEF BookOk
  <2>2. IsFiniteSet(In(e, a)) /\ In(e, a) \subseteq DOMAIN e.orders /\ id \notin In(e, a)
    BY <1>1, <1>4, InFinite, ZenonT(60) DEF In
  <2>3. In(x, a) = IF a = p.account THEN In(e, a) \cup {id} ELSE In(e, a)
    BY <1>2, <1>3, <1>4 DEF In
  <2>4. ASSUME NEW i \in In(e, a)
        PROVE  /\ CashOf(e)[i] \in Int /\ CashOf(x)[i] = CashOf(e)[i]
               /\ LotsOf(e)[i] \in Int /\ LotsOf(x)[i] = LotsOf(e)[i]
               /\ NetOf(e)[i] \in Int /\ NetOf(x)[i] = NetOf(e)[i]
    <3>1. i \in DOMAIN e.orders /\ i \in DOMAIN x.orders
      BY <1>2, <2>2
    <3>2. /\ CashOf(e)[i] \in Nat /\ LotsOf(e)[i] \in Nat /\ NetOf(e)[i] \in Int
          /\ CashOf(e)[i] = GetOrZero(e.remCash, i) /\ LotsOf(e)[i] = GetOrZero(e.remLots, i)
          /\ NetOf(e)[i] = Net(e.orders[i])
      BY <1>1, <3>1, SumsInt
    <3>3. /\ CashOf(x)[i] = GetOrZero(x.remCash, i) /\ LotsOf(x)[i] = GetOrZero(x.remLots, i)
          /\ NetOf(x)[i] = Net(x.orders[i])
      BY <1>5, <3>1, SumsInt
    <3> QED BY <1>3, <3>1, <3>2, <3>3
  <2>5. /\ CashOf(x)[id] = cash /\ LotsOf(x)[id] = lots /\ NetOf(x)[id] = 0
        /\ cash \in Int /\ lots \in Int /\ 0 \in Int
    <3>1. id \in DOMAIN x.orders
      BY <1>2
    <3>2. /\ CashOf(x)[id] = GetOrZero(x.remCash, id) /\ LotsOf(x)[id] = GetOrZero(x.remLots, id)
          /\ NetOf(x)[id] = Net(x.orders[id])
      BY <1>5, <3>1, SumsInt
    <3>3. Net(p) = 0
      BY NetZero
    <3>4. cash \in Nat /\ lots \in Nat
      BY DEF ReserveOk
    <3> QED BY <1>2, <3>2, <3>3, <3>4
  <2>6. /\ SumFunctionOnSet(CashOf(e), In(e, a)) \in Int
        /\ SumFunctionOnSet(LotsOf(e), In(e, a)) \in Int
        /\ SumFunctionOnSet(NetOf(e), In(e, a)) \in Int
    <3>1. SumFunctionOnSet(CashOf(e), In(e, a)) \in Int
      BY <2>2, <2>4, SumType
    <3>2. SumFunctionOnSet(LotsOf(e), In(e, a)) \in Int
      BY <2>2, <2>4, SumType
    <3>3. SumFunctionOnSet(NetOf(e), In(e, a)) \in Int
      BY <2>2, <2>4, SumType
    <3> QED BY <3>1, <3>2, <3>3
  <2>7. /\ x.book.reserved[a] = e.book.reserved[a] + IF a = p.account THEN cash ELSE 0
        /\ x.book.posReserved[a] = e.book.posReserved[a] + IF a = p.account THEN lots ELSE 0
        /\ x.book.position[a] = e.book.position[a] + IF a = p.account THEN 0 ELSE 0
    BY <1>2 DEF BookMoves
  <2>8. e.book.posReserved[a] \in Int /\ e.book.position[a] \in Int /\ e.book.reserved[a] \in Int
    BY <1>1 DEF BookOk, BookShape
  <2>9. CASE a = p.account
    <3>1. In(x, a) = In(e, a) \cup {id}
      BY <2>3, <2>9
    <3>2. SumFunctionOnSet(CashOf(x), In(x, a)) = SumFunctionOnSet(CashOf(e), In(e, a)) + cash
      <4>1. SumFunctionOnSet(CashOf(x), In(e, a) \cup {id}) = SumFunctionOnSet(CashOf(e), In(e, a)) + CashOf(x)[id]
        BY <2>2, <2>4, <2>5, SumMore
      <4> QED BY <2>5, <3>1, <4>1
    <3>3. SumFunctionOnSet(LotsOf(x), In(x, a)) = SumFunctionOnSet(LotsOf(e), In(e, a)) + lots
      <4>1. SumFunctionOnSet(LotsOf(x), In(e, a) \cup {id}) = SumFunctionOnSet(LotsOf(e), In(e, a)) + LotsOf(x)[id]
        BY <2>2, <2>4, <2>5, SumMore
      <4> QED BY <2>5, <3>1, <4>1
    <3>4. SumFunctionOnSet(NetOf(x), In(x, a)) = SumFunctionOnSet(NetOf(e), In(e, a)) + 0
      <4>1. SumFunctionOnSet(NetOf(x), In(e, a) \cup {id}) = SumFunctionOnSet(NetOf(e), In(e, a)) + NetOf(x)[id]
        BY <2>2, <2>4, <2>5, SumMore
      <4> QED BY <2>5, <3>1, <4>1
    <3>5. x.book.posReserved[a] <= x.book.position[a]
      BY <2>5, <2>7, <2>8, <2>9
    <3> QED BY <2>1, <2>6, <2>7, <2>9, <3>2, <3>3, <3>4, <3>5 DEF Backed
  <2>10. CASE a # p.account
    <3>1. In(x, a) = In(e, a)
      BY <2>3, <2>10
    <3>2. SumFunctionOnSet(CashOf(x), In(e, a)) = SumFunctionOnSet(CashOf(e), In(e, a))
      BY <2>2, <2>4, SumSame
    <3>3. SumFunctionOnSet(LotsOf(x), In(e, a)) = SumFunctionOnSet(LotsOf(e), In(e, a))
      BY <2>2, <2>4, SumSame
    <3>4. SumFunctionOnSet(NetOf(x), In(e, a)) = SumFunctionOnSet(NetOf(e), In(e, a))
      BY <2>2, <2>4, SumSame
    <3>5. /\ x.book.reserved[a] = e.book.reserved[a] /\ x.book.posReserved[a] = e.book.posReserved[a]
          /\ x.book.position[a] = e.book.position[a]
      BY <2>7, <2>8, <2>10
    <3> QED BY <2>1, <3>1, <3>2, <3>3, <3>4, <3>5 DEF Backed
  <2> QED BY <2>9, <2>10
<1>7. BookOk(x)
  BY <1>2, <1>6 DEF BookOk, BookMoves
<1>8. KeysOk(x, asked)
  <2>1. ASSUME NEW k, KeyOk(e, asked, k) PROVE KeyOk(x, asked, k)
    <3>1. DOMAIN e.orders \subseteq DOMAIN x.orders
      BY <1>2
    <3> QED BY <1>3, <2>1, <3>1 DEF KeyOk
  <2>2. \A y \in x.book.entries : y \in e.book.entries \/ y.key \in K
    BY <1>2 DEF BookMoves
  <2> QED BY <1>1, <2>1, <2>2 DEF KeysOk
<1> QED BY <1>5, <1>7, <1>8 DEF AllOk

\* No report speaks of it yet.
LEMMA GrowsStream ==
  ASSUME NEW e, NEW asked, Inv(e, asked), NEW x, NEW id, NEW p, NEW cash, NEW lots, NEW K,
         Grows(e, x, id, p, cash, lots, K), AllOk(x, asked), p.execs = {}
  PROVE  May(x, asked, id)
<1>1. /\ e.nextId \in Nat /\ DOMAIN e.orders = 1 .. e.nextId
  BY DEF Inv, AllOk, OrdersOk
<1>2. /\ id = e.nextId + 1 /\ x.venue = e.venue /\ x.session = e.session /\ x.nextSeq = e.nextSeq
      /\ DOMAIN x.orders = DOMAIN e.orders \cup {id} /\ x.orders[id] = p
  BY DEF Grows
<1>3. \A i \in DOMAIN e.orders :
       /\ x.orders[i] = e.orders[i]
       /\ GetOrZero(x.remCash, i) = GetOrZero(e.remCash, i)
       /\ GetOrZero(x.remLots, i) = GetOrZero(e.remLots, i)
  BY DEF Grows
<1>4. id \notin DOMAIN e.orders
  BY <1>1, <1>2
<1>5. VenueOk(x.venue) /\ CursorOk(x) /\ \A k : Pending(x, k) <=> Pending(e, k)
  BY <1>2 DEF Inv, StreamOk, CursorOk, Pending
<1>6. \A k \in DOMAIN e.venue.history : e.venue.history[k].order \in DOMAIN e.orders
  BY DEF Inv, StreamOk, KnownOk
<1>7. KnownOk(x)
  <2>1. KnownOk(e)
    BY DEF Inv, StreamOk
  <2> QED BY <1>2, <1>3, <2>1 DEF KnownOk
<1>8. PricesOk(x)
  BY <1>2, <1>3, <1>5, <1>6 DEF Inv, StreamOk, PricesOk
<1>9. ReplacesOk(x, asked)
  <2>1. \A r : r.order \in DOMAIN e.orders => (ReplaceOk(x, asked, r) <=> ReplaceOk(e, asked, r))
    BY <1>3 DEF ReplaceOk
  <2> QED BY <1>2, <1>5, <1>6, <2>1 DEF Inv, StreamOk, ReplacesOk
<1>10. SettledOk(x)
  <2>1. ASSUME NEW a \in Accounts PROVE SessionOnly(x, a) <=> SessionOnly(e, a)
    BY <1>2, <1>3, <1>4 DEF SessionOnly, In
  <2>2. ASSUME NEW a \in Accounts PROVE SeenTrades(x, a) = SeenTrades(e, a)
    BY <1>2, <1>3, <1>4 DEF SeenTrades, In
  <2>3. ASSUME NEW a \in Accounts PROVE SeenNet(x, a) = SeenNet(e, a)
    <3>1. \A r \in SeenTrades(e, a) : r.order \in DOMAIN e.orders
      BY DEF SeenTrades, In
    <3>2. \A r \in SeenTrades(e, a) : SignedOf(x, r) = SignedOf(e, r)
      BY <1>3, <3>1 DEF SignedOf
    <3> QED BY <2>2, <3>2 DEF SeenNet
  <2>4. ASSUME NEW a \in Accounts PROVE x.book.position[a] = e.book.position[a]
    <3>1. x.book.position[a] = e.book.position[a] + IF a = p.account THEN 0 ELSE 0
      BY DEF Grows, BookMoves
    <3>2. e.book.position[a] \in Int
      BY DEF Inv, AllOk, BookOk, BookShape
    <3> QED BY <3>1, <3>2
  <2> QED BY <1>2, <2>1, <2>3, <2>4, Zenon DEF Inv, StreamOk, SettledOk
<1>11. Inv(x, asked)
  BY <1>5, <1>7, <1>8, <1>9, <1>10 DEF Inv, StreamOk
<1>12. NoReplace(x, id)
  BY <1>2, <1>4, <1>6 DEF NoReplace
<1> QED BY <1>2, <1>11, <1>12 DEF May

\* What the risk check leaves true: the reserve the order needs can be taken.
LEMMA RiskLeavesReserve ==
  ASSUME NEW e, NEW req, req.qty \in Nat, req.price \in Nat, req.qty > 0, req.price > 0,
         req.side \in Sides, RiskError(e, req) = "none", ~Limits.allowShort
  PROVE  /\ req.side = "Buy" => ReserveError(e.book, req.account, req.price * req.qty) = "none"
         /\ req.side = "Sell" =>
              /\ ReservePositionError(e.book, req.account, req.qty) = "none"
              /\ ~(e.book.position[req.account] - e.book.posReserved[req.account] < req.qty)
<1>1. ~(req.price * req.qty <= 0) /\ ~(req.qty <= 0)
  <2>1. req.price * req.qty > 0 /\ req.price * req.qty \in Nat
    BY TimesPositive
  <2> QED BY <2>1
<1>2. req.side = "Buy" => ~(e.book.cash[req.account] < req.price * req.qty)
  BY DEF RiskError, Sides
<1>3. req.side = "Sell" => ~(AvailablePosition(e.book, req.account) < req.qty)
  BY DEF RiskError, Sides
<1> QED BY <1>1, <1>2, <1>3 DEF ReserveError, ReservePositionError, AvailablePosition

\* What place does to the session.
PlacedOk(e, asked, req, r) ==
  /\ r.err \in {"none", "Order", "Duplicate", "Risk"}
  /\ r.err # "none" => r.eng = e
  /\ r.err = "none" => /\ May(r.eng, asked, r.eng.nextId) /\ r.eng.venue = e.venue
                       /\ DOMAIN r.eng.orders = DOMAIN e.orders \cup {e.nextId + 1}
                       /\ r.eng.orders[r.eng.nextId].price = req.price

\* It is enough that the session has grown by the order and its reserve.
PlacesAs(e, req, res, x, id, p, cash, lots, K) ==
  /\ Grows(e, x, id, p, cash, lots, K) /\ ReserveOk(p, cash, lots) /\ OrderOk(p)
  /\ p.cum = 0 /\ p.execs = {} /\ p.status = "PendingNew" /\ p.price = req.price
  /\ e.book.posReserved[p.account] + lots <= e.book.position[p.account]
  /\ \A k \in K : k.kind = "rsv" /\ k.n = id
  /\ res.eng = x /\ res.err = "none"

\* A placement of the right form is sound.
LEMMA PlacedGrows ==
  ASSUME NEW e, NEW asked, Inv(e, asked), NEW req, NEW res, NEW x, NEW id, NEW p, NEW cash, NEW lots,
         NEW K, PlacesAs(e, req, res, x, id, p, cash, lots, K)
  PROVE  PlacedOk(e, asked, req, res)
<1>1. /\ id \in DOMAIN x.orders /\ x.nextId = id /\ x.venue = e.venue /\ x.orders[id] = p
      /\ DOMAIN x.orders = DOMAIN e.orders \cup {e.nextId + 1}
  BY DEF Grows, PlacesAs
<1>2. \A k \in K : KeyOk(x, asked, k)
  BY <1>1 DEF KeyOk, PlacesAs
<1>3. AllOk(x, asked)
  <2>1. p.status # "PendingReplace" /\ AllOk(e, asked)
    BY DEF PlacesAs, Inv
  <2>2. /\ Grows(e, x, id, p, cash, lots, K) /\ OrderOk(p) /\ p.cum = 0 /\ ReserveOk(p, cash, lots)
        /\ e.book.posReserved[p.account] + lots <= e.book.position[p.account]
    BY DEF PlacesAs
  <2> QED BY <1>2, <2>1, <2>2, GrowsAll
<1>4. May(x, asked, id)
  <2>1. Grows(e, x, id, p, cash, lots, K) /\ p.execs = {}
    BY DEF PlacesAs
  <2> QED BY <1>3, <2>1, GrowsStream
<1> QED BY <1>1, <1>4 DEF PlacedOk, PlacesAs

\* The engine's PlaceOrder: known client id, refusal by risk, no cover, or a new order.
LEMMA PlaceSound ==
  ASSUME NEW e, NEW asked, Inv(e, asked), NEW req,
         req.account \in Accounts, req.side \in Sides, req.qty \in Nat, req.price \in Nat,
         ~Limits.allowShort
  PROVE  PlacedOk(e, asked, req, PlaceOrder(e, req))
<1> DEFINE key     == <<req.account, req.client>>
           id      == e.nextId + 1
           n       == req.price * req.qty
           p       == NewPending(req)
           created == [e EXCEPT !.nextId = id, !.byClient = Put(@, key, id), !.orders = Put(@, id, p)]
           buy     == [created EXCEPT !.book = Reserve(@, req.account, n, Key("rsv", req.account, id)),
                                      !.remCash = Put(@, id, n)]
           sell    == [created EXCEPT !.book = ReservePosition(@, req.account, req.qty),
                                      !.remLots = Put(@, id, req.qty)]
           error   == IF req.side = "Buy" THEN ReserveError(e.book, req.account, n)
                      ELSE ReservePositionError(e.book, req.account, req.qty)
           res     == PlaceOrder(e, req)
<1>1. res = IF req.qty <= 0 \/ req.price <= 0 THEN Fail(e, "Order")
            ELSE IF key \in DOMAIN e.byClient THEN Fail(e, "Duplicate")
            ELSE IF RiskError(e, req) # "none" THEN Fail(e, "Risk")
            ELSE IF error # "none"
            THEN Fail(ApplyOms(created, id, Event("Rejected", 0, 0, 0)), "Ledger")
            ELSE Ok(IF req.side = "Buy" THEN buy ELSE sell)
  BY DEF PlaceOrder
<1> HIDE DEF res, key, error, buy, sell, created
<1>2. CASE req.qty <= 0 \/ req.price <= 0
  <2>1. res = Fail(e, "Order")
    BY <1>1, <1>2
  <2> QED BY <2>1 DEF Fail, PlacedOk, res
<1>3. CASE ~(req.qty <= 0 \/ req.price <= 0) /\ key \in DOMAIN e.byClient
  BY <1>1, <1>3 DEF Fail, PlacedOk, res
<1>4. CASE /\ ~(req.qty <= 0 \/ req.price <= 0) /\ key \notin DOMAIN e.byClient
           /\ RiskError(e, req) # "none"
  BY <1>1, <1>4 DEF Fail, PlacedOk, res
<1>5. CASE /\ ~(req.qty <= 0 \/ req.price <= 0) /\ key \notin DOMAIN e.byClient
           /\ RiskError(e, req) = "none"
  <2>1. req.qty > 0 /\ req.price > 0 /\ n \in Nat /\ n > 0
    <3>1. req.qty > 0 /\ req.price > 0
      BY <1>5
    <3> QED BY <3>1, TimesPositive
  <2>2. error = "none"
    BY <1>5, <2>1, RiskLeavesReserve DEF Sides, error
  <2>3. ~(e.book.position[req.account] - e.book.posReserved[req.account] < req.qty) \/ req.side = "Buy"
    BY <1>5, <2>1, RiskLeavesReserve DEF Sides
  <2>4. res = Ok(IF req.side = "Buy" THEN buy ELSE sell)
    BY <1>1, <1>5, <2>2
  <2>5. /\ DOMAIN e = EngFields /\ e.nextId \in Nat /\ DOMAIN e.orders = 1 .. e.nextId
        /\ id \notin DOMAIN e.orders /\ id \in Nat
        /\ PositiveOn(e.remCash, DOMAIN e.orders) /\ PositiveOn(e.remLots, DOMAIN e.orders)
        /\ BookShape(e.book) /\ AllOk(e, asked)
        /\ Backed(e, req.account)
    <3>1. AllOk(e, asked)
      BY DEF Inv
    <3>2. e.nextId \in Nat => e.nextId + 1 \notin 1 .. e.nextId /\ e.nextId + 1 \in Nat
      OBVIOUS
    <3> QED BY <3>1, <3>2 DEF AllOk, OrdersOk, BookOk
  <2>6. /\ DOMAIN created = EngFields /\ created.nextId = id
        /\ created.orders = Put(e.orders, id, p) /\ created.book = e.book
        /\ created.remCash = e.remCash /\ created.remLots = e.remLots
        /\ created.venue = e.venue /\ created.kill = e.kill
        /\ created.session = e.session /\ created.nextSeq = e.nextSeq
    BY <2>5 DEF EngFields, created
  <2>7. /\ OrderOk(p) /\ p.cum = 0 /\ p.status = "PendingNew" /\ p.account = req.account
        /\ p.side = req.side /\ p.execs = {} /\ p.price = req.price /\ p.leaves = req.qty
    <3>1. /\ DOMAIN p = OrderFields /\ p.cum = 0 /\ p.status = "PendingNew" /\ p.account = req.account
          /\ p.side = req.side /\ p.execs = {} /\ p.price = req.price /\ p.leaves = req.qty
          /\ p.qty = req.qty
      BY DEF NewPending, OrderFields
    <3> HIDE DEF p
    <3>2. p.status \in Statuses /\ p.price \in Nat \ {0} /\ p.cum + p.leaves = p.qty
      BY <2>1, <3>1 DEF Statuses
    <3> QED BY <3>1, <3>2 DEF OrderOk
  <2> HIDE DEF p, n, id
  <2>8. /\ DOMAIN Put(e.orders, id, p) = DOMAIN e.orders \cup {id} /\ Put(e.orders, id, p)[id] = p
        /\ \A i \in DOMAIN e.orders : Put(e.orders, id, p)[i] = e.orders[i]
    BY <2>5 DEF Put
  <2>9. /\ id \notin DOMAIN e.remCash /\ id \notin DOMAIN e.remLots
        /\ GetOrZero(e.remCash, id) = 0 /\ GetOrZero(e.remLots, id) = 0
    BY <2>5 DEF PositiveOn, GetOrZero
  <2>11. e.book.posReserved[req.account] \in Int /\ e.book.position[req.account] \in Int
         /\ e.book.posReserved[req.account] <= e.book.position[req.account]
    BY <2>5 DEF BookShape, Backed
  <2>12. CASE req.side = "Buy"
    <3> DEFINE k == Key("rsv", req.account, id)
               K == {k}
               z == 0
    <3>1. k.kind = "rsv" /\ k.n = id
      BY DEF Key
    <3>2. ~Posted(e.book, k)
      <4>1. \A y \in e.book.entries : KeyOk(e, asked, y.key)
        BY <2>5 DEF AllOk, KeysOk
      <4> HIDE DEF k
      <4> QED BY <2>5, <3>1, <4>1 DEF Posted, KeyOk
    <3>3. BookMoves(e.book, Reserve(e.book, req.account, n, k), req.account, n, 0, 0, K)
      <4> HIDE DEF k
      <4>1. n \in Int
        BY <2>1
      <4> QED BY <2>5, <3>2, <4>1, ReserveMoves
    <3>4. /\ DOMAIN buy = EngFields /\ buy.nextId = id
          /\ buy.orders = Put(e.orders, id, p) /\ buy.book = Reserve(e.book, req.account, n, k)
          /\ buy.remCash = Put(e.remCash, id, n) /\ buy.remLots = e.remLots
          /\ buy.venue = e.venue /\ buy.kill = e.kill
          /\ buy.session = e.session /\ buy.nextSeq = e.nextSeq
      BY <2>6 DEF EngFields, buy, k
    <3> HIDE DEF k
    <3>5. /\ GetOrZero(Put(e.remCash, id, n), id) = n
          /\ \A i \in DOMAIN e.orders : GetOrZero(Put(e.remCash, id, n), i) = GetOrZero(e.remCash, i)
          /\ PositiveOn(Put(e.remCash, id, n), DOMAIN e.orders \cup {id})
          /\ PositiveOn(e.remLots, DOMAIN e.orders \cup {id})
      BY <2>1, <2>5 DEF Put, GetOrZero, PositiveOn
    <3>6. Grows(e, buy, id, p, n, z, K)
      BY <2>5, <2>7, <2>8, <2>9, <3>3, <3>4, <3>5 DEF Grows, id
    <3>7. ReserveOk(p, n, z)
      <4>1. n = p.price * p.leaves
        BY <2>7 DEF n
      <4> QED BY <2>1, <2>7, <2>12, <4>1 DEF ReserveOk, IsTerminal
    <3>8. e.book.posReserved[p.account] + z <= e.book.position[p.account]
      BY <2>7, <2>11
    <3>9. res.eng = buy /\ res.err = "none"
      BY <2>4, <2>12 DEF Ok
    <3>10. \A y \in K : y.kind = "rsv" /\ y.n = id
      BY <3>1
    <3> HIDE DEF K, z
    <3>11. PlacesAs(e, req, res, buy, id, p, n, z, K)
      BY <2>7, <3>6, <3>7, <3>8, <3>9, <3>10 DEF PlacesAs
    <3>12. PlacedOk(e, asked, req, res)
      BY <3>11, PlacedGrows
    <3> QED BY <3>12 DEF res
  <2>13. CASE req.side = "Sell"
    <3> DEFINE q == req.qty
               z == 0
               K == {}
    <3>1. q \in Int /\ q \in Nat \ {0}
      BY <2>1
    <3>2. BookMoves(e.book, ReservePosition(e.book, req.account, q), req.account, 0, q, 0, {})
      BY <2>5, <3>1, PositionMoves
    <3>4. /\ DOMAIN sell = EngFields /\ sell.nextId = id
          /\ sell.orders = Put(e.orders, id, p) /\ sell.book = ReservePosition(e.book, req.account, q)
          /\ sell.remLots = Put(e.remLots, id, q) /\ sell.remCash = e.remCash
          /\ sell.venue = e.venue /\ sell.kill = e.kill
          /\ sell.session = e.session /\ sell.nextSeq = e.nextSeq
      BY <2>6 DEF EngFields, sell
    <3> HIDE DEF q
    <3>5. /\ GetOrZero(Put(e.remLots, id, q), id) = q
          /\ \A i \in DOMAIN e.orders : GetOrZero(Put(e.remLots, id, q), i) = GetOrZero(e.remLots, i)
          /\ PositiveOn(Put(e.remLots, id, q), DOMAIN e.orders \cup {id})
          /\ PositiveOn(e.remCash, DOMAIN e.orders \cup {id})
      BY <2>5, <3>1 DEF Put, GetOrZero, PositiveOn
    <3>6. Grows(e, sell, id, p, z, q, K)
      BY <2>5, <2>7, <2>8, <2>9, <3>2, <3>4, <3>5 DEF Grows, id
    <3>7. ReserveOk(p, z, q)
      BY <2>7, <2>13, <3>1 DEF ReserveOk, IsTerminal, q
    <3>8. e.book.posReserved[p.account] + q <= e.book.position[p.account]
      <4>1. ~(e.book.position[req.account] - e.book.posReserved[req.account] < q)
        BY <2>3, <2>13 DEF q
      <4> QED BY <2>7, <2>11, <3>1, <4>1
    <3>9. res.eng = sell /\ res.err = "none"
      BY <2>4, <2>13 DEF Ok
    <3> HIDE DEF K, z
    <3>10. \A y \in K : y.kind = "rsv" /\ y.n = id
      BY DEF K
    <3>11. PlacesAs(e, req, res, sell, id, p, z, q, K)
      BY <2>7, <3>6, <3>7, <3>8, <3>9, <3>10 DEF PlacesAs
    <3>12. PlacedOk(e, asked, req, res)
      BY <3>11, PlacedGrows
    <3> QED BY <3>12 DEF res
  <2> QED BY <2>12, <2>13 DEF Sides
<1> QED BY <1>2, <1>3, <1>4, <1>5 DEF res

\* Every report from the cursor on waits at the venue for its tick.
Caught(e) ==
  \A k \in DOMAIN e.venue.history :
    e.venue.history[k].seq >= e.nextSeq => Awaited(e.venue, e.venue.history[k])

\* What a venue command leaves behind.
Commanded(e, asked, r) ==
  Inv(r.eng, asked) /\ DOMAIN r.eng.orders = DOMAIN e.orders /\ r.err \in Errors /\ (r.err = "none" => Caught(r.eng))

\* A drain without error that was shown the newest reports has caught up.
LEMMA DrainedCaught ==
  ASSUME NEW e, NEW asked, Inv(e, asked), NEW r, Drained(e, asked, r), r.err = "none",
         Shown(e.venue)
  PROVE  Caught(r.eng)
<1>1. PICK i \in DOMAIN e.venue.outbox :
        \A k \in DOMAIN e.venue.history :
          k > e.venue.outbox[i].seq => Awaited(e.venue, e.venue.history[k])
  BY DEF Shown
<1> DEFINE s == e.venue.outbox[i].seq
<1>2. s \in Nat \ {0}
  <2>1. e.venue.outbox \in Seq(Issued(e.venue))
    BY DEF Inv, StreamOk, VenueOk
  <2>2. e.venue.outbox[i] \in Issued(e.venue)
    BY <2>1
  <2> QED BY <2>2, IssuedSound
<1>3. At(r.eng) > s /\ At(r.eng) \in Nat \ {0}
  <2>1. At(r.eng) > s
    BY DEF Drained
  <2>2. Inv(r.eng, asked)
    BY DEF Drained
  <2> QED BY <2>1, <2>2, AtNat
<1> HIDE DEF s
<1>4. At(r.eng) = r.eng.nextSeq
  BY <1>2, <1>3 DEF At
<1>5. r.eng.venue.history = e.venue.history /\ r.eng.venue.scheduled = e.venue.scheduled
  BY DEF Drained, Delivers
<1>6. ASSUME NEW k \in DOMAIN e.venue.history, e.venue.history[k].seq >= r.eng.nextSeq
      PROVE  Awaited(r.eng.venue, e.venue.history[k])
  <2>1. e.venue.history[k].seq = k /\ k \in Nat
    BY DEF Inv, StreamOk, VenueOk, HistoryOk
  <2>2. k > s
    BY <1>2, <1>3, <1>4, <1>6, <2>1
  <2>3. Awaited(e.venue, e.venue.history[k])
    BY <1>1, <2>2 DEF s
  <2> QED BY <1>5, <2>3 DEF Awaited
<1> QED BY <1>5, <1>6 DEF Caught

\* A command that ends in the venue's answer and a drain is sound and caught up.
LEMMA CommandSound ==
  ASSUME NEW e, NEW asked, Inv(e, asked), NEW error, error = "none" => Shown(e.venue)
  PROVE  Commanded(e, asked, AfterVenue(e, error))
<1> DEFINE r == AfterVenue(e, error)
<1>1. /\ Inv(r.eng, asked) /\ r.err \in Errors /\ DOMAIN r.eng.orders = DOMAIN e.orders
      /\ r.err = "none" => error = "none" /\ Drained(e, asked, r)
  BY AfterVenueSound, Zenon
<1> HIDE DEF r
<1>2. r.err = "none" => Caught(r.eng)
  BY <1>1, DrainedCaught
<1>3. Commanded(e, asked, r)
  BY <1>1, <1>2 DEF Commanded
<1> QED BY <1>3 DEF r

\* The engine's Submit.
LEMMA SubmitSound ==
  ASSUME NEW e, NEW asked, Inv(e, asked), NEW req,
         req.account \in Accounts, req.side \in Sides, req.qty \in Nat, req.price \in Nat,
         ~Limits.allowShort
  PROVE  LET r == Submit(e, req)
         IN  /\ Inv(r.eng, asked) /\ r.err \in Errors \cup {"Duplicate", "Risk"}
             /\ r.err = "none" => Caught(r.eng)
             /\ DOMAIN r.eng.orders \in {DOMAIN e.orders, DOMAIN e.orders \cup {e.nextId + 1}}
<1> DEFINE placed == PlaceOrder(e, req)
           v      == placed.eng.venue
           id     == placed.eng.nextId
           w      == VSubmit(v, id, req.tif, req.qty, req.price)
           x      == [placed.eng EXCEPT !.venue = w]
           error  == VSubmitError(v, req.tif, req.qty, req.price)
           r      == Submit(e, req)
<1>1. PlacedOk(e, asked, req, placed)
  BY PlaceSound
<1>2. r = IF placed.err # "none" THEN placed ELSE AfterVenue(x, error)
  BY DEF Submit
<1> HIDE DEF placed, r
<1>3. CASE placed.err # "none"
  <2>1. r = placed /\ placed.eng = e /\ placed.err \in {"Order", "Duplicate", "Risk"}
    BY <1>1, <1>2, <1>3 DEF PlacedOk
  <2> QED BY <2>1, <1>3 DEF Errors, r
<1>4. CASE placed.err = "none"
  <2>1. May(placed.eng, asked, id) /\ placed.eng.orders[id].price = req.price
       /\ DOMAIN placed.eng.orders = DOMAIN e.orders \cup {e.nextId + 1}
    BY <1>1, <1>4 DEF PlacedOk
  <2>2. Serves(placed.eng, asked, id, v)
    BY <2>1, TookHere, Zenon
  <2>3. DOMAIN placed.eng = EngFields
    BY <2>2 DEF Serves
  <2>4. req.qty \in Int /\ req.price \in Int
    OBVIOUS
  <2> HIDE DEF v, id
  <2>5. Took(placed.eng, asked, id, w) /\ (error = "none" => Shown(w))
    BY <2>1, <2>2, <2>4, SubmitServes
  <2>6. Swaps(placed.eng, x, w)
    <3> HIDE DEF w
    <3> QED BY <2>3 DEF Swaps, EngFields
  <2> HIDE DEF w, x, error
  <2>7. Inv(x, asked) /\ x.venue = w /\ x.orders = placed.eng.orders
    BY <2>5, <2>6 DEF Took, May, Swaps
  <2>8. Commanded(x, asked, AfterVenue(x, error))
    BY <2>5, <2>7, CommandSound
  <2>9. r = AfterVenue(x, error)
    BY <1>2, <1>4
  <2> QED BY <2>1, <2>7, <2>8, <2>9 DEF Commanded, r
<1> QED BY <1>3, <1>4

\* A client asks for an order's cancel or replace: x is e with the order marked
\* pending, and its reserve topped up for a replace.
Asks(e, x, asked, id, cash, lots, K) ==
  /\ DOMAIN x = EngFields /\ OnlyOrder(e, x, id)
  /\ OrderOk(x.orders[id]) /\ Same(e.orders[id], x.orders[id])
  /\ SameFill(e.orders[id], x.orders[id])
  /\ e.orders[id].status \in IsWorking
  /\ x.orders[id].status \in {"PendingCancel", "PendingReplace"}
  /\ GetOrZero(x.remCash, id) = cash /\ GetOrZero(x.remLots, id) = lots
  /\ PositiveOn(x.remCash, DOMAIN e.orders) /\ PositiveOn(x.remLots, DOMAIN e.orders)
  /\ ReserveOk(x.orders[id], cash, lots)
  /\ BookMoves(e.book, x.book, e.orders[id].account, cash - GetOrZero(e.remCash, id),
               lots - GetOrZero(e.remLots, id), 0, K)
  /\ e.book.posReserved[e.orders[id].account] + (lots - GetOrZero(e.remLots, id))
       <= e.book.position[e.orders[id].account]
  /\ \A k \in K : k.kind = "rsv-repl" /\ k.n = id /\ asked[id] > 0

\* An order that asks for a cancel or replace keeps orders, ledger and keys in agreement.
LEMMA AsksAll ==
  ASSUME NEW e, NEW asked, AllOk(e, asked), NEW now, NEW id \in DOMAIN e.orders,
         \A i \in DOMAIN e.orders : asked[i] > 0 => now[i] > 0,
         NEW x, NEW cash, NEW lots, NEW K, Asks(e, x, now, id, cash, lots, K),
         x.orders[id].status = "PendingReplace" => ~(asked[id] > 0)
  PROVE  AllOk(x, now)
<1> DEFINE o == e.orders[id]
           p == x.orders[id]
<1>1. OrdersOk(e) /\ BookOk(e) /\ KeysOk(e, asked)
  BY DEF AllOk
<1>2. /\ DOMAIN x = EngFields /\ OnlyOrder(e, x, id) /\ OrderOk(p) /\ Same(o, p) /\ SameFill(o, p)
      /\ o.status \in IsWorking /\ p.status \in {"PendingCancel", "PendingReplace"}
      /\ GetOrZero(x.remCash, id) = cash /\ GetOrZero(x.remLots, id) = lots
      /\ PositiveOn(x.remCash, DOMAIN e.orders) /\ PositiveOn(x.remLots, DOMAIN e.orders)
      /\ ReserveOk(p, cash, lots)
  BY DEF Asks
<1>3. OrdersOk(x)
  <2>1. ASSUME NEW i \in DOMAIN x.orders
        PROVE  OrderOk(x.orders[i]) /\ Holds(x, i)
    <3>1. CASE i = id
      BY <1>2, <3>1 DEF Holds
    <3>2. CASE i # id
      <4>1. i \in DOMAIN e.orders \ {id}
        BY <1>2, <3>2 DEF OnlyOrder
      <4>2. OrderOk(e.orders[i]) /\ Holds(e, i)
        BY <1>1, <4>1 DEF OrdersOk
      <4> QED BY <1>2, <4>1, <4>2 DEF OnlyOrder, Holds
    <3> QED BY <3>1, <3>2
  <2>2. /\ x.kill \in BOOLEAN /\ x.nextId \in Nat /\ DOMAIN x.orders = 1 .. x.nextId
        /\ DOMAIN x.orders = DOMAIN e.orders
    BY <1>1, <1>2 DEF OrdersOk, OnlyOrder
  <2> QED BY <1>2, <2>1, <2>2 DEF OrdersOk
<1>4. BookOk(x)
  <2>1. Net(p) - Net(o) = 0
    <3>1. Net(p) = Net(o) /\ Net(o) \in Int
      BY <1>1, <1>2, NetInt DEF Net, Same, SameFill, OrdersOk
    <3> QED BY <3>1
  <2>2. BookMoves(e.book, x.book, o.account, GetOrZero(x.remCash, id) - GetOrZero(e.remCash, id),
                  GetOrZero(x.remLots, id) - GetOrZero(e.remLots, id), Net(p) - Net(o), K)
    BY <1>2, <2>1 DEF Asks
  <2>3. e.book.posReserved[o.account] + (GetOrZero(x.remLots, id) - GetOrZero(e.remLots, id))
          <= e.book.position[o.account] + (Net(p) - Net(o))
    <3>1. e.book.position[o.account] \in Int
      BY <1>1 DEF BookOk, BookShape, OrdersOk, OrderOk
    <3>2. e.book.posReserved[o.account] + (GetOrZero(x.remLots, id) - GetOrZero(e.remLots, id))
            <= e.book.position[o.account]
      BY <1>2 DEF Asks
    <3>3. e.book.position[o.account] + (Net(p) - Net(o)) = e.book.position[o.account]
      BY <2>1, <3>1
    <3> QED BY <3>2, <3>3
  <2> QED BY <1>1, <1>2, <1>3, <2>2, <2>3, BackedMove
<1>5. KeysOk(x, now)
  <2> SUFFICES ASSUME NEW y \in x.book.entries PROVE KeyOk(x, now, y.key)
    BY DEF KeysOk
  <2>1. y \in e.book.entries \/ y.key \in K
    BY DEF Asks, BookMoves
  <2>2. CASE y.key \in K
    <3>1. y.key.kind = "rsv-repl" /\ y.key.n = id /\ now[id] > 0
      BY <2>2 DEF Asks
    <3> QED BY <1>2, <3>1 DEF KeyOk, OnlyOrder
  <2>3. CASE y \in e.book.entries
    <3>1. KeyOk(e, asked, y.key)
      BY <1>1, <2>3 DEF KeysOk
    <3>2. o.status \notin IsTerminal /\ p.execs = o.execs
      BY <1>2 DEF IsWorking, IsTerminal, SameFill
    <3> QED BY <1>2, <3>1, <3>2 DEF KeyOk, OnlyOrder
  <2> QED BY <2>1, <2>2, <2>3
<1> QED BY <1>3, <1>4, <1>5 DEF AllOk

\* And the stream.
LEMMA AsksStream ==
  ASSUME NEW e, NEW asked, Inv(e, asked), NEW now, NEW id \in DOMAIN e.orders,
         \A i \in DOMAIN e.orders : asked[i] > 0 => now[i] > 0,
         NEW x, NEW cash, NEW lots, NEW K, Asks(e, x, now, id, cash, lots, K), AllOk(x, now)
  PROVE  May(x, now, id)
<1> DEFINE h == e.venue.history
           o == e.orders[id]
           p == x.orders[id]
<1>1. /\ AllOk(e, asked) /\ VenueOk(e.venue) /\ CursorOk(e) /\ KnownOk(e) /\ PricesOk(e)
      /\ ReplacesOk(e, asked) /\ SettledOk(e) /\ OrdersOk(e) /\ BookOk(e) /\ OrdersOk(x) /\ BookOk(x)
  BY DEF Inv, AllOk, StreamOk
<1>2. /\ OnlyOrder(e, x, id) /\ Same(o, p) /\ p.price = o.price /\ p.cum = o.cum /\ p.execs = o.execs
      /\ o.status \in Open /\ o.status # "PendingReplace"
  BY DEF Asks, SameFill, Open, IsWorking
<1>3. /\ x.venue = e.venue /\ DOMAIN x.orders = DOMAIN e.orders /\ x.session = e.session
      /\ x.nextSeq = e.nextSeq
      /\ \A i \in DOMAIN e.orders \ {id} :
           /\ x.orders[i] = e.orders[i]
           /\ GetOrZero(x.remCash, i) = GetOrZero(e.remCash, i)
           /\ GetOrZero(x.remLots, i) = GetOrZero(e.remLots, i)
  BY <1>2 DEF OnlyOrder
<1>4. CursorOk(x) /\ \A k : Pending(x, k) <=> Pending(e, k)
  BY <1>1, <1>3 DEF CursorOk, Pending
<1>5. KnownOk(x)
  <2>1. \A i \in DOMAIN e.orders : x.orders[i].execs = e.orders[i].execs
    BY <1>2, <1>3
  <2> QED BY <1>1, <1>3, <2>1 DEF KnownOk
<1>6. \A k \in DOMAIN h : h[k].order \in DOMAIN e.orders
  BY <1>1 DEF KnownOk
<1>7. PricesOk(x)
  <2>1. ASSUME NEW k \in DOMAIN h, Pending(x, k), h[k].type = "Trade",
               x.orders[h[k].order].status \in Open
        PROVE  h[k].price = x.orders[h[k].order].price
    <3>1. CASE h[k].order = id
      BY <1>1, <1>2, <1>4, <2>1, <3>1 DEF PricesOk
    <3>2. CASE h[k].order # id
      BY <1>1, <1>3, <1>4, <1>6, <2>1, <3>2 DEF PricesOk
    <3> QED BY <3>1, <3>2
  <2> QED BY <1>3, <2>1 DEF PricesOk
<1>8. ASSUME NEW k \in DOMAIN h, Pending(x, k), h[k].type = "Replaced"
      PROVE  /\ h[k].order # id /\ ReplaceOk(x, now, h[k])
             /\ \A j \in DOMAIN h : h[j].order = h[k].order /\ h[j].type \in {"Trade", "Replaced"} => j <= k
  <2>1. /\ ReplaceOk(e, asked, h[k])
        /\ \A j \in DOMAIN h : h[j].order = h[k].order /\ h[j].type \in {"Trade", "Replaced"} => j <= k
    BY <1>1, <1>4, <1>8 DEF ReplacesOk
  <2>2. h[k].order # id
    BY <1>2, <2>1 DEF ReplaceOk
  <2> QED BY <1>3, <1>6, <2>1, <2>2, Zenon DEF ReplaceOk
<1>9. ReplacesOk(x, now)
  BY <1>3, <1>8 DEF ReplacesOk
<1>10. NoReplace(x, id)
  BY <1>3, <1>8 DEF NoReplace
<1>11. SettledOk(x)
  BY <1>1, <1>2, SettledStays
<1> QED BY <1>1, <1>3, <1>4, <1>5, <1>7, <1>9, <1>10, <1>11 DEF Inv, StreamOk, May

\* Every order of the engine is ready for an effect.
LEMMA ReadyHere ==
  ASSUME NEW e, NEW asked, AllOk(e, asked), NEW id \in DOMAIN e.orders
  PROVE  Ready(e, id)
<1>1. OrdersOk(e) /\ BookOk(e)
  BY DEF AllOk
<1> DEFINE a == e.orders[id].account
<1>2. a \in Accounts
  BY <1>1 DEF OrdersOk, OrderOk
<1>3. id \in In(e, a) /\ IsFiniteSet(In(e, a)) /\ \A i \in In(e, a) : i \in DOMAIN e.orders
  BY <1>1, InFinite DEF In
<1>4. GetOrZero(e.remCash, id) <= SumFunctionOnSet(CashOf(e), In(e, a))
  <2>1. \A i \in In(e, a) : CashOf(e)[i] \in Nat
    BY <1>1, <1>3, SumsInt
  <2>2. CashOf(e)[id] <= SumFunctionOnSet(CashOf(e), In(e, a))
    BY <1>3, <2>1, SumBound
  <2> QED BY <1>1, <2>2, SumsInt
<1>5. GetOrZero(e.remLots, id) <= SumFunctionOnSet(LotsOf(e), In(e, a))
  <2>1. \A i \in In(e, a) : LotsOf(e)[i] \in Nat
    BY <1>1, <1>3, SumsInt
  <2>2. LotsOf(e)[id] <= SumFunctionOnSet(LotsOf(e), In(e, a))
    BY <1>3, <2>1, SumBound
  <2> QED BY <1>1, <2>2, SumsInt
<1>6. /\ GetOrZero(e.remCash, id) <= e.book.reserved[a]
      /\ GetOrZero(e.remLots, id) <= e.book.posReserved[a]
      /\ e.book.posReserved[a] <= e.book.position[a]
  BY <1>1, <1>2, <1>4, <1>5 DEF BookOk, Backed
<1> HIDE DEF a
<1> QED BY <1>1, <1>2, <1>6 DEF Ready, a, BookOk, OrdersOk

\* m is e with the reserve that the request ev needs.
Suited(e, now, id, m, cash, lots, K, ev) ==
  /\ e.orders[id].status \in IsWorking
  /\ cash \in Nat /\ lots \in Nat /\ Effect(e, m, id, cash, lots, 0, K)
  /\ ev.qty \in Int /\ ev.price \in Int /\ ev.type \in {"CancelRequested", "ReplaceRequested"}
  /\ ApplyError(e.orders[id], ev) = "none"
  /\ e.orders[id].side = "Buy" => lots = 0
  /\ e.orders[id].side = "Sell" => cash = 0
  /\ e.book.posReserved[e.orders[id].account] + (lots - GetOrZero(e.remLots, id))
       <= e.book.position[e.orders[id].account]
  /\ \A k \in K : k.kind = "rsv-repl" /\ k.n = id /\ now[id] > 0

\* Marking the order then asks for its cancel or replace.
LEMMA AsksOf ==
  ASSUME NEW e, NEW asked, AllOk(e, asked), NEW now, NEW id \in DOMAIN e.orders,
         NEW m, NEW cash, NEW lots, NEW K, NEW ev, Suited(e, now, id, m, cash, lots, K, ev)
  PROVE  /\ Asks(e, ApplyOms(m, id, ev), now, id, cash, lots, K)
         /\ ApplyOms(m, id, ev).venue = e.venue
         /\ ev.type = "CancelRequested" => ApplyOms(m, id, ev).orders[id].status = "PendingCancel"
         /\ ev.type = "ReplaceRequested" => ApplyOms(m, id, ev).orders[id].status = "PendingReplace"
<1>0. /\ e.orders[id].status \in IsWorking
      /\ cash \in Nat /\ lots \in Nat /\ Effect(e, m, id, cash, lots, 0, K)
      /\ ev.qty \in Int /\ ev.price \in Int /\ ev.type \in {"CancelRequested", "ReplaceRequested"}
      /\ ApplyError(e.orders[id], ev) = "none"
      /\ e.orders[id].side = "Buy" => lots = 0
      /\ e.orders[id].side = "Sell" => cash = 0
      /\ e.book.posReserved[e.orders[id].account] + (lots - GetOrZero(e.remLots, id))
           <= e.book.position[e.orders[id].account]
      /\ \A k \in K : k.kind = "rsv-repl" /\ k.n = id /\ now[id] > 0
  BY DEF Suited
<1> DEFINE o == e.orders[id]
           p == Applied(o, ev)
           x == [m EXCEPT !.orders[id] = Applied(@, ev)]
<1>1. OrderOk(o)
  BY DEF AllOk, OrdersOk
<1>2. OrderOk(p) /\ Same(o, p) /\ Moves(o, p, ev)
  BY <1>0, <1>1, AppliedMoves
<1>3. /\ SameFill(o, p) /\ p.status \in {"PendingCancel", "PendingReplace"}
      /\ ev.type = "CancelRequested" => p.status = "PendingCancel"
      /\ ev.type = "ReplaceRequested" => p.status = "PendingReplace"
  BY <1>0, <1>2 DEF Moves
<1>4. /\ DOMAIN m = EngFields
      /\ m.orders = e.orders /\ m.byClient = e.byClient /\ m.nextId = e.nextId
      /\ m.venue = e.venue /\ m.kill = e.kill /\ m.session = e.session /\ m.nextSeq = e.nextSeq
      /\ SetsTo(e.remCash, m.remCash, DOMAIN e.orders, id, cash)
      /\ SetsTo(e.remLots, m.remLots, DOMAIN e.orders, id, lots)
      /\ BookMoves(e.book, m.book, o.account, cash - GetOrZero(e.remCash, id),
                   lots - GetOrZero(e.remLots, id), 0, K)
  BY <1>0 DEF Effect
<1>5. x = [m EXCEPT !.orders[id] = p]
  BY <1>4
<1> HIDE DEF p
<1>6. /\ DOMAIN x = EngFields /\ x.orders = [e.orders EXCEPT ![id] = p]
      /\ x.byClient = e.byClient /\ x.nextId = e.nextId
      /\ x.venue = e.venue /\ x.kill = e.kill /\ x.session = e.session /\ x.nextSeq = e.nextSeq
      /\ x.remCash = m.remCash /\ x.remLots = m.remLots /\ x.book = m.book
  BY <1>4, <1>5 DEF EngFields
<1>7. ApplyOms(m, id, ev) = x
  BY DEF ApplyOms
<1> HIDE DEF x
<1>8. x.orders[id] = p /\ DOMAIN x.orders = DOMAIN e.orders
      /\ \A i \in DOMAIN e.orders \ {id} : x.orders[i] = e.orders[i]
  BY <1>6
<1>9. /\ OnlyOrder(e, x, id)
      /\ GetOrZero(x.remCash, id) = cash /\ GetOrZero(x.remLots, id) = lots
      /\ PositiveOn(x.remCash, DOMAIN e.orders) /\ PositiveOn(x.remLots, DOMAIN e.orders)
  BY <1>4, <1>6, <1>8 DEF OnlyOrder, SetsTo
<1>10. ReserveOk(p, cash, lots)
  BY <1>0, <1>2, <1>3 DEF ReserveOk, Same, IsTerminal, IsWorking
<1>11. Asks(e, x, now, id, cash, lots, K)
  BY <1>0, <1>2, <1>3, <1>4, <1>6, <1>8, <1>9, <1>10 DEF Asks
<1> QED BY <1>3, <1>6, <1>7, <1>8, <1>11

\* What RequestCancel leaves behind.
CancelAsked(e, asked, id, r) ==
  /\ r.err \in {"none", "Order"}
  /\ r.err = "Order" => r.eng = e
  /\ r.err = "none" => /\ May(r.eng, asked, id) /\ r.eng.venue = e.venue
                       /\ DOMAIN r.eng.orders = DOMAIN e.orders
                       /\ r.eng.orders[id].status \notin Open

\* The engine's RequestCancel.
LEMMA RequestCancelSound ==
  ASSUME NEW e, NEW asked, Inv(e, asked), NEW id \in DOMAIN e.orders
  PROVE  CancelAsked(e, asked, id, RequestCancel(e, id))
<1> DEFINE ev == Event("CancelRequested", 0, 0, 0)
           x  == ApplyOms(e, id, ev)
           r  == RequestCancel(e, id)
           o  == e.orders[id]
<1>1. r = IF ApplyError(o, ev) # "none" THEN Fail(e, "Order") ELSE Ok(x)
  BY DEF RequestCancel
<1>2. ev.type = "CancelRequested" /\ ev.qty \in Int /\ ev.price \in Int
  BY DEF Event
<1> HIDE DEF r, ev, x
<1>3. CASE ApplyError(o, ev) # "none"
  <2>1. r = Fail(e, "Order")
    BY <1>1, <1>3
  <2> QED BY <2>1 DEF CancelAsked, Fail, r
<1>4. CASE ApplyError(o, ev) = "none"
  <2> DEFINE c == GetOrZero(e.remCash, id)
             l == GetOrZero(e.remLots, id)
  <2>1. AllOk(e, asked)
    BY DEF Inv
  <2>2. OrderOk(o) /\ ReserveOk(o, c, l)
    BY <2>1 DEF AllOk, OrdersOk, Holds
  <2>3. o.status \in IsWorking
    <3>1. Moves(o, Applied(o, ev), ev)
      BY <1>2, <1>4, <2>2, AppliedMoves
    <3> QED BY <1>2, <3>1 DEF Moves
  <2>4. Ready(e, id)
    BY <2>1, ReadyHere
  <2>5. Effect(e, e, id, c, l, 0, {})
    BY <2>4, EffectStays
  <2>6. /\ c \in Nat /\ l \in Nat /\ (o.side = "Buy" => l = 0) /\ (o.side = "Sell" => c = 0)
    BY <2>2 DEF ReserveOk
  <2>7. e.book.posReserved[o.account] + (l - l) <= e.book.position[o.account]
    <3>1. e.book.posReserved[o.account] \in Int /\ e.book.posReserved[o.account] <= e.book.position[o.account]
      BY <2>4 DEF Ready, BookShape
    <3>2. l - l = 0
      BY <2>6
    <3> QED BY <3>1, <3>2
  <2> HIDE DEF c, l
  <2> DEFINE K == {}
  <2>8. \A k \in K : k.kind = "rsv-repl" /\ k.n = id /\ asked[id] > 0
    OBVIOUS
  <2>9. Effect(e, e, id, c, l, 0, K)
    BY <2>5
  <2> HIDE DEF K
  <2>14. Suited(e, asked, id, e, c, l, K, ev)
    BY <1>2, <1>4, <2>3, <2>6, <2>7, <2>8, <2>9 DEF Suited, l
  <2>10. Asks(e, x, asked, id, c, l, K) /\ x.venue = e.venue /\ x.orders[id].status = "PendingCancel"
    BY <1>2, <2>1, <2>14, AsksOf DEF x
  <2>11. AllOk(x, asked)
    BY <2>1, <2>10, AsksAll
  <2>12. May(x, asked, id)
    BY <2>10, <2>11, AsksStream
  <2>13. r = Ok(x) /\ DOMAIN x.orders = DOMAIN e.orders
    BY <1>1, <1>4, <2>10 DEF Asks, OnlyOrder
  <2> QED BY <2>10, <2>12, <2>13 DEF CancelAsked, Ok, Open, r
<1> QED BY <1>3, <1>4

\* The engine's Cancel.
LEMMA CancelSound ==
  ASSUME NEW e, NEW asked, Inv(e, asked), NEW id \in DOMAIN e.orders
  PROVE  Commanded(e, asked, Cancel(e, id))
<1> DEFINE s     == RequestCancel(e, id)
           w     == VCancel(s.eng.venue, id)
           x     == [s.eng EXCEPT !.venue = w]
           error == VCancelError(e.venue, id)
           r     == Cancel(e, id)
<1>1. CancelAsked(e, asked, id, s)
  BY RequestCancelSound
<1>2. r = IF s.err # "none" THEN s ELSE AfterVenue(x, error)
  BY DEF Cancel
<1> HIDE DEF s, r
<1>3. CASE s.err # "none"
  <2>1. r = s /\ s.eng = e /\ s.err = "Order"
    BY <1>1, <1>2, <1>3 DEF CancelAsked
  <2> QED BY <2>1 DEF Commanded, Errors, r
<1>4. CASE s.err = "none"
  <2>1. May(s.eng, asked, id) /\ s.eng.orders[id].status \notin Open /\ s.eng.venue = e.venue
       /\ DOMAIN s.eng.orders = DOMAIN e.orders
    BY <1>1, <1>4 DEF CancelAsked
  <2>2. Serves(s.eng, asked, id, s.eng.venue)
    BY <2>1, TookHere, Zenon
  <2>3. DOMAIN s.eng = EngFields
    BY <2>2 DEF Serves
  <2>4. Took(s.eng, asked, id, w) /\ (error = "none" => Shown(w))
    BY <2>1, <2>2, CancelServes
  <2>5. Swaps(s.eng, x, w)
    <3> HIDE DEF w
    <3> QED BY <2>3 DEF Swaps, EngFields
  <2> HIDE DEF w, x, error
  <2>6. Inv(x, asked) /\ x.venue = w /\ x.orders = s.eng.orders
    BY <2>4, <2>5 DEF Took, May, Swaps
  <2>7. Commanded(x, asked, AfterVenue(x, error))
    BY <2>4, <2>6, CommandSound
  <2>8. r = AfterVenue(x, error)
    BY <1>2, <1>4
  <2> QED BY <2>1, <2>6, <2>7, <2>8 DEF r, Commanded
<1> QED BY <1>3, <1>4

\* More replaces asked for do not disturb what is known.
LEMMA AskedMore ==
  ASSUME NEW e, NEW asked, Inv(e, asked), NEW now,
         \A i \in DOMAIN e.orders : asked[i] > 0 => now[i] > 0
  PROVE  Inv(e, now)
<1>1. KeysOk(e, now)
  <2>1. ASSUME NEW y \in e.book.entries PROVE KeyOk(e, now, y.key)
    <3>1. KeyOk(e, asked, y.key)
      BY DEF Inv, AllOk, KeysOk
    <3> QED BY <3>1 DEF KeyOk
  <2> QED BY <2>1 DEF KeysOk
<1>2. ReplacesOk(e, now)
  <2>1. ASSUME NEW k \in DOMAIN e.venue.history, ReplaceOk(e, asked, e.venue.history[k])
        PROVE  ReplaceOk(e, now, e.venue.history[k])
    <3>1. e.venue.history[k].order \in DOMAIN e.orders
      BY DEF Inv, StreamOk, KnownOk
    <3> QED BY <2>1, <3>1 DEF ReplaceOk
  <2>2. ReplacesOk(e, asked)
    BY DEF Inv, StreamOk
  <2> QED BY <2>1, <2>2 DEF ReplacesOk
<1> QED BY <1>1, <1>2 DEF Inv, AllOk, StreamOk

\* The OMS takes a replace of a working order to any positive price and quantity
\* that is not below what is filled.
LEMMA ReplaceIsLegal ==
  ASSUME NEW o, OrderOk(o), o.status \in IsWorking, NEW qty \in Nat \ {0}, NEW price \in Nat \ {0},
         qty >= o.cum
  PROVE  ApplyError(o, Event("ReplaceRequested", 0, qty, price)) = "none"
<1> DEFINE ev == Event("ReplaceRequested", 0, qty, price)
           p  == Applied(o, ev)
<1>1. ev.type = "ReplaceRequested" /\ ev.qty = qty /\ ev.price = price
  BY DEF Event
<1> HIDE DEF ev
<1>2. LegalTransition(o.status, ev.type)
  BY <1>1 DEF LegalTransition
<1>3. ReplaceError(o, ev) = "none"
  BY <1>1 DEF ReplaceError, OrderOk
<1>4. p = [o EXCEPT !.status = "PendingReplace"]
  BY <1>1 DEF Applied
<1> HIDE DEF p
<1>5. p.cum = o.cum /\ p.leaves = o.leaves /\ p.qty = o.qty
  BY <1>4 DEF OrderOk, OrderFields
<1>6. AssertInvariants(p)
  BY <1>5 DEF AssertInvariants, OrderOk
<1> QED BY <1>1, <1>2, <1>3, <1>6 DEF ApplyError, ev, p

\* What RequestReplace leaves behind.
ReplaceAsked(e, now, id, qty, price, r) ==
  /\ r.err \in {"none", "Order", "Ledger"}
  /\ r.err # "none" => r.eng = e
  /\ r.err = "none" =>
       /\ May(r.eng, now, id) /\ r.eng.venue = e.venue /\ DOMAIN r.eng.orders = DOMAIN e.orders
       /\ r.eng.orders[id].status = "PendingReplace" /\ qty >= r.eng.orders[id].cum
       /\ r.eng.orders[id].side = "Buy" =>
            /\ qty > r.eng.orders[id].cum
            /\ price * (qty - r.eng.orders[id].cum) <= GetOrZero(r.eng.remCash, id)
       /\ r.eng.orders[id].side = "Sell" =>
            qty - r.eng.orders[id].cum <= GetOrZero(r.eng.remLots, id)

\* A request for a replace that the new reserve covers.
LEMMA ReplaceAsks ==
  ASSUME NEW e, NEW asked, Inv(e, asked), NEW now, NEW id \in DOMAIN e.orders,
         \A i \in DOMAIN e.orders : asked[i] > 0 => now[i] > 0, ~(asked[id] > 0),
         NEW qty \in Nat, NEW price \in Nat, NEW m, NEW cash, NEW lots, NEW K, NEW ev,
         Suited(e, now, id, m, cash, lots, K, ev), ev.type = "ReplaceRequested",
         ev.qty = qty, qty >= e.orders[id].cum,
         e.orders[id].side = "Buy" => /\ qty > e.orders[id].cum
                                      /\ price * (qty - e.orders[id].cum) <= cash,
         e.orders[id].side = "Sell" => qty - e.orders[id].cum <= lots
  PROVE  ReplaceAsked(e, now, id, qty, price, Ok(ApplyOms(m, id, ev)))
<1> DEFINE x == ApplyOms(m, id, ev)
<1>1. AllOk(e, asked)
  BY DEF Inv
<1>2. Asks(e, x, now, id, cash, lots, K) /\ x.venue = e.venue /\ x.orders[id].status = "PendingReplace"
  BY <1>1, AsksOf
<1> HIDE DEF x
<1>3. AllOk(x, now)
  BY <1>1, <1>2, AsksAll
<1>4. May(x, now, id)
  BY <1>2, <1>3, AsksStream
<1>5. /\ x.orders[id].cum = e.orders[id].cum /\ x.orders[id].side = e.orders[id].side
      /\ GetOrZero(x.remCash, id) = cash /\ GetOrZero(x.remLots, id) = lots
      /\ DOMAIN x.orders = DOMAIN e.orders
  BY <1>2 DEF Asks, Same, SameFill, OnlyOrder
<1>6. Ok(x).eng = x /\ Ok(x).err = "none"
  BY DEF Ok
<1> HIDE DEF Ok
<1>7. ReplaceAsked(e, now, id, qty, price, Ok(x))
  BY <1>2, <1>4, <1>5, <1>6 DEF ReplaceAsked
<1> QED BY <1>7 DEF x

\* The engine's RequestReplace, with its top-up of the reserve, for an order not replaced before.
LEMMA RequestReplaceSound ==
  ASSUME NEW e, NEW asked, Inv(e, asked), NEW now, NEW id \in DOMAIN e.orders,
         \A i \in DOMAIN e.orders : asked[i] > 0 => now[i] > 0, ~(asked[id] > 0), now[id] > 0,
         e.orders[id].status \in IsWorking, NEW qty \in Nat, NEW price \in Nat \ {0}
  PROVE  ReplaceAsked(e, now, id, qty, price, RequestReplace(e, id, qty, price))
<1> DEFINE o      == e.orders[id]
           a      == o.account
           leaves == qty - o.cum
           ev     == Event("ReplaceRequested", 0, qty, price)
           c      == GetOrZero(e.remCash, id)
           l      == GetOrZero(e.remLots, id)
           target == price * leaves
           cash   == target - c
           lots   == leaves - l
           more   == IF o.side = "Buy" THEN cash > 0 ELSE lots > 0
           key    == Key("rsv-repl", a, id)
           buy    == [e EXCEPT !.book = Reserve(@, a, cash, key), !.remCash = Put(@, id, target)]
           sell   == [e EXCEPT !.book = ReservePosition(@, a, lots), !.remLots = Put(@, id, leaves)]
           error  == IF ~more THEN "none"
                     ELSE IF o.side = "Buy" THEN ReserveError(e.book, a, cash)
                     ELSE ReservePositionError(e.book, a, lots)
           held   == IF ~more THEN e ELSE IF o.side = "Buy" THEN buy ELSE sell
           r      == RequestReplace(e, id, qty, price)
<1>1. r = IF leaves < 0 \/ (o.side = "Buy" /\ leaves = 0) THEN Fail(e, "Order")
          ELSE IF error # "none" THEN Fail(e, "Ledger")
          ELSE IF ApplyError(o, ev) # "none" THEN Fail(held, "Order")
          ELSE Ok(ApplyOms(held, id, ev))
  BY DEF RequestReplace
<1>2. AllOk(e, asked) /\ OrderOk(o) /\ ReserveOk(o, c, l) /\ Ready(e, id) /\ a \in Accounts
  BY ReadyHere DEF Inv, AllOk, OrdersOk, Holds, OrderOk
<1>3. /\ o.cum \in Nat /\ c \in Nat /\ l \in Nat /\ o.side \in Sides /\ leaves \in Int
      /\ (o.side = "Buy" => l = 0) /\ (o.side = "Sell" => c = 0)
  BY <1>2 DEF OrderOk, ReserveOk
<1>4. ev.type = "ReplaceRequested" /\ ev.qty = qty /\ ev.price = price
  BY DEF Event
<1>5. /\ e.book.posReserved[a] \in Int /\ e.book.position[a] \in Int
      /\ e.book.posReserved[a] <= e.book.position[a]
  BY <1>2 DEF Ready, BookShape
<1> HIDE DEF r, ev, held, error, buy, sell, more, key
<1>6. CASE leaves < 0 \/ (o.side = "Buy" /\ leaves = 0)
  <2>1. r = Fail(e, "Order")
    BY <1>1, <1>6
  <2> QED BY <2>1 DEF ReplaceAsked, Fail, r
<1>7. CASE ~(leaves < 0 \/ (o.side = "Buy" /\ leaves = 0)) /\ error # "none"
  <2>1. r = Fail(e, "Ledger")
    BY <1>1, <1>7
  <2> QED BY <2>1 DEF ReplaceAsked, Fail, r
<1>8. CASE ~(leaves < 0 \/ (o.side = "Buy" /\ leaves = 0)) /\ error = "none" /\ qty = 0
  <2>1. o.side = "Sell" /\ lots <= 0
    BY <1>3, <1>8 DEF Sides
  <2>2. held = e
    BY <1>3, <2>1 DEF held, more, Sides
  <2>3. ApplyError(o, ev) # "none"
    BY <1>4, <1>8 DEF ApplyError, ReplaceError, LegalTransition
  <2>4. r = Fail(e, "Order")
    BY <1>1, <1>8, <2>2, <2>3
  <2> QED BY <2>4 DEF ReplaceAsked, Fail, r
<1>9. CASE ~(leaves < 0 \/ (o.side = "Buy" /\ leaves = 0)) /\ error = "none" /\ qty # 0
  <2>1. qty >= o.cum /\ qty \in Nat \ {0} /\ leaves \in Nat /\ (o.side = "Buy" => qty > o.cum)
    BY <1>3, <1>9
  <2>2. ApplyError(o, ev) = "none"
    BY <1>2, <2>1, ReplaceIsLegal DEF ev
  <2>3. r = Ok(ApplyOms(held, id, ev))
    BY <1>1, <1>9, <2>2
  <2>4. target \in Nat
    BY <2>1
  \* It is enough that the reserve now suits the request.
  <2>5. ASSUME NEW d, NEW n, NEW K, Effect(e, held, id, d, n, 0, K), d \in Nat, n \in Nat,
               o.side = "Buy" => n = 0 /\ target <= d,
               o.side = "Sell" => d = 0 /\ leaves <= n,
               e.book.posReserved[a] + (n - l) <= e.book.position[a],
               \A k \in K : k.kind = "rsv-repl" /\ k.n = id
        PROVE  ReplaceAsked(e, now, id, qty, price, r)
    <3>1. Suited(e, now, id, held, d, n, K, ev)
      BY <1>4, <2>2, <2>5 DEF Suited
    <3>2. ReplaceAsked(e, now, id, qty, price, Ok(ApplyOms(held, id, ev)))
      BY <1>4, <2>1, <2>5, <3>1, ReplaceAsks
    <3> QED BY <2>3, <3>2
  <2>6. CASE ~more
    <3> DEFINE K == {}
    <3>1. held = e
      BY <2>6 DEF held
    <3>2. Effect(e, e, id, c, l, 0, K)
      BY <1>2, EffectStays
    <3>3. o.side = "Buy" => target <= c
      BY <1>3, <2>4, <2>6 DEF more
    <3>4. o.side = "Sell" => leaves <= l
      BY <1>3, <2>1, <2>6 DEF more
    <3>5. e.book.posReserved[a] + (l - l) <= e.book.position[a]
      <4>1. l - l = 0
        BY <1>3
      <4> QED BY <1>5, <4>1
    <3>6. \A k \in K : k.kind = "rsv-repl" /\ k.n = id
      OBVIOUS
    <3> HIDE DEF K, c, l, target, leaves
    <3> QED BY <1>3, <2>5, <3>1, <3>2, <3>3, <3>4, <3>5, <3>6 DEF r
  <2>7. CASE more /\ o.side = "Buy"
    <3> DEFINE K == {key}
    <3>1. held = buy /\ target > c /\ target # 0
      <4>1. held = buy /\ cash > 0
        BY <2>7 DEF held, more
      <4> QED BY <1>3, <2>4, <4>1
    <3>2. key.kind = "rsv-repl" /\ key.n = id
      BY DEF key, Key
    <3>3. ~Posted(e.book, key)
      <4>1. \A y \in e.book.entries : KeyOk(e, asked, y.key)
        BY <1>2 DEF AllOk, KeysOk
      <4> QED BY <3>2, <4>1 DEF Posted, KeyOk
    <3>4. BookMoves(e.book, Reserve(e.book, a, cash, key), a, cash, 0, 0, K)
      <4>1. cash \in Int
        BY <1>3, <2>4
      <4> HIDE DEF cash, a
      <4> QED BY <1>2, <3>3, <4>1, ReserveMoves DEF Ready
    <3>5. SetsTo(e.remCash, Put(e.remCash, id, target), DOMAIN e.orders, id, target)
      <4> HIDE DEF target
      <4> QED BY <1>2, <2>4, <3>1, MapSets DEF Ready
    <3>6. Effect(e, buy, id, target, l, 0, K)
      <4> DEFINE b == Reserve(e.book, a, cash, key)
                 f == Put(e.remCash, id, target)
      <4>1. buy = [e EXCEPT !.book = b, !.remCash = f]
        BY DEF buy
      <4>2. BookMoves(e.book, b, o.account, target - GetOrZero(e.remCash, id), 0, 0, K)
        BY <3>4
      <4>3. SetsTo(e.remCash, f, DOMAIN e.orders, id, target)
        BY <3>5
      <4> HIDE DEF b, f, target, K
      <4>4. Effect(e, [e EXCEPT !.book = b, !.remCash = f], id, target, GetOrZero(e.remLots, id), 0, K)
        BY <1>2, <2>4, <4>2, <4>3, CashEffect, Zenon
      <4> QED BY <4>1, <4>4
    <3>7. \A k \in K : k.kind = "rsv-repl" /\ k.n = id
      BY <3>2
    <3>8. e.book.posReserved[a] + (l - l) <= e.book.position[a]
      <4>1. l - l = 0
        BY <1>3
      <4> QED BY <1>5, <4>1
    <3>9. target <= target /\ target \in Nat
      BY <2>4
    <3> HIDE DEF K, l, target
    <3> QED BY <1>3, <2>5, <2>7, <3>1, <3>6, <3>7, <3>8, <3>9 DEF r
  <2>8. CASE more /\ o.side = "Sell"
    <3> DEFINE K == {}
    <3>1. held = sell /\ leaves > l /\ leaves # 0 /\ lots \in Int /\ lots > 0
      <4>1. held = sell /\ lots > 0
        BY <2>8 DEF held, more
      <4> QED BY <1>3, <2>1, <4>1
    <3>2. ~(e.book.position[a] - e.book.posReserved[a] < lots)
      <4>1. ReservePositionError(e.book, a, lots) = "none"
        BY <1>9, <2>8 DEF error
      <4> QED BY <3>1, <4>1 DEF ReservePositionError
    <3>3. BookMoves(e.book, ReservePosition(e.book, a, lots), a, 0, lots, 0, K)
      <4> HIDE DEF lots, a
      <4> QED BY <1>2, <3>1, PositionMoves DEF Ready
    <3>4. SetsTo(e.remLots, Put(e.remLots, id, leaves), DOMAIN e.orders, id, leaves)
      <4> HIDE DEF leaves
      <4> QED BY <1>2, <2>1, <3>1, MapSets DEF Ready
    <3>5. Effect(e, sell, id, c, leaves, 0, K)
      <4> DEFINE b == ReservePosition(e.book, a, lots)
                 f == Put(e.remLots, id, leaves)
      <4>1. sell = [e EXCEPT !.book = b, !.remLots = f]
        BY DEF sell
      <4>2. BookMoves(e.book, b, o.account, 0, leaves - GetOrZero(e.remLots, id), 0, K)
        BY <3>3
      <4>3. SetsTo(e.remLots, f, DOMAIN e.orders, id, leaves)
        BY <3>4
      <4> HIDE DEF b, f, leaves, K
      <4>4. Effect(e, [e EXCEPT !.book = b, !.remLots = f], id, GetOrZero(e.remCash, id), leaves, 0, K)
        BY <1>2, <2>1, <4>2, <4>3, LotsEffect, Zenon
      <4> QED BY <4>1, <4>4
    <3>6. \A k \in K : k.kind = "rsv-repl" /\ k.n = id
      OBVIOUS
    <3>7. e.book.posReserved[a] + (leaves - l) <= e.book.position[a]
      BY <1>5, <3>1, <3>2
    <3>8. leaves <= leaves
      BY <2>1
    <3> HIDE DEF K, c, leaves
    <3> QED BY <1>3, <2>1, <2>5, <2>8, <3>1, <3>5, <3>6, <3>7, <3>8 DEF r
  <2> QED BY <1>3, <2>6, <2>7, <2>8 DEF Sides
<1> QED BY <1>6, <1>7, <1>8, <1>9

\* What replace leaves behind.
Ended(e, now, r) ==
  /\ Inv(r.eng, now) /\ r.err \in Errors \cup {"Ledger"}
  /\ r.err = "none" => Caught(r.eng)
  /\ DOMAIN r.eng.orders = DOMAIN e.orders

\* The engine's Replace.
LEMMA ReplaceSound ==
  ASSUME NEW e, NEW asked, Inv(e, asked), NEW now, NEW id \in DOMAIN e.orders,
         \A i \in DOMAIN e.orders : asked[i] > 0 => now[i] > 0, ~(asked[id] > 0), now[id] > 0,
         e.orders[id].status \in IsWorking, NEW qty \in Nat, NEW price \in Nat \ {0}
  PROVE  Ended(e, now, Replace(e, id, qty, price))
<1> DEFINE s     == RequestReplace(e, id, qty, price)
           w     == VReplace(s.eng.venue, id, qty, price)
           x     == [s.eng EXCEPT !.venue = w]
           error == VReplaceError(e.venue, id, qty, price)
           r     == Replace(e, id, qty, price)
<1>1. ReplaceAsked(e, now, id, qty, price, s)
  BY RequestReplaceSound
<1>2. r = IF s.err # "none" THEN s ELSE AfterVenue(x, error)
  BY DEF Replace
<1> HIDE DEF s, r
<1>3. CASE s.err # "none"
  <2>1. r = s /\ s.eng = e /\ s.err \in {"Order", "Ledger"}
    BY <1>1, <1>2, <1>3 DEF ReplaceAsked
  <2>2. Inv(e, now)
    BY AskedMore
  <2> QED BY <2>1, <2>2 DEF Errors, Ended, r
<1>4. CASE s.err = "none"
  <2> DEFINE y == s.eng
  <2>1. /\ May(y, now, id) /\ y.venue = e.venue /\ DOMAIN y.orders = DOMAIN e.orders
        /\ y.orders[id].status = "PendingReplace" /\ qty >= y.orders[id].cum
        /\ y.orders[id].side = "Buy" =>
             /\ qty > y.orders[id].cum
             /\ price * (qty - y.orders[id].cum) <= GetOrZero(y.remCash, id)
        /\ y.orders[id].side = "Sell" => qty - y.orders[id].cum <= GetOrZero(y.remLots, id)
    BY <1>1, <1>4 DEF ReplaceAsked
  <2>2. Serves(y, now, id, y.venue)
    BY <2>1, TookHere, Zenon
  <2>3. DOMAIN y = EngFields
    BY <2>2 DEF Serves
  <2>4. Swaps(y, x, w) /\ x.venue = w /\ x.orders = y.orders
    <3> HIDE DEF w
    <3> QED BY <2>3 DEF Swaps, EngFields
  <2>5. qty \in Int /\ price \in Int
    OBVIOUS
  <2> HIDE DEF x, y, error
  <2>6. Swaps(y, x, VReplace(y.venue, id, qty, price))
    BY <2>4 DEF y
  <2>7. /\ Inv(x, now)
        /\ VReplaceError(y.venue, id, qty, price) = "none" => Shown(x.venue)
    BY <2>1, <2>5, <2>6, ReplaceServes
  <2>8. error = "none" => Shown(x.venue)
    BY <2>1, <2>7 DEF error
  <2>9. Commanded(x, now, AfterVenue(x, error))
    BY <2>7, <2>8, CommandSound
  <2>10. r = AfterVenue(x, error)
    BY <1>2, <1>4
  <2> QED BY <2>1, <2>4, <2>9, <2>10 DEF Commanded, Ended, r
<1> QED BY <1>3, <1>4
-----------------------------------------------------------------------------
(* The invariant of the session.                                           *)

\* The inductive invariant of the specification: the engine's, and what the last call said.
SessionInv ==
  /\ Inv(eng, replaces)
  /\ DOMAIN eng.orders \subseteq 1 .. MaxOrders /\ replaces \in [1 .. MaxOrders -> Nat]
  /\ err = "Ledger" => call = "replace"
  /\ call \in {"submit", "cancel", "replace"} /\ err = "none" => Caught(eng)

\* Nothing issued, no trades.
LEMMA EmptyHistory ==
  ASSUME NEW v, v.history = <<>>
  PROVE  VenueTrades(v) = {} /\ DOMAIN v.history = {} /\ Issued(v) = {}
BY DEF VenueTrades, ToSet, Issued

\* The initial states satisfy it.
LEMMA InitInv == Init => SessionInv
<1> SUFFICES ASSUME Init PROVE SessionInv
  OBVIOUS
<1>1. PICK f \in FaultConfigs : eng = Funded(NewEngine(f))
  BY DEF Init
<1> DEFINE e    == NewEngine(f)
           v    == NewVenue(f)
           x    == Funded(e)
           book == EmptyBook(Accounts)
<1>2. /\ DOMAIN e = EngFields /\ e.orders = [id \in {} |-> 0] /\ e.nextId = 0
      /\ e.remCash = [id \in {} |-> 0] /\ e.remLots = [id \in {} |-> 0] /\ e.book = book
      /\ e.venue = v /\ e.kill = FALSE /\ e.session = 0 /\ e.nextSeq = 1
  BY DEF NewEngine, EngFields
<1>3. /\ DOMAIN book = BookFields
      /\ book.reserved = [a \in Accounts |-> 0] /\ book.position = [a \in Accounts |-> 0]
      /\ book.posReserved = [a \in Accounts |-> 0]
  BY DEF EmptyBook, BookFields
<1> DEFINE entries == {Entry(Key("dep", a, 0), a, StartCash, 0, -StartCash, 0, 0) : a \in Accounts}
           cash    == [a \in Accounts |-> StartCash]
           funding == -(StartCash * Cardinality(Accounts))
<1>4. x = [e EXCEPT !.book.entries = entries, !.book.cash = cash, !.book.funding = funding]
  BY DEF Funded
<1>5. \A y \in entries : y.key.kind = "dep"
  BY DEF Entry, Key
<1> HIDE DEF e, book, entries, cash, funding, v
<1>6. /\ DOMAIN x = EngFields /\ x.orders = [id \in {} |-> 0] /\ x.nextId = 0
      /\ x.remCash = [id \in {} |-> 0] /\ x.remLots = [id \in {} |-> 0]
      /\ x.venue = v /\ x.kill = FALSE /\ x.session = 0 /\ x.nextSeq = 1
      /\ x.book = [book EXCEPT !.entries = entries, !.cash = cash, !.funding = funding]
  BY <1>2, <1>4 DEF EngFields
<1> HIDE DEF x
<1>7. /\ DOMAIN x.book = BookFields /\ x.book.entries = entries
      /\ x.book.reserved = [a \in Accounts |-> 0] /\ x.book.position = [a \in Accounts |-> 0]
      /\ x.book.posReserved = [a \in Accounts |-> 0]
  BY <1>3, <1>6 DEF BookFields
<1>8. /\ DOMAIN v = VenueFields /\ v.session = 1 /\ v.nextSeq = 1 /\ v.nextExec \in Nat /\ v.now \in Int
      /\ v.faults = f /\ v.history = <<>> /\ v.outbox = <<>> /\ v.nextExec \in Nat
      /\ DOMAIN v.scheduled = {} /\ DOMAIN v.inflight = {}
  BY DEF v, NewVenue, VenueFields, NoInflight
<1>9. FaultsOk(f)
  BY SessionAssumption DEF FaultsOk
<1>10. DOMAIN x.orders = {} /\ DOMAIN x.remCash = {} /\ DOMAIN x.remLots = {}
  BY <1>6
<1>11. OrdersOk(x)
  <2>1. x.nextId = 0 /\ DOMAIN x.orders = 1 .. x.nextId
    BY <1>6, <1>10
  <2>2. PositiveOn(x.remCash, DOMAIN x.orders) /\ PositiveOn(x.remLots, DOMAIN x.orders)
    BY <1>10 DEF PositiveOn
  <2>3. x.nextId \in Nat
    BY <1>6
  <2>4. x.kill \in BOOLEAN
    BY <1>6, Zenon
  <2> QED BY <1>6, <1>10, <2>1, <2>2, <2>3, <2>4 DEF OrdersOk
<1>12. BookOk(x)
  <2>1. \A a \in Accounts : In(x, a) = {}
    BY <1>10 DEF In
  <2>2. BookShape(x.book)
    BY <1>7 DEF BookShape
  <2>3. \A a \in Accounts : Backed(x, a)
    <3> SUFFICES ASSUME NEW a \in Accounts PROVE Backed(x, a)
      BY Zenon
    <3>1. /\ SumFunctionOnSet(CashOf(x), In(x, a)) = 0 /\ SumFunctionOnSet(LotsOf(x), In(x, a)) = 0
          /\ SumFunctionOnSet(NetOf(x), In(x, a)) = 0
      BY <2>1, SumEmpty, Zenon
    <3> QED BY <1>7, <3>1 DEF Backed
  <2> QED BY <2>2, <2>3 DEF BookOk
<1>13. KeysOk(x, replaces)
  BY <1>5, <1>7 DEF KeysOk, KeyOk
<1>14. VenueOk(v)
  <2>1. DOMAIN v.history = {} /\ v.history \in Seq(Reports) /\ Len(v.history) = 0
    BY <1>8
  <2>2. HistoryOk(v)
    BY <1>8, <2>1 DEF HistoryOk
  <2>3. v.outbox \in Seq(Issued(v))
    BY <1>8
  <2> QED BY <1>8, <1>9, <2>2, <2>3, FS_EmptySet DEF VenueOk
<1>15. DOMAIN v.history = {} /\ VenueTrades(v) = {}
  BY <1>8, EmptyHistory
<1>16. SettledOk(x)
  <2>1. ASSUME NEW a \in Accounts PROVE x.book.position[a] = SeenNet(x, a)
    <3>1. SeenTrades(x, a) = {}
      BY <1>6, <1>15 DEF SeenTrades
    <3> QED BY <1>7, <3>1, SumEmpty DEF SeenNet
  <2>2. \A a \in Accounts : SessionOnly(x, a)
    BY <1>10 DEF SessionOnly, In
  <2> QED BY <2>1, <2>2, Zenon DEF SettledOk
<1>17. CursorOk(x) /\ KnownOk(x) /\ PricesOk(x) /\ ReplacesOk(x, replaces)
  BY <1>6, <1>8, <1>10, <1>15 DEF CursorOk, KnownOk, PricesOk, ReplacesOk
<1>18. Inv(x, replaces)
  BY <1>6, <1>11, <1>12, <1>13, <1>14, <1>16, <1>17 DEF Inv, AllOk, StreamOk
<1>19. eng = x
  BY <1>1 DEF x, e
<1>20. replaces \in [1 .. MaxOrders -> Nat] /\ call = "none" /\ err = "none"
  BY DEF Init
<1> QED BY <1>10, <1>18, <1>19, <1>20 DEF SessionInv

\* What the theorems assume of the callers. The gateway refuses a price of zero, and limits
\* forbid shorting unless an operator patches them. Nothing in the code holds a client to one
\* replace of a working order: outside these bounds the properties fail, and the README names
\* the runs that show it.
Disciplined ==
  /\ ReplaceEach <= 1 /\ ReplaceStatuses \subseteq IsWorking /\ 0 \notin Prices
  /\ ~Limits.allowShort

\* Submit keeps the invariant.
LEMMA SubmitCallInv ==
  ASSUME Disciplined, SessionInv, NEW req \in Requests, SubmitCall(req)
  PROVE  SessionInv'
<1> DEFINE r == Submit(eng, req)
<1>1. /\ req.account \in Accounts /\ req.side \in Sides /\ req.qty \in Nat /\ req.price \in Nat
      /\ MaxOrders \in Nat
  BY SessionAssumption
<1>2. Inv(eng, replaces) /\ ~Limits.allowShort /\ DOMAIN eng.orders \subseteq 1 .. MaxOrders
      /\ replaces \in [1 .. MaxOrders -> Nat]
  BY DEF SessionInv, Disciplined
<1>3. /\ Inv(r.eng, replaces) /\ r.err \in Errors \cup {"Duplicate", "Risk"}
      /\ r.err = "none" => Caught(r.eng)
      /\ DOMAIN r.eng.orders \in {DOMAIN eng.orders, DOMAIN eng.orders \cup {eng.nextId + 1}}
  BY <1>1, <1>2, SubmitSound
<1> HIDE DEF r
<1>4. eng.nextId < MaxOrders /\ call' = "submit" /\ eng' = r.eng /\ err' = r.err /\ replaces' = replaces
  BY DEF SubmitCall, Returns, r
<1>5. eng.nextId + 1 \in 1 .. MaxOrders
  <2>1. eng.nextId \in Nat
    BY <1>2 DEF Inv, AllOk, OrdersOk
  <2> QED BY <1>1, <1>4, <2>1
<1>6. DOMAIN r.eng.orders \subseteq 1 .. MaxOrders
  BY <1>2, <1>3, <1>5
<1>7. r.err # "Ledger"
  BY <1>3 DEF Errors
<1> QED BY <1>2, <1>3, <1>4, <1>6, <1>7 DEF SessionInv

\* Cancel keeps it.
LEMMA CancelCallInv ==
  ASSUME SessionInv, NEW id, CancelCall(id)
  PROVE  SessionInv'
<1> DEFINE r == Cancel(eng, id)
<1>1. Inv(eng, replaces) /\ id \in DOMAIN eng.orders /\ DOMAIN eng.orders \subseteq 1 .. MaxOrders
      /\ replaces \in [1 .. MaxOrders -> Nat]
  BY DEF SessionInv, CancelCall
<1>2. Commanded(eng, replaces, r)
  BY <1>1, CancelSound
<1> HIDE DEF r
<1>3. call' = "cancel" /\ eng' = r.eng /\ err' = r.err /\ replaces' = replaces
  BY DEF CancelCall, Returns, r
<1>4. r.err # "Ledger"
  BY <1>2 DEF Commanded, Errors
<1> QED BY <1>1, <1>2, <1>3, <1>4 DEF SessionInv, Commanded

\* Replace keeps it.
LEMMA ReplaceCallInv ==
  ASSUME Disciplined, SessionInv, NEW id \in 1 .. MaxOrders, NEW qty \in Lots, NEW price \in Prices,
         ReplaceCall(id, qty, price)
  PROVE  SessionInv'
<1> DEFINE r == Replace(eng, id, qty, price)
<1>1. qty \in Nat /\ price \in Nat \ {0} /\ ReplaceEach \in Nat
  BY SessionAssumption DEF Disciplined
<1>2. /\ Inv(eng, replaces) /\ id \in DOMAIN eng.orders /\ DOMAIN eng.orders \subseteq 1 .. MaxOrders
      /\ replaces \in [1 .. MaxOrders -> Nat] /\ replaces[id] < ReplaceEach
      /\ eng.orders[id].status \in IsWorking
      /\ replaces' = [replaces EXCEPT ![id] = @ + 1]
  BY DEF SessionInv, ReplaceCall, Disciplined
<1>3. /\ ~(replaces[id] > 0) /\ replaces'[id] > 0 /\ replaces' \in [1 .. MaxOrders -> Nat]
      /\ \A i \in DOMAIN eng.orders : replaces[i] > 0 => replaces'[i] > 0
  BY <1>1, <1>2 DEF Disciplined
<1>6. ASSUME NEW now, now[id] > 0, \A i \in DOMAIN eng.orders : replaces[i] > 0 => now[i] > 0
      PROVE  Ended(eng, now, r)
  <2>1. Inv(eng, replaces) /\ id \in DOMAIN eng.orders /\ eng.orders[id].status \in IsWorking
    BY <1>2
  <2>2. qty \in Nat /\ price \in Nat \ {0} /\ ~(replaces[id] > 0)
    BY <1>1, <1>3
  <2> QED BY <1>6, <2>1, <2>2, ReplaceSound
<1> HIDE DEF r
<1>4. Ended(eng, replaces', r)
  BY <1>3, <1>6
<1>5. call' = "replace" /\ eng' = r.eng /\ err' = r.err
  BY DEF ReplaceCall, Returns, r
<1> QED BY <1>2, <1>3, <1>4, <1>5 DEF SessionInv, Ended

\* The venue's and the operator's own steps keep it.
LEMMA OtherCallInv ==
  ASSUME SessionInv, TickCall \/ DisconnectVenue \/ ReconnectVenue \/ ClearKill
  PROVE  SessionInv'
<1>1. Inv(eng, replaces) /\ DOMAIN eng.orders \subseteq 1 .. MaxOrders
      /\ replaces \in [1 .. MaxOrders -> Nat]
  BY DEF SessionInv
<1>2. /\ Inv(eng', replaces) /\ DOMAIN eng'.orders = DOMAIN eng.orders
      /\ call' \in {"tick", "other"} /\ err' # "Ledger" /\ replaces' = replaces
  <2>1. CASE TickCall
    BY <1>1, <2>1, TickSound DEF TickCall, Returns, Errors
  <2>2. CASE DisconnectVenue
    BY <1>1, <2>2, DisconnectSound DEF DisconnectVenue, Returns, Ok
  <2>3. CASE ReconnectVenue
    BY <1>1, <2>3, ReconnectSound DEF ReconnectVenue, Returns, Ok
  <2>4. CASE ClearKill
    <3>1. eng' = [eng EXCEPT !.kill = FALSE] /\ call' = "other" /\ err' = "none" /\ replaces' = replaces
      BY <2>4 DEF ClearKill, Returns, Ok
    <3> QED BY <1>1, <3>1, ClearKillSound
  <2> QED BY <2>1, <2>2, <2>3, <2>4
<1> QED BY <1>1, <1>2 DEF SessionInv

\* Every step keeps it.
LEMMA NextInv ==
  ASSUME Disciplined, SessionInv, [Next]_vars
  PROVE  SessionInv'
<1>1. CASE \E req \in Requests : SubmitCall(req)
  BY <1>1, SubmitCallInv
<1>2. CASE \E id \in 1 .. MaxOrders : CancelCall(id)
  BY <1>2, CancelCallInv
<1>3. CASE \E id \in 1 .. MaxOrders, qty \in Lots, price \in Prices : ReplaceCall(id, qty, price)
  BY <1>3, ReplaceCallInv
<1>4. CASE TickCall \/ DisconnectVenue \/ ReconnectVenue \/ ClearKill
  BY <1>4, OtherCallInv
<1>5. CASE UNCHANGED vars
  BY <1>5 DEF vars, SessionInv
<1> QED BY <1>1, <1>2, <1>3, <1>4, <1>5 DEF Next

\* Whatever the faults of the venue, orders, reserves, ledger, idempotency keys and the stream
\* of reports agree between any two calls of the engine (PaperTradingEngine).
THEOREM SessionHolds == ASSUME Disciplined PROVE Spec => []SessionInv
<1>1. Init => SessionInv
  BY InitInv
<1>2. SessionInv /\ [Next]_vars => SessionInv'
  BY NextInv
<1> QED BY <1>1, <1>2, PTL DEF Spec

\* The sums of the properties are those of the invariant.
LEMMA SumsAgree ==
  ASSUME SessionInv, NEW a \in Accounts
  PROVE  /\ OrdersOf(a) = In(eng, a)
         /\ HeldCash = CashOf(eng) /\ HeldLots = LotsOf(eng)
         /\ NetFills(a) = SumFunctionOnSet(NetOf(eng), In(eng, a))
         /\ Backed(eng, a)
<1>1. OrdersOf(a) = In(eng, a)
  BY DEF OrdersOf, In
<1>2. HeldCash = CashOf(eng) /\ HeldLots = LotsOf(eng)
  BY DEF HeldCash, HeldLots, CashOf, LotsOf
<1>3. [id \in DOMAIN eng.orders |-> Signed(id, eng.orders[id].cum)] = NetOf(eng)
  BY DEF Signed, NetOf, Net
<1>4. Backed(eng, a)
  BY DEF SessionInv, Inv, AllOk, BookOk
<1> QED BY <1>1, <1>2, <1>3, <1>4 DEF NetFills

\* Every position is the net of what its orders have filled: no fill is booked twice or lost,
\* however reports are dropped, doubled, delayed or reordered (apply_report, settle_fill).
THEOREM PositionHolds == ASSUME Disciplined PROVE Spec => []PositionIsNetFills
<1>1. SessionInv => PositionIsNetFills
  BY SumsAgree, Zenon DEF PositionIsNetFills, Backed
<1> QED BY <1>1, SessionHolds, PTL

\* What the ledger has reserved is what the working orders hold back, and reserved lots are in
\* the position (reserve_for, release_remaining, settle_fill).
THEOREM BackedHolds == ASSUME Disciplined PROVE Spec => []ReserveBacked
<1>1. SessionInv => ReserveBacked
  BY SumsAgree, Zenon DEF ReserveBacked, Backed
<1> QED BY <1>1, SessionHolds, PTL

\* A finished order holds nothing back and a working one exactly what its leaves call for
\* (release_remaining on every terminal event, settle_fill on every trade).
THEOREM HeldHolds == ASSUME Disciplined PROVE Spec => []HeldIsNeeded
<1>1. ASSUME SessionInv PROVE HeldIsNeeded
  <2>1. OrdersOk(eng)
    BY <1>1 DEF SessionInv, Inv, AllOk
  <2>2. ASSUME NEW id \in DOMAIN eng.orders, eng.orders[id].status \in IsTerminal
        PROVE  id \notin DOMAIN eng.remCash \cup DOMAIN eng.remLots
    <3>1. GetOrZero(eng.remCash, id) = 0 /\ GetOrZero(eng.remLots, id) = 0
      BY <2>1, <2>2 DEF OrdersOk, Holds, ReserveOk
    <3>2. PositiveOn(eng.remCash, DOMAIN eng.orders) /\ PositiveOn(eng.remLots, DOMAIN eng.orders)
      BY <2>1 DEF OrdersOk
    <3>3. id \notin DOMAIN eng.remCash
      BY <3>1, <3>2, ReserveNat
    <3>4. id \notin DOMAIN eng.remLots
      BY <3>1, <3>2, ReserveNat
    <3> QED BY <3>3, <3>4
  <2>3. WorkingIsCovered
    BY <2>1 DEF WorkingIsCovered, OrdersOk, Holds, ReserveOk
  <2> QED BY <2>2, <2>3 DEF HeldIsNeeded, TerminalHoldsNothing
<1> QED BY <1>1, SessionHolds, PTL

\* No submit fails in the ledger: what the risk and cover checks let through it can reserve
\* and, when reports come in, release and settle (place_order, apply_effects).
THEOREM ApprovedHolds == ASSUME Disciplined PROVE Spec => []ApprovedIsReserved
<1>1. SessionInv => ApprovedIsReserved
  BY DEF SessionInv, ApprovedIsReserved
<1> QED BY <1>1, SessionHolds, PTL

\* A call that returned without error has read every report it could (drain and recover).
THEOREM CaughtHolds == ASSUME Disciplined PROVE Spec => []CaughtUp
<1>1. ASSUME SessionInv, call \in {"submit", "cancel", "replace"}, err = "none",
             NEW k \in DOMAIN eng.venue.history, eng.venue.history[k].seq >= eng.nextSeq
      PROVE  IsWaiting(eng.venue.history[k])
  <2>1. Awaited(eng.venue, eng.venue.history[k])
    BY <1>1 DEF SessionInv, Caught
  <2> QED BY <2>1 DEF Awaited, IsWaiting, Waiting
<1>2. SessionInv => CaughtUp
  BY <1>1 DEF CaughtUp
<1> QED BY <1>2, SessionHolds, PTL

\* A clean reconciliation means that the venue's trades and the positions agree
\* (reconcile_session).
THEOREM CleanHolds == ASSUME Disciplined PROVE Spec => []CleanMeansSettled
<1>1. ASSUME SessionInv, Reconcile(eng) = {}, eng.venue.session = 1 \/ VenueTrades(eng.venue) # {},
             NEW a \in Accounts
      PROVE  eng.book.position[a] = VenueNet(a)
  <2> DEFINE trades == {r \in VenueTrades(eng.venue) : r.order \in OrdersOf(a)}
  <2>1. OrdersOf(a) = In(eng, a) /\ SettledOk(eng)
    BY <1>1, SumsAgree DEF SessionInv, Inv, StreamOk
  <2>2. \A r \in VenueTrades(eng.venue) : Seen(eng, r)
    BY <1>1 DEF Reconcile, DropCopyMismatches
  <2>3. VenueTrades(eng.venue) # {} => SeenExecs(eng) \subseteq TradeExecs(eng.venue)
    BY <1>1 DEF Reconcile, DropCopyMismatches, TradeExecs
  <2>4. SessionOnly(eng, a)
    <3>1. CASE eng.venue.session = 1
      BY <2>1, <3>1 DEF SettledOk
    <3>2. CASE VenueTrades(eng.venue) # {}
      BY <2>3, <3>2 DEF SessionOnly, SeenExecs, In
    <3> QED BY <1>1, <3>1, <3>2
  <2>5. eng.book.position[a] = SeenNet(eng, a)
    BY <2>1, <2>4 DEF SettledOk
  <2>6. SeenTrades(eng, a) = trades
    BY <2>1, <2>2 DEF SeenTrades, Seen
  <2>7. [r \in trades |-> Signed(r.order, r.qty)] = [r \in trades |-> SignedOf(eng, r)]
    BY DEF Signed, SignedOf
  <2> QED BY <2>5, <2>6, <2>7 DEF SeenNet, VenueNet
<1>2. SessionInv => CleanMeansSettled
  BY <1>1, Zenon DEF CleanMeansSettled
<1> QED BY <1>2, SessionHolds, PTL
=============================================================================
