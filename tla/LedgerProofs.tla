---------------------------- MODULE LedgerProofs ----------------------------
(***************************************************************************)
(* For a caller that settles an order once, the columns of stock_items are *)
(* what the reservations say (LedgerExact), no more is promised than was   *)
(* on sale, and the service implements StockLedger, for any number of      *)
(* orders, products, lines, replicas and messages.                         *)
(*                                                                         *)
(* The argument is about sums over lines and over orders.  A sum is a fold *)
(* defined by recursion over a finite set; what is proved of it by         *)
(* induction here is stated of the set of the sizes for which it holds,    *)
(* which contains 0 and the successor of each member (NatInd).  The rest   *)
(* is LInv: the row a transaction has written is the committed one with    *)
(* the lines it is past, so the commit moves by the demand of the order    *)
(* both the columns and what the reservations add up to.                   *)
(***************************************************************************)
EXTENDS InventoryLedger, InventoryProofs, FiniteSetTheorems, WellFoundedInduction

-----------------------------------------------------------------------------
(* Induction over the natural numbers, as a set.                           *)

\* A set of natural numbers that is not empty has a least member.
LEMMA Least ==
    ASSUME NEW T, T \subseteq Nat, T # {}
    PROVE  \E n \in T : \A m \in T : n <= m
<1> DEFINE R == OpToRel(<, Nat)
<1>1. IsWellFoundedOn(R, Nat)
  BY NatLessThanWellFounded
<1>2. \E n \in T : \A m \in T : ~(<<m, n>> \in R)
  <2> HIDE DEF R
  <2> QED BY <1>1, WFMin
<1>3. \A m, n \in Nat : m < n => <<m, n>> \in R
  BY DEF OpToRel
<1>4. PICK n \in T : \A m \in T : ~(<<m, n>> \in R)
  BY <1>2
<1>5. ASSUME NEW m \in T PROVE ~(m < n)
  <2>1. m \in Nat /\ n \in Nat
    OBVIOUS
  <2> HIDE DEF R
  <2> QED BY <1>3, <1>4, <2>1
<1>6. \A m \in T : n <= m
  <2> HIDE DEF R
  <2> QED BY <1>5
<1> HIDE DEF R
<1> QED BY <1>6

\* A set that has 0, and the successor of each number it has, has every number.
LEMMA NatInd ==
    ASSUME NEW G, 0 \in G, \A n \in Nat : n \in G => n + 1 \in G
    PROVE  Nat \subseteq G
<1> SUFFICES ASSUME ~(Nat \subseteq G) PROVE FALSE
  OBVIOUS
<1> DEFINE T == {n \in Nat : n \notin G}
<1>1. PICK n \in T : \A m \in T : n <= m
  <2>1. T \subseteq Nat /\ T # {}
    OBVIOUS
  <2> HIDE DEF T
  <2> QED BY <2>1, Least
<1>2. n \in Nat /\ n # 0 /\ n \notin G
  OBVIOUS
<1>3. n - 1 \in Nat /\ n - 1 \notin T
  BY <1>1, <1>2
<1>4. n - 1 \in G
  BY <1>3
<1> QED BY <1>2, <1>3, <1>4

-----------------------------------------------------------------------------
(* Sums over finite sets.                                                  *)

\* The element the fold of the community modules takes first.
Pick(s) == CHOOSE x \in s : TRUE

\* g adds the values of f over each set of D, an element at a time.
Adds(g, f, D) == g = [s \in D |-> IF s = {} THEN 0 ELSE f[Pick(s)] + g[s \ {Pick(s)}]]

\* SumFunctionOnSet is such a function, if there is one.
LEMMA Unfold ==
    ASSUME NEW f, NEW S, \E g : Adds(g, f, SUBSET S)
    PROVE  \E g : Adds(g, f, SUBSET S) /\ SumFunctionOnSet(f, S) = g[S]
<1> DEFINE g == CHOOSE g : g = [s \in SUBSET S |-> IF s = {} THEN 0
                                                   ELSE f[Pick(s)] + g[s \ {Pick(s)}]]
<1>1. g = [s \in SUBSET S |-> IF s = {} THEN 0 ELSE f[Pick(s)] + g[s \ {Pick(s)}]]
  BY DEF Adds
<1>2. SumFunctionOnSet(f, S) = g[S]
  BY DEF SumFunctionOnSet, FoldFunctionOnSet, MapThenFoldSet, Pick
<1> QED BY <1>1, <1>2 DEF Adds

\* The element picked is one of the set.
LEMMA PickIn ==
    ASSUME NEW s, s # {}
    PROVE  Pick(s) \in s
BY DEF Pick

\* A subset without one of its elements is smaller by one.
LEMMA Smaller ==
    ASSUME NEW S, IsFiniteSet(S), NEW T \in SUBSET S, NEW x \in T
    PROVE  /\ IsFiniteSet(T) /\ Cardinality(T) \in Nat
           /\ T \ {x} \in SUBSET S /\ Cardinality(T \ {x}) = Cardinality(T) - 1
BY FS_Subset, FS_RemoveElement, FS_CardinalityType

\* There is one: each size of subsets extends the function of the sizes below.
LEMMA AddsExists ==
    ASSUME NEW f, NEW S, IsFiniteSet(S)
    PROVE  \E g : Adds(g, f, SUBSET S)
<1> DEFINE P(n) == {s \in SUBSET S : Cardinality(s) <= n}
           G == {n \in Nat : \E g : Adds(g, f, P(n))}
<1>0. \A s \in SUBSET S : IsFiniteSet(s) /\ Cardinality(s) \in Nat
  BY FS_Subset, FS_CardinalityType
<1>1. 0 \in G
  <2>1. \A s \in P(0) : s = {}
    BY <1>0, FS_EmptySet
  <2> DEFINE g == [s \in P(0) |-> 0]
  <2>2. Adds(g, f, P(0))
    BY <2>1 DEF Adds
  <2> QED BY <2>2
<1>2. ASSUME NEW n \in Nat, n \in G PROVE n + 1 \in G
  <2>1. PICK g : Adds(g, f, P(n))
    BY <1>2
  <2> DEFINE h == [s \in P(n + 1) |-> IF s = {} THEN 0 ELSE f[Pick(s)] + g[s \ {Pick(s)}]]
  <2>2. \A s \in P(n) : s \in P(n + 1) /\ h[s] = g[s]
    <3>1. \A s \in P(n) : s \in P(n + 1)
      BY <1>0
    <3>2. \A s \in P(n) : g[s] = IF s = {} THEN 0 ELSE f[Pick(s)] + g[s \ {Pick(s)}]
      BY <2>1, Zenon DEF Adds
    <3>3. \A s \in P(n + 1) : h[s] = IF s = {} THEN 0 ELSE f[Pick(s)] + g[s \ {Pick(s)}]
      OBVIOUS
    <3> HIDE DEF P, h
    <3> QED BY <3>1, <3>2, <3>3
  <2>3. ASSUME NEW s \in P(n + 1), s # {} PROVE s \ {Pick(s)} \in P(n)
    <3>1. /\ IsFiniteSet(s) /\ Cardinality(s) \in Nat
          /\ s \ {Pick(s)} \in SUBSET S /\ Cardinality(s \ {Pick(s)}) = Cardinality(s) - 1
      <4> s \in SUBSET S /\ Pick(s) \in s
        BY <2>3, PickIn
      <4> QED BY Smaller
    <3> QED BY <3>1
  <2>4. Adds(h, f, P(n + 1))
    <3>1. ASSUME NEW s \in P(n + 1), s # {} PROVE h[s \ {Pick(s)}] = g[s \ {Pick(s)}]
      BY <2>2, <2>3, <3>1
    <3> HIDE DEF P
    <3> QED BY <3>1 DEF Adds
  <2>5. \E k : Adds(k, f, P(n + 1))
    <3> HIDE DEF h, P
    <3> QED BY <2>4
  <2> HIDE DEF P
  <2> QED BY <2>5
<1>3. Nat \subseteq G
  <2> HIDE DEF G
  <2> QED BY <1>1, <1>2, NatInd
<1>4. P(Cardinality(S)) = SUBSET S
  BY FS_Subset, <1>0
<1>5. Cardinality(S) \in G
  BY <1>3, <1>0, FS_CardinalityType
<1>6. \E g : Adds(g, f, P(Cardinality(S)))
  BY <1>5
<1> QED BY <1>4, <1>6

\* There is no other.
LEMMA AddsUnique ==
    ASSUME NEW f, NEW S, IsFiniteSet(S), NEW g, NEW h,
           Adds(g, f, SUBSET S), Adds(h, f, SUBSET S)
    PROVE  \A s \in SUBSET S : g[s] = h[s]
<1> DEFINE G == {n \in Nat : \A s \in SUBSET S : Cardinality(s) = n => g[s] = h[s]}
<1>0. \A s \in SUBSET S : IsFiniteSet(s) /\ Cardinality(s) \in Nat
  BY FS_Subset, FS_CardinalityType
<1>1. \A s \in SUBSET S : /\ g[s] = IF s = {} THEN 0 ELSE f[Pick(s)] + g[s \ {Pick(s)}]
                          /\ h[s] = IF s = {} THEN 0 ELSE f[Pick(s)] + h[s \ {Pick(s)}]
  BY Zenon DEF Adds
<1>2. 0 \in G
  BY <1>0, <1>1, FS_EmptySet
<1>3. ASSUME NEW n \in Nat, n \in G PROVE n + 1 \in G
  <2> SUFFICES ASSUME NEW s \in SUBSET S, Cardinality(s) = n + 1 PROVE g[s] = h[s]
    OBVIOUS
  <2>1. s # {}
    BY FS_EmptySet
  <2>2. Pick(s) \in s
    BY <2>1, PickIn
  <2>3. s \ {Pick(s)} \in SUBSET S /\ Cardinality(s \ {Pick(s)}) = n
    BY <2>2, Smaller
  <2>4. g[s \ {Pick(s)}] = h[s \ {Pick(s)}]
    BY <1>3, <2>3
  <2> QED BY <1>1, <2>1, <2>4
<1>4. Nat \subseteq G
  <2> HIDE DEF G
  <2> QED BY <1>2, <1>3, NatInd
<1> QED BY <1>0, <1>4

\* The sum over no element.
LEMMA SumEmpty ==
    ASSUME NEW f
    PROVE  SumFunctionOnSet(f, {}) = 0
<1>1. PICK g : Adds(g, f, SUBSET {}) /\ SumFunctionOnSet(f, {}) = g[{}]
  BY FS_EmptySet, AddsExists, Unfold
<1> QED BY <1>1, Zenon DEF Adds

\* A sum is the value of the element picked and the sum over the others.
LEMMA SumPick ==
    ASSUME NEW f, NEW S, IsFiniteSet(S), S # {}
    PROVE  SumFunctionOnSet(f, S) = f[Pick(S)] + SumFunctionOnSet(f, S \ {Pick(S)})
<1>0. PICK T : T = S \ {Pick(S)}
  OBVIOUS
<1>1. IsFiniteSet(T) /\ T \in SUBSET S
  BY <1>0, FS_RemoveElement
<1>2. PICK g : Adds(g, f, SUBSET S) /\ SumFunctionOnSet(f, S) = g[S]
  BY AddsExists, Unfold
<1>3. PICK h : Adds(h, f, SUBSET T) /\ SumFunctionOnSet(f, T) = h[T]
  BY <1>1, AddsExists, Unfold
<1> DEFINE k == [s \in SUBSET T |-> g[s]]
<1>4. \A s \in SUBSET S : g[s] = IF s = {} THEN 0 ELSE f[Pick(s)] + g[s \ {Pick(s)}]
  BY <1>2, Zenon DEF Adds
<1>5. Adds(k, f, SUBSET T)
  <2>1. \A s \in SUBSET T : s \in SUBSET S /\ s \ {Pick(s)} \in SUBSET T
    BY <1>1
  <2> QED BY <1>4, <2>1 DEF Adds
<1>6. k[T] = h[T]
  <2> HIDE DEF k
  <2> QED BY <1>1, <1>3, <1>5, AddsUnique
<1> QED BY <1>0, <1>2, <1>3, <1>4, <1>6

\* A sum of integers is an integer.
LEMMA SumType ==
    ASSUME NEW f, NEW S, IsFiniteSet(S), \A x \in S : f[x] \in Int
    PROVE  SumFunctionOnSet(f, S) \in Int
<1> DEFINE G == {n \in Nat : \A s \in SUBSET S :
                            Cardinality(s) = n => SumFunctionOnSet(f, s) \in Int}
<1>0. \A s \in SUBSET S : IsFiniteSet(s) /\ Cardinality(s) \in Nat
  BY FS_Subset, FS_CardinalityType
<1>1. 0 \in G
  BY <1>0, FS_EmptySet, SumEmpty
<1>2. ASSUME NEW n \in Nat, n \in G PROVE n + 1 \in G
  <2> SUFFICES ASSUME NEW s \in SUBSET S, Cardinality(s) = n + 1
               PROVE  SumFunctionOnSet(f, s) \in Int
    OBVIOUS
  <2>1. Pick(s) \in s
    BY PickIn, FS_EmptySet
  <2>2. s \ {Pick(s)} \in SUBSET S /\ Cardinality(s \ {Pick(s)}) = n
    BY <2>1, Smaller
  <2>3. SumFunctionOnSet(f, s) = f[Pick(s)] + SumFunctionOnSet(f, s \ {Pick(s)})
    BY <1>0, <2>1, SumPick
  <2>4. SumFunctionOnSet(f, s \ {Pick(s)}) \in Int
    BY <1>2, <2>2
  <2> QED BY <2>1, <2>3, <2>4
<1>3. Nat \subseteq G
  <2> HIDE DEF G
  <2> QED BY <1>1, <1>2, NatInd
<1> QED BY <1>0, <1>3

\* The order does not matter: any element can be taken out of a sum.
LEMMA SumRemove ==
    ASSUME NEW f, NEW S, IsFiniteSet(S), \A x \in S : f[x] \in Int, NEW x \in S
    PROVE  SumFunctionOnSet(f, S) = f[x] + SumFunctionOnSet(f, S \ {x})
<1> DEFINE Law(s, y) == SumFunctionOnSet(f, s) = f[y] + SumFunctionOnSet(f, s \ {y})
           G == {n \in Nat : \A s \in SUBSET S : Cardinality(s) = n => \A y \in s : Law(s, y)}
<1>0. \A s \in SUBSET S : IsFiniteSet(s) /\ Cardinality(s) \in Nat
  BY FS_Subset, FS_CardinalityType
<1>1. 0 \in G
  BY <1>0, FS_EmptySet
<1>2. ASSUME NEW n \in Nat, n \in G PROVE n + 1 \in G
  <2>0. SUFFICES ASSUME NEW s \in SUBSET S, Cardinality(s) = n + 1, NEW y \in s
                PROVE  Law(s, y)
    <3> HIDE DEF Law
    <3> QED OBVIOUS
  <2>1. PICK z \in s : z = Pick(s)
    BY PickIn
  <2>2. Law(s, z)
    BY <1>0, <2>1, SumPick
  <2>3. CASE y = z
    BY <2>2, <2>3
  <2>4. CASE y # z
    <3> PICK a, b, c : a = s \ {z} /\ b = s \ {y} /\ c = s \ {y, z}
      OBVIOUS
    <3>1. /\ a \in SUBSET S /\ b \in SUBSET S /\ c \in SUBSET S
          /\ Cardinality(a) = n /\ Cardinality(b) = n
          /\ y \in a /\ z \in b /\ a \ {y} = c /\ b \ {z} = c
      BY <2>0, <2>4, Smaller
    <3>2. Law(a, y) /\ Law(b, z)
      BY <1>2, <3>1
    <3>3. f[y] \in Int /\ f[z] \in Int /\ SumFunctionOnSet(f, c) \in Int
      BY <1>0, <3>1, SumType
    <3> QED BY <2>2, <3>1, <3>2, <3>3
  <2> QED BY <2>3, <2>4
<1>3. Nat \subseteq G
  <2> HIDE DEF G
  <2> QED BY <1>1, <1>2, NatInd
<1>4. Cardinality(S) \in G
  <2> HIDE DEF G
  <2> QED BY <1>0, <1>3
<1>5. \A y \in S : Law(S, y)
  <2> HIDE DEF Law
  <2> QED BY <1>4
<1> QED BY <1>5

\* The sum over two sets without a common element.
LEMMA SumUnion ==
    ASSUME NEW f, NEW S, IsFiniteSet(S), NEW T, IsFiniteSet(T), S \cap T = {},
           \A x \in S \cup T : f[x] \in Int
    PROVE  SumFunctionOnSet(f, S \cup T) = SumFunctionOnSet(f, S) + SumFunctionOnSet(f, T)
<1> DEFINE Law(s) == SumFunctionOnSet(f, S \cup s) = SumFunctionOnSet(f, S) + SumFunctionOnSet(f, s)
           G == {n \in Nat : \A s \in SUBSET T : Cardinality(s) = n => Law(s)}
<1>0. \A s \in SUBSET T : /\ IsFiniteSet(s) /\ Cardinality(s) \in Nat /\ IsFiniteSet(S \cup s)
                         /\ SumFunctionOnSet(f, s) \in Int
  <2> SUFFICES ASSUME NEW s \in SUBSET T
               PROVE  /\ IsFiniteSet(s) /\ Cardinality(s) \in Nat /\ IsFiniteSet(S \cup s)
                      /\ SumFunctionOnSet(f, s) \in Int
    OBVIOUS
  <2>1. IsFiniteSet(s) /\ Cardinality(s) \in Nat
    BY FS_Subset, FS_CardinalityType
  <2> QED BY <2>1, FS_Union, SumType
<1>1. SumFunctionOnSet(f, S) \in Int
  BY SumType
<1>2. 0 \in G
  <2>1. Law({})
    BY <1>1, SumEmpty
  <2>2. \A s \in SUBSET T : Cardinality(s) = 0 => s = {}
    BY <1>0, FS_EmptySet
  <2> HIDE DEF Law
  <2> QED BY <2>1, <2>2
<1>3. ASSUME NEW n \in Nat, n \in G PROVE n + 1 \in G
  <2>0. SUFFICES ASSUME NEW s \in SUBSET T, Cardinality(s) = n + 1 PROVE Law(s)
    <3> HIDE DEF Law
    <3> QED OBVIOUS
  <2>1. PICK x \in s : TRUE
    BY <2>0, FS_EmptySet
  <2>2. PICK t : t = s \ {x}
    OBVIOUS
  <2>3. t \in SUBSET T /\ Cardinality(t) = n /\ (S \cup s) \ {x} = S \cup t
    BY <2>0, <2>2, Smaller
  <2>4. Law(t)
    BY <1>3, <2>3
  <2>5. SumFunctionOnSet(f, s) = f[x] + SumFunctionOnSet(f, t)
    <3>1. IsFiniteSet(s) /\ \A y \in s : f[y] \in Int
      BY <1>0
    <3> QED BY <2>2, <3>1, SumRemove
  <2>6. SumFunctionOnSet(f, S \cup s) = f[x] + SumFunctionOnSet(f, S \cup t)
    <3>0. PICK u : u = S \cup s
      OBVIOUS
    <3>1. IsFiniteSet(u) /\ x \in u /\ \A y \in u : f[y] \in Int
      BY <1>0, <3>0
    <3>2. SumFunctionOnSet(f, u) = f[x] + SumFunctionOnSet(f, u \ {x})
      BY <3>1, SumRemove
    <3> QED BY <2>3, <3>0, <3>2
  <2>7. f[x] \in Int
    OBVIOUS
  <2> QED BY <1>0, <1>1, <2>3, <2>4, <2>5, <2>6, <2>7
<1>4. Nat \subseteq G
  <2> HIDE DEF G
  <2> QED BY <1>2, <1>3, NatInd
<1>5. Cardinality(T) \in G
  <2> HIDE DEF G
  <2> QED BY <1>0, <1>4
<1>6. Law(T)
  <2> HIDE DEF Law
  <2> QED BY <1>5
<1> QED BY <1>6
-----------------------------------------------------------------------------
(* What the lines a handler is past add up to.                             *)

Quantities(o) == [i \in DOMAIN Items[o] |-> Items[o][i].quantity]

LinesOf(o, p) == {i \in DOMAIN Items[o] : Items[o][i].product = p}

\* Units of p in the lines of o before line k.
Passed(o, p, k) == SumFunctionOnSet(Quantities(o), {i \in LinesOf(o, p) : i < k})

\* The row of p before any transaction touched it; the first one would seed it.
Base(p) == IF stock[p] = NoRow THEN NewRow(DefaultStock) ELSE stock[p]

\* What the operation of r makes of a row with so many units of the order.
After(r, row, units) ==
    [available |-> IF r.op = "confirm" THEN row.available - units ELSE row.available,
     reserved  |-> IF r.op = "reserve" THEN row.reserved + units ELSE row.reserved - units]

\* A row from which more units were deducted.
Less(row, units) == [available |-> row.available - units, reserved |-> row.reserved]

-----------------------------------------------------------------------------
(* The invariant.                                                          *)

Settling(r) == IsSettlement(r) /\ pc[r] \notin {"unsent", "done", "dlq"}

\* A serial caller has one settlement of an order under way at a time, and none
\* to confirm it once one to release it was sent.
Serial ==
    \A r, s \in Requests : r.order = s.order /\ Settling(r) =>
        /\ Settling(s) => r = s
        /\ r.op = "confirm" /\ s.op = "release" => At(s, "unsent")

\* A booking is RELEASED by a request to release it.
ReleaseAsked ==
    \A o \in Orders : reservation[o] = "RELEASED" =>
        \E r \in Requests : r.op = "release" /\ r.order = o /\ ~At(r, "unsent")

\* What a settlement found when it started still holds when it commits.
StillReserved ==
    \A r \in Requests : pc[r] \in InTx /\ IsSettlement(r) => reservation[r.order] = "RESERVED"

\* The uncommitted row of each product is the committed one with the lines its
\* transaction is past and the units it has only deducted, and a transaction is
\* past no line of the other products.
DraftExact(r) ==
    \A p \in Products :
        IF owner[p] = r
        THEN draft[p] = Less(After(r, Base(p), Passed(r.order, p, item[r])), Owed(r, p))
        ELSE /\ Owed(r, p) = 0
             /\ \A i \in LinesOf(r.order, p) : ~(i < item[r])

Drafts ==
    \A r \in Requests :
        /\ pc[r] \in InTx => DraftExact(r)
        /\ pc[r] = "seed" => owner[Product(r)] # r

\* The columns add up, and a product without a row would be seeded whole.
Columns ==
    \A p \in Products :
        /\ Base(p).reserved = Ledger!Booked(p, {"RESERVED"})
        /\ Base(p).available = Capacity[p] - Ledger!Booked(p, {"CONFIRMED"})
        /\ stock[p] = NoRow => InitialStock[p] = NoRow

LInv == IInv /\ Serial /\ ReleaseAsked /\ StillReserved /\ Drafts /\ Columns

-----------------------------------------------------------------------------
(* What the operators of the ledger return.                                *)

\* The demand of an order is a number of units.
LEMMA DemandType ==
    ASSUME NEW o \in Orders, NEW p \in Products
    PROVE  /\ IsFiniteSet(LinesOf(o, p)) /\ \A i \in LinesOf(o, p) : Quantities(o)[i] \in Int
           /\ Demand[o][p] = SumFunctionOnSet(Quantities(o), LinesOf(o, p))
           /\ Demand[o][p] \in Int
<1>1. PICK m \in Nat : DOMAIN Items[o] = 1..m
  BY ItemsAssumption
<1>2. IsFiniteSet(LinesOf(o, p))
  <2>1. IsFiniteSet(1..m)
    BY FS_Interval
  <2> QED BY <1>1, <2>1, FS_Subset DEF LinesOf
<1>3. \A i \in LinesOf(o, p) : Quantities(o)[i] \in Int
  BY LineType DEF LinesOf, Quantities
<1>4. Demand[o][p] = SumFunctionOnSet(Quantities(o), LinesOf(o, p))
  BY DEF Demand, Quantities, LinesOf
<1> QED BY <1>2, <1>3, <1>4, SumType

\* The units passed are the units of no line at first, of all lines at the end.
LEMMA PassedEnds ==
    ASSUME NEW o \in Orders, NEW p \in Products, NEW k
    PROVE  /\ (\A i \in LinesOf(o, p) : ~(i < k)) => Passed(o, p, k) = 0
           /\ (\A i \in LinesOf(o, p) : i < k) => Passed(o, p, k) = Demand[o][p]
           /\ Passed(o, p, k) \in Int
<1> DEFINE S == {i \in LinesOf(o, p) : i < k}
<1>1. IsFiniteSet(S) /\ \A i \in S : Quantities(o)[i] \in Int
  BY DemandType, FS_Subset
<1>2. Passed(o, p, k) \in Int
  <2> HIDE DEF S
  <2>1. SumFunctionOnSet(Quantities(o), S) \in Int
    BY <1>1, SumType
  <2> QED BY <2>1 DEF Passed, S
<1>3. ASSUME \A i \in LinesOf(o, p) : ~(i < k) PROVE Passed(o, p, k) = 0
  <2>1. S = {}
    BY <1>3
  <2> QED BY <2>1, SumEmpty DEF Passed
<1>4. ASSUME \A i \in LinesOf(o, p) : i < k PROVE Passed(o, p, k) = Demand[o][p]
  <2>1. S = LinesOf(o, p)
    BY <1>4
  <2> QED BY <2>1, DemandType DEF Passed
<1> QED BY <1>2, <1>3, <1>4

\* Passing a line adds its units to those of its product.
LEMMA PassedNext ==
    ASSUME NEW o \in Orders, NEW p \in Products, NEW i \in DOMAIN Items[o]
    PROVE  /\ Items[o][i].product = p =>
                Passed(o, p, i + 1) = Passed(o, p, i) + Items[o][i].quantity
           /\ Items[o][i].product # p => \A j \in LinesOf(o, p) : j < i + 1 => j < i
<1> DEFINE S == {j \in LinesOf(o, p) : j < i}
           T == {j \in LinesOf(o, p) : j < i + 1}
<1>1. i \in Nat /\ \A j \in LinesOf(o, p) : j \in Nat
  BY LineType DEF LinesOf
<1>2. ASSUME Items[o][i].product # p, NEW j \in LinesOf(o, p), j < i + 1 PROVE j < i
  <2>1. j # i
    BY <1>2 DEF LinesOf
  <2> QED BY <1>1, <1>2, <2>1
<1>3. ASSUME Items[o][i].product = p
      PROVE  Passed(o, p, i + 1) = Passed(o, p, i) + Items[o][i].quantity
  <2>1. i \in T /\ T \ {i} = S
    BY <1>1, <1>3 DEF LinesOf
  <2>2. IsFiniteSet(T) /\ \A j \in T : Quantities(o)[j] \in Int
    BY DemandType, FS_Subset
  <2>3. SumFunctionOnSet(Quantities(o), T) = Quantities(o)[i] + SumFunctionOnSet(Quantities(o), S)
    <3> HIDE DEF S, T
    <3> QED BY <2>1, <2>2, SumRemove
  <2>4. Quantities(o)[i] = Items[o][i].quantity /\ Items[o][i].quantity \in Int
    BY LineType DEF Quantities
  <2>5. Passed(o, p, i) = SumFunctionOnSet(Quantities(o), S) /\ Passed(o, p, i) \in Int
    BY PassedEnds DEF Passed
  <2>6. Passed(o, p, i + 1) = SumFunctionOnSet(Quantities(o), T)
    BY DEF Passed
  <2> HIDE DEF S, T
  <2> QED BY <2>3, <2>4, <2>5, <2>6
<1> QED BY <1>2, <1>3

\* The units of p that the orders with one of the statuses booked.
BookedIn(b, p, statuses) ==
    SumFunctionOnSet([o \in Orders |-> Demand[o][p]], {o \in Orders : b[o] \in statuses})

\* What the ledger calls booked, before and after a step.
LEMMA LedgerBooked ==
    \A p, statuses : /\ Ledger!Booked(p, statuses) = BookedIn(reservation, p, statuses)
                     /\ Ledger!Booked(p, statuses)' = BookedIn(reservation', p, statuses)
BY DEF Ledger!Booked, BookedIn, SumFunctionOnSet, FoldFunctionOnSet, MapThenFoldSet,
       Ledger!SumFunctionOnSet, Ledger!FoldFunctionOnSet, Ledger!MapThenFoldSet

\* A set of orders is finite, and what they ask for are numbers.
LEMMA OrdersSum ==
    ASSUME NEW p \in Products, NEW S \in SUBSET Orders
    PROVE  /\ IsFiniteSet(S)
           /\ \A o \in S : [x \in Orders |-> Demand[x][p]][o] = Demand[o][p] /\ Demand[o][p] \in Int
BY OrdersAssumption, FS_Subset, DemandType

\* What is booked is a number of units.
LEMMA BookedType ==
    ASSUME NEW b, NEW p \in Products, NEW statuses
    PROVE  BookedIn(b, p, statuses) \in Int
<1> DEFINE f == [o \in Orders |-> Demand[o][p]]
           S == {o \in Orders : b[o] \in statuses}
<1>1. IsFiniteSet(S) /\ \A o \in S : f[o] \in Int
  BY OrdersSum
<1>2. SumFunctionOnSet(f, S) \in Int
  <2> HIDE DEF f, S
  <2> QED BY <1>1, SumType
<1> QED BY <1>2 DEF BookedIn

\* Nothing is booked without a reservation.
LEMMA BookedNone ==
    ASSUME NEW b, NEW p \in Products, NEW statuses, \A o \in Orders : b[o] \notin statuses
    PROVE  BookedIn(b, p, statuses) = 0
<1>1. {o \in Orders : b[o] \in statuses} = {}
  OBVIOUS
<1> QED BY <1>1, SumEmpty DEF BookedIn

\* What one order adds to the units booked, and what the others do.
OwnBooked(b, o, p, statuses) == IF b[o] \in statuses THEN Demand[o][p] ELSE 0

OthersBooked(b, o, p, statuses) ==
    SumFunctionOnSet([x \in Orders |-> Demand[x][p]],
                     {x \in Orders \ {o} : b[x] \in statuses})

LEMMA BookedSplit ==
    ASSUME NEW b, NEW o \in Orders, NEW p \in Products, NEW statuses
    PROVE  /\ OwnBooked(b, o, p, statuses) \in Int /\ OthersBooked(b, o, p, statuses) \in Int
           /\ BookedIn(b, p, statuses) =
                 OwnBooked(b, o, p, statuses) + OthersBooked(b, o, p, statuses)
<1> DEFINE f == [x \in Orders |-> Demand[x][p]]
           S == {x \in Orders : b[x] \in statuses}
           T == {x \in Orders \ {o} : b[x] \in statuses}
<1>1. /\ IsFiniteSet(S) /\ \A x \in S : f[x] \in Int
      /\ IsFiniteSet(T) /\ \A x \in T : f[x] \in Int
      /\ f[o] = Demand[o][p] /\ Demand[o][p] \in Int
  BY OrdersSum, DemandType
<1>2. SumFunctionOnSet(f, T) \in Int
  <2> HIDE DEF f, T
  <2> QED BY <1>1, SumType
<1>3. /\ BookedIn(b, p, statuses) = SumFunctionOnSet(f, S)
      /\ OthersBooked(b, o, p, statuses) = SumFunctionOnSet(f, T)
  BY DEF BookedIn, OthersBooked
<1>4. CASE b[o] \in statuses
  <2>1. o \in S /\ S \ {o} = T
    BY <1>4
  <2> HIDE DEF f, S, T
  <2>2. SumFunctionOnSet(f, S) = f[o] + SumFunctionOnSet(f, T)
    BY <1>1, <2>1, SumRemove
  <2> QED BY <1>1, <1>2, <1>3, <1>4, <2>2 DEF OwnBooked
<1>5. CASE b[o] \notin statuses
  <2>1. S = T
    BY <1>5
  <2> HIDE DEF f, S, T
  <2> QED BY <1>2, <1>3, <1>5, <2>1 DEF OwnBooked
<1> QED BY <1>4, <1>5

\* What is booked after one reservation changed.
LEMMA BookedMove ==
    ASSUME NEW b, NEW c, NEW o \in Orders, NEW p \in Products, NEW statuses,
           \A x \in Orders \ {o} : c[x] = b[x]
    PROVE  BookedIn(c, p, statuses) = BookedIn(b, p, statuses)
              - OwnBooked(b, o, p, statuses) + OwnBooked(c, o, p, statuses)
<1>1. {x \in Orders \ {o} : c[x] \in statuses} = {x \in Orders \ {o} : b[x] \in statuses}
  OBVIOUS
<1>2. OthersBooked(c, o, p, statuses) = OthersBooked(b, o, p, statuses)
  BY <1>1 DEF OthersBooked
<1> QED BY <1>2, BookedSplit

\* A booked order is RESERVED or CONFIRMED, not both.
LEMMA BookedBoth ==
    ASSUME NEW b, NEW p \in Products
    PROVE  BookedIn(b, p, {"RESERVED", "CONFIRMED"}) =
              BookedIn(b, p, {"RESERVED"}) + BookedIn(b, p, {"CONFIRMED"})
<1> DEFINE f == [o \in Orders |-> Demand[o][p]]
           S == {o \in Orders : b[o] \in {"RESERVED"}}
           T == {o \in Orders : b[o] \in {"CONFIRMED"}}
<1>1. /\ IsFiniteSet(S) /\ IsFiniteSet(T) /\ S \cap T = {}
      /\ \A o \in S \cup T : f[o] \in Int
  BY OrdersSum
<1>2. SumFunctionOnSet(f, S \cup T) = SumFunctionOnSet(f, S) + SumFunctionOnSet(f, T)
  <2> HIDE DEF f, S, T
  <2> QED BY <1>1, SumUnion
<1>3. {o \in Orders : b[o] \in {"RESERVED", "CONFIRMED"}} = S \cup T
  OBVIOUS
<1> QED BY <1>2, <1>3 DEF BookedIn

-----------------------------------------------------------------------------
(* What the invariant says of the rows a transaction sees.                 *)

\* What was put on sale is a number of units.
LEMMA CapacityType ==
    ASSUME NEW p \in Products
    PROVE  Capacity[p] \in Nat /\ (InitialStock[p] = NoRow => Capacity[p] = DefaultStock)
BY StockAssumption, AbsenceAssumption DEF Capacity

\* The row a transaction starts from is a row.
LEMMA BaseType ==
    ASSUME TypeOK, NEW p \in Products
    PROVE  /\ Base(p) \in Row /\ Base(p).available \in Int /\ Base(p).reserved \in Int
           /\ stock[p] # NoRow => Base(p) = stock[p]
<1>1. NewRow(DefaultStock) \in Row
  BY StockAssumption DEF NewRow, Row
<1>2. Base(p) \in Row /\ (stock[p] # NoRow => Base(p) = stock[p])
  BY <1>1 DEF TypeOK, Base
<1> QED BY <1>2, RowFields

\* What the operations make of a row.
LEMMA AfterFields ==
    ASSUME NEW r \in Requests, NEW row \in Row, NEW n \in Int
    PROVE  /\ After(r, row, n) \in Row
           /\ After(r, row, n).reserved = IF r.op = "reserve" THEN row.reserved + n
                                                            ELSE row.reserved - n
           /\ After(r, row, n).available = IF r.op = "confirm" THEN row.available - n
                                                             ELSE row.available
BY DEF After, Row

\* No unit, no change.
LEMMA AfterNothing ==
    ASSUME NEW r \in Requests, NEW row \in Row
    PROVE  After(r, row, 0) = row
<1>1. row = [available |-> row.available, reserved |-> row.reserved]
      /\ row.available \in Int /\ row.reserved \in Int
  BY DEF Row
<1>2. row.available - 0 = row.available /\ row.reserved - 0 = row.reserved
      /\ row.reserved + 0 = row.reserved
  BY <1>1
<1> QED BY <1>1, <1>2 DEF After

\* What is deducted from a row.
LEMMA LessFields ==
    ASSUME NEW row \in Row, NEW n \in Int
    PROVE  /\ Less(row, n) \in Row /\ Less(row, 0) = row
           /\ Less(row, n).available = row.available - n /\ Less(row, n).reserved = row.reserved
<1>1. row = [available |-> row.available, reserved |-> row.reserved]
      /\ row.available \in Int /\ row.reserved \in Int
  BY DEF Row
<1>2. row.available - 0 = row.available
  BY <1>1
<1> QED BY <1>1, <1>2 DEF Less, Row

\* The row a transaction sees is the committed one with the lines it is past, and
\* it owes units of a row only between the decrements of a line.
LEMMA SeenExact ==
    ASSUME LInv, NEW r \in Requests, pc[r] \in InTx, NEW p \in Products
    PROVE  /\ Visible(r, p) => Seen(r, p) =
                Less(After(r, Base(p), Passed(r.order, p, item[r])), Owed(r, p))
           /\ Visible(r, p) /\ Owed(r, p) = 0 =>
                Seen(r, p) = After(r, Base(p), Passed(r.order, p, item[r]))
           /\ ~Visible(r, p) => Seen(r, p) = NoRow /\ stock[p] = NoRow
           /\ owner[p] # r => Passed(r.order, p, item[r]) = 0
<1>1. DraftExact(r) /\ TypeOK
  BY DEF LInv, Drafts, IInv
<1>2. Passed(r.order, p, item[r]) \in Int /\ Base(p) \in Row
  BY <1>1, RequestType, PassedEnds, BaseType
<1>3. /\ After(r, Base(p), Passed(r.order, p, item[r])) \in Row
      /\ Less(After(r, Base(p), Passed(r.order, p, item[r])), 0)
           = After(r, Base(p), Passed(r.order, p, item[r]))
  BY <1>2, AfterFields, LessFields
<1>4. CASE owner[p] = r
  BY <1>1, <1>3, <1>4 DEF DraftExact, Seen, Visible
<1>5. CASE owner[p] # r
  <2>1. Passed(r.order, p, item[r]) = 0 /\ Owed(r, p) = 0
    BY <1>1, <1>5, RequestType, PassedEnds DEF DraftExact
  <2>2. stock[p] # NoRow => stock[p] = After(r, Base(p), 0)
    BY <1>1, BaseType, AfterNothing
  <2> QED BY <1>3, <1>5, <2>1, <2>2 DEF Seen, Visible
<1> QED BY <1>4, <1>5

-----------------------------------------------------------------------------
(* The invariant is kept: what the step of r leaves of the other handlers. *)

\* The step of r takes no lock from another transaction, and touches neither the
\* row it locks nor its version of it.
Isolated(r) ==
    \A p \in Products : \A s \in Requests \ {r} :
        /\ owner'[p] = s <=> owner[p] = s
        /\ owner[p] = s => draft'[p] = draft[p] /\ stock'[p] = stock[p]

\* What is uncommitted of the other transactions is still exact.
LEMMA OthersDrafts ==
    ASSUME LInv, NEW r \in Requests, Moves(r), Isolated(r), NEW s \in Requests, s # r
    PROVE  /\ pc'[s] = pc[s] /\ item'[s] = item[s]
           /\ pc'[s] \in InTx => DraftExact(s)'
           /\ pc'[s] = "seed" => owner'[Product(s)'] # s
<1>1. pc'[s] = pc[s] /\ item'[s] = item[s]
  BY DEF LInv, IInv, TypeOK, Moves
<1>2. ASSUME pc[s] \in InTx PROVE DraftExact(s)'
  <2>0. \A p \in Products : Owed(s, p)' = Owed(s, p)
    BY <1>1 DEF Owed, Product, Units, Lines
  <2>1. DraftExact(s)
    BY <1>2 DEF LInv, Drafts
  <2>2. ASSUME NEW p \in Products, owner'[p] = s
        PROVE  draft'[p] = Less(After(s, Base(p), Passed(s.order, p, item[s])), Owed(s, p))'
    <3>1. owner[p] = s /\ draft'[p] = draft[p] /\ stock'[p] = stock[p]
      BY <2>2 DEF Isolated
    <3>2. Base(p)' = Base(p)
      BY <3>1 DEF Base
    <3> QED BY <1>1, <2>0, <2>1, <3>1, <3>2 DEF DraftExact, After, Less
  <2>3. ASSUME NEW p \in Products, owner'[p] # s
        PROVE  Owed(s, p)' = 0 /\ \A i \in LinesOf(s.order, p) : ~(i < item'[s])
    BY <1>1, <2>0, <2>1, <2>3 DEF DraftExact, Isolated
  <2> QED BY <2>2, <2>3 DEF DraftExact
<1>3. ASSUME pc[s] = "seed" PROVE owner'[Product(s)'] # s
  <2>1. owner[Product(s)] # s /\ Product(s) \in Products
    BY <1>3, CurrentLine DEF LInv, Drafts, InTx
  <2> QED BY <1>1, <2>1 DEF Isolated, Product, Lines
<1> QED BY <1>1, <1>2, <1>3

\* What the step of a request does to the order in which settlements are asked.
Stays(r) ==
    /\ pc[r] # "unsent" => pc'[r] # "unsent"
    /\ Serial'

\* A step that commits nothing.
LEMMA QuietStep ==
    ASSUME LInv, IInv', NEW r \in Requests, Moves(r), Stays(r), Isolated(r),
           UNCHANGED <<stock, reservation>>,
           pc'[r] \in InTx => DraftExact(r)',
           pc'[r] = "seed" => owner'[Product(r)'] # r,
           pc'[r] \in InTx /\ IsSettlement(r) => reservation[r.order] = "RESERVED"
    PROVE  LInv'
<1>1. \A s \in Requests \ {r} : /\ pc'[s] = pc[s]
                                /\ pc'[s] \in InTx => DraftExact(s)'
                                /\ pc'[s] = "seed" => owner'[Product(s)'] # s
  BY OthersDrafts
<1>2. Serial'
  BY DEF Stays
<1>3. ReleaseAsked'
  <2> SUFFICES ASSUME NEW o \in Orders, reservation'[o] = "RELEASED"
               PROVE  \E s \in Requests : s.op = "release" /\ s.order = o /\ pc'[s] # "unsent"
    BY DEF ReleaseAsked, At
  <2>1. PICK s \in Requests : s.op = "release" /\ s.order = o /\ pc[s] # "unsent"
    BY DEF LInv, ReleaseAsked, At
  <2>2. pc'[s] # "unsent"
    BY <1>1, <2>1 DEF Stays
  <2> QED BY <2>1, <2>2
<1>4. StillReserved'
  <2> SUFFICES ASSUME NEW s \in Requests, pc'[s] \in InTx, IsSettlement(s)
               PROVE  reservation[s.order] = "RESERVED"
    BY DEF StillReserved, IsSettlement
  <2> QED BY <1>1 DEF LInv, StillReserved
<1>5. Drafts'
  BY <1>1 DEF Drafts
<1>6. Columns'
  BY DEF LInv, Columns, Base, Ledger!Booked
<1> QED BY <1>2, <1>3, <1>4, <1>5, <1>6 DEF LInv

\* A handler that does not hold a row leaves the others theirs.
LEMMA UnlockIsolated ==
    ASSUME LInv, NEW r \in Requests, Rollback(r) \/ UNCHANGED db
    PROVE  Isolated(r) /\ UNCHANGED <<stock, reservation>>
<1>1. \A s \in Requests : s # NoTx
  BY RequestType
<1>2. CASE UNCHANGED db
  BY <1>2 DEF db, Isolated
<1>3. CASE Rollback(r)
  BY <1>1, <1>3 DEF Isolated, Rollback, Unlock, LInv, IInv, TypeOK
<1> QED BY <1>2, <1>3

\* The steps that leave the transaction, or were not in one.
LEMMA LeaveStep ==
    ASSUME LInv, IInv', NEW r \in Requests, Moves(r), Stays(r), pc'[r] \notin InTx,
           Rollback(r) \/ UNCHANGED db
    PROVE  LInv'
BY UnlockIsolated, QuietStep DEF InTx

\* A write takes a row nobody else holds.
LEMMA WriteIsolated ==
    ASSUME LInv, NEW r \in Requests, NEW p \in Products, NEW row, Write(r, p, row)
    PROVE  Isolated(r) /\ UNCHANGED <<stock, reservation>>
BY RequestType DEF LInv, IInv, TypeOK, Write, CanLock, Isolated

\* A statement writes the row of the line it is at, and the units it is past are
\* those of the row it wrote.
LEMMA WriteStep ==
    ASSUME LInv, IInv', NEW r \in Requests, Moves(r), Stays(r),
           pc[r] \in InTx, pc'[r] \in InTx \ {"seed"},
           NEW p \in Products, NEW row, Write(r, p, row),
           row = Less(After(r, Base(p), Passed(r.order, p, item'[r])), Owed(r, p)'),
           \A q \in Products \ {p} :
              /\ Owed(r, q)' = Owed(r, q)
              /\ Passed(r.order, q, item'[r]) = Passed(r.order, q, item[r])
              /\ \A i \in LinesOf(r.order, q) : i < item'[r] => i < item[r]
    PROVE  LInv'
<1>1. Isolated(r) /\ UNCHANGED <<stock, reservation>>
  BY WriteIsolated
<1>2. DraftExact(r)'
  <2>1. DraftExact(r)
    BY DEF LInv, Drafts
  <2>2. \A q \in Products : Base(q)' = Base(q)
    BY <1>1 DEF Base
  <2>3. owner' = [owner EXCEPT ![p] = r] /\ draft' = [draft EXCEPT ![p] = row]
        /\ owner \in [Products -> Requests \cup {NoTx}]
        /\ draft \in [Products -> Row \cup {NoRow}]
    BY DEF Write, LInv, IInv, TypeOK
  <2>4. /\ owner'[p] = r
        /\ draft'[p] = Less(After(r, Base(p), Passed(r.order, p, item[r])), Owed(r, p))'
    BY <2>2, <2>3 DEF After, Less
  <2>5. ASSUME NEW q \in Products, q # p, owner'[q] = r
        PROVE  draft'[q] = Less(After(r, Base(q), Passed(r.order, q, item[r])), Owed(r, q))'
    <3>1. owner[q] = r /\ draft'[q] = draft[q]
      BY <2>3, <2>5
    <3>2. Passed(r.order, q, item'[r]) = Passed(r.order, q, item[r]) /\ Owed(r, q)' = Owed(r, q)
      BY <2>5
    <3> QED BY <2>1, <2>2, <2>5, <3>1, <3>2 DEF DraftExact, After, Less
  <2>6. ASSUME NEW q \in Products, q # p, owner'[q] # r
        PROVE  Owed(r, q)' = 0 /\ \A i \in LinesOf(r.order, q) : ~(i < item'[r])
    BY <2>1, <2>3, <2>6 DEF DraftExact
  <2> QED BY <2>4, <2>5, <2>6 DEF DraftExact
<1>3. IsSettlement(r) => reservation[r.order] = "RESERVED"
  BY DEF LInv, StillReserved
<1> QED BY <1>1, <1>2, <1>3, QuietStep

-----------------------------------------------------------------------------
(* The steps, one lemma per shape of action.                               *)

\* A step of a handler asks for nothing.
LEMMA HandlerStays ==
    ASSUME LInv, NEW r \in Requests, Moves(r),
           pc[r] \notin {"unsent", "done", "dlq"}, pc'[r] # "unsent"
    PROVE  Stays(r)
<1>1. \A s \in Requests : /\ s # r => pc'[s] = pc[s]
                          /\ Settling(s)' => Settling(s)
                          /\ pc[s] = "unsent" => pc'[s] = "unsent"
  BY DEF LInv, IInv, TypeOK, Moves, Settling, IsSettlement
<1>2. Serial
  BY DEF LInv
<1>3. Serial'
  BY <1>1, <1>2 DEF Serial, At
<1> QED BY <1>3 DEF Stays

\* The caller sends one settlement of an order at a time.
LEMMA SendStep ==
    ASSUME LInv, IInv', NEW r \in Requests, SerialSend(r)
    PROVE  LInv'
<1>1. Moves(r) /\ pc[r] = "unsent" /\ pc'[r] = "queued" /\ UNCHANGED db
  BY GotoMoves DEF SerialSend, Send, At, LInv, Steps
<1>2. \A s \in Requests \ {r} : pc'[s] = pc[s]
  BY <1>1 DEF LInv, IInv, TypeOK, Moves
<1>3. Serial'
  <2> SUFFICES ASSUME NEW s \in Requests, NEW t \in Requests, s.order = t.order, Settling(s)'
               PROVE  /\ Settling(t)' => s = t
                      /\ s.op = "confirm" /\ t.op = "release" => pc'[t] = "unsent"
    BY DEF Serial, At
  <2>1. IsSettlement(r) => \A q \in Requests \ {r} : q.order = r.order /\ IsSettlement(q) =>
           /\ pc[q] \in {"unsent", "done", "dlq"}
           /\ r.op = "confirm" /\ q.op = "release" => pc[q] = "unsent"
    BY DEF SerialSend, At
  <2>2. CASE s = r /\ t = r
    BY <2>2
  <2>3. CASE s = r /\ t # r
    BY <1>2, <2>1, <2>3 DEF Settling, IsSettlement
  <2>4. CASE s # r /\ t = r
    BY <1>2, <2>1, <2>4 DEF Settling, IsSettlement
  <2>5. CASE s # r /\ t # r
    BY <1>2, <2>5 DEF LInv, Serial, Settling, At
  <2> QED BY <2>2, <2>3, <2>4, <2>5
<1>4. Stays(r)
  BY <1>1, <1>3 DEF Stays
<1> QED BY <1>1, <1>4, LeaveStep DEF InTx

\* The answers with nothing done, the rollbacks and the crashes.
LEMMA EndStep ==
    ASSUME LInv, IInv', NEW r \in Requests, pc[r] \notin {"unsent", "done", "dlq"},
           Rollback(r) \/ UNCHANGED db,
           \/ \E result \in Answers : Answer(r, result)
           \/ NackRedelivered(r) \/ Respond(r) \/ Crash(r)
    PROVE  LInv'
<1>1. Moves(r) /\ pc'[r] \in {"reply", "dlq", "done", "queued"}
  <2>0. IInv
    BY DEF LInv
  <2>1. CASE \E result \in Answers : Answer(r, result)
    BY <2>0, <2>1, AnswerMoves
  <2>2. CASE NackRedelivered(r)
    BY <2>0, <2>2, GotoMoves DEF NackRedelivered, Steps
  <2>3. CASE Respond(r)
    BY <2>0, <2>3 DEF Respond, Moves, IInv, TypeOK, Steps, Answers
  <2>4. CASE Crash(r)
    BY <2>0, <2>4 DEF Crash, Moves, IInv, TypeOK, Steps, Answers
  <2> QED BY <2>1, <2>2, <2>3, <2>4
<1>2. Stays(r)
  BY <1>1, HandlerStays
<1> QED BY <1>1, <1>2, LeaveStep DEF InTx

\* The start of a transaction: no line is handled, no row is locked, and an order
\* about to be settled is RESERVED, because its release was not asked for before.
LEMMA StartStep ==
    ASSUME LInv, IInv', NEW r \in Requests, pc[r] = "queued", UNCHANGED db,
           NEW step \in {"ensure", "deduct", "unreserve"}, GotoLine(r, 1, step),
           step = "unreserve" => r.op # "confirm",
           IsSettlement(r) => \/ reservation[r.order] = "RESERVED"
                              \/ r.op = "confirm" /\ reservation[r.order] = "RELEASED"
    PROVE  LInv'
<1>1. Moves(r) /\ item'[r] = 1 /\ pc'[r] \in {step, "save"}
  BY GotoLineMoves DEF LInv, Steps, InTx
<1>2. Stays(r)
  BY <1>1, HandlerStays
<1>3. Isolated(r) /\ UNCHANGED <<stock, reservation>>
  BY UnlockIsolated
<1>4. DraftExact(r)'
  <2>1. \A p \in Products : owner'[p] # r
    BY OutsideTx DEF LInv, HoldsNothing, InTx, db
  <2>2. \A p \in Products : \A i \in LinesOf(r.order, p) : i \in Nat \ {0}
    <3>1. PICK m \in Nat : DOMAIN Items[r.order] = 1..m
      BY RequestType, ItemsAssumption
    <3> QED BY <3>1 DEF LinesOf
  <2>3. \A p \in Products : Owed(r, p)' = 0
    BY <1>1 DEF Owed
  <2> QED BY <1>1, <2>1, <2>2, <2>3 DEF DraftExact
<1>5. IsSettlement(r) => reservation[r.order] = "RESERVED"
  <2> SUFFICES ASSUME r.op = "confirm", reservation[r.order] = "RELEASED" PROVE FALSE
    OBVIOUS
  <2>1. PICK s \in Requests : s.op = "release" /\ s.order = r.order /\ pc[s] # "unsent"
    BY RequestType DEF LInv, ReleaseAsked, At
  <2>2. Settling(r)
    BY DEF Settling, IsSettlement
  <2> QED BY <2>1, <2>2 DEF LInv, Serial, At
<1> QED BY <1>1, <1>2, <1>3, <1>4, <1>5, QuietStep

\* The lookups answer or start.
LEMMA LookupLedger ==
    ASSUME LInv, IInv', NEW r \in Requests,
           ReserveLookup(r) \/ ConfirmLookup(r) \/ ReleaseLookup(r)
    PROVE  LInv'
<1>1. pc[r] = "queued" /\ UNCHANGED db
  BY DEF ReserveLookup, ConfirmLookup, ReleaseLookup, At
<1>2. CASE \E result \in Answers : Answer(r, result)
  BY <1>1, <1>2, EndStep
<1>3. CASE /\ GotoLine(r, 1, "ensure") /\ r.op = "reserve"
  BY <1>1, <1>3, StartStep DEF IsSettlement
<1>4. CASE /\ \/ GotoLine(r, 1, "deduct")
              \/ GotoLine(r, 1, "unreserve") /\ r.op = "release"
           /\ \/ reservation[r.order] = "RESERVED"
              \/ r.op = "confirm" /\ reservation[r.order] = "RELEASED"
  BY <1>1, <1>4, StartStep
<1>5. CASE ReserveLookup(r)
  BY <1>2, <1>3, <1>5 DEF ReserveLookup, Answers
<1>6. CASE ConfirmLookup(r)
  BY <1>2, <1>4, <1>6 DEF ConfirmLookup, Answers
<1>7. CASE ReleaseLookup(r)
  BY <1>2, <1>4, <1>7 DEF ReleaseLookup, Answers
<1> QED BY <1>5, <1>6, <1>7

\* The quantity check and the findOne of ensureStockExists.
LEMMA EnsureLedger ==
    ASSUME LInv, IInv', NEW r \in Requests, EnsureStock(r)
    PROVE  LInv'
<1>1. pc[r] = "ensure" /\ IInv
  BY DEF EnsureStock, At, LInv
<1>2. CASE Answer(r, "refused") /\ Rollback(r)
  BY <1>1, <1>2, EndStep DEF Answers
<1>3. CASE /\ UNCHANGED db
           /\ Goto(r, IF Seen(r, Product(r)) = NoRow THEN "seed" ELSE "update")
  <2>1. Moves(r) /\ item'[r] = item[r] /\ pc'[r] \in {"seed", "update"}
    BY <1>1, <1>3, GotoMoves DEF Steps, InTx
  <2>2. Stays(r)
    BY <1>1, <2>1, HandlerStays
  <2>3. Isolated(r) /\ UNCHANGED <<stock, reservation>>
    BY <1>3, UnlockIsolated
  <2>4. DraftExact(r)'
    <3>1. DraftExact(r)
      BY <1>1 DEF LInv, Drafts, InTx
    <3>2. r.op = "reserve"
      BY <1>1 DEF IInv, Positions, Position
    <3> QED BY <1>3, <2>1, <3>1, <3>2 DEF DraftExact, db, Base, After, Less, Owed
  <2>5. pc'[r] = "seed" => owner'[Product(r)'] # r
    <3> SUFFICES ASSUME pc'[r] = "seed" PROVE owner[Product(r)] # r
      BY <1>3, <2>1 DEF db, Product, Lines
    <3>1. Seen(r, Product(r)) = NoRow
      BY <1>1, <1>3 DEF Goto, IInv, TypeOK
    <3>2. Product(r) \in Products
      BY <1>1, CurrentLine DEF InTx
    <3>3. owner[Product(r)] # NoTx => draft[Product(r)] # NoRow
      BY <1>1, <3>2 DEF IInv, TypeOK
    <3> QED BY <3>1, <3>3, RequestType DEF Seen
  <2>6. ~IsSettlement(r)
    BY <1>1 DEF IInv, Positions, Position, IsSettlement
  <2> QED BY <2>1, <2>2, <2>3, <2>4, <2>5, <2>6, QuietStep
<1> QED BY <1>2, <1>3 DEF EnsureStock

\* The insert of an unknown product.
LEMMA SeedLedger ==
    ASSUME LInv, IInv', NEW r \in Requests, SeedStock(r)
    PROVE  LInv'
<1>1. pc[r] = "seed" /\ IInv
  BY DEF SeedStock, At, LInv
<1>2. CASE Answer(r, "internal_error") /\ Rollback(r)
  BY <1>1, <1>2, EndStep DEF Answers
<1>3. CASE /\ stock[Product(r)] = NoRow /\ Write(r, Product(r), NewRow(DefaultStock))
           /\ Goto(r, "update")
  <2> PICK p \in Products : p = Product(r)
    BY <1>1, CurrentLine DEF InTx
  <2>1. Moves(r) /\ item'[r] = item[r] /\ pc'[r] = "update"
    BY <1>1, <1>3, GotoMoves DEF Steps, InTx
  <2>2. Stays(r)
    BY <1>1, <2>1, HandlerStays
  <2>3. owner[p] # r
    BY <1>1 DEF LInv, Drafts
  <2>4. Passed(r.order, p, item'[r]) = 0
    BY <1>1, <2>1, <2>3, SeenExact DEF InTx
  <2>5. NewRow(DefaultStock) = After(r, Base(p), 0)
    BY <1>1, <1>3, BaseType, AfterNothing DEF Base, IInv
  <2>6. Write(r, p, NewRow(DefaultStock))
    BY <1>3
  <2>7. \A q \in Products : Owed(r, q) = 0 /\ Owed(r, q)' = 0
    BY <1>1, <2>1 DEF Owed
  <2>8. NewRow(DefaultStock) = Less(After(r, Base(p), 0), 0)
    BY <1>1, <2>5, BaseType, AfterFields, LessFields DEF IInv
  <2> QED BY <1>1, <2>1, <2>2, <2>4, <2>6, <2>7, <2>8, WriteStep DEF InTx
<1> QED BY <1>2, <1>3 DEF SeedStock

\* Passing the line a handler is at.
LEMMA LinePassed ==
    ASSUME LInv, NEW r \in Requests, pc[r] \in {"update", "deduct", "unreserve"}
    PROVE  /\ item[r] + 1 \in Nat \ {0} /\ Product(r) \in Products /\ Units(r) \in Int
           /\ Passed(r.order, Product(r), item[r]) \in Int
           /\ Passed(r.order, Product(r), item[r] + 1) =
                Passed(r.order, Product(r), item[r]) + Units(r)
           /\ \A q \in Products \ {Product(r)} :
                /\ Passed(r.order, q, item[r] + 1) = Passed(r.order, q, item[r])
                /\ \A i \in LinesOf(r.order, q) : i < item[r] + 1 => i < item[r]
<1>1. /\ item[r] \in DOMAIN Items[r.order] /\ item[r] + 1 \in Nat \ {0}
      /\ Product(r) \in Products /\ Units(r) \in Int /\ r.order \in Orders
  BY CurrentLine, RequestType DEF LInv, Lines, InTx
<1>2. Product(r) = Items[r.order][item[r]].product /\ Units(r) = Items[r.order][item[r]].quantity
  BY DEF Product, Units, Lines
<1>3. Passed(r.order, Product(r), item[r] + 1) = Passed(r.order, Product(r), item[r]) + Units(r)
  BY <1>1, <1>2, PassedNext
<1>4. ASSUME NEW q \in Products \ {Product(r)}
      PROVE  /\ Passed(r.order, q, item[r] + 1) = Passed(r.order, q, item[r])
             /\ \A i \in LinesOf(r.order, q) : i < item[r] + 1 => i < item[r]
  <2>1. \A i \in LinesOf(r.order, q) : i < item[r] + 1 => i < item[r]
    BY <1>1, <1>2, PassedNext
  <2>2. \A i \in LinesOf(r.order, q) : i \in Nat /\ item[r] \in Nat
    BY <1>1, LineType DEF LinesOf
  <2>3. {i \in LinesOf(r.order, q) : i < item[r] + 1} = {i \in LinesOf(r.order, q) : i < item[r]}
    BY <2>1, <2>2
  <2> QED BY <2>1, <2>3 DEF Passed
<1> QED BY <1>1, <1>3, <1>4, PassedEnds

\* The conditional update takes the units of a line.
LEMMA TakeLedger ==
    ASSUME LInv, IInv', NEW r \in Requests, TakeStock(r)
    PROVE  LInv'
<1>1. pc[r] = "update" /\ IInv /\ r.op = "reserve" /\ Visible(r, Product(r))
  BY DEF TakeStock, At, LInv, IInv, Positions, Position
<1>2. PICK p \in Products : p = Product(r)
  BY <1>1, CurrentLine DEF InTx
<1>3. /\ Write(r, p, [Seen(r, p) EXCEPT !.reserved = @ + Units(r)])
      /\ GotoLine(r, item[r] + 1, "ensure")
  BY <1>2 DEF TakeStock
<1>4. /\ item[r] + 1 \in Nat \ {0} /\ Units(r) \in Int /\ Passed(r.order, p, item[r]) \in Int
      /\ Passed(r.order, p, item[r] + 1) = Passed(r.order, p, item[r]) + Units(r)
  BY <1>1, <1>2, LinePassed
<1>5. Moves(r) /\ item'[r] = item[r] + 1 /\ pc'[r] \in {"ensure", "save"}
  BY <1>1, <1>3, <1>4, GotoLineMoves DEF Steps, InTx
<1>6. \A q \in Products : Owed(r, q) = 0 /\ Owed(r, q)' = 0
  BY <1>1 DEF Owed
<1>7. [Seen(r, p) EXCEPT !.reserved = @ + Units(r)]
        = Less(After(r, Base(p), Passed(r.order, p, item'[r])), Owed(r, p)')
  <2>1. Base(p).reserved \in Int /\ Base(p).available \in Int
    BY <1>1, BaseType DEF IInv
  <2>2. Seen(r, p) = After(r, Base(p), Passed(r.order, p, item[r]))
    BY <1>1, <1>2, <1>6, SeenExact DEF InTx
  <2>3. Seen(r, p) = [available |-> Base(p).available,
                      reserved |-> Base(p).reserved + Passed(r.order, p, item[r])]
    BY <1>1, <2>2 DEF After
  <2>4. Base(p).available - 0 = Base(p).available
        /\ (Base(p).reserved + Passed(r.order, p, item[r])) + Units(r)
              = Base(p).reserved + Passed(r.order, p, item'[r])
    BY <1>4, <1>5, <2>1
  <2> QED BY <1>1, <1>6, <2>3, <2>4 DEF After, Less
<1>8. Stays(r)
  BY <1>1, <1>5, HandlerStays
<1>9. \A q \in Products \ {p} :
        /\ Owed(r, q)' = Owed(r, q)
        /\ Passed(r.order, q, item'[r]) = Passed(r.order, q, item[r])
        /\ \A i \in LinesOf(r.order, q) : i < item'[r] => i < item[r]
  BY <1>1, <1>2, <1>5, <1>6, LinePassed
<1> QED BY <1>1, <1>3, <1>5, <1>7, <1>8, <1>9, WriteStep DEF InTx

\* The row a settlement is about to decrement.
LEMMA SettledSeen ==
    ASSUME LInv, NEW r \in Requests, pc[r] \in {"deduct", "unreserve"}
    PROVE  LET p == Product(r)
               n == Passed(r.order, p, item[r])
           IN  /\ Seen(r, p) = [available |-> IF r.op = "confirm"
                                             THEN Base(p).available - n - Owed(r, p)
                                             ELSE Base(p).available,
                                reserved  |-> Base(p).reserved - n]
               /\ Owed(r, p) = IF r.op = "confirm" /\ pc[r] = "unreserve" THEN Units(r) ELSE 0
<1>1. IInv /\ r.op \in {"confirm", "release"} /\ r.order \in Orders
  BY RequestType DEF LInv, IInv, Positions, Position, Ops
<1>2. PICK p \in Products : p = Product(r)
  BY <1>1, CurrentLine DEF InTx
<1>3. stock[p] # NoRow
  <2>1. item[r] \in DOMAIN Items[r.order] /\ reservation[r.order] # "NONE"
    BY <1>1, CurrentLine DEF LInv, StillReserved, IsSettlement, InTx, Lines
  <2> QED BY <1>1, <1>2, <2>1 DEF IInv, BookedLines, Product, Lines
<1>4. Seen(r, p) = Less(After(r, Base(p), Passed(r.order, p, item[r])), Owed(r, p))
  BY <1>1, <1>3, SeenExact DEF InTx, Visible
<1>5. Base(p).reserved \in Int /\ Base(p).available \in Int
  BY <1>1, BaseType DEF IInv
<1>6. Owed(r, p) = IF r.op = "confirm" /\ pc[r] = "unreserve" THEN Units(r) ELSE 0
  BY <1>2 DEF Owed
<1> QED BY <1>1, <1>2, <1>4, <1>5, <1>6 DEF After, Less

\* The first decrement of a line of `confirm`: the line is not passed, the units owed.
LEMMA DeductLedger ==
    ASSUME LInv, IInv', NEW r \in Requests, DeductStock(r)
    PROVE  LInv'
<1>1. pc[r] = "deduct" /\ IInv /\ r.op = "confirm"
  BY DEF DeductStock, At, LInv, IInv, Positions, Position
<1>2. PICK p \in Products : p = Product(r)
  BY <1>1, CurrentLine DEF InTx
<1>3. /\ Write(r, p, [Seen(r, p) EXCEPT !.available = @ - Units(r)])
      /\ Goto(r, "unreserve")
  BY <1>2 DEF DeductStock
<1>4. Units(r) \in Int /\ Passed(r.order, p, item[r]) \in Int
  BY <1>1, <1>2, LinePassed
<1>5. Moves(r) /\ item'[r] = item[r] /\ pc'[r] = "unreserve"
  BY <1>1, <1>3, GotoMoves DEF Steps, InTx
<1>6. /\ Owed(r, p) = 0 /\ Owed(r, p)' = Units(r)
      /\ \A q \in Products \ {p} : Owed(r, q) = 0 /\ Owed(r, q)' = 0
  BY <1>1, <1>2, <1>5 DEF Owed, Product, Units, Lines
<1>7. [Seen(r, p) EXCEPT !.available = @ - Units(r)]
        = Less(After(r, Base(p), Passed(r.order, p, item'[r])), Owed(r, p)')
  <2>1. Base(p).available \in Int
    BY <1>1, BaseType DEF IInv
  <2>2. Seen(r, p) = [available |-> Base(p).available - Passed(r.order, p, item[r]) - 0,
                      reserved  |-> Base(p).reserved - Passed(r.order, p, item[r])]
    BY <1>1, <1>2, <1>6, SettledSeen
  <2>3. Base(p).available - Passed(r.order, p, item[r]) - 0
          = Base(p).available - Passed(r.order, p, item[r])
    BY <1>4, <2>1
  <2> QED BY <1>1, <1>5, <1>6, <2>2, <2>3 DEF After, Less
<1>8. Stays(r)
  BY <1>1, <1>5, HandlerStays
<1> QED BY <1>1, <1>3, <1>5, <1>6, <1>7, <1>8, WriteStep DEF InTx

\* The decrement that passes a line: nothing is owed any more.
LEMMA UnreserveLedger ==
    ASSUME LInv, IInv', NEW r \in Requests, UnreserveStock(r)
    PROVE  LInv'
<1>1. pc[r] = "unreserve" /\ IInv /\ r.op \in {"confirm", "release"}
  BY RequestType DEF UnreserveStock, At, LInv, IInv, Positions, Position, Ops
<1>2. PICK p \in Products : p = Product(r)
  BY <1>1, CurrentLine DEF InTx
<1>3. /\ Write(r, p, [Seen(r, p) EXCEPT !.reserved = @ - Units(r)])
      /\ GotoLine(r, item[r] + 1, IF r.op = "confirm" THEN "deduct" ELSE "unreserve")
  BY <1>2 DEF UnreserveStock
<1>4. /\ item[r] + 1 \in Nat \ {0} /\ Units(r) \in Int /\ Passed(r.order, p, item[r]) \in Int
      /\ Passed(r.order, p, item[r] + 1) = Passed(r.order, p, item[r]) + Units(r)
  BY <1>1, <1>2, LinePassed
<1>5. /\ Moves(r) /\ item'[r] = item[r] + 1
      /\ pc'[r] \in {IF r.op = "confirm" THEN "deduct" ELSE "unreserve", "save"}
  BY <1>1, <1>3, <1>4, GotoLineMoves DEF Steps, InTx
<1>6. /\ \A q \in Products : Owed(r, q)' = 0
      /\ \A q \in Products \ {p} : Owed(r, q) = 0
  BY <1>2, <1>5 DEF Owed
<1>7. [Seen(r, p) EXCEPT !.reserved = @ - Units(r)]
        = Less(After(r, Base(p), Passed(r.order, p, item'[r])), Owed(r, p)')
  <2>1. Base(p).available \in Int /\ Base(p).reserved \in Int
    BY <1>1, BaseType DEF IInv
  <2>2. Seen(r, p) = [available |-> IF r.op = "confirm"
                                    THEN Base(p).available - Passed(r.order, p, item[r]) - Units(r)
                                    ELSE Base(p).available,
                      reserved  |-> Base(p).reserved - Passed(r.order, p, item[r])]
    BY <1>1, <1>2, SettledSeen
  <2>3. After(r, Base(p), Passed(r.order, p, item[r]) + Units(r))
          = [available |-> IF r.op = "confirm"
                           THEN Base(p).available - Passed(r.order, p, item[r]) - Units(r)
                           ELSE Base(p).available,
             reserved  |-> Base(p).reserved - Passed(r.order, p, item[r]) - Units(r)]
    BY <1>1, <1>4, <2>1 DEF After
  <2>4. After(r, Base(p), Passed(r.order, p, item'[r]))
          = [Seen(r, p) EXCEPT !.reserved = @ - Units(r)]
    BY <1>4, <1>5, <2>2, <2>3
  <2>5. Base(p) \in Row /\ Passed(r.order, p, item'[r]) \in Int
    BY <1>1, <1>4, <1>5, BaseType DEF IInv
  <2>6. Less(After(r, Base(p), Passed(r.order, p, item'[r])), 0)
          = After(r, Base(p), Passed(r.order, p, item'[r]))
    BY <2>5, AfterFields, LessFields
  <2> QED BY <1>6, <2>4, <2>6
<1>8. Stays(r)
  BY <1>1, <1>5, HandlerStays
<1>9. \A q \in Products \ {p} :
        /\ Owed(r, q)' = Owed(r, q)
        /\ Passed(r.order, q, item'[r]) = Passed(r.order, q, item[r])
        /\ \A i \in LinesOf(r.order, q) : i < item'[r] => i < item[r]
  BY <1>1, <1>2, <1>5, <1>6, LinePassed
<1> QED BY <1>1, <1>3, <1>5, <1>7, <1>8, <1>9, WriteStep DEF InTx

\* r commits its operation, on a reservation in the status it expects.
Settles(r, status) ==
    /\ pc[r] = "save" /\ Answer(r, "success") /\ Commit(r, status)
    /\ \/ r.op = "reserve" /\ reservation[r.order] = "NONE" /\ status = "RESERVED"
       \/ r.op = "confirm" /\ reservation[r.order] = "RESERVED" /\ status = "CONFIRMED"
       \/ r.op = "release" /\ reservation[r.order] = "RESERVED" /\ status = "RELEASED"

\* What is committed is all the lines of the order.
LEMMA CommitBase ==
    ASSUME LInv, NEW r \in Requests, NEW status, Settles(r, status), NEW p \in Products
    PROVE  /\ Base(p)' = After(r, Base(p), Demand[r.order][p])
           /\ stock'[p] = NoRow => stock[p] = NoRow
<1>1. IInv /\ pc[r] = "save" /\ r.order \in Orders /\ stock'[p] = Seen(r, p)
  BY RequestType DEF LInv, Settles, Commit
<1>2. Passed(r.order, p, item[r]) = Demand[r.order][p]
  <2>1. item[r] \in Nat \ {0} /\ item[r] \notin DOMAIN Items[r.order]
    BY <1>1 DEF IInv, TypeOK, Positions, Position, Lines
  <2>2. \A i \in LinesOf(r.order, p) : i < item[r]
    BY <1>1, <2>1, PastLastLine DEF LinesOf
  <2> QED BY <1>1, <2>2, PassedEnds
<1>3. Base(p) \in Row /\ Demand[r.order][p] \in Int
  BY <1>1, BaseType, DemandType DEF IInv
<1>4. CASE Visible(r, p)
  <2>1. stock'[p] = After(r, Base(p), Demand[r.order][p])
    BY <1>1, <1>2, <1>4, SeenExact DEF InTx, Owed
  <2>2. After(r, Base(p), Demand[r.order][p]) # NoRow
    BY <1>3, AfterFields, RowFields
  <2> QED BY <2>1, <2>2 DEF Base
<1>5. CASE ~Visible(r, p)
  <2>1. stock'[p] = NoRow /\ stock[p] = NoRow /\ Demand[r.order][p] = 0
    BY <1>1, <1>2, <1>5, SeenExact DEF InTx, Visible
  <2> QED BY <1>3, <2>1, AfterNothing DEF Base
<1> QED BY <1>4, <1>5

\* The columns after the commit, and what is booked.
LEMMA CommitColumns ==
    ASSUME LInv, NEW r \in Requests, NEW status, Settles(r, status)
    PROVE  Columns'
<1> SUFFICES ASSUME NEW p \in Products
             PROVE  /\ Base(p)'.reserved = BookedIn(reservation', p, {"RESERVED"})
                    /\ Base(p)'.available = Capacity[p] - BookedIn(reservation', p, {"CONFIRMED"})
                    /\ stock'[p] = NoRow => InitialStock[p] = NoRow
  BY LedgerBooked, Zenon DEF Columns
<1>1. /\ Base(p).reserved = BookedIn(reservation, p, {"RESERVED"})
      /\ Base(p).available = Capacity[p] - BookedIn(reservation, p, {"CONFIRMED"})
      /\ stock[p] = NoRow => InitialStock[p] = NoRow
  BY LedgerBooked DEF LInv, Columns
<1>2. /\ Base(p)' = After(r, Base(p), Demand[r.order][p])
      /\ stock'[p] = NoRow => stock[p] = NoRow
  BY CommitBase
<1>3. /\ Base(p) \in Row /\ Demand[r.order][p] \in Int /\ r.order \in Orders
      /\ Base(p).reserved \in Int /\ Base(p).available \in Int /\ Capacity[p] \in Int
  BY BaseType, DemandType, RequestType, CapacityType DEF LInv, IInv
<1>4. /\ \A o \in Orders \ {r.order} : reservation'[o] = reservation[o]
      /\ reservation'[r.order] = status
  BY <1>3 DEF Settles, Commit, LInv, IInv, TypeOK
<1>5. \A statuses : BookedIn(reservation', p, statuses) = BookedIn(reservation, p, statuses)
          - OwnBooked(reservation, r.order, p, statuses)
          + OwnBooked(reservation', r.order, p, statuses)
  BY <1>3, <1>4, BookedMove
<1>6. \A statuses : BookedIn(reservation, p, statuses) \in Int
  BY BookedType
<1>7. /\ Base(p)'.reserved = IF r.op = "reserve" THEN Base(p).reserved + Demand[r.order][p]
                                                ELSE Base(p).reserved - Demand[r.order][p]
      /\ Base(p)'.available = IF r.op = "confirm" THEN Base(p).available - Demand[r.order][p]
                                                 ELSE Base(p).available
  <2>1. PICK row \in Row : row = Base(p)
    BY <1>3
  <2>2. PICK n \in Int : n = Demand[r.order][p]
    BY <1>3
  <2>3. /\ After(r, row, n).reserved = IF r.op = "reserve" THEN row.reserved + n
                                                          ELSE row.reserved - n
        /\ After(r, row, n).available = IF r.op = "confirm" THEN row.available - n
                                                           ELSE row.available
    BY AfterFields
  <2>4. Base(p)' = After(r, row, n)
    BY <1>2, <2>1, <2>2
  <2> QED BY <2>1, <2>2, <2>3, <2>4
<1>8. Base(p)'.reserved = BookedIn(reservation', p, {"RESERVED"})
  <2>1. BookedIn(reservation', p, {"RESERVED"}) = BookedIn(reservation, p, {"RESERVED"})
          - OwnBooked(reservation, r.order, p, {"RESERVED"})
          + OwnBooked(reservation', r.order, p, {"RESERVED"})
    BY <1>5
  <2>2. IF r.op = "reserve"
        THEN /\ OwnBooked(reservation, r.order, p, {"RESERVED"}) = 0
             /\ OwnBooked(reservation', r.order, p, {"RESERVED"}) = Demand[r.order][p]
        ELSE /\ OwnBooked(reservation, r.order, p, {"RESERVED"}) = Demand[r.order][p]
             /\ OwnBooked(reservation', r.order, p, {"RESERVED"}) = 0
    BY <1>4 DEF OwnBooked, Settles
  <2> QED BY <1>1, <1>3, <1>7, <2>1, <2>2
<1>9. Base(p)'.available = Capacity[p] - BookedIn(reservation', p, {"CONFIRMED"})
  <2>1. BookedIn(reservation', p, {"CONFIRMED"}) = BookedIn(reservation, p, {"CONFIRMED"})
          - OwnBooked(reservation, r.order, p, {"CONFIRMED"})
          + OwnBooked(reservation', r.order, p, {"CONFIRMED"})
    BY <1>5
  <2>2. /\ OwnBooked(reservation, r.order, p, {"CONFIRMED"}) = 0
        /\ OwnBooked(reservation', r.order, p, {"CONFIRMED"}) =
              IF r.op = "confirm" THEN Demand[r.order][p] ELSE 0
    BY <1>4 DEF OwnBooked, Settles
  <2>3. BookedIn(reservation, p, {"CONFIRMED"}) \in Int
    BY <1>6
  <2> QED BY <1>1, <1>3, <1>7, <2>1, <2>2, <2>3
<1> QED BY <1>1, <1>2, <1>8, <1>9

\* A commit keeps the invariant: no other settlement of the order is under way.
LEMMA CommitStep ==
    ASSUME LInv, IInv', NEW r \in Requests, NEW status, Settles(r, status)
    PROVE  LInv'
<1>1. Moves(r) /\ pc[r] = "save" /\ pc'[r] = "reply"
  BY AnswerMoves DEF LInv, Settles, Answers
<1>2. Stays(r)
  BY <1>1, HandlerStays
<1>3. /\ \A o \in Orders \ {r.order} : reservation'[o] = reservation[o]
      /\ reservation'[r.order] = status /\ r.order \in Orders
  BY RequestType DEF Settles, Commit, LInv, IInv, TypeOK
<1>4. \A s \in Requests \ {r} : pc'[s] = pc[s]
  BY <1>1 DEF LInv, IInv, TypeOK, Moves
<1>5. ReleaseAsked'
  <2> SUFFICES ASSUME NEW o \in Orders, reservation'[o] = "RELEASED"
               PROVE  \E s \in Requests : s.op = "release" /\ s.order = o /\ pc'[s] # "unsent"
    BY DEF ReleaseAsked, At
  <2>1. CASE o = r.order
    BY <1>1, <1>3, <2>1 DEF Settles
  <2>2. CASE o # r.order
    <3>1. PICK s \in Requests : s.op = "release" /\ s.order = o /\ pc[s] # "unsent"
      BY <1>3, <2>2 DEF LInv, ReleaseAsked, At
    <3> QED BY <1>1, <1>4, <3>1
  <2> QED BY <2>1, <2>2
<1>6. StillReserved'
  <2> SUFFICES ASSUME NEW s \in Requests, pc'[s] \in InTx, IsSettlement(s)
               PROVE  reservation'[s.order] = "RESERVED"
    BY DEF StillReserved, IsSettlement
  <2>1. s # r /\ pc[s] \in InTx /\ s.order \in Orders
    BY <1>1, <1>4, RequestType DEF InTx
  <2>2. reservation[s.order] = "RESERVED"
    BY <2>1 DEF LInv, StillReserved
  <2>3. s.order # r.order
    <3> SUFFICES ASSUME s.order = r.order PROVE FALSE
      OBVIOUS
    <3>1. Settling(s) /\ Settling(r)
      BY <1>1, <2>1, <2>2 DEF Settles, Settling, IsSettlement, InTx
    <3> QED BY <2>1, <3>1 DEF LInv, Serial
  <2> QED BY <1>3, <2>1, <2>2, <2>3
<1>7. Drafts'
  <2>1. Isolated(r)
    BY RequestType DEF Settles, Commit, Unlock, Seen, Isolated, LInv, IInv, TypeOK
  <2>2. \A s \in Requests \ {r} : /\ pc'[s] \in InTx => DraftExact(s)'
                                  /\ pc'[s] = "seed" => owner'[Product(s)'] # s
    BY <1>1, <2>1, OthersDrafts
  <2> QED BY <1>1, <2>2 DEF Drafts, InTx
<1> QED BY <1>2, <1>5, <1>6, <1>7, CommitColumns DEF LInv, Stays

\* The save of a reservation, or of its settlement.
LEMMA SaveSettles ==
    ASSUME LInv, NEW r \in Requests, SaveReservation(r) \/ SaveSettled(r)
    PROVE  \/ \E status : Settles(r, status)
           \/ Answer(r, "internal_error") /\ Rollback(r)
<1>1. pc[r] = "save"
  BY DEF SaveReservation, SaveSettled, At
<1>2. CASE SaveReservation(r)
  BY <1>1, <1>2 DEF SaveReservation, Settles
<1>3. CASE SaveSettled(r)
  <2>1. r.op \in {"confirm", "release"}
    BY <1>3, RequestType DEF SaveSettled, Ops
  <2>2. reservation[r.order] = "RESERVED"
    BY <1>1, <2>1 DEF LInv, StillReserved, IsSettlement, InTx
  <2> QED BY <1>1, <1>3, <2>1, <2>2 DEF SaveSettled, Settles
<1> QED BY <1>2, <1>3

\* The steps that answer an error or die.
LEMMA GiveUpLedger ==
    ASSUME LInv, IInv', NEW r \in Requests,
           DeclineStock(r) \/ DatabaseError(r) \/ DeadlockVictim(r) \/ Crash(r)
    PROVE  LInv'
<1>1. pc[r] \notin {"unsent", "done", "dlq"}
  BY DEF DeclineStock, DatabaseError, DeadlockVictim, Crash, At, Blocked, InTx
<1>2. Rollback(r) /\ (Crash(r) \/ \E result \in Answers : Answer(r, result))
  BY DEF DeclineStock, DatabaseError, DeadlockVictim, Crash, Answers
<1> QED BY <1>1, <1>2, EndStep

-----------------------------------------------------------------------------
\* The service starts with no booking and every unit on sale.
LEMMA InitLInv == Init => LInv
<1> SUFFICES ASSUME Init PROVE LInv
  OBVIOUS
<1>1. Serial /\ ReleaseAsked /\ StillReserved /\ Drafts
  BY DEF Init, Serial, Settling, At, ReleaseAsked, StillReserved, Drafts, InTx
<1>2. Columns
  <2> SUFFICES ASSUME NEW p \in Products
               PROVE  /\ Base(p).reserved = 0 /\ Base(p).available = Capacity[p] - 0
                      /\ stock[p] = NoRow => InitialStock[p] = NoRow
                      /\ BookedIn(reservation, p, {"RESERVED"}) = 0
                      /\ BookedIn(reservation, p, {"CONFIRMED"}) = 0
    BY LedgerBooked DEF Columns
  <2>1. \A o \in Orders : reservation[o] = "NONE"
    BY DEF Init
  <2>2. /\ BookedIn(reservation, p, {"RESERVED"}) = 0
        /\ BookedIn(reservation, p, {"CONFIRMED"}) = 0
    BY <2>1, BookedNone
  <2>3. \A n \in Nat : NewRow(n) # NoRow
    BY AbsenceAssumption DEF NewRow, Row
  <2>4. stock[p] = NoRow => InitialStock[p] = NoRow
    BY <2>3, StockAssumption DEF Init
  <2>5. Base(p) = NewRow(Capacity[p])
    BY <2>3, StockAssumption DEF Init, Base, Capacity
  <2> QED BY <2>2, <2>4, <2>5, CapacityType DEF NewRow
<1> QED BY <1>1, <1>2, InitIInv DEF LInv

\* A serial caller is a caller.
LEMMA SerialNextNext == [SerialNext]_vars => [Next]_vars
BY DEF SerialNext, Next, SerialSend

\* Every step of the service under a serial caller keeps the invariant.
LEMMA NextLInv == LInv /\ [SerialNext]_vars => LInv'
<1> SUFFICES ASSUME LInv, [SerialNext]_vars PROVE LInv'
  OBVIOUS
<1>0. IInv'
  BY SerialNextNext, NextIInv DEF LInv
<1>1. CASE UNCHANGED vars
  <2>1. Serial' /\ ReleaseAsked' /\ StillReserved'
    BY <1>1 DEF vars, LInv, Serial, Settling, At, ReleaseAsked, StillReserved
  <2>2. \A p \in Products : Base(p)' = Base(p)
    BY <1>1 DEF vars, Base
  <2>3. Drafts'
    BY <1>1, <2>2 DEF vars, LInv, Drafts, DraftExact, After, Less, Owed, Product, Units, Lines
  <2>4. Columns'
    BY <1>1, <2>2, LedgerBooked DEF vars, LInv, Columns
  <2> QED BY <1>0, <2>1, <2>3, <2>4 DEF LInv
<1>2. ASSUME NEW r \in Requests, SerialSend(r) \/ Handle(r) \/ DatabaseError(r) \/ Crash(r)
      PROVE  LInv'
  <2>1. CASE NackRedelivered(r) \/ Respond(r)
    <3>1. pc[r] \in {"queued", "reply"} /\ UNCHANGED db
      BY <2>1 DEF NackRedelivered, Respond, At
    <3> QED BY <1>0, <2>1, <3>1, EndStep
  <2>2. CASE SaveReservation(r) \/ SaveSettled(r)
    <3>1. pc[r] = "save"
      BY <2>2 DEF SaveReservation, SaveSettled, At
    <3>2. CASE Answer(r, "internal_error") /\ Rollback(r)
      BY <1>0, <3>1, <3>2, EndStep DEF Answers
    <3> QED BY <1>0, <2>2, <3>2, SaveSettles, CommitStep
  <2> QED BY <1>0, <1>2, <2>1, <2>2, SendStep, LookupLedger, EnsureLedger, SeedLedger,
             TakeLedger, DeductLedger, UnreserveLedger, GiveUpLedger DEF Handle
<1> QED BY <1>1, <1>2 DEF SerialNext, Idle

\* For a caller that settles an order once, the rows of the transactions in progress
\* and the committed ones are what the reservations say, and a settlement finds at
\* its commit the reservation it read when it started.
THEOREM LedgerInvariance == SerialSpec => []LInv
BY InitLInv, NextLInv, PTL DEF SerialSpec

\* The columns and the reservations say the same, in the words of the run.
LEMMA LInvLedgerExact == LInv => LedgerExact
<1> SUFFICES ASSUME LInv, NEW p \in Products
             PROVE  IF stock[p] = NoRow
                    THEN Ledger!Booked(p, {"RESERVED", "CONFIRMED"}) = 0
                    ELSE /\ stock[p].reserved = Ledger!Booked(p, {"RESERVED"})
                         /\ stock[p].available = Capacity[p] - Ledger!Booked(p, {"CONFIRMED"})
  BY DEF LedgerExact
<1>1. /\ Base(p).reserved = BookedIn(reservation, p, {"RESERVED"})
      /\ Base(p).available = Capacity[p] - BookedIn(reservation, p, {"CONFIRMED"})
      /\ stock[p] = NoRow => InitialStock[p] = NoRow
  BY LedgerBooked DEF LInv, Columns
<1>2. CASE stock[p] = NoRow
  <2>1. Base(p).reserved = 0 /\ Base(p).available = Capacity[p]
    BY <1>1, <1>2, CapacityType DEF Base, NewRow
  <2>2. BookedIn(reservation, p, {"RESERVED"}) = 0 /\ BookedIn(reservation, p, {"CONFIRMED"}) = 0
    BY <1>1, <2>1, CapacityType, BookedType
  <2>3. BookedIn(reservation, p, {"RESERVED", "CONFIRMED"}) = 0
    BY <2>2, BookedBoth
  <2> QED BY <1>2, <2>3, LedgerBooked
<1>3. CASE stock[p] # NoRow
  <2>1. Base(p) = stock[p]
    BY <1>3 DEF Base
  <2> QED BY <1>1, <1>3, <2>1, LedgerBooked
<1> QED BY <1>2, <1>3

\* The units promised are no more than were ever on sale.
LEMMA LInvCovered ==
    ASSUME LInv, NEW p \in Products
    PROVE  BookedIn(reservation, p, {"RESERVED", "CONFIRMED"}) <= Capacity[p]
<1>1. /\ Base(p).reserved = BookedIn(reservation, p, {"RESERVED"})
      /\ Base(p).available = Capacity[p] - BookedIn(reservation, p, {"CONFIRMED"})
  BY LedgerBooked DEF LInv, Columns
<1>2. Base(p).reserved <= Base(p).available
  <2>1. CASE stock[p] = NoRow
    BY <2>1, StockAssumption DEF Base, NewRow
  <2>2. CASE stock[p] # NoRow
    BY <2>2 DEF Base, LInv, IInv, NoOversell
  <2> QED BY <2>1, <2>2
<1> QED BY <1>1, <1>2, BookedBoth, BookedType, CapacityType

\* The same for every product, in the words of the run.
LEMMA LInvCovers == LInv => PromisesCovered
BY LInvCovered, LedgerBooked DEF PromisesCovered

\* The two columns of stock_items are what the committed reservations say, for any
\* number of orders, products, lines, replicas and duplicated messages: `confirm`
\* and `release` decrement what `reserve` added, once, whatever is rolled back.
THEOREM LedgerIsExact == SerialSpec => []LedgerExact
BY LedgerInvariance, LInvLedgerExact, PTL

\* A serial caller never has more promised than was put on sale: what the second
\* release of an order breaks (inventory_double_release) is broken by nothing else.
THEOREM SerialCovers == SerialSpec => []PromisesCovered
BY LedgerInvariance, LInvCovers, PTL

\* A commit is a step of the ledger: it books units that are free, or settles a
\* RESERVED booking.
LEMMA CommitBooks ==
    ASSUME LInv, LInv', NEW r \in Requests, NEW status, Settles(r, status)
    PROVE  Ledger!Next
<1>0. r.order \in Orders /\ reservation' = [reservation EXCEPT ![r.order] = status]
  BY RequestType DEF Settles, Commit
<1>1. /\ r.order \in Orders /\ reservation'[r.order] = status
      /\ \A o \in Orders \ {r.order} : reservation'[o] = reservation[o]
  BY <1>0 DEF LInv, IInv, TypeOK
<1>2. CASE r.op = "reserve"
  <2>1. reservation[r.order] = "NONE" /\ status = "RESERVED"
    BY <1>2 DEF Settles
  <2>2. ASSUME NEW p \in Products
        PROVE  Ledger!Booked(p, {"RESERVED", "CONFIRMED"}) + Demand[r.order][p] <= Capacity[p]
    <3> DEFINE both == {"RESERVED", "CONFIRMED"}
    <3>1. BookedIn(reservation', p, both) = BookedIn(reservation, p, both)
            - OwnBooked(reservation, r.order, p, both)
            + OwnBooked(reservation', r.order, p, both)
      <4> HIDE DEF both
      <4>1. PICK o \in Orders : o = r.order
        BY <1>1
      <4>2. \A x \in Orders \ {o} : reservation'[x] = reservation[x]
        BY <1>1, <4>1
      <4>3. BookedIn(reservation', p, both) = BookedIn(reservation, p, both)
              - OwnBooked(reservation, o, p, both) + OwnBooked(reservation', o, p, both)
        BY <4>2, BookedMove
      <4> QED BY <4>1, <4>3
    <3>2. OwnBooked(reservation, r.order, p, both) = 0
          /\ OwnBooked(reservation', r.order, p, both) = Demand[r.order][p]
      BY <1>1, <2>1 DEF OwnBooked
    <3>3. /\ BookedIn(reservation, p, both) \in Int /\ Demand[r.order][p] \in Int
          /\ Capacity[p] \in Int
      BY <1>1, BookedType, DemandType, CapacityType
    <3>4. BookedIn(reservation', p, both) <= Capacity[p]
      <4>1. PromisesCovered'
        BY LInvCovers, PTL
      <4>2. Ledger!Booked(p, both)' <= Capacity[p]
        BY <4>1 DEF PromisesCovered
      <4> QED BY <4>2, LedgerBooked
    <3>5. Ledger!Booked(p, both) = BookedIn(reservation, p, both)
      BY LedgerBooked
    <3> QED BY <3>1, <3>2, <3>3, <3>4, <3>5
  <2>3. Ledger!Reserve(r.order)
    BY <1>0, <2>1, <2>2 DEF Ledger!Reserve
  <2> QED BY <1>1, <2>3 DEF Ledger!Next
<1>3. CASE r.op # "reserve"
  <2>1. Ledger!Settle(r.order, status) /\ status \in {"CONFIRMED", "RELEASED"}
    BY <1>0, <1>3 DEF Settles, Ledger!Settle
  <2> QED BY <1>1, <2>1 DEF Ledger!Next
<1> QED BY <1>2, <1>3

\* Every step is a step of the ledger or leaves the bookings alone.
LEMMA NextLedger == LInv /\ LInv' /\ [SerialNext]_vars => [Ledger!Next]_reservation
<1> SUFFICES ASSUME LInv, LInv', SerialNext PROVE Ledger!Next \/ UNCHANGED reservation
  BY DEF vars
<1>1. CASE Idle
  BY <1>1 DEF Idle, vars
<1>2. ASSUME NEW r \in Requests, SaveReservation(r) \/ SaveSettled(r)
      PROVE  Ledger!Next \/ UNCHANGED reservation
  BY <1>2, SaveSettles, CommitBooks DEF Rollback
<1>3. ASSUME NEW r \in Requests, SerialSend(r) \/ Handle(r) \/ DatabaseError(r) \/ Crash(r),
             ~SaveReservation(r), ~SaveSettled(r)
      PROVE  UNCHANGED reservation
  BY <1>3 DEF Handle, SerialSend, Send, NackRedelivered, ReserveLookup, ConfirmLookup,
              ReleaseLookup, EnsureStock, SeedStock, TakeStock, DeclineStock, DeductStock,
              UnreserveStock, DeadlockVictim, Respond, DatabaseError, Crash, db, Write, Rollback
<1> QED BY <1>1, <1>2, <1>3 DEF SerialNext

\* inventory-service implements the ledger for every number of orders, products,
\* lines, replicas and messages: from the committed reservations, each of its steps
\* books units that are free, settles a RESERVED booking once, or is invisible.
THEOREM ServiceImplementsLedger == SerialSpec => ImplementsLedger
<1>1. Init => Ledger!Init
  BY DEF Init, Ledger!Init
<1> QED BY <1>1, LedgerInvariance, NextLedger, PTL DEF SerialSpec, ImplementsLedger, Ledger!Spec
=============================================================================
