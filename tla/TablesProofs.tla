---------------------------- MODULE TablesProofs ----------------------------
(***************************************************************************)
(* Tables, proved: what TLC checks on small tables, reports, stores and     *)
(* fixtures, for all that Tables can be asked about.  A question is        *)
(* answered in one step, so that the invariant says little (Answered), and *)
(* the proofs are about the operators: the order of rows and of the        *)
(* elements of a table as ranks, the loop over a column's values as a      *)
(* recursive function, and the places of nodes and edges as a bijection.   *)
(***************************************************************************)
EXTENDS Tables, FiniteSetTheorems, FunctionTheorems, WellFoundedInduction, TLAPS

(***************************************************************************)
(* Ranks                                                                   *)
(***************************************************************************)

\* Every set of naturals that is not empty has a least element.
LEMMA LeastNatural ==
  ASSUME NEW T, T \subseteq Nat, T # {}
  PROVE  \E x \in T : \A y \in T : x <= y
<1> DEFINE R == {ss \in Nat \X Nat : ss[1] < ss[2]}
<1>1. IsWellFoundedOn(R, Nat)
  BY NatLessThanWellFounded DEF OpToRel
<1>2. \A x, y \in Nat : x < y => <<x, y>> \in R
  OBVIOUS
<1> HIDE DEF R
<1>3. PICK x \in T : \A y \in T : ~(<<y, x>> \in R)
  BY <1>1, WFMin
<1>4. ASSUME NEW y \in T PROVE x <= y
  <2>1. x \in Nat /\ y \in Nat
    OBVIOUS
  <2>2. ~(y < x)
    BY <2>1, <1>2, <1>3
  <2> QED BY <2>1, <2>2
<1> QED BY <1>4

\* An order in which no two elements of a set are alike.
StrictOrder(S, order) ==
  /\ \A x \in S : <<x, x>> \notin order
  /\ \A x, y, z \in S : <<x, y>> \in order /\ <<y, z>> \in order => <<x, z>> \in order
  /\ \A x, y \in S : x # y => <<x, y>> \in order \/ <<y, x>> \in order

\* What comes later has a higher rank.
LEMMA RankRises ==
  ASSUME NEW S, IsFiniteSet(S), NEW order, StrictOrder(S, order),
         NEW x \in S, NEW y \in S, <<x, y>> \in order
  PROVE  Rank(S, order, x) < Rank(S, order, y)
<1> DEFINE Before(u) == {w \in S : <<w, u>> \in order}
<1>1. Before(x) \subseteq Before(y) /\ x \in Before(y) /\ x \notin Before(x)
  BY DEF StrictOrder
<1>2. IsFiniteSet(Before(y))
  BY FS_Subset
<1>3. /\ Cardinality(Before(x)) <= Cardinality(Before(y))
      /\ Cardinality(Before(y)) = Cardinality(Before(x)) => Before(y) = Before(x)
      /\ IsFiniteSet(Before(x))
  BY <1>1, <1>2, FS_Subset
<1>4. Cardinality(Before(x)) \in Nat /\ Cardinality(Before(y)) \in Nat
  BY <1>2, <1>3, FS_CardinalityType
<1>5. Cardinality(Before(x)) < Cardinality(Before(y))
  BY <1>1, <1>3, <1>4
<1> HIDE DEF Before
<1>6. Cardinality(Before(x)) + 1 < Cardinality(Before(y)) + 1
  BY <1>4, <1>5
<1> QED BY <1>6 DEF Rank, Before

\* Ranks go from one to the number of the elements.
LEMMA RankInRange ==
  ASSUME NEW S, IsFiniteSet(S), NEW order, StrictOrder(S, order), NEW x \in S
  PROVE  Rank(S, order, x) \in 1..Cardinality(S)
<1> DEFINE Before == {w \in S : <<w, x>> \in order}
<1>1. Before \subseteq S /\ x \notin Before
  BY DEF StrictOrder
<1>2. /\ IsFiniteSet(Before) /\ Cardinality(Before) <= Cardinality(S)
      /\ Cardinality(S) = Cardinality(Before) => S = Before
  BY <1>1, FS_Subset
<1>3. Cardinality(Before) \in Nat /\ Cardinality(S) \in Nat
  BY <1>2, FS_CardinalityType
<1>4. Cardinality(Before) # Cardinality(S)
  BY <1>1, <1>2
<1> HIDE DEF Before
<1>5. Cardinality(Before) + 1 \in 1..Cardinality(S)
  BY <1>2, <1>3, <1>4
<1> QED BY <1>5 DEF Rank, Before

\* No two elements have one rank, and ranks say which comes first.
LEMMA RankTells ==
  ASSUME NEW S, IsFiniteSet(S), NEW order, StrictOrder(S, order),
         NEW x \in S, NEW y \in S
  PROVE  /\ Rank(S, order, x) = Rank(S, order, y) => x = y
         /\ Rank(S, order, x) < Rank(S, order, y) => <<x, y>> \in order
<1>1. Rank(S, order, x) \in Int /\ Rank(S, order, y) \in Int
  BY RankInRange, FS_CardinalityType
<1>2. <<x, y>> \in order => Rank(S, order, x) < Rank(S, order, y)
  BY RankRises
<1>3. <<y, x>> \in order => Rank(S, order, y) < Rank(S, order, x)
  BY RankRises
<1>4. x = y \/ <<x, y>> \in order \/ <<y, x>> \in order
  BY DEF StrictOrder
<1> QED BY <1>1, <1>2, <1>3, <1>4

\* Every place is taken: Ranked lists the set once, and Rank is its inverse.
LEMMA RankedLists ==
  ASSUME NEW S, IsFiniteSet(S), NEW order, StrictOrder(S, order)
  PROVE  /\ \A k \in 1..Cardinality(S) :
              Ranked(S, order)[k] \in S /\ Rank(S, order, Ranked(S, order)[k]) = k
         /\ \A x \in S : Ranked(S, order)[Rank(S, order, x)] = x
<1> DEFINE n == Cardinality(S)
           f == [x \in S |-> Rank(S, order, x)]
<1>1. n \in Nat
  BY FS_CardinalityType
<1>2. \A x \in S : Rank(S, order, x) \in 1..n
  BY RankInRange
<1>3. f \in Injection(S, 1..n)
  <2>1. f \in [S -> 1..n]
    BY <1>2
  <2>2. \A x, y \in S : f[x] = f[y] => x = y
    BY RankTells
  <2> HIDE DEF f, n
  <2> QED BY <2>1, <2>2 DEF Injection, IsInjective
<1>4. IsFiniteSet(1..n) /\ Cardinality(1..n) = n
  BY <1>1, FS_Interval
<1>5. f \in Surjection(S, 1..n)
  <2> HIDE DEF f
  <2> QED BY <1>3, <1>4, FS_Injection
<1>6. \A k \in 1..n : \E x \in S : Rank(S, order, x) = k
  BY <1>5 DEF Surjection
<1>7. ASSUME NEW k \in 1..n
      PROVE  Ranked(S, order)[k] \in S /\ Rank(S, order, Ranked(S, order)[k]) = k
  BY <1>6 DEF Ranked
<1>8. ASSUME NEW x \in S PROVE Ranked(S, order)[Rank(S, order, x)] = x
  <2> DEFINE y == Ranked(S, order)[Rank(S, order, x)]
  <2>1. y \in S /\ Rank(S, order, y) = Rank(S, order, x)
    BY <1>2, <1>7
  <2> HIDE DEF y
  <2>2. y = x
    BY <2>1, RankTells
  <2> QED BY <2>2 DEF y
<1> QED BY <1>7, <1>8

\* A sequence is indexed from one to its length.
LEMMA ListingDomain ==
  ASSUME NEW s, Listing(s)
  PROVE  Len(s) \in Nat /\ DOMAIN s = 1..Len(s)
BY DEF Listing

(***************************************************************************)
(* Rows in the order of their renderings                                   *)
(***************************************************************************)

\* A row whose cells have their place among the renderings.
Rendered(row) ==
  /\ Len(row) \in Nat /\ DOMAIN row = 1..Len(row)
  /\ \A k \in DOMAIN row : Text(row[k]) \in Int

SameText(a, b) == Len(a) = Len(b) /\ \A k \in DOMAIN a : Text(a[k]) = Text(b[k])

\* Up to k the rows are rendered alike, and there a ends or has the lesser cell.
FirstAt(a, b, k) ==
  /\ k \in DOMAIN b
  /\ \A j \in 1..(k - 1) : j \in DOMAIN a /\ Text(a[j]) = Text(b[j])
  /\ k \in DOMAIN a => Text(a[k]) < Text(b[k])

\* The two ways for a row to come first are one.
LEMMA BeforeAt ==
  ASSUME NEW a, NEW b, Rendered(a), Rendered(b)
  PROVE  RowBefore(a, b) <=> \E k \in DOMAIN b : FirstAt(a, b, k)
<1> DEFINE m == Len(a)
           n == Len(b)
<1>1. m \in Nat /\ n \in Nat /\ DOMAIN a = 1..m /\ DOMAIN b = 1..n
  BY DEF Rendered
<1> HIDE DEF m, n
<1>2. ASSUME NEW k \in DOMAIN a \cap DOMAIN b, Text(a[k]) < Text(b[k]),
             \A j \in 1..(k - 1) : Text(a[j]) = Text(b[j])
      PROVE  FirstAt(a, b, k)
  BY <1>1, <1>2 DEF FirstAt
<1>3. ASSUME m < n, \A j \in DOMAIN a : Text(a[j]) = Text(b[j])
      PROVE  m + 1 \in DOMAIN b /\ FirstAt(a, b, m + 1)
  BY <1>1, <1>3 DEF FirstAt
<1>4. ASSUME NEW k \in DOMAIN b, FirstAt(a, b, k) PROVE RowBefore(a, b)
  <2>1. CASE k \in DOMAIN a
    BY <1>4, <2>1 DEF FirstAt, RowBefore
  <2>2. CASE k \notin DOMAIN a
    <3>1. k \in Int /\ m < k /\ 1 <= k /\ k <= n
      BY <1>1, <2>2
    <3>2. k = m + 1
      <4>1. k # 1 => k - 1 \in 1..(k - 1)
        BY <3>1
      <4>2. k # 1 => k - 1 \in DOMAIN a
        BY <1>4, <4>1 DEF FirstAt
      <4> QED BY <1>1, <3>1, <4>2
    <3>3. m < n
      BY <1>1, <3>1, <3>2
    <3>4. \A j \in DOMAIN a : Text(a[j]) = Text(b[j])
      BY <1>1, <1>4, <3>2 DEF FirstAt
    <3> QED BY <3>3, <3>4 DEF RowBefore, m, n
  <2> QED BY <2>1, <2>2
<1>5. RowBefore(a, b) => \E k \in DOMAIN b : FirstAt(a, b, k)
  <2> SUFFICES ASSUME RowBefore(a, b) PROVE \E k \in DOMAIN b : FirstAt(a, b, k)
    OBVIOUS
  <2>1. CASE \E k \in DOMAIN a \cap DOMAIN b :
               /\ Text(a[k]) < Text(b[k])
               /\ \A j \in 1..(k - 1) : Text(a[j]) = Text(b[j])
    BY <2>1, <1>2
  <2>2. CASE m < n /\ \A j \in DOMAIN a : Text(a[j]) = Text(b[j])
    BY <2>2, <1>3
  <2> QED BY <2>1, <2>2 DEF RowBefore, m, n
<1> QED BY <1>4, <1>5

\* Of two rows one comes first, unless they are rendered alike.
LEMMA BeforeOrSame ==
  ASSUME NEW a, NEW b, Rendered(a), Rendered(b)
  PROVE  RowBefore(a, b) \/ RowBefore(b, a) \/ SameText(a, b)
<1> DEFINE m == Len(a)
           n == Len(b)
           D == {k \in DOMAIN a \cap DOMAIN b : Text(a[k]) # Text(b[k])}
<1>1. m \in Nat /\ n \in Nat /\ DOMAIN a = 1..m /\ DOMAIN b = 1..n
      /\ (\A k \in DOMAIN a : Text(a[k]) \in Int) /\ (\A k \in DOMAIN b : Text(b[k]) \in Int)
  BY DEF Rendered
<1>2. CASE D # {}
  <2>1. D \subseteq Nat
    BY <1>1
  <2>2. PICK k \in D : \A j \in D : k <= j
    <3> HIDE DEF D
    <3> QED BY <1>2, <2>1, LeastNatural
  <2>3. k \in 1..m /\ k \in 1..n /\ Text(a[k]) # Text(b[k])
        /\ Text(a[k]) \in Int /\ Text(b[k]) \in Int
    BY <1>1
  <2>4. \A j \in 1..(k - 1) : Text(a[j]) = Text(b[j])
    <3> SUFFICES ASSUME NEW j \in 1..(k - 1), Text(a[j]) # Text(b[j]) PROVE FALSE
      OBVIOUS
    <3>1. j \in 1..m /\ j \in 1..n /\ ~(k <= j)
      BY <1>1, <2>3
    <3>2. j \in D
      BY <3>1, <1>1
    <3> QED BY <2>2, <3>1, <3>2
  <2>5. Text(a[k]) < Text(b[k]) \/ Text(b[k]) < Text(a[k])
    BY <2>3
  <2>6. k \in DOMAIN a \cap DOMAIN b /\ k \in DOMAIN b \cap DOMAIN a
    BY <2>3, <1>1
  <2> QED BY <2>4, <2>5, <2>6 DEF RowBefore
<1>3. CASE D = {}
  <2>1. \A k \in DOMAIN a \cap DOMAIN b : Text(a[k]) = Text(b[k])
    BY <1>3
  <2> HIDE DEF D
  <2>2. CASE m < n
    <3>1. \A j \in DOMAIN a : Text(a[j]) = Text(b[j])
      BY <1>1, <2>1, <2>2
    <3> QED BY <2>2, <3>1 DEF RowBefore
  <2>3. CASE n < m
    <3>1. \A j \in DOMAIN b : Text(b[j]) = Text(a[j])
      BY <1>1, <2>1, <2>3
    <3> QED BY <2>3, <3>1 DEF RowBefore
  <2>4. CASE m = n
    BY <1>1, <2>1, <2>4 DEF SameText
  <2>5. m < n \/ n < m \/ m = n
    <3> HIDE DEF m, n
    <3> QED BY <1>1
  <2> QED BY <2>2, <2>3, <2>4, <2>5
<1> QED BY <1>2, <1>3

\* A row comes before none that it is rendered like.
LEMMA BeforeNotSame ==
  ASSUME NEW a, NEW b, Rendered(a), Rendered(b), SameText(a, b)
  PROVE  ~RowBefore(a, b)
<1> SUFFICES ASSUME NEW k \in DOMAIN b, FirstAt(a, b, k) PROVE FALSE
  BY BeforeAt
<1>1. k \in DOMAIN a /\ Text(a[k]) = Text(b[k]) /\ Text(a[k]) \in Int
  BY DEF SameText, Rendered
<1>2. Text(a[k]) < Text(b[k])
  BY <1>1 DEF FirstAt
<1> QED BY <1>1, <1>2

\* What comes first between two rows comes first between three.
LEMMA BeforeTransitive ==
  ASSUME NEW a, NEW b, NEW c, Rendered(a), Rendered(b), Rendered(c),
         RowBefore(a, b), RowBefore(b, c)
  PROVE  RowBefore(a, c)
<1>1. PICK k \in DOMAIN b : FirstAt(a, b, k)
  BY BeforeAt
<1>2. PICK i \in DOMAIN c : FirstAt(b, c, i)
  BY BeforeAt
<1>3. /\ Len(a) \in Nat /\ Len(b) \in Nat /\ Len(c) \in Nat
      /\ DOMAIN a = 1..Len(a) /\ DOMAIN b = 1..Len(b) /\ DOMAIN c = 1..Len(c)
      /\ \A j \in DOMAIN a : Text(a[j]) \in Int
      /\ \A j \in DOMAIN b : Text(b[j]) \in Int
      /\ \A j \in DOMAIN c : Text(c[j]) \in Int
  BY DEF Rendered
<1>4. i \in Int /\ k \in Int
  BY <1>3
<1>5. CASE i < k
  <2>1. i \in DOMAIN a /\ Text(a[i]) = Text(b[i]) /\ i \in DOMAIN b
    BY <1>1, <1>3, <1>4, <1>5 DEF FirstAt
  <2>2. FirstAt(a, c, i)
    BY <1>1, <1>2, <1>3, <1>4, <1>5, <2>1 DEF FirstAt
  <2> QED BY <2>2, BeforeAt
<1>6. CASE k < i
  <2>1. k \in DOMAIN b /\ Text(b[k]) = Text(c[k]) /\ k \in DOMAIN c
    BY <1>1, <1>2, <1>3, <1>4, <1>6 DEF FirstAt
  <2>2. FirstAt(a, c, k)
    BY <1>1, <1>2, <1>3, <1>4, <1>6, <2>1 DEF FirstAt
  <2> QED BY <2>1, <2>2, BeforeAt
<1>7. CASE i = k
  <2>1. FirstAt(a, c, k)
    BY <1>1, <1>2, <1>3, <1>4, <1>7 DEF FirstAt
  <2> QED BY <1>2, <1>7, <2>1, BeforeAt
<1> QED BY <1>4, <1>5, <1>6, <1>7

\* Rows rendered alike come before the same rows and after the same.
LEMMA BeforeSame ==
  ASSUME NEW a, NEW b, NEW c, Rendered(a), Rendered(b), Rendered(c), SameText(a, b)
  PROVE  /\ RowBefore(a, c) <=> RowBefore(b, c)
         /\ RowBefore(c, a) <=> RowBefore(c, b)
<1>1. DOMAIN a = DOMAIN b /\ Len(a) = Len(b) /\ \A k \in DOMAIN a : Text(a[k]) = Text(b[k])
  BY DEF SameText, Rendered
<1>2. \A k \in DOMAIN c : FirstAt(a, c, k) <=> FirstAt(b, c, k)
  BY <1>1 DEF FirstAt
<1>3. \A k \in DOMAIN a : FirstAt(c, a, k) <=> FirstAt(c, b, k)
  <2> SUFFICES ASSUME NEW k \in DOMAIN a
               PROVE  FirstAt(c, a, k) <=> FirstAt(c, b, k)
    OBVIOUS
  <2>1. \A j \in 1..(k - 1) : Text(a[j]) = Text(b[j])
    BY <1>1 DEF Rendered
  <2> QED BY <1>1, <2>1 DEF FirstAt
<1> QED BY <1>1, <1>2, <1>3, BeforeAt

\* The numbers up to n are n.
LEMMA UpTo ==
  ASSUME NEW n \in Nat
  PROVE  IsFiniteSet(1..n) /\ Cardinality(1..n) = n
<1>1. n \in Int /\ 1 \in Int
  OBVIOUS
<1>2. IsFiniteSet(1..n) /\ Cardinality(1..n) = IF 1 > n THEN 0 ELSE n - 1 + 1
  BY <1>1, FS_Interval
<1>3. (IF 1 > n THEN 0 ELSE n - 1 + 1) = n
  OBVIOUS
<1> QED BY <1>2, <1>3

RenderedRows(rows) ==
  /\ Len(rows) \in Nat /\ DOMAIN rows = 1..Len(rows)
  /\ \A i \in DOMAIN rows : Rendered(rows[i])

\* What sortRows goes by is an order: it breaks the ties of the renderings by
\* the places, and renderings cannot run in a circle.
LEMMA EarlierOrders ==
  ASSUME NEW rows, RenderedRows(rows)
  PROVE  StrictOrder(DOMAIN rows, Earlier(rows))
<1> DEFINE S == DOMAIN rows
           Before(i, j) == RowBefore(rows[i], rows[j])
<1>1. \A i \in S : i \in Int /\ Rendered(rows[i])
  BY DEF RenderedRows
<1>2. \A i, j \in S : <<i, j>> \in Earlier(rows) <=> Before(i, j) \/ (~Before(j, i) /\ i < j)
  BY DEF Earlier
<1>3. \A i \in S : ~Before(i, i)
  <2>1. \A i \in S : SameText(rows[i], rows[i])
    BY DEF SameText
  <2> QED BY <1>1, <2>1, BeforeNotSame
<1>4. \A i, j, k \in S : Before(i, j) /\ Before(j, k) => Before(i, k)
  BY <1>1, BeforeTransitive
<1>5. \A i, j, k \in S : ~Before(i, j) /\ ~Before(j, i) =>
        (Before(i, k) <=> Before(j, k)) /\ (Before(k, i) <=> Before(k, j))
  BY <1>1, BeforeOrSame, BeforeSame
<1> HIDE DEF Before, S
<1>6. ASSUME NEW i \in S, NEW j \in S, NEW k \in S,
             <<i, j>> \in Earlier(rows), <<j, k>> \in Earlier(rows)
      PROVE  <<i, k>> \in Earlier(rows)
  <2>1. (Before(i, j) \/ (~Before(j, i) /\ i < j)) /\ (Before(j, k) \/ (~Before(k, j) /\ j < k))
    BY <1>2, <1>6
  <2>2. CASE Before(i, j)
    <3>1. Before(i, k)
      BY <1>4, <1>5, <2>1, <2>2
    <3> QED BY <1>2, <3>1
  <2>3. CASE ~Before(i, j) /\ Before(j, k)
    <3>1. Before(i, k)
      BY <1>5, <2>1, <2>3
    <3> QED BY <1>2, <3>1
  <2>4. CASE ~Before(i, j) /\ ~Before(j, k)
    <3>1. ~Before(j, i) /\ ~Before(k, j) /\ i < j /\ j < k
      BY <2>1, <2>4
    <3>2. ~Before(k, i)
      BY <1>5, <2>4, <3>1
    <3>3. i < k
      BY <1>1, <3>1
    <3> QED BY <1>2, <3>2, <3>3
  <2> QED BY <2>2, <2>3, <2>4
<1>7. \A i \in S : <<i, i>> \notin Earlier(rows)
  BY <1>1, <1>2, <1>3
<1>8. ASSUME NEW i \in S, NEW j \in S, i # j
      PROVE  <<i, j>> \in Earlier(rows) \/ <<j, i>> \in Earlier(rows)
  <2>1. i < j \/ j < i
    BY <1>1, <1>8
  <2> QED BY <1>2, <2>1
<1>9. StrictOrder(S, Earlier(rows))
  BY <1>6, <1>7, <1>8 DEF StrictOrder
<1> QED BY <1>9 DEF S

\* Where the rows of a sorted table were.
Order(rows) == Ranked(DOMAIN rows, Earlier(rows))

\* Sorting moves the rows: each of them to one place.
LEMMA SortMoves ==
  ASSUME NEW rows, RenderedRows(rows)
  PROVE  /\ DOMAIN SortRows(rows) = 1..Len(rows)
         /\ \A k \in 1..Len(rows) :
              /\ Order(rows)[k] \in 1..Len(rows)
              /\ Rank(DOMAIN rows, Earlier(rows), Order(rows)[k]) = k
              /\ SortRows(rows)[k] = rows[Order(rows)[k]]
         /\ \A i \in 1..Len(rows) :
              /\ Rank(DOMAIN rows, Earlier(rows), i) \in 1..Len(rows)
              /\ Order(rows)[Rank(DOMAIN rows, Earlier(rows), i)] = i
<1>1. Len(rows) \in Nat /\ DOMAIN rows = 1..Len(rows)
  BY DEF RenderedRows
<1>2. IsFiniteSet(DOMAIN rows) /\ Cardinality(DOMAIN rows) = Len(rows)
  BY <1>1, UpTo
<1>3. StrictOrder(DOMAIN rows, Earlier(rows))
  BY EarlierOrders
<1>4. /\ \A k \in 1..Len(rows) : Order(rows)[k] \in DOMAIN rows
           /\ Rank(DOMAIN rows, Earlier(rows), Order(rows)[k]) = k
      /\ \A i \in DOMAIN rows : Order(rows)[Rank(DOMAIN rows, Earlier(rows), i)] = i
  BY <1>2, <1>3, RankedLists DEF Order
<1>5. \A i \in DOMAIN rows : Rank(DOMAIN rows, Earlier(rows), i) \in 1..Len(rows)
  BY <1>2, <1>3, RankInRange
<1>6. DOMAIN SortRows(rows) = DOMAIN rows
      /\ \A k \in DOMAIN rows : SortRows(rows)[k] = rows[Order(rows)[k]]
  BY DEF SortRows, Order
<1>7. \A k \in 1..Len(rows) :
        /\ Order(rows)[k] \in 1..Len(rows)
        /\ Rank(DOMAIN rows, Earlier(rows), Order(rows)[k]) = k
        /\ SortRows(rows)[k] = rows[Order(rows)[k]]
  <2> SUFFICES ASSUME NEW k \in 1..Len(rows)
               PROVE  /\ Order(rows)[k] \in 1..Len(rows)
                      /\ Rank(DOMAIN rows, Earlier(rows), Order(rows)[k]) = k
                      /\ SortRows(rows)[k] = rows[Order(rows)[k]]
    OBVIOUS
  <2>1. k \in DOMAIN rows
    BY <1>1
  <2>2. Order(rows)[k] \in DOMAIN rows /\ Rank(DOMAIN rows, Earlier(rows), Order(rows)[k]) = k
    BY <1>4
  <2>3. SortRows(rows)[k] = rows[Order(rows)[k]]
    BY <1>6, <2>1
  <2> QED BY <1>1, <2>2, <2>3
<1>8. \A i \in 1..Len(rows) :
        /\ Rank(DOMAIN rows, Earlier(rows), i) \in 1..Len(rows)
        /\ Order(rows)[Rank(DOMAIN rows, Earlier(rows), i)] = i
  <2> SUFFICES ASSUME NEW i \in DOMAIN rows
               PROVE  /\ Rank(DOMAIN rows, Earlier(rows), i) \in 1..Len(rows)
                      /\ Order(rows)[Rank(DOMAIN rows, Earlier(rows), i)] = i
    BY <1>1
  <2> QED BY <1>4, <1>5
<1>9. DOMAIN SortRows(rows) = 1..Len(rows)
  BY <1>1, <1>6
<1> QED BY <1>7, <1>8, <1>9

\* If each row of a table is paired with one of another that is rendered like
\* it, no two with the same, then no place in the one sorted table has a row
\* that comes before the row there in the other.
LEMMA SortedNotBefore ==
  ASSUME NEW a, NEW b, RenderedRows(a), RenderedRows(b), Len(a) = Len(b),
         NEW p \in [DOMAIN a -> DOMAIN b],
         \A i, j \in DOMAIN a : p[i] = p[j] => i = j,
         \A i \in DOMAIN a : SameText(a[i], b[p[i]]),
         NEW r \in DOMAIN a
  PROVE  ~RowBefore(SortRows(a)[r], SortRows(b)[r])
<1> SUFFICES ASSUME RowBefore(SortRows(a)[r], SortRows(b)[r]) PROVE FALSE
  OBVIOUS
<1> DEFINE n == Len(a)
           x(k) == Order(a)[k]
           rank(j) == Rank(DOMAIN b, Earlier(b), j)
           y == Order(b)[r]
<1>1. n \in Nat /\ DOMAIN a = 1..n /\ DOMAIN b = 1..n /\ Len(b) = n /\ r \in 1..n
  BY DEF RenderedRows
<1>2. \A k \in 1..n : x(k) \in 1..n /\ Rank(DOMAIN a, Earlier(a), x(k)) = k
  BY <1>1, SortMoves
<1>3. y \in 1..n /\ rank(y) = r
  BY <1>1, SortMoves
<1>4. RowBefore(a[x(r)], b[y])
  BY <1>1, SortMoves
<1>5. \A i \in 1..n : Rendered(a[i]) /\ Rendered(b[i])
  BY <1>1 DEF RenderedRows
<1>6. IsFiniteSet(DOMAIN a) /\ IsFiniteSet(DOMAIN b)
  BY <1>1, UpTo
<1>7. StrictOrder(DOMAIN a, Earlier(a)) /\ StrictOrder(DOMAIN b, Earlier(b))
  BY EarlierOrders
<1> HIDE DEF n, x, y, rank
<1>8. ASSUME NEW k \in 1..r PROVE p[x(k)] \in 1..n /\ rank(p[x(k)]) \in 1..(r - 1)
  <2>1. k \in 1..n /\ k <= r
    BY <1>1
  <2>2. x(k) \in 1..n /\ x(r) \in 1..n
    BY <1>1, <1>2, <2>1
  <2>3. ~RowBefore(a[x(r)], a[x(k)])
    <3> SUFFICES ASSUME RowBefore(a[x(r)], a[x(k)]) PROVE FALSE
      OBVIOUS
    <3>1. <<x(r), x(k)>> \in Earlier(a)
      BY <1>1, <2>2 DEF Earlier
    <3>2. Rank(DOMAIN a, Earlier(a), x(r)) < Rank(DOMAIN a, Earlier(a), x(k))
      BY <1>1, <1>6, <1>7, <2>2, <3>1, RankRises
    <3>3. r < k
      BY <1>1, <1>2, <2>1, <3>2
    <3> QED BY <1>1, <2>1, <3>3
  <2>4. RowBefore(a[x(k)], b[y])
    <3>1. Rendered(a[x(k)]) /\ Rendered(a[x(r)]) /\ Rendered(b[y])
      BY <1>3, <1>5, <2>2
    <3>2. CASE RowBefore(a[x(k)], a[x(r)])
      BY <1>4, <3>1, <3>2, BeforeTransitive
    <3>3. CASE SameText(a[x(k)], a[x(r)])
      BY <1>4, <3>1, <3>3, BeforeSame
    <3> QED BY <2>3, <3>1, <3>2, <3>3, BeforeOrSame
  <2>5. p[x(k)] \in 1..n
    BY <1>1, <2>2
  <2>6. RowBefore(b[p[x(k)]], b[y])
    <3>1. SameText(a[x(k)], b[p[x(k)]])
      BY <1>1, <2>2
    <3>2. Rendered(a[x(k)]) /\ Rendered(b[p[x(k)]]) /\ Rendered(b[y])
      BY <1>3, <1>5, <2>2, <2>5
    <3> QED BY <2>4, <3>1, <3>2, BeforeSame
  <2>7. <<p[x(k)], y>> \in Earlier(b)
    BY <1>1, <1>3, <2>5, <2>6 DEF Earlier
  <2>8. rank(p[x(k)]) < rank(y)
    BY <1>1, <1>3, <1>6, <1>7, <2>5, <2>7, RankRises DEF rank
  <2>9. rank(p[x(k)]) \in 1..n
    BY <1>1, <2>5, SortMoves DEF rank
  <2> QED BY <1>1, <1>3, <2>5, <2>8, <2>9
<1> DEFINE f == [k \in 1..r |-> rank(p[x(k)])]
<1>9. f \in [1..r -> 1..(r - 1)]
  BY <1>8
<1>10. IsFiniteSet(1..r) /\ IsFiniteSet(1..(r - 1)) /\ Cardinality(1..(r - 1)) < Cardinality(1..r)
  <2>1. r \in Nat /\ r - 1 \in Nat
    BY <1>1
  <2>2. /\ IsFiniteSet(1..r) /\ Cardinality(1..r) = r
        /\ IsFiniteSet(1..(r - 1)) /\ Cardinality(1..(r - 1)) = r - 1
    BY <2>1, UpTo
  <2> QED BY <2>1, <2>2
<1> HIDE DEF f
<1>11. PICK k, l \in 1..r : k # l /\ f[k] = f[l]
  <2> DEFINE S == 1..r
             T == 1..(r - 1)
  <2>1. f \in [S -> T] /\ IsFiniteSet(S) /\ IsFiniteSet(T) /\ Cardinality(T) < Cardinality(S)
    BY <1>9, <1>10
  <2> HIDE DEF S, T
  <2>2. \E k, l \in S : k # l /\ f[k] = f[l]
    BY <2>1, FS_PigeonHole
  <2> QED BY <2>2 DEF S
<1>12. rank(p[x(k)]) = rank(p[x(l)])
  BY <1>11 DEF f
<1>13. p[x(k)] = p[x(l)]
  BY <1>1, <1>6, <1>7, <1>8, <1>12, RankTells DEF rank
<1>14. x(k) = x(l)
  <2>1. k \in 1..n /\ l \in 1..n
    BY <1>1
  <2>2. x(k) \in DOMAIN a /\ x(l) \in DOMAIN a
    BY <1>1, <1>2, <2>1
  <2> QED BY <1>13, <2>2
<1>15. k = l
  <2>1. k \in 1..n /\ l \in 1..n
    BY <1>1
  <2>2. Rank(DOMAIN a, Earlier(a), x(k)) = k /\ Rank(DOMAIN a, Earlier(a), x(l)) = l
    BY <1>2, <2>1
  <2> QED BY <1>14, <2>2
<1> QED BY <1>11, <1>15

\* Then the two tables are rendered alike once they are sorted.
LEMMA SortedAlike ==
  ASSUME NEW a, NEW b, RenderedRows(a), RenderedRows(b), Len(a) = Len(b),
         NEW p \in [DOMAIN a -> DOMAIN b],
         \A i, j \in DOMAIN a : p[i] = p[j] => i = j,
         \A i \in DOMAIN a : SameText(a[i], b[p[i]]),
         NEW r \in DOMAIN a
  PROVE  SameText(SortRows(a)[r], SortRows(b)[r])
<1>1. /\ Len(a) \in Nat /\ DOMAIN a = 1..Len(a) /\ DOMAIN b = DOMAIN a
      /\ \A i \in DOMAIN a : Rendered(a[i]) /\ Rendered(b[i])
  BY DEF RenderedRows
<1>2. IsFiniteSet(DOMAIN a)
  BY <1>1, UpTo
<1>3. p \in Surjection(DOMAIN a, DOMAIN a)
  <2> DEFINE D == DOMAIN a
  <2>1. p \in [D -> D] /\ \A i, j \in D : p[i] = p[j] => i = j
    BY <1>1
  <2>2. IsFiniteSet(D)
    BY <1>2
  <2> HIDE DEF D
  <2>3. p \in Injection(D, D)
    BY <2>1 DEF Injection, IsInjective
  <2>4. p \in Surjection(D, D)
    BY <2>2, <2>3, FS_Injection
  <2> QED BY <2>4 DEF D
<1> DEFINE q == [j \in DOMAIN b |-> CHOOSE i \in DOMAIN a : p[i] = j]
<1>4. \A j \in DOMAIN b : q[j] \in DOMAIN a /\ p[q[j]] = j
  <2>1. \A j \in DOMAIN a : \E i \in DOMAIN a : p[i] = j
    BY <1>3 DEF Surjection
  <2> QED BY <1>1, <2>1
<1>5. q \in [DOMAIN b -> DOMAIN a]
  BY <1>4
<1> HIDE DEF q
<1>6. \A i, j \in DOMAIN b : q[i] = q[j] => i = j
  BY <1>4
<1>7. \A j \in DOMAIN b : SameText(b[j], a[q[j]])
  <2> SUFFICES ASSUME NEW j \in DOMAIN b PROVE SameText(b[j], a[q[j]])
    OBVIOUS
  <2>1. q[j] \in DOMAIN a /\ p[q[j]] = j
    BY <1>4
  <2>2. SameText(a[q[j]], b[j])
    BY <2>1
  <2>3. Rendered(a[q[j]]) /\ Rendered(b[j])
    BY <1>1, <2>1
  <2> QED BY <2>2, <2>3 DEF SameText, Rendered
<1>8. ~RowBefore(SortRows(a)[r], SortRows(b)[r])
  BY SortedNotBefore
<1>9. ~RowBefore(SortRows(b)[r], SortRows(a)[r])
  <2>1. r \in DOMAIN b /\ Len(b) = Len(a)
    BY <1>1
  <2> QED BY <1>5, <1>6, <1>7, <2>1, SortedNotBefore
<1>10. Rendered(SortRows(a)[r]) /\ Rendered(SortRows(b)[r])
  <2>1. r \in 1..Len(a) /\ r \in 1..Len(b)
    BY <1>1 DEF RenderedRows
  <2>2. SortRows(a)[r] = a[Order(a)[r]] /\ Order(a)[r] \in 1..Len(a)
    BY <2>1, SortMoves
  <2>3. SortRows(b)[r] = b[Order(b)[r]] /\ Order(b)[r] \in 1..Len(b)
    BY <2>1, SortMoves
  <2> QED BY <1>1, <2>2, <2>3 DEF RenderedRows
<1> QED BY <1>8, <1>9, <1>10, BeforeOrSame

\* Row by row, what the comparison takes is what is asked for.
LEMMA SameIsNoDifference ==
  ASSUME NEW a, NEW b, NEW opt, Rendered(a), Rendered(b)
  PROVE  SameRow(a, b, opt) <=> ~RowsDiffer(a, b, opt)
<1>1. DOMAIN a = DOMAIN b <=> Len(a) = Len(b)
  <2>1. Cardinality(DOMAIN a) = Len(a) /\ Cardinality(DOMAIN b) = Len(b)
    BY UpTo DEF Rendered
  <2> QED BY <2>1 DEF Rendered
<1> QED BY <1>1 DEF SameRow, RowsDiffer

\* Every table in hand can be sorted.
LEMMA TableIsRendered ==
  ASSUME NEW t \in TableSet
  PROVE  RenderedRows(t.rows)
<1>1. Listing(t.rows) /\ \A i \in DOMAIN t.rows : Listing(t.rows[i])
  BY TablesAssumption
<1>2. \A c \in Cells(t) : Text(c) \in Int
  BY TablesAssumption
<1>3. \A i \in DOMAIN t.rows : \A k \in DOMAIN t.rows[i] : t.rows[i][k] \in Cells(t)
  BY DEF Cells, Range
<1>4. ASSUME NEW i \in DOMAIN t.rows PROVE Rendered(t.rows[i])
  <2>1. Len(t.rows[i]) \in Nat /\ DOMAIN t.rows[i] = 1..Len(t.rows[i])
    BY <1>1, ListingDomain
  <2> QED BY <1>2, <1>3, <2>1 DEF Rendered
<1>5. Len(t.rows) \in Nat /\ DOMAIN t.rows = 1..Len(t.rows)
  BY <1>1, ListingDomain
<1> QED BY <1>4, <1>5 DEF RenderedRows

\* Where Compare finds nothing, the ranks of the two sorts pair the rows.
LEMMA NoDifferenceDescribes ==
  ASSUME NEW want \in TableSet, NEW got \in TableSet, NEW opt, ~Differ(want, got, opt)
  PROVE  Describes(want, got, opt)
<1> DEFINE w == want.rows
           g == got.rows
           n == Len(w)
<1>1. RenderedRows(w) /\ RenderedRows(g)
  BY TableIsRendered
<1>2. ~got.nil /\ ~ColumnsDiffer(want, got, opt) /\ Len(w) = Len(g)
  BY DEF Differ
<1>3. /\ n \in Nat /\ DOMAIN w = 1..n /\ DOMAIN g = 1..n
      /\ \A i \in 1..n : Rendered(w[i]) /\ Rendered(g[i])
  BY <1>1, <1>2 DEF RenderedRows
<1>4. CASE opt.unordered
  <2> DEFINE rank(i) == Rank(DOMAIN w, Earlier(w), i)
             p == [i \in DOMAIN w |-> Order(g)[rank(i)]]
  <2>1. \A r \in DOMAIN SortRows(w) : ~RowsDiffer(SortRows(w)[r], SortRows(g)[r], opt)
    BY <1>4 DEF Differ
  <2> HIDE DEF w, g, n
  <2>2. \A i \in 1..n : rank(i) \in 1..n /\ Order(w)[rank(i)] = i
    BY <1>1, SortMoves DEF n
  <2>3. \A k \in 1..n : Order(g)[k] \in 1..n /\ Rank(DOMAIN g, Earlier(g), Order(g)[k]) = k
    BY <1>1, <1>2, SortMoves DEF n
  <2> HIDE DEF rank
  <2>4. p \in [DOMAIN w -> DOMAIN g]
    BY <1>3, <2>2, <2>3
  <2>5. \A i, j \in DOMAIN w : p[i] = p[j] => i = j
    <3> SUFFICES ASSUME NEW i \in 1..n, NEW j \in 1..n, p[i] = p[j] PROVE i = j
      BY <1>3
    <3>1. Order(g)[rank(i)] = Order(g)[rank(j)]
      BY <1>3
    <3>2. rank(i) = rank(j)
      BY <2>2, <2>3, <3>1
    <3> QED BY <2>2, <3>2
  <2>6. \A i \in DOMAIN w : SameRow(w[i], g[p[i]], opt)
    <3> SUFFICES ASSUME NEW i \in 1..n PROVE SameRow(w[i], g[p[i]], opt)
      BY <1>3
    <3>1. rank(i) \in 1..n /\ Order(w)[rank(i)] = i
      BY <2>2
    <3>2. SortRows(w)[rank(i)] = w[i] /\ rank(i) \in DOMAIN SortRows(w)
      BY <1>1, <3>1, SortMoves DEF n
    <3>3. SortRows(g)[rank(i)] = g[Order(g)[rank(i)]]
      BY <1>1, <1>2, <3>1, SortMoves DEF n
    <3>4. p[i] = Order(g)[rank(i)] /\ p[i] \in 1..n
      BY <1>3, <2>3, <3>1
    <3>5. ~RowsDiffer(w[i], g[p[i]], opt)
      BY <2>1, <3>2, <3>3, <3>4
    <3> QED BY <1>3, <3>4, <3>5, SameIsNoDifference
  <2> HIDE DEF p
  <2>7. p \in Pairings(want, got, opt)
    BY <1>4, <2>4, <2>5 DEF Pairings, w, g
  <2> QED BY <1>2, <2>6, <2>7 DEF Describes, w, g
<1>5. CASE ~opt.unordered
  <2> DEFINE p == [i \in DOMAIN w |-> i]
  <2>1. p \in Pairings(want, got, opt)
    BY <1>5 DEF Pairings
  <2>2. \A r \in DOMAIN w : ~RowsDiffer(w[r], g[r], opt)
    BY <1>5 DEF Differ
  <2>3. \A i \in DOMAIN w : SameRow(w[i], g[p[i]], opt)
    BY <1>3, <2>2, SameIsNoDifference
  <2> QED BY <1>2, <2>1, <2>3 DEF Describes
<1> QED BY <1>4, <1>5

\* Where the rows can be paired, Compare finds nothing: sorting puts rows that
\* are rendered alike in the same places.
LEMMA DescribedIsNoDifference ==
  ASSUME NEW want \in TableSet, NEW got \in TableSet, NEW opt,
         RenderingTells(want, got, opt), Describes(want, got, opt)
  PROVE  ~Differ(want, got, opt)
<1> DEFINE w == want.rows
           g == got.rows
<1>1. RenderedRows(w) /\ RenderedRows(g)
  BY TableIsRendered
<1>2. ~got.nil /\ ~ColumnsDiffer(want, got, opt) /\ Len(w) = Len(g)
  BY DEF Describes
<1>3. /\ DOMAIN w = DOMAIN g /\ DOMAIN w = 1..Len(w)
      /\ \A i \in DOMAIN w : Rendered(w[i]) /\ Rendered(g[i])
  BY <1>1, <1>2 DEF RenderedRows
<1>4. \A i \in DOMAIN w, j \in DOMAIN g :
        /\ \A k \in DOMAIN w[i] : w[i][k] \in Cells(want)
        /\ \A k \in DOMAIN g[j] : g[j][k] \in Cells(got)
  BY DEF Cells, Range
<1>5. ASSUME NEW i \in DOMAIN w, NEW j \in DOMAIN g
      PROVE  SameRow(w[i], g[j], opt) <=> SameText(w[i], g[j])
  <2>1. Rendered(w[i]) /\ Rendered(g[j])
    BY <1>3
  <2>2. \A k \in DOMAIN w[i] : k \in DOMAIN g[j] =>
          (Text(w[i][k]) = Text(g[j][k]) <=> CellsEqual(w[i][k], g[j][k], opt))
    BY <1>4 DEF RenderingTells
  <2>3. DOMAIN w[i] = DOMAIN g[j] <=> Len(w[i]) = Len(g[j])
    BY <2>1 DEF Rendered
  <2> QED BY <2>2, <2>3 DEF SameRow, SameText
<1>6. PICK p \in Pairings(want, got, opt) : \A i \in DOMAIN w : SameRow(w[i], g[p[i]], opt)
  BY DEF Describes
<1>7. CASE opt.unordered
  <2>1. p \in [DOMAIN w -> DOMAIN g] /\ \A i, j \in DOMAIN w : p[i] = p[j] => i = j
    BY <1>6, <1>7 DEF Pairings
  <2> HIDE DEF w, g
  <2>2. \A i \in DOMAIN w : SameText(w[i], g[p[i]])
    BY <1>5, <1>6, <2>1
  <2>3. ASSUME NEW r \in DOMAIN SortRows(w) PROVE ~RowsDiffer(SortRows(w)[r], SortRows(g)[r], opt)
    <3>1. r \in DOMAIN w
      BY <1>1, <1>3, SortMoves
    <3>2. SameText(SortRows(w)[r], SortRows(g)[r])
      BY <1>1, <1>2, <2>1, <2>2, <3>1, SortedAlike
    <3>3. SortRows(w)[r] = w[Order(w)[r]] /\ Order(w)[r] \in DOMAIN w
      BY <1>1, <1>3, <3>1, SortMoves
    <3>4. SortRows(g)[r] = g[Order(g)[r]] /\ Order(g)[r] \in DOMAIN g
      <4>1. r \in 1..Len(g) /\ DOMAIN g = 1..Len(g)
        BY <1>2, <1>3, <3>1
      <4> QED BY <1>1, <4>1, SortMoves
    <3>5. SameRow(w[Order(w)[r]], g[Order(g)[r]], opt)
      BY <1>5, <3>2, <3>3, <3>4
    <3> QED BY <1>3, <3>3, <3>4, <3>5, SameIsNoDifference
  <2> QED BY <1>2, <1>7, <2>3 DEF Differ, w, g
<1>8. CASE ~opt.unordered
  <2>1. p = [i \in DOMAIN w |-> i]
    BY <1>6, <1>8 DEF Pairings
  <2>2. \A r \in DOMAIN w : ~RowsDiffer(w[r], g[r], opt)
    BY <1>3, <1>6, <2>1, SameIsNoDifference
  <2> QED BY <1>2, <1>8, <2>2 DEF Differ
<1> QED BY <1>7, <1>8

(***************************************************************************)
(* Reports                                                                 *)
(***************************************************************************)

\* The engines with an outcome are finitely many.
LEMMA EnginesFinite ==
  ASSUME NEW R, NEW reports \in Seq(R), NEW c, NEW outcome
  PROVE  IsFiniteSet(Engines(reports, c, outcome))
<1> DEFINE K == {k \in DOMAIN reports :
                   c \in DOMAIN reports[k].cases /\ reports[k].cases[c] = outcome}
<1>1. Len(reports) \in Nat /\ DOMAIN reports = 1..Len(reports)
  OBVIOUS
<1>2. IsFiniteSet(DOMAIN reports)
  BY <1>1, FS_Interval
<1>3. IsFiniteSet(K)
  BY <1>2, FS_Subset
<1> DEFINE T == {reports[i].adapter : i \in K}
           f == [i \in K |-> reports[i].adapter]
<1>4. f \in Surjection(K, T)
  BY DEF Surjection
<1>5. IsFiniteSet(T)
  <2> HIDE DEF f, T, K
  <2> QED BY <1>3, <1>4, FS_Surjection
<1> QED BY <1>5 DEF Engines

\* The queue of Compare and the group of Summarize that is called failed by all
\* are the same cases, of any number of reports in any order.
THEOREM AllFailedIsQueued ==
  ASSUME NEW R, NEW reports \in Seq(R), NEW c
  PROVE  Group(reports, c) = "all failed" <=> Unanimous(reports, c)
<1> DEFINE P == Passed(reports, c)
           F == Failed(reports, c)
<1>1. IsFiniteSet(P) /\ IsFiniteSet(F)
  BY EnginesFinite DEF Passed, Failed
<1>2. Cardinality(P) \in Nat /\ Cardinality(F) \in Nat
  BY <1>1, FS_CardinalityType
<1>3. (P = {} <=> Cardinality(P) = 0) /\ (F = {} <=> Cardinality(F) = 0)
  BY <1>1, FS_EmptySet
<1>4. Group(reports, c) = "all failed"
        <=> /\ ~(Cardinality(P) + Cardinality(F) < 2)
            /\ ~(P # {} /\ F # {}) /\ F # {}
  BY DEF Group, Judged, Divided
<1>5. Unanimous(reports, c) <=> P = {} /\ Cardinality(F) >= 2
  BY DEF Unanimous, MinEngines
<1>6. /\ ~(Cardinality(P) + Cardinality(F) < 2) /\ ~(P # {} /\ F # {}) /\ F # {}
      <=> P = {} /\ Cardinality(F) >= 2
  <2> HIDE DEF P, F
  <2> QED BY <1>2, <1>3
<1> QED BY <1>4, <1>5, <1>6

\* One more report takes a case off the queue by passing it, and puts one on
\* it only by failing it: a skip, an error or a case it does not hold changes
\* nothing.
THEOREM OnlyVerdictsMoveTheQueue ==
  ASSUME NEW R, NEW reports \in Seq(R), NEW r \in R, NEW c,
         ~(c \in DOMAIN r.cases /\ r.cases[c] \in {"pass", "fail"})
  PROVE  Unanimous(Append(reports, r), c) <=> Unanimous(reports, c)
<1> DEFINE more == Append(reports, r)
<1>1. /\ more \in Seq(R) /\ Len(more) = Len(reports) + 1 /\ Len(reports) \in Nat
      /\ DOMAIN reports = 1..Len(reports) /\ DOMAIN more = 1..(Len(reports) + 1)
      /\ \A i \in DOMAIN reports : more[i] = reports[i]
      /\ more[Len(reports) + 1] = r
  OBVIOUS
<1>2. ASSUME NEW outcome \in {"pass", "fail"}
      PROVE  Engines(more, c, outcome) = Engines(reports, c, outcome)
  <2> DEFINE K(s) == {k \in DOMAIN s : c \in DOMAIN s[k].cases /\ s[k].cases[c] = outcome}
  <2>1. ASSUME NEW k \in DOMAIN more, c \in DOMAIN more[k].cases, more[k].cases[c] = outcome
        PROVE  k \in DOMAIN reports
    <3>1. k # Len(reports) + 1
      BY <1>1, <2>1
    <3> QED BY <1>1, <3>1
  <2>2. K(more) = K(reports)
    <3> HIDE DEF more
    <3>1. ASSUME NEW k \in K(more) PROVE k \in K(reports)
      BY <1>1, <2>1
    <3>2. ASSUME NEW k \in K(reports) PROVE k \in K(more)
      BY <1>1
    <3> QED BY <3>1, <3>2
  <2>3. \A k \in K(reports) : more[k] = reports[k]
    BY <1>1
  <2>4. {more[i].adapter : i \in K(more)} = {reports[i].adapter : i \in K(reports)}
    <3> HIDE DEF K, more
    <3> QED BY <2>2, <2>3
  <2> QED BY <2>4 DEF Engines
<1>3. Passed(more, c) = Passed(reports, c) /\ Failed(more, c) = Failed(reports, c)
  BY <1>2 DEF Passed, Failed
<1> QED BY <1>3 DEF Unanimous

(***************************************************************************)
(* Densities                                                               *)
(***************************************************************************)

\* Where the fixed part comes off and the allocation unit is known, rounding up
\* to a whole unit is at most the share of what is divided that DensityFloor
\* allows, on either route.
THEOREM RoundingIsBounded ==
  ASSUME NEW l, NEW pad \in Nat, l.unit \in Nat, GraphBytes(l) \in Int,
         Exact(l), pad < l.unit, DensityOK(l)
  PROVE  DensityFloor * pad <= Over(l)
<1>1. GraphBytes(l) > 0 /\ GraphBytes(l) >= DensityFloor * l.unit
  BY DEF DensityOK, ExactOK
<1>2. Over(l) = GraphBytes(l)
  BY <1>1 DEF Over
<1>3. DensityFloor * pad <= DensityFloor * l.unit
  BY DensityAssumption
<1> QED BY <1>1, <1>2, <1>3, DensityAssumption

\* The crudest route divides a whole store, and the engine's own fixed part is
\* the same share of it at the most, while that is no more than an empty store.
THEOREM FloorIsBounded ==
  ASSUME NEW l, NEW fixed \in Nat, l.size \in Nat, l.empty \in Nat,
         ~Exact(l), fixed <= l.empty, DensityOK(l)
  PROVE  DensityFloor * fixed <= Over(l)
<1>1. l.size >= DensityFloor * l.empty
  BY DEF DensityOK, EmptyOK
<1>2. Over(l) = l.size
  BY DEF GraphBytes, Over
<1>3. DensityFloor * fixed <= DensityFloor * l.empty
  BY DensityAssumption
<1> QED BY <1>1, <1>2, <1>3, DensityAssumption

\* A share of less is no more.
LEMMA LessShared ==
  ASSUME NEW a \in Int, NEW b \in Int, NEW n \in Nat, n > 0, a <= b
  PROVE  a \div n <= b \div n
<1> DEFINE p == a \div n
           q == b \div n
<1>1. p \in Int /\ q \in Int
  OBVIOUS
<1>2. n * p <= a
  OBVIOUS
<1>3. b < n * q + n
  OBVIOUS
<1> HIDE DEF p, q
<1>4. ASSUME p > q PROVE FALSE
  <2>1. n * (p - q) >= n
    BY <1>1, <1>4
  <2>2. n * (p - q) = n * p - n * q
    BY <1>1
  <2>3. n * p \in Int /\ n * q \in Int
    BY <1>1
  <2> QED BY <1>2, <1>3, <2>1, <2>2, <2>3
<1>5. p <= q
  BY <1>1, <1>4
<1> QED BY <1>5 DEF p, q

(***************************************************************************)
(* The question in hand                                                    *)
(***************************************************************************)

RowsAnswer(want, got, opt) ==
  [of |-> "rows", want |-> want, got |-> got, opt |-> opt, differ |-> Differ(want, got, opt)]

ConsensusAnswer(reports, file) ==
  [of |-> "consensus", reports |-> reports, entries |-> file.entries,
   readable |-> Readable(file.version, file.entries), review |-> Review(reports)]

DensityAnswer(store) == [of |-> "density", store |-> store, load |-> Known(store)]

StagingAnswer(fx, rows) ==
  [of |-> "staging", fixture |-> fx, rows |-> rows, file |-> Staged(fx, rows)]

\* The invariant: the question in hand was answered from what it is about.
Answered ==
  \/ subject = [of |-> "nothing"]
  \/ \E want \in TableSet, got \in TableSet, opt \in OptionSet :
       subject = RowsAnswer(want, got, opt)
  \/ \E reports \in ReportSeqs, file \in Files : subject = ConsensusAnswer(reports, file)
  \/ \E store \in Stores : subject = DensityAnswer(store)
  \/ \E fx \in FixtureSet, rows \in BOOLEAN :
       Valid(fx) /\ subject = StagingAnswer(fx, rows)

\* A step answers what it takes up.
LEMMA AnsweredStep == Answered /\ [Next]_vars => Answered'
<1> SUFFICES ASSUME Answered, [Next]_vars PROVE Answered'
  OBVIOUS
<1>1. CASE CompareTables
  BY <1>1 DEF CompareTables, Answered, RowsAnswer
<1>2. CASE CompareReports
  BY <1>2 DEF CompareReports, Answered, ConsensusAnswer
<1>3. CASE WeighStore
  BY <1>3 DEF WeighStore, Answered, DensityAnswer
<1>4. CASE StageFixture
  BY <1>4 DEF StageFixture, Answered, StagingAnswer
<1>5. CASE UNCHANGED vars
  <2>1. subject' = subject
    BY <1>5 DEF vars
  <2> QED BY <2>1 DEF Answered
<1> QED BY <1>1, <1>2, <1>3, <1>4, <1>5 DEF Next

\* The invariant.
LEMMA AlwaysAnswered == Spec => []Answered
<1>1. Init => Answered
  BY DEF Init, Answered
<1> QED BY <1>1, AnsweredStep, PTL DEF Spec

\* Each kind of answer is known by what it is of.
LEMMA AskedRows ==
  ASSUME Answered, Asked("rows")
  PROVE  \E want \in TableSet, got \in TableSet, opt \in OptionSet :
           subject = RowsAnswer(want, got, opt)
BY DEF Answered, Asked, ConsensusAnswer, DensityAnswer, StagingAnswer

\* A question about reports.
LEMMA AskedConsensus ==
  ASSUME Answered, Asked("consensus")
  PROVE  \E reports \in ReportSeqs, file \in Files : subject = ConsensusAnswer(reports, file)
BY DEF Answered, Asked, RowsAnswer, DensityAnswer, StagingAnswer

\* A question about a store.
LEMMA AskedDensity ==
  ASSUME Answered, Asked("density")
  PROVE  \E store \in Stores : subject = DensityAnswer(store)
BY DEF Answered, Asked, RowsAnswer, ConsensusAnswer, StagingAnswer

\* A question about a fixture.
LEMMA AskedStaging ==
  ASSUME Answered, Asked("staging")
  PROVE  \E fx \in FixtureSet, rows \in BOOLEAN :
           Valid(fx) /\ subject = StagingAnswer(fx, rows)
BY DEF Answered, Asked, RowsAnswer, ConsensusAnswer, DensityAnswer

\* No table passes for another one: if Compare finds no difference, the rows
\* of the two can be paired so that each cell is the wanted one, whatever the
\* cells are and however many rows there are, and even where rendering puts
\* different values side by side.
THEOREM PassDeserved == Spec => []PassIsDeserved
<1>1. Answered => PassIsDeserved
  <2> SUFFICES ASSUME Answered, Asked("rows"), ~subject.differ
               PROVE  Describes(subject.want, subject.got, subject.opt)
    BY DEF PassIsDeserved
  <2>1. PICK want \in TableSet, got \in TableSet, opt \in OptionSet :
          subject = RowsAnswer(want, got, opt)
    BY AskedRows
  <2>2. /\ subject.want = want /\ subject.got = got /\ subject.opt = opt
        /\ subject.differ = Differ(want, got, opt)
    BY <2>1 DEF RowsAnswer
  <2>3. ~Differ(want, got, opt)
    BY <2>2
  <2> QED BY <2>2, <2>3, NoDifferenceDescribes
<1> QED BY <1>1, AlwaysAnswered, PTL

\* And none fails that is the wanted one, where what is rendered alike is equal.
THEOREM FailureDeserved == Spec => []FailureIsDeserved
<1>1. Answered => FailureIsDeserved
  <2> SUFFICES ASSUME Answered, Asked("rows"),
                      RenderingTells(subject.want, subject.got, subject.opt),
                      Describes(subject.want, subject.got, subject.opt)
               PROVE  ~subject.differ
    BY DEF FailureIsDeserved
  <2>1. PICK want \in TableSet, got \in TableSet, opt \in OptionSet :
          subject = RowsAnswer(want, got, opt)
    BY AskedRows
  <2>2. /\ subject.want = want /\ subject.got = got /\ subject.opt = opt
        /\ subject.differ = Differ(want, got, opt)
    BY <2>1 DEF RowsAnswer
  <2>3. RenderingTells(want, got, opt) /\ Describes(want, got, opt)
    BY <2>2
  <2> QED BY <2>2, <2>3, DescribedIsNoDifference
<1> QED BY <1>1, AlwaysAnswered, PTL

\* The queue and the group of the summary are one set of cases.
THEOREM QueueAllFailed == Spec => []QueueIsAllFailed
<1>1. Answered => QueueIsAllFailed
  <2> SUFFICES ASSUME Answered, Asked("consensus")
               PROVE  subject.review = {c \in CaseIDs(subject.reports) :
                                          Group(subject.reports, c) = "all failed"}
    BY DEF QueueIsAllFailed
  <2>1. PICK reports \in ReportSeqs, file \in Files : subject = ConsensusAnswer(reports, file)
    BY AskedConsensus
  <2>2. subject.reports = reports /\ subject.review = Review(reports)
    BY <2>1 DEF ConsensusAnswer
  <2>3. reports \in Seq(Range(reports))
    BY TablesAssumption DEF Listing
  <2>4. \A c : Group(reports, c) = "all failed" <=> Unanimous(reports, c)
    BY <2>3, AllFailedIsQueued
  <2> QED BY <2>2, <2>4 DEF Review
<1> QED BY <1>1, AlwaysAnswered, PTL

\* A file that loads has one verdict for each case of it.
LEMMA ReadIsOne ==
  ASSUME NEW version, NEW entries, Listing(entries), Readable(version, entries)
  PROVE  /\ DOMAIN Read(entries) = {entries[i].case : i \in DOMAIN entries}
         /\ \A i \in DOMAIN entries :
              entries[i].verdict \in Verdicts /\ Read(entries)[entries[i].case] = entries[i].verdict
<1>1. DOMAIN entries \subseteq Int
  BY ListingDomain
<1>2. DOMAIN Read(entries) = {entries[i].case : i \in DOMAIN entries}
  BY DEF Read
<1>3. ASSUME NEW i \in DOMAIN entries
      PROVE  entries[i].verdict \in Verdicts /\ Read(entries)[entries[i].case] = entries[i].verdict
  <2> DEFINE Latest(k) == /\ entries[k].case = entries[i].case
                          /\ \A j \in DOMAIN entries : entries[j].case = entries[i].case => j <= k
  <2>1. \A j \in DOMAIN entries : entries[j].case = entries[i].case => j = i
    BY DEF Readable
  <2>2. Latest(i)
    BY <1>1, <2>1
  <2>3. (CHOOSE k \in DOMAIN entries : Latest(k)) = i
    BY <2>1, <2>2
  <2>4. Read(entries)[entries[i].case] = entries[CHOOSE k \in DOMAIN entries : Latest(k)].verdict
    BY DEF Read
  <2> QED BY <2>3, <2>4 DEF Readable
<1> QED BY <1>2, <1>3

\* Every decision of a file that loads is shown once, under its verdict or as
\* stale, and what the template asks for is what no entry is about.
THEOREM DecisionCounted == Spec => []EveryDecisionCounted
<1>1. Answered => EveryDecisionCounted
  <2> SUFFICES ASSUME Answered, Asked("consensus"), subject.readable
               PROVE  EveryDecisionCounted
    BY DEF EveryDecisionCounted
  <2>1. PICK reports \in ReportSeqs, file \in Files : subject = ConsensusAnswer(reports, file)
    BY AskedConsensus
  <2> DEFINE entries == file.entries
             decided == Read(entries)
             cases == {entries[i].case : i \in DOMAIN entries}
  <2>2. /\ subject.reports = reports /\ subject.entries = entries
        /\ subject.review = Review(reports)
        /\ subject.readable = Readable(file.version, entries)
    BY <2>1 DEF ConsensusAnswer
  <2>3. Listing(entries) /\ Readable(file.version, entries)
    BY <2>2, TablesAssumption
  <2>4. DOMAIN decided = cases
        /\ \A i \in DOMAIN entries :
             entries[i].verdict \in Verdicts /\ decided[entries[i].case] = entries[i].verdict
    <3> HIDE DEF entries
    <3> QED BY <2>3, ReadIsOne
  <2> HIDE DEF decided, cases
  <2>5. ASSUME NEW i \in DOMAIN entries
        PROVE  IF entries[i].case \in Review(reports)
               THEN {v \in Verdicts : entries[i].case \in ByVerdict(reports, decided, v)}
                      = {entries[i].verdict}
               ELSE entries[i].case \in Stale(reports, decided)
    <3>1. entries[i].case \in DOMAIN decided
      BY <2>4 DEF cases
    <3>2. CASE entries[i].case \in Review(reports)
      BY <2>4, <3>1, <3>2 DEF ByVerdict
    <3>3. CASE entries[i].case \notin Review(reports)
      BY <3>1, <3>3 DEF Stale
    <3> QED BY <3>2, <3>3
  <2>6. {e.case : e \in Template(reports, decided)} = Review(reports) \ cases
    <3> DEFINE left == Review(reports) \ cases
    <3>1. Template(reports, decided) = {Entry(c, "", FALSE) : c \in left}
      BY <2>4 DEF Template, Undisposed
    <3>2. \A c : Entry(c, "", FALSE).case = c
      BY DEF Entry
    <3> HIDE DEF left
    <3>3. {e.case : e \in {Entry(c, "", FALSE) : c \in left}} = left
      BY <3>2
    <3> QED BY <3>1, <3>3 DEF left
  <2> QED BY <2>2, <2>5, <2>6 DEF EveryDecisionCounted, decided, cases
<1> QED BY <1>1, AlwaysAnswered, PTL

\* What is divided where a density is published and the fixed part comes off.
LEMMA FixedComesOff ==
  ASSUME NEW l, Exact(l), DensityOK(l)
  PROVE  Over(l) = l.size - Fixed(l) /\ GraphBytes(l) = Over(l)
BY DEF DensityOK, ExactOK, GraphBytes, Over

\* A density that is published is of the graph, but for what the engine leaves
\* in its slack, for rounding, and for the fixed part of a store that is
\* divided whole: each with its bound, for a floor of ten or more.
THEOREM ErrorBounded ==
  ASSUME DensityFloor >= 10
  PROVE  Spec => []ErrorIsBounded
<1>1. Answered => ErrorIsBounded
  <2> SUFFICES ASSUME Answered, Asked("density"), DensityOK(subject.load)
               PROVE  ErrorIsBounded
    BY DEF ErrorIsBounded
  <2>1. PICK s \in Stores : subject = DensityAnswer(s)
    BY AskedDensity
  <2> DEFINE l == Known(s)
             elements == Larger(s.nodes, s.edges)
  <2>2. subject.load = l /\ subject.store = s /\ DensityOK(l)
    BY <2>1 DEF DensityAnswer
  <2>3. /\ s.fixed \in Nat /\ s.graph \in Nat /\ s.pad \in Nat /\ s.schema \in Nat
        /\ s.empty \in Nat /\ s.unit \in Nat /\ s.pad < s.unit
        /\ s.nodes \in Nat /\ s.edges \in Nat
    BY TablesAssumption
  <2>4. /\ l.size = s.fixed + s.graph + s.pad /\ l.size \in Nat
        /\ l.schemaFloor \in {0, s.fixed} /\ l.schema \in {0, s.schema}
        /\ l.unit \in {0, s.unit} /\ l.empty \in {0, s.empty}
        /\ l.nodes = s.nodes /\ l.edges = s.edges
    BY <2>3 DEF Known, Load
  <2> HIDE DEF l
  <2>5. DensityFloor \in Nat /\ DensityFloor >= 10
    BY DensityAssumption
  <2>6. \A x, y \in Int : x >= 0 /\ DensityFloor * x <= y => 10 * x <= y
    BY <2>5
  <2>7. ASSUME Exact(l)
        PROVE  /\ Charged(l, s) = s.pad + Slack(l, s)
               /\ l.unit > 0 => 10 * s.pad <= Over(l)
    <3>1. /\ Floor(l) = "fixture-schema" => Fixed(l) = s.fixed
          /\ Floor(l) = "engine" => Fixed(l) = s.schema
      BY <2>3, <2>4 DEF Fixed, Floor
    <3>2. Over(l) = l.size - Fixed(l) /\ GraphBytes(l) = Over(l)
      BY <2>2, <2>7, FixedComesOff
    <3>3. Floor(l) \in {"fixture-schema", "engine"}
      BY <2>7 DEF Exact
    <3>4. Charged(l, s) = s.pad + Slack(l, s)
      BY <2>3, <2>4, <3>1, <3>2, <3>3 DEF Charged, Slack
    <3>5. Over(l) \in Int
      BY <2>3, <2>4, <3>1, <3>2, <3>3
    <3>6. ASSUME l.unit > 0 PROVE 10 * s.pad <= Over(l)
      <4>1. l.unit = s.unit
        BY <2>3, <2>4, <3>6
      <4>2. DensityFloor * s.pad <= Over(l)
        BY <2>2, <2>3, <2>7, <3>2, <3>5, <4>1, RoundingIsBounded
      <4> QED BY <2>3, <2>6, <3>5, <4>2
    <3> QED BY <3>4, <3>6
  <2>8. ASSUME ~Exact(l)
        PROVE  /\ s.fixed <= s.empty => 10 * s.fixed <= Over(l)
               /\ elements > 0 => Charged(l, s) \div elements <= s.empty
    <3>1. EmptyOK(l) /\ Floor(l) = "empty-store"
      BY <2>2, <2>8 DEF DensityOK
    <3>2. l.empty = s.empty
      BY <2>3, <2>4, <3>1 DEF Floor
    <3>3. Over(l) = l.size
      BY <2>8 DEF GraphBytes, Over
    <3>4. ASSUME s.fixed <= s.empty PROVE 10 * s.fixed <= Over(l)
      <4>1. DensityFloor * s.fixed <= Over(l)
        BY <2>2, <2>3, <2>4, <2>8, <3>2, <3>4, FloorIsBounded
      <4> QED BY <2>3, <2>4, <2>6, <3>3, <4>1
    <3>5. ASSUME elements > 0 PROVE Charged(l, s) \div elements <= s.empty
      <4>1. elements \in Nat /\ elements = Larger(l.nodes, l.edges)
        BY <2>3, <2>4 DEF Larger
      <4> HIDE DEF elements
      <4>2. ~(l.size \div elements > s.empty)
        BY <3>1, <3>2, <3>5, <4>1 DEF EmptyOK, ShareOver
      <4>3. Charged(l, s) \in Int /\ Charged(l, s) <= l.size
        BY <2>3, <2>4, <3>3 DEF Charged
      <4>4. Charged(l, s) \div elements <= l.size \div elements
        BY <2>4, <3>5, <4>1, <4>3, LessShared
      <4>5. Charged(l, s) \div elements \in Int /\ l.size \div elements \in Int
        BY <2>4, <3>5, <4>1, <4>3
      <4> QED BY <2>3, <4>2, <4>4, <4>5
    <3> QED BY <3>4, <3>5
  <2> QED BY <2>2, <2>7, <2>8 DEF ErrorIsBounded
<1> QED BY <1>1, AlwaysAnswered, PTL

(***************************************************************************)
(* A sequence divided into lists                                           *)
(***************************************************************************)

\* The order of the places in a sequence.
LEMMA AscendingOrders ==
  ASSUME NEW n \in Nat, NEW is, is \subseteq 1..n
  PROVE  IsFiniteSet(is) /\ Cardinality(is) \in Nat /\ StrictOrder(is, Ascending(is))
<1>1. IsFiniteSet(is)
  BY UpTo, FS_Subset
<1>2. \A i, j \in is : <<i, j>> \in Ascending(is) <=> i < j
  BY DEF Ascending
<1>3. \A i \in is : i \in Int
  OBVIOUS
<1>4. StrictOrder(is, Ascending(is))
  BY <1>2, <1>3 DEF StrictOrder
<1> QED BY <1>1, <1>4, FS_CardinalityType

\* What is at a set of places, in their order.
LEMMA SelectedThose ==
  ASSUME NEW n \in Nat, NEW is, is \subseteq 1..n, NEW seq
  PROVE  /\ Len(Selected(seq, is)) = Cardinality(is) /\ Cardinality(is) \in Nat
         /\ DOMAIN Selected(seq, is) = 1..Cardinality(is)
         /\ \A i \in is :
              /\ Rank(is, Ascending(is), i) \in 1..Cardinality(is)
              /\ Selected(seq, is)[Rank(is, Ascending(is), i)] = seq[i]
         /\ \A k \in 1..Cardinality(is) : \E i \in is :
              k = Rank(is, Ascending(is), i) /\ Selected(seq, is)[k] = seq[i]
         /\ Range(Selected(seq, is)) = {seq[i] : i \in is}
<1> DEFINE m == Cardinality(is)
           list == Ranked(is, Ascending(is))
           s == Selected(seq, is)
<1>1. IsFiniteSet(is) /\ m \in Nat /\ StrictOrder(is, Ascending(is))
  BY AscendingOrders
<1>2. \A k \in 1..m : list[k] \in is /\ Rank(is, Ascending(is), list[k]) = k
  BY <1>1, RankedLists
<1>3. \A i \in is : Rank(is, Ascending(is), i) \in 1..m /\ list[Rank(is, Ascending(is), i)] = i
  BY <1>1, RankInRange, RankedLists
<1>4. s = [k \in 1..m |-> seq[list[k]]]
  BY DEF Selected
<1> HIDE DEF m, list, s
<1>5. DOMAIN s = 1..m /\ \A k \in 1..m : s[k] = seq[list[k]]
  BY <1>4
<1>6. Len(s) = m
  <2>1. s \in Seq({seq[list[k]] : k \in 1..m})
    BY <1>1, <1>4
  <2>2. Len(s) \in Nat /\ DOMAIN s = 1..Len(s)
    BY <2>1
  <2>3. Cardinality(1..Len(s)) = Len(s) /\ Cardinality(1..m) = m
    BY <1>1, <2>2, UpTo
  <2> QED BY <1>5, <2>2, <2>3
<1>7. \A i \in is : s[Rank(is, Ascending(is), i)] = seq[i]
  BY <1>3, <1>5
<1>8. \A k \in 1..m : \E i \in is : k = Rank(is, Ascending(is), i) /\ s[k] = seq[i]
  BY <1>2, <1>5
<1>9. Range(s) = {seq[i] : i \in is}
  <2>1. Range(s) = {s[k] : k \in 1..m}
    BY <1>5 DEF Range
  <2>2. ASSUME NEW k \in 1..m PROVE s[k] \in {seq[i] : i \in is}
    BY <1>8
  <2>3. ASSUME NEW i \in is PROVE seq[i] \in {s[k] : k \in 1..m}
    <3>1. s[Rank(is, Ascending(is), i)] = seq[i] /\ Rank(is, Ascending(is), i) \in 1..m
      BY <1>3, <1>7
    <3> QED BY <3>1
  <2> QED BY <2>1, <2>2, <2>3
<1> QED BY <1>1, <1>3, <1>5, <1>6, <1>7, <1>8, <1>9 DEF m, s

\* The places of a class, where each place up to n has one.
Of(class, c) == {i \in DOMAIN class : class[i] = c}

\* A place's number within its class.
Number(class, i) == Rank(Of(class, class[i]), Ascending(Of(class, class[i])), i)

Numbers(class) ==
  UNION {{<<c, k>> : k \in 1..Cardinality(Of(class, c))} : c \in Range(class)}

\* Class and number name a place, and there are no others.
LEMMA Numbered ==
  ASSUME NEW n \in Nat, NEW class, DOMAIN class = 1..n
  PROVE  /\ \A i \in 1..n : Number(class, i) \in 1..Cardinality(Of(class, class[i]))
         /\ [i \in 1..n |-> <<class[i], Number(class, i)>>] \in Bijection(1..n, Numbers(class))
         /\ Cardinality(Numbers(class)) = n
<1> DEFINE at == [i \in 1..n |-> <<class[i], Number(class, i)>>]
<1>1. \A c : Of(class, c) \subseteq 1..n
  BY DEF Of
<1>2. \A i \in 1..n : i \in Of(class, class[i])
  BY DEF Of
<1>3. ASSUME NEW i \in 1..n PROVE Number(class, i) \in 1..Cardinality(Of(class, class[i]))
  BY <1>1, <1>2, SelectedThose DEF Number
<1>4. at \in [1..n -> Numbers(class)]
  <2> SUFFICES ASSUME NEW i \in 1..n PROVE <<class[i], Number(class, i)>> \in Numbers(class)
    OBVIOUS
  <2>1. class[i] \in Range(class)
    BY DEF Range
  <2> QED BY <1>3, <2>1 DEF Numbers
<1>5. ASSUME NEW i \in 1..n, NEW j \in 1..n, at[i] = at[j] PROVE i = j
  <2>1. class[i] = class[j] /\ Number(class, i) = Number(class, j)
    BY <1>5
  <2> DEFINE is == Of(class, class[i])
  <2>2. i \in is /\ j \in is /\ is \subseteq 1..n
    BY <1>1, <1>2, <2>1
  <2>3. Rank(is, Ascending(is), i) = Rank(is, Ascending(is), j)
    BY <2>1 DEF Number
  <2> HIDE DEF is
  <2> QED BY <2>2, <2>3, AscendingOrders, RankTells
<1>6. ASSUME NEW x \in Numbers(class) PROVE \E i \in 1..n : at[i] = x
  <2>1. PICK c \in Range(class) : x \in {<<c, k>> : k \in 1..Cardinality(Of(class, c))}
    BY DEF Numbers
  <2>2. PICK k \in 1..Cardinality(Of(class, c)) : x = <<c, k>>
    BY <2>1
  <2> DEFINE is == Of(class, c)
  <2>3. PICK i \in is : k = Rank(is, Ascending(is), i)
    <3>1. k \in 1..Cardinality(is) /\ is \subseteq 1..n
      BY <1>1
    <3> HIDE DEF is
    <3> QED BY <3>1, SelectedThose
  <2>4. i \in 1..n /\ class[i] = c
    BY <2>3 DEF Of
  <2>5. Number(class, i) = k
    BY <2>3, <2>4 DEF Number
  <2> QED BY <2>2, <2>4, <2>5
<1> HIDE DEF at
<1>7. at \in Bijection(1..n, Numbers(class))
  BY <1>4, <1>5, <1>6 DEF Bijection, Injection, Surjection, IsInjective
<1>8. Cardinality(Numbers(class)) = n
  <2> DEFINE D == 1..n
  <2>1. IsFiniteSet(D) /\ Cardinality(D) = n
    BY UpTo
  <2>2. at \in Surjection(D, Numbers(class)) /\ at \in Injection(D, Numbers(class))
    BY <1>7 DEF Bijection
  <2> HIDE DEF D
  <2> QED BY <2>1, <2>2, FS_Surjection
<1> QED BY <1>3, <1>7, <1>8 DEF at

(***************************************************************************)
(* The type of a column                                                    *)
(***************************************************************************)

\* Two columns' types are lists for themselves, and nothing is no list.
LEMMA ListKinds ==
  IsListKind(AnyList) /\ ~IsListKind(Undecided) /\ ~IsListKind(Refused)
<1>1. Len(AnyList) = 1 /\ AnyList[1] = "LIST" /\ AnyList # <<>>
  BY DEF AnyList
<1>2. Len(Refused) = 1 /\ Refused[1] = "refused" /\ "refused" # "LIST"
  BY DEF Refused
<1> QED BY <1>1, <1>2 DEF IsListKind, Last, Undecided

\* The kinds that are not alike.
LEMMA KindsDiffer == AnyList # Undecided /\ AnyList # Refused /\ Undecided # Refused
<1>1. Len(AnyList) = 1 /\ AnyList[1] = "LIST"
  BY DEF AnyList
<1>2. Len(Refused) = 1 /\ Refused[1] = "refused" /\ "refused" # "LIST"
  BY DEF Refused
<1>3. Len(Undecided) = 0
  BY DEF Undecided
<1> QED BY <1>1, <1>2, <1>3

\* The order of two values is nothing to a column, whatever they are and
\* whatever it is so far: its loop gives a table of one set of elements one
\* type.
THEOREM OrderIsNothing ==
  ASSUME NEW column, NEW v, NEW w,
         ColumnKind(v) # Undecided, ColumnKind(w) # Undecided
  PROVE  Take(Take(column, v), w) = Take(Take(column, w), v)
<1> DEFINE j == ColumnKind(v)
           k == ColumnKind(w)
<1>1. \A c, x : Take(c, x) =
        IF c = Refused \/ x = NoValue THEN c
        ELSE IF ColumnKind(x) = Refused THEN Refused
        ELSE IF ColumnKind(x) = AnyList /\ IsListKind(c) THEN c
        ELSE IF c = AnyList /\ IsListKind(ColumnKind(x)) THEN ColumnKind(x)
        ELSE IF c # Undecided /\ c # ColumnKind(x) THEN Refused
        ELSE ColumnKind(x)
  BY DEF Take
<1>2. CASE column = Refused \/ v = NoValue \/ w = NoValue
  BY <1>1, <1>2
<1>3. CASE column # Refused /\ v # NoValue /\ w # NoValue
  <2>1. CASE j = Refused \/ k = Refused
    BY <1>1, <1>3, <2>1
  <2>2. CASE j # Refused /\ k # Refused /\ j = k
    BY <1>1, <1>3, <2>2, ListKinds, KindsDiffer
  <2>3. CASE j # Refused /\ k # Refused /\ j # k
    <3>1. CASE column = Undecided
      BY <1>1, <1>3, <2>3, <3>1, ListKinds, KindsDiffer
    <3>2. CASE column = AnyList
      BY <1>1, <1>3, <2>3, <3>2, ListKinds, KindsDiffer
    <3>3. CASE column # Undecided /\ column # AnyList
      BY <1>1, <1>3, <2>3, <3>3, ListKinds, KindsDiffer
    <3> QED BY <3>1, <3>2, <3>3
  <2> QED BY <2>1, <2>2, <2>3
<1> QED BY <1>2, <1>3

\* A count that fits in 64 bits is kept.
THEOREM FittingIsKept ==
  ASSUME NEW n \in (-MaxCount - 1)..MaxCount
  PROVE  Int64Of(n) = n
<1> DEFINE m == 2 * (MaxCount + 1)
<1>1. MaxCount \in Nat
  BY StagingAssumption
<1>2. n \in Int /\ m \in Nat \ {0} /\ n + MaxCount + 1 \in 0..(m - 1)
  BY <1>1
<1>3. (n + MaxCount + 1) % m = n + MaxCount + 1
  <2> HIDE DEF m
  <2> QED BY <1>2
<1> QED BY <1>1, <1>2, <1>3 DEF Int64Of

\* The loop over a table's elements ends with a type, which it has reached one
\* element at a time.
LEMMA ColumnSteps ==
  ASSUME NEW elems, Len(elems) \in Nat, NEW name
  PROVE  LET c == ColumnAfter(elems, name)
         IN  /\ c[0] = Undecided
             /\ \A k \in 1..Len(elems) : c[k] = Take(c[k - 1], Prop(elems[k].props, name))
<1> DEFINE Loop(f, n) ==
             f = [k \in 0..n |-> IF k = 0 THEN Undecided
                                 ELSE Take(f[k - 1], Prop(elems[k].props, name))]
           Never == {n \in Nat : ~\E f : Loop(f, n)}
<1>1. \E f : Loop(f, 0)
  <2> DEFINE f == [k \in 0..0 |-> Undecided]
  <2>1. f = [k \in 0..0 |-> IF k = 0 THEN Undecided
                            ELSE Take(f[k - 1], Prop(elems[k].props, name))]
    OBVIOUS
  <2> QED BY <2>1
<1>2. ASSUME NEW n \in Nat, n # 0, NEW g, Loop(g, n - 1) PROVE \E f : Loop(f, n)
  <2> DEFINE V(k) == Prop(elems[k].props, name)
             f == [k \in 0..n |-> IF k = n THEN Take(g[n - 1], V(n)) ELSE g[k]]
  <2>1. g = [k \in 0..(n - 1) |-> IF k = 0 THEN Undecided ELSE Take(g[k - 1], V(k))]
    BY <1>2
  <2> HIDE DEF V
  <2>2. \A k \in 0..n : k # n => k \in 0..(n - 1) /\ (k # 0 => k - 1 \in 0..(n - 1))
    BY <1>2
  <2>3. \A k \in 0..(n - 1) : k # n /\ k \in 0..n
    BY <1>2
  <2>4. \A k \in 0..(n - 1) : g[k] = IF k = 0 THEN Undecided ELSE Take(g[k - 1], V(k))
    BY <2>1
  <2>5. \A k \in 0..(n - 1) : f[k] = g[k]
    BY <2>3
  <2>6. f[n] = Take(g[n - 1], V(n)) /\ n - 1 \in 0..(n - 1)
    BY <1>2
  <2>7. ASSUME NEW k \in 0..n
        PROVE  f[k] = IF k = 0 THEN Undecided ELSE Take(f[k - 1], V(k))
    <3>1. CASE k = n
      BY <1>2, <2>5, <2>6, <3>1
    <3>2. CASE k # n
      BY <2>2, <2>4, <2>5, <3>2
    <3> QED BY <3>1, <3>2
  <2>8. f = [k \in 0..n |-> IF k = 0 THEN Undecided ELSE Take(f[k - 1], V(k))]
    <3>1. DOMAIN f = 0..n /\ f = [k \in 0..n |-> f[k]]
      OBVIOUS
    <3> HIDE DEF f
    <3> QED BY <2>7, <3>1
  <2> QED BY <2>8 DEF V
<1>3. Never = {}
  <2> SUFFICES ASSUME Never # {} PROVE FALSE
    OBVIOUS
  <2>1. Never \subseteq Nat
    OBVIOUS
  <2>2. PICK n \in Never : \A m \in Never : n <= m
    <3> HIDE DEF Never
    <3> QED BY <2>1, LeastNatural
  <2>3. n \in Nat /\ ~\E f : Loop(f, n)
    OBVIOUS
  <2> HIDE DEF Loop
  <2>4. n # 0
    BY <1>1, <2>3
  <2>5. n - 1 \in Nat /\ ~(n <= n - 1)
    BY <2>3, <2>4
  <2>6. \E g : Loop(g, n - 1)
    BY <2>2, <2>5
  <2> QED BY <1>2, <2>3, <2>4, <2>6
<1> DEFINE c == ColumnAfter(elems, name)
<1>4. c = CHOOSE f : Loop(f, Len(elems))
  BY DEF ColumnAfter
<1>5. Loop(c, Len(elems))
  <2>1. \E f : Loop(f, Len(elems))
    BY <1>3
  <2> HIDE DEF Loop
  <2> QED BY <1>4, <2>1
<1>6. c = [k \in 0..Len(elems) |-> IF k = 0 THEN Undecided
                                   ELSE Take(c[k - 1], Prop(elems[k].props, name))]
  BY <1>5
<1> HIDE DEF c
<1>7. \A k \in 0..Len(elems) : c[k] = IF k = 0 THEN Undecided
                                      ELSE Take(c[k - 1], Prop(elems[k].props, name))
  BY <1>6
<1> DEFINE V(k) == Prop(elems[k].props, name)
<1>8. \A k \in 1..Len(elems) : c[k] = Take(c[k - 1], V(k))
  BY <1>7
<1>9. c[0] = Undecided
  BY <1>7
<1> QED BY <1>8, <1>9 DEF c

\* The kinds the file has a column for.
ScalarKinds == {<<Scalars[s]>> : s \in DOMAIN Scalars}
KindsOfLists == {<<Scalars[s], "LIST">> : s \in DOMAIN Scalars}
TemporalKinds == {<<"DATE">>, <<"LOCALTIME">>, <<"LOCALDATETIME">>, <<"DURATION">>,
                  <<"YEARMONTHDURATION">>}
FileKinds == TemporalKinds \cup ScalarKinds \cup KindsOfLists

\* The four scalar types.
LEMMA ScalarsAre ==
  /\ DOMAIN Scalars = {"int", "float", "bool", "string"}
  /\ Scalars["int"] = "INTEGER" /\ Scalars["float"] = "REAL"
  /\ Scalars["bool"] = "BOOLEAN" /\ Scalars["string"] = "TEXT"
BY DEF Scalars

\* What the file has a column for is none of the marks of the loop, and its
\* lists are told from the rest.
LEMMA KindsApart ==
  /\ \A k \in FileKinds : k \notin {Undecided, AnyList, Refused}
  /\ \A k \in KindsOfLists : IsListKind(k)
  /\ \A k \in TemporalKinds \cup ScalarKinds : ~IsListKind(k)
<1>1. \A a, b : /\ Len(<<a, b>>) = 2 /\ <<a, b>>[2] = b /\ <<a, b>> # <<>>
                /\ Len(<<a>>) = 1 /\ <<a>>[1] = a /\ <<a>> # <<>>
  OBVIOUS
<1>2. \A k \in KindsOfLists : Len(k) = 2 /\ k[2] = "LIST" /\ k # <<>>
  BY <1>1 DEF KindsOfLists
<1>3. \A s \in DOMAIN Scalars : Scalars[s] # "LIST" /\ Scalars[s] # "refused"
  BY ScalarsAre
<1>4. \A k \in ScalarKinds : Len(k) = 1 /\ k[1] # "LIST" /\ k[1] # "refused" /\ k # <<>>
  BY <1>1, <1>3 DEF ScalarKinds
<1>5. \A k \in TemporalKinds : Len(k) = 1 /\ k[1] # "LIST" /\ k[1] # "refused" /\ k # <<>>
  BY <1>1 DEF TemporalKinds
<1>6. /\ Len(AnyList) = 1 /\ AnyList[1] = "LIST" /\ Len(Refused) = 1 /\ Refused[1] = "refused"
      /\ Undecided = <<>>
  BY DEF AnyList, Refused, Undecided
<1>7. \A k \in FileKinds : k \notin {Undecided, AnyList, Refused}
  BY <1>2, <1>4, <1>5, <1>6 DEF FileKinds
<1>8. \A k \in KindsOfLists : IsListKind(k)
  BY <1>2 DEF IsListKind, Last
<1>9. \A k \in TemporalKinds \cup ScalarKinds : ~IsListKind(k)
  BY <1>4, <1>5 DEF IsListKind, Last
<1> QED BY <1>7, <1>8, <1>9

\* A temporal literal has a temporal kind or none.
LEMMA TemporalKindIs ==
  ASSUME NEW v, v.is \in Tags
  PROVE  TemporalKind(v) \in TemporalKinds \cup {Refused}
<1>1. v.is \in {"date", "time", "datetime", "localtime", "localdatetime", "duration"}
  BY DEF Tags
<1> QED BY <1>1 DEF TemporalKind, TemporalKinds

\* A list has the kind of its elements, none yet, or none at all.
LEMMA ListKindIs ==
  ASSUME NEW elems
  PROVE  ListKind(elems) \in KindsOfLists \cup {AnyList, Refused}
<1> DEFINE kinds == {e.is : e \in Range(elems)}
<1>1. CASE kinds \subseteq DOMAIN Scalars /\ kinds # {}
  <2>1. (CHOOSE k \in kinds : TRUE) \in DOMAIN Scalars
    BY <1>1
  <2>2. <<Scalars[CHOOSE k \in kinds : TRUE], "LIST">> \in KindsOfLists
    BY <2>1 DEF KindsOfLists
  <2> QED BY <2>2 DEF ListKind
<1>2. CASE ~(kinds \subseteq DOMAIN Scalars) \/ kinds = {}
  BY <1>2 DEF ListKind
<1> QED BY <1>1, <1>2

\* Every value has one of these kinds, and only lists have those of lists.
LEMMA KindIs ==
  ASSUME NEW v
  PROVE  /\ ColumnKind(v) \in FileKinds \cup {AnyList, Refused}
         /\ v.is \in Tags => ColumnKind(v) = TemporalKind(v)
                             /\ ColumnKind(v) \in TemporalKinds \cup {Refused}
         /\ v.is \notin Tags => ColumnKind(v) \in ScalarKinds \cup KindsOfLists \cup {AnyList, Refused}
         /\ ColumnKind(v) = AnyList => v.is = "list"
         /\ v.is = "list" => ColumnKind(v) \in KindsOfLists \cup {AnyList, Refused}
<1>1. CASE v.is \in Tags
  <2>1. ColumnKind(v) = TemporalKind(v)
    BY <1>1 DEF ColumnKind
  <2>2. ColumnKind(v) \in TemporalKinds \cup {Refused}
    BY <1>1, <2>1, TemporalKindIs
  <2>3. v.is # "list"
    BY <1>1 DEF Tags
  <2>4. ColumnKind(v) # AnyList
    BY <2>2, KindsApart, KindsDiffer DEF FileKinds
  <2> QED BY <1>1, <2>1, <2>2, <2>3, <2>4 DEF FileKinds
<1>2. CASE v.is \notin Tags /\ v.is \in DOMAIN Scalars
  <2>1. ColumnKind(v) \in ScalarKinds
    BY <1>2 DEF ColumnKind, ScalarKinds
  <2>2. v.is # "list"
    BY <1>2, ScalarsAre
  <2>3. ColumnKind(v) # AnyList
    BY <2>1, KindsApart DEF FileKinds
  <2> QED BY <1>2, <2>1, <2>2, <2>3 DEF FileKinds
<1>3. CASE v.is \notin Tags /\ v.is \notin DOMAIN Scalars /\ v.is = "list"
  <2>1. ColumnKind(v) = ListKind(v.elems)
    BY <1>3 DEF ColumnKind
  <2> QED BY <1>3, <2>1, ListKindIs DEF FileKinds
<1>4. CASE v.is \notin Tags /\ v.is \notin DOMAIN Scalars /\ v.is # "list"
  <2>1. ColumnKind(v) = Refused
    BY <1>4 DEF ColumnKind
  <2> QED BY <1>4, <2>1, KindsDiffer
<1> QED BY <1>1, <1>2, <1>3, <1>4

\* Values that no one column is for.
Clash(kinds) ==
  \/ Refused \in kinds
  \/ \E j, k \in kinds \ {AnyList} : j # k
  \/ AnyList \in kinds /\ \E k \in kinds : ~IsListKind(k)

\* The type a column has once it has these kinds.
Typed(kinds, c) ==
  /\ c = Refused => Clash(kinds)
  /\ Clash(kinds) => c = Refused
  /\ c = Undecided => kinds = {}
  /\ c = AnyList => kinds = {AnyList}
  /\ c \notin {Undecided, AnyList, Refused} => c \in kinds

\* One more value keeps that true.
LEMMA TakeTypes ==
  ASSUME NEW kinds, NEW c, NEW v, v # NoValue, Typed(kinds, c)
  PROVE  Typed(kinds \cup {ColumnKind(v)}, Take(c, v))
<1> DEFINE k == ColumnKind(v)
<1>1. Take(c, v) =
        IF c = Refused THEN c
        ELSE IF k = Refused THEN Refused
        ELSE IF k = AnyList /\ IsListKind(c) THEN c
        ELSE IF c = AnyList /\ IsListKind(k) THEN k
        ELSE IF c # Undecided /\ c # k THEN Refused
        ELSE k
  BY DEF Take
<1>2. k # Undecided
  BY KindIs, KindsApart, KindsDiffer
<1> SUFFICES Typed(kinds \cup {k}, Take(c, v))
  OBVIOUS
<1> HIDE DEF k
<1>3. CASE c = Refused \/ k = Refused
  <2>1. Take(c, v) = Refused
    BY <1>1, <1>3
  <2>2. Clash(kinds \cup {k})
    BY <1>3 DEF Typed, Clash
  <2> QED BY <2>1, <2>2, KindsDiffer DEF Typed
<1>4. CASE c # Refused /\ k # Refused /\ k = AnyList /\ IsListKind(c)
  <2>1. Take(c, v) = c /\ c # Undecided
    BY <1>1, <1>4, ListKinds
  <2>2. CASE c = AnyList
    <3>1. kinds \cup {k} = {AnyList}
      BY <1>4, <2>2 DEF Typed
    <3>2. ~Clash({AnyList})
      BY KindsDiffer, ListKinds DEF Clash
    <3> QED BY <2>1, <2>2, <3>1, <3>2, KindsDiffer DEF Typed
  <2>3. CASE c # AnyList
    <3>1. c \in kinds /\ ~Clash(kinds)
      BY <1>4, <2>1, <2>3 DEF Typed
    <3>2. \A j \in kinds : j = c \/ j = AnyList
      BY <2>3, <3>1 DEF Clash
    <3>3. ~Clash(kinds \cup {k})
      BY <1>4, <3>1, <3>2, ListKinds, KindsDiffer DEF Clash
    <3> QED BY <1>4, <2>1, <2>3, <3>1, <3>3 DEF Typed
  <2> QED BY <2>2, <2>3
<1>5. CASE c # Refused /\ k # Refused /\ k # AnyList /\ c = AnyList /\ IsListKind(k)
  <2>1. Take(c, v) = k
    BY <1>1, <1>5
  <2>2. kinds \cup {k} = {AnyList, k}
    BY <1>5 DEF Typed
  <2>3. ~Clash({AnyList, k})
    BY <1>5, ListKinds, KindsDiffer DEF Clash
  <2> QED BY <1>2, <1>5, <2>1, <2>2, <2>3 DEF Typed
<1>6. CASE /\ c # Refused /\ k # Refused /\ c # Undecided /\ c # k
           /\ ~(k = AnyList /\ IsListKind(c)) /\ ~(c = AnyList /\ IsListKind(k))
  <2>1. Take(c, v) = Refused
    BY <1>1, <1>6
  <2>2. CASE c = AnyList
    <3>1. AnyList \in kinds
      BY <2>2 DEF Typed
    <3> QED BY <1>6, <2>1, <2>2, <3>1, KindsDiffer DEF Typed, Clash
  <2>3. CASE c # AnyList
    <3>1. c \in kinds
      BY <1>6, <2>3 DEF Typed
    <3>2. Clash(kinds \cup {k})
      BY <1>6, <2>3, <3>1 DEF Clash
    <3> QED BY <2>1, <3>2, KindsDiffer DEF Typed
  <2> QED BY <2>2, <2>3
<1>7. CASE c # Refused /\ k # Refused /\ c = Undecided
  <2>1. Take(c, v) = k
    BY <1>1, <1>7, ListKinds, KindsDiffer
  <2>2. kinds \cup {k} = {k}
    BY <1>7 DEF Typed
  <2>3. ~Clash({k})
    BY <1>7, ListKinds DEF Clash
  <2> QED BY <1>2, <1>7, <2>1, <2>2, <2>3 DEF Typed
<1>8. CASE c # Refused /\ k # Refused /\ c = k
  <2>1. Take(c, v) = k
    BY <1>1, <1>8
  <2>2. kinds \cup {k} = kinds
    BY <1>2, <1>8 DEF Typed
  <2> QED BY <1>8, <2>1, <2>2
<1> QED BY <1>3, <1>4, <1>5, <1>6, <1>7, <1>8

\* The kinds of the first elements of a table.
KindsTo(elems, name, k) ==
  {ColumnKind(Prop(elems[i].props, name)) : i \in {j \in 1..k : Prop(elems[j].props, name) # NoValue}}

\* It is true after each element, and after the last.
LEMMA ColumnTyped ==
  ASSUME NEW elems, Len(elems) \in Nat, NEW name, NEW k \in 0..Len(elems)
  PROVE  Typed(KindsTo(elems, name, k), ColumnAfter(elems, name)[k])
<1> DEFINE c == ColumnAfter(elems, name)
           n == Len(elems)
           V(i) == Prop(elems[i].props, name)
           K(i) == KindsTo(elems, name, i)
           Never == {i \in 0..n : ~Typed(K(i), c[i])}
<1>1. c[0] = Undecided /\ \A i \in 1..n : c[i] = Take(c[i - 1], V(i))
  BY ColumnSteps
<1>2. K(0) = {}
  BY DEF KindsTo
<1>3. ASSUME NEW i \in 1..n
      PROVE  /\ V(i) = NoValue => K(i) = K(i - 1)
             /\ V(i) # NoValue => K(i) = K(i - 1) \cup {ColumnKind(V(i))}
  <2> DEFINE J(m) == {j \in 1..m : V(j) # NoValue}
  <2>1. 1..i = 1..(i - 1) \cup {i}
    OBVIOUS
  <2> HIDE DEF V
  <2>2. V(i) = NoValue => J(i) = J(i - 1)
    BY <2>1
  <2>3. V(i) # NoValue => J(i) = J(i - 1) \cup {i}
    BY <2>1
  <2>4. \A m : K(m) = {ColumnKind(V(j)) : j \in J(m)}
    BY DEF KindsTo, V
  <2> HIDE DEF J, K
  <2>5. V(i) = NoValue => K(i) = K(i - 1)
    BY <2>2, <2>4
  <2>6. V(i) # NoValue => K(i) = K(i - 1) \cup {ColumnKind(V(i))}
    BY <2>3, <2>4
  <2> QED BY <2>5, <2>6
<1> HIDE DEF c, V, K
<1>4. Typed(K(0), c[0])
  BY <1>1, <1>2, KindsDiffer DEF Typed, Clash
<1>5. ASSUME NEW i \in 1..n, Typed(K(i - 1), c[i - 1]) PROVE Typed(K(i), c[i])
  <2>1. CASE V(i) = NoValue
    <3>1. c[i] = c[i - 1]
      BY <1>1, <2>1 DEF Take
    <3> QED BY <1>3, <1>5, <2>1, <3>1
  <2>2. CASE V(i) # NoValue
    <3>1. Typed(K(i - 1) \cup {ColumnKind(V(i))}, Take(c[i - 1], V(i)))
      BY <1>5, <2>2, TakeTypes
    <3> QED BY <1>1, <1>3, <2>2, <3>1
  <2> QED BY <2>1, <2>2
<1>6. Never = {}
  <2> SUFFICES ASSUME Never # {} PROVE FALSE
    OBVIOUS
  <2>1. Never \subseteq Nat
    OBVIOUS
  <2>2. PICK i \in Never : \A j \in Never : i <= j
    <3> HIDE DEF Never
    <3> QED BY <2>1, LeastNatural
  <2>3. i \in 1..n
    BY <1>4
  <2>4. i - 1 \in 0..n /\ ~(i <= i - 1)
    BY <2>3
  <2>5. Typed(K(i - 1), c[i - 1])
    BY <2>2, <2>4
  <2> QED BY <1>5, <2>3, <2>5
<1> QED BY <1>6 DEF c, K

\* A column has the one kind of its values, and no type exactly if they are of
\* more kinds than one, of none or of one the file has no column for.
LEMMA ColumnIsOneKind ==
  ASSUME NEW elems, Len(elems) \in Nat, DOMAIN elems = 1..Len(elems), NEW p
  PROVE  /\ Column(elems, p) # Refused <=> OneKind(Range(elems), p)
         /\ Column(elems, p) # Refused =>
              /\ Column(elems, p) \in FileKinds
              /\ \A e \in Range(elems) : Prop(e.props, p) # NoValue =>
                   \/ ColumnKind(Prop(e.props, p)) = Column(elems, p)
                   \/ ColumnKind(Prop(e.props, p)) = AnyList /\ IsListKind(Column(elems, p))
<1> DEFINE n == Len(elems)
           c == ColumnAfter(elems, p)[n]
           K == KindsTo(elems, p, n)
           V(e) == Prop(e.props, p)
           E == {e \in Range(elems) : V(e) # NoValue}
<1>1. Typed(K, c)
  BY ColumnTyped
<1>2. Column(elems, p) = IF c \in {Undecided, AnyList} THEN Refused ELSE c
  BY DEF Column
<1>3. K = {ColumnKind(V(e)) : e \in E}
  <2> DEFINE I == {i \in 1..n : V(elems[i]) # NoValue}
  <2>1. E = {elems[i] : i \in I}
    BY DEF Range
  <2>2. K = {ColumnKind(V(elems[i])) : i \in I}
    BY DEF KindsTo
  <2> HIDE DEF E, I, V, K
  <2> QED BY <2>1, <2>2
<1>4. Kinds(Range(elems), p) = K \ {AnyList}
  <2>1. \A e \in E : e.props[p] = V(e)
    BY DEF Prop
  <2>2. Kinds(Range(elems), p) = {ColumnKind(e.props[p]) : e \in E} \ {AnyList}
    BY DEF Kinds
  <2> HIDE DEF E, V, K
  <2>3. {ColumnKind(e.props[p]) : e \in E} = {ColumnKind(V(e)) : e \in E}
    BY <2>1
  <2> QED BY <1>3, <2>2, <2>3
<1>5. NoValue.is = "null"
  BY DEF NoValue, Literal
<1>6. OneKind(Range(elems), p) <=>
        \E k \in FileKinds :
          /\ K \ {AnyList} = {k}
          /\ (\E e \in Range(elems) : V(e).is = "list") => IsListKind(k)
  BY <1>4 DEF OneKind, FileKinds, TemporalKinds, ScalarKinds, KindsOfLists
<1>7. \A e \in Range(elems) : V(e).is = "list" =>
        e \in E /\ ColumnKind(V(e)) \in KindsOfLists \cup {AnyList, Refused}
  BY <1>5, KindIs
<1>8. \A e \in E : ColumnKind(V(e)) \in K /\ ColumnKind(V(e)) \in FileKinds \cup {AnyList, Refused}
                   /\ (ColumnKind(V(e)) = AnyList => V(e).is = "list") /\ e \in Range(elems)
  BY <1>3, KindIs
<1>9. \A k \in K : \E e \in E : k = ColumnKind(V(e))
  BY <1>3
<1> HIDE DEF c, K, V, E, n
<1>10. ASSUME c \notin {Undecided, AnyList, Refused}
       PROVE  /\ K \ {AnyList} = {c} /\ c \in FileKinds
              /\ \A e \in E : ColumnKind(V(e)) = c \/ (ColumnKind(V(e)) = AnyList /\ IsListKind(c))
              /\ (\E e \in Range(elems) : V(e).is = "list") => IsListKind(c)
  <2>1. c \in K /\ ~Clash(K)
    BY <1>1, <1>10 DEF Typed
  <2>2. /\ \A k \in K : k = c \/ k = AnyList
        /\ Refused \notin K
        /\ AnyList \in K => IsListKind(c)
    BY <1>10, <2>1 DEF Clash
  <2>3. c \in FileKinds
    BY <1>8, <1>9, <1>10, <2>1
  <2>4. K \ {AnyList} = {c}
    BY <1>10, <2>1, <2>2
  <2>5. \A e \in E : ColumnKind(V(e)) = c \/ (ColumnKind(V(e)) = AnyList /\ IsListKind(c))
    BY <1>8, <2>2
  <2>6. ASSUME NEW e \in Range(elems), V(e).is = "list" PROVE IsListKind(c)
    <3>1. e \in E /\ ColumnKind(V(e)) \in KindsOfLists \cup {AnyList}
      BY <1>7, <1>8, <2>2, <2>6
    <3> QED BY <1>10, <2>5, <3>1, KindsApart
  <2> QED BY <2>3, <2>4, <2>5, <2>6
<1>11. ASSUME NEW k \in FileKinds, K \ {AnyList} = {k},
              (\E e \in Range(elems) : V(e).is = "list") => IsListKind(k)
       PROVE  c \notin {Undecided, AnyList, Refused}
  <2>1. k # Refused /\ k # AnyList /\ k \in K
    BY <1>11, KindsApart
  <2>2. \A j \in K : j = k \/ j = AnyList
    BY <1>11
  <2>3. AnyList \in K => IsListKind(k)
    BY <1>8, <1>9, <1>11
  <2>4. ~Clash(K)
    BY <2>1, <2>2, <2>3, ListKinds, KindsDiffer DEF Clash
  <2>5. K # {} /\ K # {AnyList}
    BY <2>1
  <2> QED BY <1>1, <2>4, <2>5 DEF Typed
<1>12. Column(elems, p) # Refused <=> c \notin {Undecided, AnyList, Refused}
  BY <1>2
<1>13. Column(elems, p) # Refused => Column(elems, p) = c
  BY <1>2
<1>14. Column(elems, p) # Refused <=> OneKind(Range(elems), p)
  BY <1>6, <1>10, <1>11, <1>12
<1>15. Column(elems, p) # Refused =>
         /\ Column(elems, p) \in FileKinds
         /\ \A e \in Range(elems) : V(e) # NoValue =>
              \/ ColumnKind(V(e)) = Column(elems, p)
              \/ ColumnKind(V(e)) = AnyList /\ IsListKind(Column(elems, p))
  <2>1. \A e \in Range(elems) : V(e) # NoValue => e \in E
    BY DEF E
  <2> QED BY <1>10, <1>12, <1>13, <2>1
<1> QED BY <1>14, <1>15 DEF V

(***************************************************************************)
(* The tables of a fixture                                                 *)
(***************************************************************************)

\* A part of what Written says, for the nodes and for the edges.
LEMMA WrittenLists ==
  ASSUME NEW fx, Written(fx)
  PROVE  /\ Len(fx.nodes) \in Nat /\ DOMAIN fx.nodes = 1..Len(fx.nodes)
         /\ Len(fx.edges) \in Nat /\ DOMAIN fx.edges = 1..Len(fx.edges)
         /\ \A i \in DOMAIN fx.nodes : fx.nodes[i] \in Nodes(fx)
         /\ \A i \in DOMAIN fx.edges : fx.edges[i] \in Edges(fx)
         /\ \A n \in Nodes(fx) : Len(n.labels) \in Nat /\ DOMAIN n.labels = 1..Len(n.labels)
                                 /\ (Len(n.labels) = 0 <=> n.labels = <<>>)
<1>1. Listing(fx.nodes) /\ Listing(fx.edges)
  BY DEF Written
<1>2. /\ \A i \in DOMAIN fx.nodes : fx.nodes[i] \in Nodes(fx)
      /\ \A i \in DOMAIN fx.edges : fx.edges[i] \in Edges(fx)
  BY DEF Nodes, Edges
<1>3. ASSUME NEW n \in Nodes(fx)
      PROVE  /\ Len(n.labels) \in Nat /\ DOMAIN n.labels = 1..Len(n.labels)
             /\ (Len(n.labels) = 0 <=> n.labels = <<>>)
  <2>1. n.labels \in Seq(Range(n.labels))
    BY DEF Written, Listing
  <2> QED BY <2>1
<1> QED BY <1>1, <1>2, <1>3, ListingDomain

\* The table of each node and of each edge.
NodeClass(fx) == [i \in 1..Len(fx.nodes) |-> TableOf(fx.nodes[i])]
EdgeClass(fx) == [i \in 1..Len(fx.edges) |-> TypeOf(fx.edges[i])]

\* The elements of a table are the places of its class.
LEMMA Classes ==
  ASSUME NEW fx, Written(fx)
  PROVE  /\ \A l : NodesIn(fx, l) = Of(NodeClass(fx), l)
         /\ \A t : EdgesIn(fx, t) = Of(EdgeClass(fx), t)
         /\ Range(NodeClass(fx)) = NodeLabels(fx)
         /\ Range(EdgeClass(fx)) = RelTypes(fx)
<1>1. /\ DOMAIN fx.nodes = 1..Len(fx.nodes) /\ DOMAIN fx.edges = 1..Len(fx.edges)
  BY WrittenLists
<1>2. \A l : NodesIn(fx, l) = Of(NodeClass(fx), l)
  BY <1>1 DEF NodesIn, Of, NodeClass
<1>3. \A t : EdgesIn(fx, t) = Of(EdgeClass(fx), t)
  BY <1>1 DEF EdgesIn, Of, EdgeClass
<1>4. Range(NodeClass(fx)) = NodeLabels(fx)
  <2>1. Range(NodeClass(fx)) = {TableOf(fx.nodes[i]) : i \in 1..Len(fx.nodes)}
    BY DEF Range, NodeClass
  <2>2. NodeLabels(fx) = {TableOf(fx.nodes[i]) : i \in 1..Len(fx.nodes)}
    BY <1>1 DEF NodeLabels, Nodes
  <2> QED BY <2>1, <2>2
<1>5. Range(EdgeClass(fx)) = RelTypes(fx)
  <2>1. Range(EdgeClass(fx)) = {TypeOf(fx.edges[i]) : i \in 1..Len(fx.edges)}
    BY DEF Range, EdgeClass
  <2>2. RelTypes(fx) = {TypeOf(fx.edges[i]) : i \in 1..Len(fx.edges)}
    BY <1>1 DEF RelTypes, Edges
  <2> QED BY <2>1, <2>2
<1> QED BY <1>2, <1>3, <1>4, <1>5

\* A table's elements are those of its label or type, in their order.
LEMMA NodesOfTable ==
  ASSUME NEW fx, Written(fx), NEW l
  PROVE  /\ Len(NodesOf(fx, l)) = Cardinality(NodesIn(fx, l)) /\ Len(NodesOf(fx, l)) \in Nat
         /\ DOMAIN NodesOf(fx, l) = 1..Len(NodesOf(fx, l))
         /\ Range(NodesOf(fx, l)) = {n \in Nodes(fx) : TableOf(n) = l}
<1>1. NodesIn(fx, l) \subseteq 1..Len(fx.nodes) /\ Len(fx.nodes) \in Nat
  BY WrittenLists DEF NodesIn
<1>2. {fx.nodes[i] : i \in NodesIn(fx, l)} = {n \in Nodes(fx) : TableOf(n) = l}
  BY DEF NodesIn, Nodes
<1> QED BY <1>1, <1>2, SelectedThose DEF NodesOf

\* The same of the edges of a type.
LEMMA EdgesOfTable ==
  ASSUME NEW fx, Written(fx), NEW t
  PROVE  /\ Len(EdgesOf(fx, t)) = Cardinality(EdgesIn(fx, t)) /\ Len(EdgesOf(fx, t)) \in Nat
         /\ DOMAIN EdgesOf(fx, t) = 1..Len(EdgesOf(fx, t))
         /\ Range(EdgesOf(fx, t)) = {e \in Edges(fx) : TypeOf(e) = t}
<1>1. EdgesIn(fx, t) \subseteq 1..Len(fx.edges) /\ Len(fx.edges) \in Nat
  BY WrittenLists DEF EdgesIn
<1>2. {fx.edges[i] : i \in EdgesIn(fx, t)} = {e \in Edges(fx) : TypeOf(e) = t}
  BY DEF EdgesIn, Edges
<1> QED BY <1>1, <1>2, SelectedThose DEF EdgesOf

\* The first edge of a type is one of the type.
LEMMA FirstEdge ==
  ASSUME NEW fx, Written(fx), NEW t \in RelTypes(fx)
  PROVE  Head(EdgesOf(fx, t)) \in Edges(fx) /\ TypeOf(Head(EdgesOf(fx, t))) = t
<1> DEFINE s == EdgesOf(fx, t)
<1>1. PICK e \in Edges(fx) : TypeOf(e) = t
  BY DEF RelTypes
<1>2. e \in Range(s)
  BY <1>1, EdgesOfTable
<1>3. Len(s) \in Nat /\ DOMAIN s = 1..Len(s)
  BY EdgesOfTable
<1>4. Len(s) # 0
  <2> HIDE DEF s
  <2> QED BY <1>2, <1>3 DEF Range
<1>5. Head(s) = s[1]
  <2> HIDE DEF s
  <2> QED BY <1>3, <1>4
<1>6. s[1] \in Range(s)
  <2> HIDE DEF s
  <2> QED BY <1>3, <1>4 DEF Range
<1> QED BY <1>5, <1>6, EdgesOfTable

(***************************************************************************)
(* The plan of a fixture                                                   *)
(***************************************************************************)

\* No property of a table is refused.
LEMMA ColumnsAccepted ==
  ASSUME NEW elems, Len(elems) \in Nat, DOMAIN elems = 1..Len(elems)
  PROVE  ~ColumnsRefused(elems) <=>
           \A p \in UNION {DOMAIN e.props : e \in Range(elems)} :
             p \in Identifiers /\ OneKind(Range(elems), p)
<1>1. \A p : Column(elems, p) # Refused <=> OneKind(Range(elems), p)
  BY ColumnIsOneKind
<1> QED BY <1>1 DEF ColumnsRefused, Names

\* planNodes checks every label, and a node without one has a name that passes.
LEMMA LabelsNamed ==
  ASSUME NEW fx, Written(fx)
  PROVE  (\A n \in Nodes(fx) : {TableOf(n)} \cup Range(n.labels) \subseteq Identifiers)
           <=> Labels(fx) \subseteq Identifiers
<1>1. \A n \in Nodes(fx) : Range(n.labels) = {n.labels[k] : k \in DOMAIN n.labels}
  BY DEF Range
<1>2. ASSUME NEW n \in Nodes(fx) PROVE TableOf(n) \in Range(n.labels) \cup {"Node"}
  <2>1. Len(n.labels) \in Nat /\ DOMAIN n.labels = 1..Len(n.labels)
        /\ (Len(n.labels) = 0 <=> n.labels = <<>>)
    BY WrittenLists
  <2>2. CASE n.labels = <<>>
    BY <2>2 DEF TableOf
  <2>3. CASE n.labels # <<>>
    <3>1. 1 \in DOMAIN n.labels
      BY <2>1, <2>3
    <3> QED BY <2>3, <3>1 DEF TableOf, Range
  <2> QED BY <2>2, <2>3
<1>3. Labels(fx) = UNION {Range(n.labels) : n \in Nodes(fx)}
  BY <1>1 DEF Labels
<1>4. "Node" \in Identifiers
  BY TablesAssumption
<1> QED BY <1>2, <1>3, <1>4

\* Every edge is like the first of its type if and only if any two are alike.
LEMMA EdgesAccepted ==
  ASSUME NEW fx, Written(fx)
  PROVE  (\A e \in Edges(fx) : ~EdgeRefused(fx, e))
           <=> /\ RelTypes(fx) \subseteq Identifiers
               /\ \A e, f \in Edges(fx) : TypeOf(e) = TypeOf(f) =>
                    Ends(fx, e) = Ends(fx, f) /\ e.undirected = f.undirected
<1> DEFINE first(t) == Head(EdgesOf(fx, t))
           Same(e, f) == Ends(fx, e) = Ends(fx, f) /\ e.undirected = f.undirected
<1>1. \A e \in Edges(fx) : TypeOf(e) \in RelTypes(fx)
  BY DEF RelTypes
<1>2. \A e \in Edges(fx) : first(TypeOf(e)) \in Edges(fx) /\ TypeOf(first(TypeOf(e))) = TypeOf(e)
  BY <1>1, FirstEdge
<1>3. \A e \in Edges(fx) : ~EdgeRefused(fx, e) <=> TypeOf(e) \in Identifiers /\ Same(e, first(TypeOf(e)))
  BY DEF EdgeRefused
<1>4. \A e, f, g : Same(e, g) /\ Same(f, g) => Same(e, f)
  OBVIOUS
<1>5. RelTypes(fx) \subseteq Identifiers <=> \A e \in Edges(fx) : TypeOf(e) \in Identifiers
  BY DEF RelTypes
<1> HIDE DEF first, Same
<1>6. (\A e \in Edges(fx) : Same(e, first(TypeOf(e))))
        <=> \A e, f \in Edges(fx) : TypeOf(e) = TypeOf(f) => Same(e, f)
  <2>1. ASSUME \A e \in Edges(fx) : Same(e, first(TypeOf(e))),
               NEW e \in Edges(fx), NEW f \in Edges(fx), TypeOf(e) = TypeOf(f)
        PROVE  Same(e, f)
    BY <1>4, <2>1
  <2>2. ASSUME \A e, f \in Edges(fx) : TypeOf(e) = TypeOf(f) => Same(e, f), NEW e \in Edges(fx)
        PROVE  Same(e, first(TypeOf(e)))
    BY <1>2, <2>2
  <2> QED BY <2>1, <2>2
<1>7. (\A e, f \in Edges(fx) : TypeOf(e) = TypeOf(f) => Same(e, f))
        <=> \A e, f \in Edges(fx) : TypeOf(e) = TypeOf(f) =>
              Ends(fx, e) = Ends(fx, f) /\ e.undirected = f.undirected
  BY DEF Same
<1> QED BY <1>3, <1>5, <1>6, <1>7

\* planFixture takes what the format has a place for, and nothing else.
LEMMA Plannable ==
  ASSUME NEW fx, Written(fx)
  PROVE  ~Unplannable(fx) <=> HasAPlace(fx) /\ AllNames(fx) \subseteq Identifiers
<1> DEFINE N(l) == {n \in Nodes(fx) : TableOf(n) = l}
           E(t) == {e \in Edges(fx) : TypeOf(e) = t}
           NP(l) == UNION {DOMAIN n.props : n \in N(l)}
           EP(t) == UNION {DOMAIN e.props : e \in E(t)}
           AllNP == UNION {DOMAIN n.props : n \in Nodes(fx)}
           AllEP == UNION {DOMAIN e.props : e \in Edges(fx)}
<1>1. \A l : ~ColumnsRefused(NodesOf(fx, l)) <=> \A p \in NP(l) : p \in Identifiers /\ OneKind(N(l), p)
  <2> SUFFICES ASSUME NEW l
               PROVE  ~ColumnsRefused(NodesOf(fx, l)) <=>
                        \A p \in NP(l) : p \in Identifiers /\ OneKind(N(l), p)
    OBVIOUS
  <2>1. Range(NodesOf(fx, l)) = N(l) /\ Len(NodesOf(fx, l)) \in Nat
        /\ DOMAIN NodesOf(fx, l) = 1..Len(NodesOf(fx, l))
    BY NodesOfTable
  <2> HIDE DEF N
  <2> QED BY <2>1, ColumnsAccepted
<1>2. \A t : ~ColumnsRefused(EdgesOf(fx, t)) <=> \A p \in EP(t) : p \in Identifiers /\ OneKind(E(t), p)
  <2> SUFFICES ASSUME NEW t
               PROVE  ~ColumnsRefused(EdgesOf(fx, t)) <=>
                        \A p \in EP(t) : p \in Identifiers /\ OneKind(E(t), p)
    OBVIOUS
  <2>1. Range(EdgesOf(fx, t)) = E(t) /\ Len(EdgesOf(fx, t)) \in Nat
        /\ DOMAIN EdgesOf(fx, t) = 1..Len(EdgesOf(fx, t))
    BY EdgesOfTable
  <2> HIDE DEF E
  <2> QED BY <2>1, ColumnsAccepted
<1>3. (\A l \in NodeLabels(fx) : NP(l) \subseteq Identifiers) <=> AllNP \subseteq Identifiers
  BY DEF NodeLabels
<1>4. (\A t \in RelTypes(fx) : EP(t) \subseteq Identifiers) <=> AllEP \subseteq Identifiers
  BY DEF RelTypes
<1>5. AllNames(fx) = Labels(fx) \cup RelTypes(fx) \cup AllNP \cup AllEP
  BY DEF AllNames
<1>6. HasAPlace(fx) <=>
        /\ \A e, f \in Edges(fx) : TypeOf(e) = TypeOf(f) =>
             Ends(fx, e) = Ends(fx, f) /\ e.undirected = f.undirected
        /\ \A l \in NodeLabels(fx) : \A p \in NP(l) : OneKind(N(l), p)
        /\ \A t \in RelTypes(fx) : \A p \in EP(t) : OneKind(E(t), p)
  BY DEF HasAPlace
<1> HIDE DEF N, E, NP, EP, AllNP, AllEP
<1>7. (\A l \in NodeLabels(fx) : ~ColumnsRefused(NodesOf(fx, l)))
        <=> AllNP \subseteq Identifiers /\ \A l \in NodeLabels(fx) : \A p \in NP(l) : OneKind(N(l), p)
  BY <1>1, <1>3
<1>8. (\A t \in RelTypes(fx) : ~ColumnsRefused(EdgesOf(fx, t)))
        <=> AllEP \subseteq Identifiers /\ \A t \in RelTypes(fx) : \A p \in EP(t) : OneKind(E(t), p)
  BY <1>2, <1>4
<1>9. AllNames(fx) \subseteq Identifiers <=>
        /\ Labels(fx) \subseteq Identifiers /\ RelTypes(fx) \subseteq Identifiers
        /\ AllNP \subseteq Identifiers /\ AllEP \subseteq Identifiers
  BY <1>5
<1>10. ~Unplannable(fx) <=>
         /\ \A n \in Nodes(fx) : {TableOf(n)} \cup Range(n.labels) \subseteq Identifiers
         /\ \A l \in NodeLabels(fx) : ~ColumnsRefused(NodesOf(fx, l))
         /\ \A e \in Edges(fx) : ~EdgeRefused(fx, e)
         /\ \A t \in RelTypes(fx) : ~ColumnsRefused(EdgesOf(fx, t))
  BY DEF Unplannable
<1> QED BY <1>6, <1>7, <1>8, <1>9, <1>10, LabelsNamed, EdgesAccepted

(***************************************************************************)
(* The file                                                                *)
(***************************************************************************)

\* The ids of the nodes of a plan are the tables and the numbers in them.
LEMMA PlanNodeIds ==
  ASSUME NEW fx, Written(fx)
  PROVE  NodeIds(Plan(fx)) = Numbers(NodeClass(fx))
<1>1. /\ DOMAIN Plan(fx).nodes = NodeLabels(fx)
      /\ \A l \in NodeLabels(fx) : Plan(fx).nodes[l] = NodeTable(fx, l)
  BY DEF Plan
<1>2. ASSUME NEW l
      PROVE  DOMAIN NodeTable(fx, l).columns.rows = 1..Cardinality(Of(NodeClass(fx), l))
  <2>1. DOMAIN NodeTable(fx, l).columns.rows = DOMAIN NodesOf(fx, l)
    BY DEF NodeTable, Columns
  <2>2. DOMAIN NodesOf(fx, l) = 1..Cardinality(NodesIn(fx, l))
    BY NodesOfTable
  <2>3. NodesIn(fx, l) = Of(NodeClass(fx), l)
    BY Classes
  <2> QED BY <2>1, <2>2, <2>3
<1>3. Range(NodeClass(fx)) = NodeLabels(fx)
  BY Classes
<1> DEFINE D(l) == DOMAIN Plan(fx).nodes[l].columns.rows
<1>4. NodeIds(Plan(fx)) = UNION {{<<l, k>> : k \in D(l)} : l \in NodeLabels(fx)}
  BY <1>1 DEF NodeIds
<1>5. \A l \in NodeLabels(fx) : D(l) = 1..Cardinality(Of(NodeClass(fx), l))
  BY <1>1, <1>2
<1> HIDE DEF D
<1>6. UNION {{<<l, k>> : k \in D(l)} : l \in NodeLabels(fx)}
        = UNION {{<<l, k>> : k \in 1..Cardinality(Of(NodeClass(fx), l))} : l \in NodeLabels(fx)}
  BY <1>5
<1> QED BY <1>3, <1>4, <1>6 DEF Numbers

\* The same of its edges: the empty tables add none.
LEMMA PlanEdgeIds ==
  ASSUME NEW fx, Written(fx)
  PROVE  EdgeIds(Plan(fx)) = Numbers(EdgeClass(fx))
<1>1. /\ DOMAIN Plan(fx).rels = AllTypes(fx) /\ RelTypes(fx) \subseteq AllTypes(fx)
      /\ \A t \in RelTypes(fx) : Plan(fx).rels[t] = RelTable(fx, t)
  BY DEF Plan, AllTypes
<1>2. ASSUME NEW t \in AllTypes(fx), t \notin RelTypes(fx)
      PROVE  DOMAIN Plan(fx).rels[t].edges = {}
  <2> DEFINE l == CHOOSE l \in Untouched(fx) : EmptyRel(l) = t
  <2>1. Plan(fx).rels[t] = EmptyTable(l)
    BY <1>2 DEF Plan
  <2> HIDE DEF l
  <2>2. EmptyTable(l).edges = <<>>
    BY DEF EmptyTable
  <2>3. Plan(fx).rels[t].edges = <<>>
    BY <2>1, <2>2
  <2>4. DOMAIN <<>> = {}
    OBVIOUS
  <2> QED BY <2>3, <2>4
<1>3. ASSUME NEW t
      PROVE  DOMAIN RelTable(fx, t).edges = 1..Cardinality(Of(EdgeClass(fx), t))
  <2>1. DOMAIN RelTable(fx, t).edges = DOMAIN EdgesOf(fx, t)
    BY DEF RelTable
  <2>2. DOMAIN EdgesOf(fx, t) = 1..Cardinality(EdgesIn(fx, t))
    BY EdgesOfTable
  <2>3. EdgesIn(fx, t) = Of(EdgeClass(fx), t)
    BY Classes
  <2> QED BY <2>1, <2>2, <2>3
<1>4. Range(EdgeClass(fx)) = RelTypes(fx)
  BY Classes
<1> DEFINE D(t) == DOMAIN Plan(fx).rels[t].edges
<1>5. EdgeIds(Plan(fx)) = UNION {{<<t, k>> : k \in D(t)} : t \in AllTypes(fx)}
  BY <1>1 DEF EdgeIds
<1>6. /\ \A t \in RelTypes(fx) : D(t) = 1..Cardinality(Of(EdgeClass(fx), t))
      /\ \A t \in AllTypes(fx) : t \notin RelTypes(fx) => D(t) = {}
  BY <1>1, <1>2, <1>3
<1> HIDE DEF D
<1>7. UNION {{<<t, k>> : k \in D(t)} : t \in AllTypes(fx)}
        = UNION {{<<t, k>> : k \in D(t)} : t \in RelTypes(fx)}
  BY <1>1, <1>6
<1>8. UNION {{<<t, k>> : k \in D(t)} : t \in RelTypes(fx)}
        = UNION {{<<t, k>> : k \in 1..Cardinality(Of(EdgeClass(fx), t))} : t \in RelTypes(fx)}
  BY ZenonT(30), <1>6
<1> QED BY <1>4, <1>5, <1>7, <1>8 DEF Numbers

\* What a fixture is planned with is counted as what the fixture has: the
\* check before the file is written does not fail.
LEMMA CountsMatch ==
  ASSUME NEW fx, Written(fx)
  PROVE  Counts(Plan(fx)) = <<Len(fx.nodes), Len(fx.edges)>>
<1>1. Len(fx.nodes) \in Nat /\ Len(fx.edges) \in Nat
  BY WrittenLists
<1>2. DOMAIN NodeClass(fx) = 1..Len(fx.nodes) /\ DOMAIN EdgeClass(fx) = 1..Len(fx.edges)
  BY DEF NodeClass, EdgeClass
<1>3. Cardinality(Numbers(NodeClass(fx))) = Len(fx.nodes)
  BY <1>1, <1>2, Numbered
<1>4. Cardinality(Numbers(EdgeClass(fx))) = Len(fx.edges)
  BY <1>1, <1>2, Numbered
<1> QED BY <1>3, <1>4, PlanNodeIds, PlanEdgeIds DEF Counts

\* When there is a file, and what is in it.
LEMMA StagedIf ==
  ASSUME NEW fx, Written(fx), NEW rows \in BOOLEAN
  PROVE  /\ Staged(fx, rows).made <=> ~Unplannable(fx) /\ ~NameTaken(fx)
         /\ Staged(fx, rows).made /\ rows => Staged(fx, rows) = Plan(fx)
         /\ (Staged(fx, rows).made /\ ~rows) =>
              /\ Staged(fx, rows).nodes = [l \in NodeLabels(fx) |-> Emptied(NodeTable(fx, l), "extra")]
              /\ DOMAIN Staged(fx, rows).rels = AllTypes(fx)
              /\ \A t \in AllTypes(fx) :
                   Staged(fx, rows).rels[t] = Emptied(Plan(fx).rels[t], "edges")
<1>1. ~NoFile.made
  BY DEF NoFile
<1>2. Plan(fx).made /\ DOMAIN Plan(fx).nodes = NodeLabels(fx) /\ DOMAIN Plan(fx).rels = AllTypes(fx)
      /\ \A l \in NodeLabels(fx) : Plan(fx).nodes[l] = NodeTable(fx, l)
  BY DEF Plan
<1>3. CASE Unplannable(fx) \/ NameTaken(fx)
  BY <1>1, <1>3 DEF Staged
<1>4. CASE ~(Unplannable(fx) \/ NameTaken(fx)) /\ rows
  <2>1. Staged(fx, rows) = Plan(fx)
    BY <1>4, CountsMatch DEF Staged
  <2> QED BY <1>2, <1>4, <2>1
<1>5. CASE ~(Unplannable(fx) \/ NameTaken(fx)) /\ ~rows
  <2> DEFINE shape == [made |-> TRUE,
               nodes |-> [l \in DOMAIN Plan(fx).nodes |-> Emptied(Plan(fx).nodes[l], "extra")],
               rels |-> [t \in DOMAIN Plan(fx).rels |-> Emptied(Plan(fx).rels[t], "edges")]]
  <2>1. Staged(fx, rows) = shape
    BY <1>5 DEF Staged
  <2>2. shape.made /\ shape.nodes = [l \in NodeLabels(fx) |-> Emptied(NodeTable(fx, l), "extra")]
    BY <1>2
  <2>3. shape.rels = [t \in AllTypes(fx) |-> Emptied(Plan(fx).rels[t], "edges")]
    BY <1>2
  <2> HIDE DEF shape
  <2> QED BY <1>5, <2>1, <2>2, <2>3
<1> QED BY <1>3, <1>4, <1>5

\* Every fixture that can be written, in any order, is refused for what it is:
\* the loop over a column's values, the first edge of a type and the count at
\* the end do not depend on the order the fixture is written in.
THEOREM RefusedForIt == Spec => []RefusedForWhatItIs
<1>1. Answered => RefusedForWhatItIs
  <2> SUFFICES ASSUME Answered, Asked("staging")
               PROVE  subject.file.made <=>
                        /\ HasAPlace(subject.fixture)
                        /\ AllNames(subject.fixture) \subseteq Identifiers
                        /\ ~NameTaken(subject.fixture)
    BY DEF RefusedForWhatItIs
  <2>1. PICK fx \in FixtureSet, rows \in BOOLEAN : Valid(fx) /\ subject = StagingAnswer(fx, rows)
    BY AskedStaging
  <2>2. subject.fixture = fx /\ subject.file = Staged(fx, rows)
    BY <2>1 DEF StagingAnswer
  <2>3. Written(fx)
    BY TablesAssumption
  <2> QED BY ZenonT(30), <2>2, <2>3, StagedIf, Plannable
<1> QED BY <1>1, AlwaysAnswered, PTL

(***************************************************************************)
(* A cell, written and read                                                *)
(***************************************************************************)

\* A product, divided.
LEMMA MultiplyDivide ==
  ASSUME NEW n \in Int, NEW d \in Nat \ {0}
  PROVE  (n * d) \div d = n
OBVIOUS

\* What divides without a rest, multiplied.
LEMMA DivideMultiply ==
  ASSUME NEW n \in Int, NEW d \in Nat \ {0}, n % d = 0
  PROVE  (n \div d) * d = n
OBVIOUS

\* A count in nanoseconds, of a number of seconds that fits, is that number.
LEMMA SecondsKept ==
  ASSUME NEW n \in Int, n * NanosPerSecond \in (-MaxCount - 1)..MaxCount
  PROVE  Int64Of(n * NanosPerSecond) \div NanosPerSecond = n
<1>1. Int64Of(n * NanosPerSecond) = n * NanosPerSecond
  BY FittingIsKept
<1>2. NanosPerSecond \in Nat \ {0}
  BY StagingAssumption
<1> QED BY <1>1, <1>2, MultiplyDivide

\* The nanoseconds of a day fit.
LEMMA DayFits ==
  ASSUME NEW n \in 0..(SecondsPerDay - 1)
  PROVE  n \in Int /\ n * NanosPerSecond \in (-MaxCount - 1)..MaxCount
<1>1. /\ SecondsPerDay \in Nat \ {0} /\ NanosPerSecond \in Nat \ {0} /\ MaxCount \in Nat
      /\ SecondsPerDay * NanosPerSecond <= MaxCount
  BY StagingAssumption
<1>2. n \in Nat /\ n <= SecondsPerDay
  BY <1>1
<1>3. \A a, b, c \in Nat : a <= b => a * c <= b * c /\ a * c \in Nat
  OBVIOUS
<1>4. n * NanosPerSecond \in Nat /\ n * NanosPerSecond <= SecondsPerDay * NanosPerSecond
  BY <1>1, <1>2, <1>3
<1>5. SecondsPerDay * NanosPerSecond \in Nat
  BY <1>1
<1>6. n * NanosPerSecond <= MaxCount
  BY <1>1, <1>4, <1>5
<1> QED BY <1>1, <1>2, <1>4, <1>6

\* A value's temporal kind, by the tag of its literal.
LEMMA TagKinds ==
  ASSUME NEW v, v.is \in Tags, TemporalKind(v) # Refused
  PROVE  \/ v.is = "date" /\ TemporalKind(v) = <<"DATE">>
         \/ v.is = "localtime" /\ TemporalKind(v) = <<"LOCALTIME">>
         \/ v.is = "localdatetime" /\ TemporalKind(v) = <<"LOCALDATETIME">>
         \/ v.is = "duration" /\ v.months = 0 /\ TemporalKind(v) = <<"DURATION">>
         \/ v.is = "duration" /\ v.months # 0 /\ v.n = 0 /\ TemporalKind(v) = <<"YEARMONTHDURATION">>
<1>1. v.is \in {"date", "time", "datetime", "localtime", "localdatetime", "duration"}
  BY DEF Tags
<1> QED BY <1>1 DEF TemporalKind

\* What a fixture can hold comes back from a column of its kind.
LEMMA ReadBack ==
  ASSUME NEW v, Parsed(v), v # NoValue, NEW type \in FileKinds,
         ColumnKind(v) = type \/ (ColumnKind(v) = AnyList /\ IsListKind(type)),
         v.is \in {"localdatetime", "duration"} =>
           v.n * NanosPerSecond \in (-MaxCount - 1)..MaxCount
  PROVE  Cell(v) # NoValue /\ Reads(type, Cell(v)) = v
<1>1. SecondsPerDay \in Nat \ {0} /\ NanosPerSecond \in Nat \ {0}
  BY StagingAssumption
<1>2. CASE v.is \notin Tags
  <2>1. Cell(v) = v
    BY <1>2 DEF Cell
  <2>2. type \in ScalarKinds \cup KindsOfLists
    BY <1>2, KindIs, KindsApart, KindsDiffer DEF FileKinds
  <2>3. \A s \in DOMAIN Scalars :
          Scalars[s] \notin {"DATE", "LOCALTIME", "LOCALDATETIME", "DURATION", "YEARMONTHDURATION"}
    BY ScalarsAre
  <2>4. \A a, b : <<a>>[1] = a /\ <<a, b>>[1] = a
    OBVIOUS
  <2>5. type[1] \notin {"DATE", "LOCALTIME", "LOCALDATETIME", "DURATION", "YEARMONTHDURATION"}
    BY <2>2, <2>3, <2>4 DEF ScalarKinds, KindsOfLists
  <2> QED BY <2>1, <2>5 DEF Reads
<1>3. CASE v.is \in Tags
  <2> DEFINE cell == Literal("int", Count(v))
  <2>1. Cell(v) = cell
    BY <1>3 DEF Cell
  <2>2. cell # NoValue /\ cell.n = Count(v)
    <3>1. cell.is = "int" /\ NoValue.is = "null" /\ cell.n = Count(v)
      BY DEF Literal, NoValue
    <3> HIDE DEF cell
    <3> QED BY <3>1
  <2>3. ColumnKind(v) = TemporalKind(v) /\ TemporalKind(v) \in TemporalKinds \cup {Refused}
    BY <1>3, KindIs
  <2>4. TemporalKind(v) = type /\ TemporalKind(v) # Refused
    BY <2>3, KindsApart, KindsDiffer DEF FileKinds
  <2>5. /\ v.n \in Int /\ v.months \in Int
        /\ v = IF v.is = "duration" THEN Months(v.months, v.n) ELSE Literal(v.is, v.n)
        /\ v.is = "date" => v.n % SecondsPerDay = 0
        /\ v.is = "localtime" => v.n \in 0..(SecondsPerDay - 1)
    BY <1>3 DEF Parsed
  <2> HIDE DEF cell
  <2>6. CASE v.is = "date" /\ type = <<"DATE">>
    <3>1. cell.n = v.n \div SecondsPerDay
      BY <2>2, <2>6 DEF Count
    <3>2. cell.n * SecondsPerDay = v.n
      BY <1>1, <2>5, <2>6, <3>1, DivideMultiply
    <3>3. Reads(type, cell) = Literal("date", cell.n * SecondsPerDay)
      BY <2>2, <2>6 DEF Reads
    <3>4. v = Literal("date", v.n)
      BY <2>5, <2>6
    <3> QED BY <2>1, <2>2, <3>2, <3>3, <3>4
  <2>7. CASE v.is = "localtime" /\ type = <<"LOCALTIME">>
    <3>1. cell.n = Int64Of(v.n * NanosPerSecond)
      BY <2>2, <2>7 DEF Count
    <3>2. cell.n \div NanosPerSecond = v.n
      BY <2>5, <2>7, <3>1, DayFits, SecondsKept
    <3>3. Reads(type, cell) = Literal("localtime", cell.n \div NanosPerSecond)
      BY <2>2, <2>7 DEF Reads
    <3>4. v = Literal("localtime", v.n)
      BY <2>5, <2>7
    <3> QED BY <2>1, <2>2, <3>2, <3>3, <3>4
  <2>8. CASE v.is = "localdatetime" /\ type = <<"LOCALDATETIME">>
    <3>1. cell.n = Int64Of(v.n * NanosPerSecond)
      BY <2>2, <2>8 DEF Count
    <3>2. cell.n \div NanosPerSecond = v.n
      BY <2>5, <2>8, <3>1, SecondsKept
    <3>3. Reads(type, cell) = Literal("localdatetime", cell.n \div NanosPerSecond)
      BY <2>2, <2>8 DEF Reads
    <3>4. v = Literal("localdatetime", v.n)
      BY <2>5, <2>8
    <3> QED BY <2>1, <2>2, <3>2, <3>3, <3>4
  <2>9. CASE v.is = "duration" /\ v.months = 0 /\ type = <<"DURATION">>
    <3>1. cell.n = Int64Of(v.n * NanosPerSecond)
      BY <2>2, <2>9 DEF Count
    <3>2. cell.n \div NanosPerSecond = v.n
      BY <2>5, <2>9, <3>1, SecondsKept
    <3>3. Reads(type, cell) = Literal("duration", cell.n \div NanosPerSecond)
      BY <2>2, <2>9 DEF Reads
    <3>4. v = Months(0, v.n)
      BY <2>5, <2>9
    <3>5. Months(0, v.n) = Literal("duration", v.n)
      BY DEF Months, Literal
    <3> QED BY <2>1, <2>2, <3>2, <3>3, <3>4, <3>5
  <2>10. CASE v.is = "duration" /\ v.months # 0 /\ v.n = 0 /\ type = <<"YEARMONTHDURATION">>
    <3>1. cell.n = v.months
      BY <2>2, <2>10 DEF Count
    <3>2. Reads(type, cell) = Months(cell.n, 0)
      BY <2>2, <2>10 DEF Reads
    <3>3. v = Months(v.months, 0)
      BY <2>5, <2>10
    <3> QED BY <2>1, <2>2, <3>1, <3>2, <3>3
  <2> QED BY <1>3, <2>4, <2>6, <2>7, <2>8, <2>9, <2>10, TagKinds
<1> QED BY <1>2, <1>3

\* Every value of an element is within what Parsed and InRange say.
ValuesKept(props) ==
  \A p \in DOMAIN props :
    /\ Parsed(props[p])
    /\ props[p].is \in {"localdatetime", "duration"} =>
         props[p].n * NanosPerSecond \in (-MaxCount - 1)..MaxCount

\* A row of a table holds what its element was given.
LEMMA HeldIsGiven ==
  ASSUME NEW elems, Len(elems) \in Nat, DOMAIN elems = 1..Len(elems),
         NEW k \in DOMAIN elems, ~ColumnsRefused(elems), ValuesKept(elems[k].props)
  PROVE  Held(Columns(elems), k) = Given(elems[k].props)
<1> DEFINE props == elems[k].props
           N == Names(elems)
           V(p) == Prop(props, p)
           C(p) == Column(elems, p)
           There == {p \in N : Cell(V(p)) # NoValue}
           Had == {p \in DOMAIN props : props[p] # NoValue}
<1>1. elems[k] \in Range(elems)
  BY DEF Range
<1>2. DOMAIN props \subseteq N
  BY <1>1 DEF Names
<1>3. \A p \in N : C(p) # Refused
  BY DEF ColumnsRefused
<1>4. \A p \in N : C(p) \in FileKinds /\ (V(p) # NoValue =>
        ColumnKind(V(p)) = C(p) \/ (ColumnKind(V(p)) = AnyList /\ IsListKind(C(p))))
  BY <1>1, <1>3, ColumnIsOneKind
<1>5. \A p : V(p) # NoValue => p \in DOMAIN props /\ V(p) = props[p]
  BY DEF Prop
<1>6. \A p \in DOMAIN props : V(p) = props[p]
  BY DEF Prop
<1>7. Cell(NoValue) = NoValue
  BY DEF Cell, NoValue, Literal, Tags
<1> HIDE DEF V, C, N
<1>8. ASSUME NEW p \in N, V(p) # NoValue
      PROVE  Cell(V(p)) # NoValue /\ Reads(C(p), Cell(V(p))) = V(p)
  <2>1. p \in DOMAIN props /\ V(p) = props[p]
    BY <1>5, <1>8
  <2>2. /\ Parsed(V(p))
        /\ V(p).is \in {"localdatetime", "duration"} =>
             V(p).n * NanosPerSecond \in (-MaxCount - 1)..MaxCount
    BY <2>1 DEF ValuesKept
  <2> QED BY <1>4, <1>8, <2>2, ReadBack
<1>9. There = Had
  BY <1>2, <1>5, <1>6, <1>7, <1>8
<1>10. Held(Columns(elems), k) = {<<p, Reads(C(p), Cell(V(p)))>> : p \in There}
  <2>1. Columns(elems).types = [p \in N |-> C(p)]
    BY DEF Columns, N, C
  <2>2. Columns(elems).rows[k] = [p \in N |-> Cell(V(p))]
    BY DEF Columns, Row, N, V
  <2> DEFINE types == Columns(elems).types
             row == Columns(elems).rows[k]
  <2>3. Held(Columns(elems), k)
          = {<<p, Reads(types[p], row[p])>> : p \in {q \in DOMAIN types : row[q] # NoValue}}
    BY DEF Held
  <2> HIDE DEF types, row
  <2>4. DOMAIN types = N /\ \A p \in N : types[p] = C(p) /\ row[p] = Cell(V(p))
    BY <2>1, <2>2 DEF types, row
  <2>5. {q \in DOMAIN types : row[q] # NoValue} = There
    BY <2>4
  <2>6. \A p \in There : <<p, Reads(types[p], row[p])>> = <<p, Reads(C(p), Cell(V(p)))>>
    BY <2>4
  <2> HIDE DEF There
  <2> QED BY <2>3, <2>5, <2>6
<1>11. \A p \in Had : <<p, Reads(C(p), Cell(V(p)))>> = <<p, props[p]>>
  BY <1>2, <1>6, <1>8
<1>12. Given(props) = {<<p, props[p]>> : p \in Had}
  BY DEF Given
<1> HIDE DEF There, Had, props
<1>13. {<<p, Reads(C(p), Cell(V(p)))>> : p \in There} = {<<p, props[p]>> : p \in Had}
  BY <1>9, <1>11
<1> QED BY <1>10, <1>12, <1>13 DEF props

(***************************************************************************)
(* The graph of a file                                                     *)
(***************************************************************************)

\* A place's number in its table is the row that planFixture counts.
LEMMA ZRowIsNumber ==
  ASSUME NEW fx, Written(fx), NEW i \in DOMAIN fx.nodes
  PROVE  ZRow(fx, i) = Number(NodeClass(fx), i)
<1> DEFINE n == Len(fx.nodes)
           is == NodesIn(fx, TableOf(fx.nodes[i]))
           before == {j \in is : <<j, i>> \in Ascending(is)}
           upto == {j \in 1..i : TableOf(fx.nodes[j]) = TableOf(fx.nodes[i])}
<1>1. n \in Nat /\ DOMAIN fx.nodes = 1..n /\ i \in 1..n
  BY WrittenLists
<1>2. is \subseteq 1..n /\ i \in is
  BY <1>1 DEF NodesIn
<1>3. Number(NodeClass(fx), i) = Rank(is, Ascending(is), i)
  <2>1. NodeClass(fx)[i] = TableOf(fx.nodes[i])
    BY <1>1 DEF NodeClass
  <2>2. is = Of(NodeClass(fx), NodeClass(fx)[i])
    BY <2>1, Classes
  <2> HIDE DEF is
  <2> QED BY <2>2 DEF Number
<1>4. before = {j \in is : j < i}
  BY <1>2 DEF Ascending
<1>5. upto = before \cup {i} /\ i \notin before
  <2>1. upto = {j \in is : j <= i}
    BY <1>1 DEF NodesIn
  <2> HIDE DEF upto, before
  <2> QED BY <1>1, <1>2, <1>4, <2>1
<1>6. IsFiniteSet(before)
  <2>1. before \subseteq 1..n
    BY <1>2
  <2> HIDE DEF before, n
  <2> QED BY <1>1, <2>1, UpTo, FS_Subset
<1>7. Cardinality(upto) = Cardinality(before) + 1
  <2> HIDE DEF upto, before
  <2> QED BY <1>5, <1>6, FS_AddElement
<1> QED BY <1>3, <1>7 DEF ZRow, Rank

\* Where the file has the nodes of a fixture, and its edges.
NodePlace(fx) ==
  [i \in 1..Len(fx.nodes) |-> <<NodeClass(fx)[i], Number(NodeClass(fx), i)>>]
EdgePlace(fx) ==
  [i \in 1..Len(fx.edges) |-> <<EdgeClass(fx)[i], Number(EdgeClass(fx), i)>>]

\* The place of a node is its table and the row planFixture counted for it, and
\* every row is the place of one node.
LEMMA NodePlaceIs ==
  ASSUME NEW fx, Written(fx)
  PROVE  /\ NodePlace(fx) \in Bijection(DOMAIN fx.nodes, NodeIds(Plan(fx)))
         /\ \A i \in DOMAIN fx.nodes :
              /\ NodePlace(fx)[i] = <<TableOf(fx.nodes[i]), ZRow(fx, i)>>
              /\ ZRow(fx, i) \in DOMAIN NodesOf(fx, TableOf(fx.nodes[i]))
              /\ NodesOf(fx, TableOf(fx.nodes[i]))[ZRow(fx, i)] = fx.nodes[i]
<1>1. Len(fx.nodes) \in Nat /\ DOMAIN fx.nodes = 1..Len(fx.nodes)
  BY WrittenLists
<1>2. DOMAIN NodeClass(fx) = 1..Len(fx.nodes)
  BY DEF NodeClass
<1>3. NodePlace(fx) \in Bijection(1..Len(fx.nodes), Numbers(NodeClass(fx)))
  BY <1>1, <1>2, Numbered DEF NodePlace
<1>4. ASSUME NEW i \in DOMAIN fx.nodes
      PROVE  /\ NodePlace(fx)[i] = <<TableOf(fx.nodes[i]), ZRow(fx, i)>>
             /\ ZRow(fx, i) \in DOMAIN NodesOf(fx, TableOf(fx.nodes[i]))
             /\ NodesOf(fx, TableOf(fx.nodes[i]))[ZRow(fx, i)] = fx.nodes[i]
  <2> DEFINE l == TableOf(fx.nodes[i])
             is == NodesIn(fx, l)
  <2>1. NodeClass(fx)[i] = l
    BY <1>1 DEF NodeClass
  <2>2. is = Of(NodeClass(fx), l)
    BY Classes
  <2>3. ZRow(fx, i) = Rank(is, Ascending(is), i)
    <3> HIDE DEF is, l
    <3> QED BY <2>1, <2>2, ZRowIsNumber DEF Number
  <2>4. is \subseteq 1..Len(fx.nodes) /\ i \in is
    BY <1>1 DEF NodesIn
  <2>5. NodePlace(fx)[i] = <<l, ZRow(fx, i)>>
    BY <1>1, <2>1, ZRowIsNumber DEF NodePlace
  <2>6. NodesOf(fx, l) = Selected(fx.nodes, is)
    BY DEF NodesOf
  <2> HIDE DEF is, l
  <2>7. /\ ZRow(fx, i) \in DOMAIN NodesOf(fx, l)
        /\ NodesOf(fx, l)[ZRow(fx, i)] = fx.nodes[i]
    BY <1>1, <2>3, <2>4, <2>6, SelectedThose
  <2> QED BY <2>5, <2>7 DEF l
<1> QED BY <1>1, <1>3, <1>4, PlanNodeIds

\* The place of an edge is its table and its row there.
LEMMA EdgePlaceIs ==
  ASSUME NEW fx, Written(fx)
  PROVE  /\ EdgePlace(fx) \in Bijection(DOMAIN fx.edges, EdgeIds(Plan(fx)))
         /\ \A i \in DOMAIN fx.edges : \E k \in DOMAIN EdgesOf(fx, TypeOf(fx.edges[i])) :
              /\ EdgePlace(fx)[i] = <<TypeOf(fx.edges[i]), k>>
              /\ EdgesOf(fx, TypeOf(fx.edges[i]))[k] = fx.edges[i]
<1>1. Len(fx.edges) \in Nat /\ DOMAIN fx.edges = 1..Len(fx.edges)
  BY WrittenLists
<1>2. DOMAIN EdgeClass(fx) = 1..Len(fx.edges)
  BY DEF EdgeClass
<1>3. EdgePlace(fx) \in Bijection(1..Len(fx.edges), Numbers(EdgeClass(fx)))
  BY <1>1, <1>2, Numbered DEF EdgePlace
<1>4. ASSUME NEW i \in DOMAIN fx.edges
      PROVE  \E k \in DOMAIN EdgesOf(fx, TypeOf(fx.edges[i])) :
               /\ EdgePlace(fx)[i] = <<TypeOf(fx.edges[i]), k>>
               /\ EdgesOf(fx, TypeOf(fx.edges[i]))[k] = fx.edges[i]
  <2> DEFINE t == TypeOf(fx.edges[i])
             is == EdgesIn(fx, t)
             k == Number(EdgeClass(fx), i)
  <2>1. EdgeClass(fx)[i] = t
    BY <1>1 DEF EdgeClass
  <2>2. is = Of(EdgeClass(fx), t)
    BY Classes
  <2>3. k = Rank(is, Ascending(is), i)
    <3> HIDE DEF is, t
    <3> QED BY <2>1, <2>2 DEF Number
  <2>4. is \subseteq 1..Len(fx.edges) /\ i \in is
    BY <1>1 DEF EdgesIn
  <2>5. EdgePlace(fx)[i] = <<t, k>>
    BY <1>1, <2>1 DEF EdgePlace
  <2>6. EdgesOf(fx, t) = Selected(fx.edges, is)
    BY DEF EdgesOf
  <2> HIDE DEF is, t, k
  <2>7. k \in DOMAIN EdgesOf(fx, t) /\ EdgesOf(fx, t)[k] = fx.edges[i]
    BY <1>1, <2>3, <2>4, <2>6, SelectedThose
  <2> QED BY <2>5, <2>7 DEF t
<1> QED BY <1>1, <1>3, <1>4, PlanEdgeIds

\* Every element of a fixture that is planned is in a table with no refused
\* column, and holds values that are kept.
LEMMA PlannedColumns ==
  ASSUME NEW fx, ~Unplannable(fx)
  PROVE  /\ \A n \in Nodes(fx) : ~ColumnsRefused(NodesOf(fx, TableOf(n)))
         /\ \A e \in Edges(fx) : ~ColumnsRefused(EdgesOf(fx, TypeOf(e))) /\ ~EdgeRefused(fx, e)
BY DEF Unplannable, NodeLabels, RelTypes

\* What was written, and fits, is kept.
LEMMA FixtureValuesKept ==
  ASSUME NEW fx, Written(fx), InRange(fx), NEW x \in Nodes(fx) \cup Edges(fx)
  PROVE  ValuesKept(x.props)
BY DEF Written, InRange, ValuesKept

\* A node of the fixture is the node of the file at its place.
LEMMA NodeIsThere ==
  ASSUME NEW fx, Written(fx), InRange(fx), ~Unplannable(fx), NEW i \in DOMAIN fx.nodes
  PROVE  SameNode(Plan(fx), NodePlace(fx)[i], fx.nodes[i])
<1> DEFINE n == fx.nodes[i]
           l == TableOf(n)
           k == ZRow(fx, i)
           elems == NodesOf(fx, l)
           table == NodeTable(fx, l)
<1>1. n \in Nodes(fx) /\ l \in NodeLabels(fx)
  BY DEF Nodes, NodeLabels
<1>2. NodePlace(fx)[i] = <<l, k>> /\ k \in DOMAIN elems /\ elems[k] = n
  BY NodePlaceIs
<1>3. Plan(fx).nodes[l] = table
  BY <1>1 DEF Plan
<1>4. Len(elems) \in Nat /\ DOMAIN elems = 1..Len(elems)
  BY NodesOfTable
<1>5. ~ColumnsRefused(elems)
  BY <1>1, PlannedColumns
<1>6. ValuesKept(n.props)
  BY <1>1, FixtureValuesKept
<1>7. table.columns = Columns(elems) /\ table.extra[k] = Extra(n)
  BY <1>2 DEF NodeTable
<1>8. Len(n.labels) \in Nat /\ DOMAIN n.labels = 1..Len(n.labels)
      /\ (Len(n.labels) = 0 <=> n.labels = <<>>)
  BY <1>1, WrittenLists
<1>9. {l} \cup Extra(n) = {TableOf(n)} \cup Range(n.labels)
  <2>1. Range(n.labels) = {n.labels[j] : j \in 1..Len(n.labels)}
    BY <1>8 DEF Range
  <2>2. Extra(n) = {n.labels[j] : j \in 2..Len(n.labels)} \ {l}
    BY DEF Extra
  <2>3. CASE n.labels = <<>>
    BY <1>8, <2>1, <2>2, <2>3
  <2>4. CASE n.labels # <<>>
    <3>1. l = n.labels[1]
      BY <2>4 DEF TableOf
    <3>2. 1..Len(n.labels) = {1} \cup 2..Len(n.labels)
      BY <1>8, <2>4
    <3> HIDE DEF l, n
    <3> QED BY <2>1, <2>2, <3>1, <3>2 DEF l
  <2> QED BY <2>3, <2>4
<1> HIDE DEF n, k, elems, table
<1>10. Held(Columns(elems), k) = Given(n.props)
  BY <1>2, <1>4, <1>5, <1>6, HeldIsGiven
<1>11. <<l, k>>[1] = l /\ <<l, k>>[2] = k
  OBVIOUS
<1> HIDE DEF l
<1> QED BY <1>2, <1>3, <1>7, <1>9, <1>10, <1>11 DEF SameNode, n

\* Where a key's node is.
LEMMA NodeAtIs ==
  ASSUME NEW fx, NEW key \in Keys(fx)
  PROVE  NodeAt(fx, key) \in DOMAIN fx.nodes
<1>1. \E i \in DOMAIN fx.nodes : fx.nodes[i].key = key
  BY DEF Keys, Nodes
<1> QED BY <1>1 DEF NodeAt

\* An edge of the fixture is read at its place in the file, between the nodes
\* that are at the places of its ends.
LEMMA EdgeIsRead ==
  ASSUME NEW fx, Written(fx), Valid(fx), InRange(fx), ~Unplannable(fx), NEW i \in DOMAIN fx.edges
  PROVE  ReadEdge(Plan(fx), EdgePlace(fx)[i]) = EdgeAs(fx, NodePlace(fx), fx.edges[i])
<1> DEFINE e == fx.edges[i]
           t == TypeOf(e)
           elems == EdgesOf(fx, t)
           table == RelTable(fx, t)
           first == Head(elems)
           f == NodeAt(fx, e.from)
           g == NodeAt(fx, e.to)
<1>1. e \in Edges(fx) /\ t \in RelTypes(fx)
  BY DEF Edges, RelTypes
<1>2. PICK k \in DOMAIN elems : EdgePlace(fx)[i] = <<t, k>> /\ elems[k] = e
  BY EdgePlaceIs
<1>3. Plan(fx).rels[t] = table
  BY <1>1 DEF Plan, AllTypes
<1>4. Len(elems) \in Nat /\ DOMAIN elems = 1..Len(elems)
  BY EdgesOfTable
<1>5. ~ColumnsRefused(elems) /\ ~EdgeRefused(fx, e)
  BY <1>1, PlannedColumns
<1>6. ValuesKept(e.props)
  BY <1>1, FixtureValuesKept
<1>7. Ends(fx, first) = Ends(fx, e) /\ first.undirected = e.undirected
  BY <1>5 DEF EdgeRefused
<1>8. f \in DOMAIN fx.nodes /\ g \in DOMAIN fx.nodes
  BY <1>1, NodeAtIs DEF Valid
<1>9. /\ NodePlace(fx)[f] = <<TableOf(fx.nodes[f]), ZRow(fx, f)>>
      /\ NodePlace(fx)[g] = <<TableOf(fx.nodes[g]), ZRow(fx, g)>>
  BY <1>8, NodePlaceIs
<1>10. Ends(fx, e) = <<TableOf(fx.nodes[f]), TableOf(fx.nodes[g])>>
  BY DEF Ends
<1>11. /\ table.src = Ends(fx, first)[1] /\ table.dst = Ends(fx, first)[2]
       /\ table.undirected = first.undirected /\ table.columns = Columns(elems)
       /\ table.edges = [m \in DOMAIN elems |-> <<ZRow(fx, NodeAt(fx, elems[m].from)),
                                                   ZRow(fx, NodeAt(fx, elems[m].to))>>]
  BY DEF RelTable
<1> HIDE DEF e, t, elems, table, first, f, g
<1>12. table.edges[k] = <<ZRow(fx, f), ZRow(fx, g)>>
  BY <1>2, <1>11 DEF f, g
<1>13. table.src = TableOf(fx.nodes[f]) /\ table.dst = TableOf(fx.nodes[g])
  BY <1>7, <1>10, <1>11
<1>14. Held(table.columns, k) = Given(e.props)
  BY <1>2, <1>4, <1>5, <1>6, <1>11, HeldIsGiven
<1>15. /\ <<table.src, table.edges[k][1]>> = NodePlace(fx)[f]
       /\ <<table.dst, table.edges[k][2]>> = NodePlace(fx)[g]
  BY <1>9, <1>12, <1>13
<1>16. ReadEdge(Plan(fx), <<t, k>>) =
         [type |-> t, undirected |-> table.undirected,
          from |-> <<table.src, table.edges[k][1]>>, to |-> <<table.dst, table.edges[k][2]>>,
          props |-> Held(table.columns, k)]
  BY <1>3 DEF ReadEdge
<1>17. EdgeAs(fx, NodePlace(fx), e) =
         [type |-> t, undirected |-> e.undirected,
          from |-> NodePlace(fx)[f], to |-> NodePlace(fx)[g], props |-> Given(e.props)]
  BY DEF EdgeAs, t, f, g
<1>18. table.undirected = e.undirected
  BY <1>7, <1>11
<1>19. ReadEdge(Plan(fx), <<t, k>>) = EdgeAs(fx, NodePlace(fx), e)
  BY <1>14, <1>15, <1>16, <1>17, <1>18
<1> QED BY <1>2, <1>19 DEF e

\* One to one, as many are alike on one side as on the other.
LEMMA AsMany ==
  ASSUME NEW D, IsFiniteSet(D), NEW T, NEW b \in Bijection(D, T), NEW IS, IS \subseteq D,
         NEW JS, JS = {b[i] : i \in IS}
  PROVE  Cardinality(JS) = Cardinality(IS)
<1> DEFINE f == [i \in IS |-> b[i]]
<1>1. IsFiniteSet(IS)
  BY FS_Subset
<1>2. \A i, j \in D : b[i] = b[j] => i = j
  BY DEF Bijection, Injection, IsInjective
<1>3. f \in [IS -> JS] /\ (\A j \in JS : \E i \in IS : f[i] = j)
  OBVIOUS
<1>4. \A i, j \in IS : f[i] = f[j] => i = j
  BY <1>2
<1> HIDE DEF f
<1>5. f \in Injection(IS, JS) /\ f \in Surjection(IS, JS)
  BY <1>3, <1>4 DEF Injection, Surjection, IsInjective
<1> QED BY <1>1, <1>5, FS_Surjection

\* The file holds the fixture.
LEMMA PlanHolds ==
  ASSUME NEW fx, Written(fx), Valid(fx), InRange(fx), ~Unplannable(fx)
  PROVE  Holds(Plan(fx), fx)
<1> DEFINE db == Plan(fx)
           at == NodePlace(fx)
           b == EdgePlace(fx)
           m == Len(fx.edges)
<1>1. m \in Nat /\ DOMAIN fx.edges = 1..m
  BY WrittenLists
<1>2. at \in Bijection(DOMAIN fx.nodes, NodeIds(db))
  BY NodePlaceIs
<1>3. \A i \in DOMAIN fx.nodes : SameNode(db, at[i], fx.nodes[i])
  BY NodeIsThere
<1>4. b \in Bijection(1..m, EdgeIds(db))
  BY <1>1, EdgePlaceIs
<1>5. Cardinality(EdgeIds(db)) = m
  <2>1. DOMAIN EdgeClass(fx) = 1..m
    BY DEF EdgeClass
  <2> QED BY <1>1, <2>1, Numbered, PlanEdgeIds
<1>6. \A i \in 1..m : ReadEdge(db, b[i]) = EdgeAs(fx, at, fx.edges[i])
  BY <1>1, EdgeIsRead
<1> HIDE DEF db, at, b, m
<1>7. ASSUME NEW e \in Edges(fx)
      PROVE  Cardinality({id \in EdgeIds(db) : ReadEdge(db, id) = EdgeAs(fx, at, e)})
               = Cardinality({i \in DOMAIN fx.edges : EdgeAs(fx, at, fx.edges[i]) = EdgeAs(fx, at, e)})
  <2> DEFINE x == EdgeAs(fx, at, e)
             IS == {i \in 1..m : EdgeAs(fx, at, fx.edges[i]) = x}
             JS == {id \in EdgeIds(db) : ReadEdge(db, id) = x}
  <2>1. /\ \A i \in 1..m : b[i] \in EdgeIds(db)
        /\ \A id \in EdgeIds(db) : \E i \in 1..m : b[i] = id
    BY <1>4 DEF Bijection, Injection, Surjection
  <2> HIDE DEF x
  <2>2. JS = {b[i] : i \in IS}
    BY <1>6, <2>1
  <2>3. IS \subseteq 1..m
    OBVIOUS
  <2> HIDE DEF IS, JS
  <2>4. Cardinality(JS) = Cardinality(IS)
    <3> DEFINE D == 1..m
    <3>1. IsFiniteSet(D) /\ b \in Bijection(D, EdgeIds(db)) /\ IS \subseteq D
      BY <1>1, <1>4, <2>3, UpTo
    <3> HIDE DEF D
    <3> QED BY <2>2, <3>1, AsMany
  <2>5. {i \in DOMAIN fx.edges : EdgeAs(fx, at, fx.edges[i]) = EdgeAs(fx, at, e)} = IS
    BY <1>1 DEF IS, x
  <2>6. {id \in EdgeIds(db) : ReadEdge(db, id) = EdgeAs(fx, at, e)} = JS
    BY DEF JS, x
  <2> QED BY <2>4, <2>5, <2>6
<1> QED BY <1>2, <1>3, <1>5, <1>7 DEF Holds, db, at, m

\* The file of the shape has the tables and the columns, and no row.
LEMMA ShapeIs ==
  ASSUME NEW fx, Written(fx), Staged(fx, FALSE).made
  PROVE  LET db == Staged(fx, FALSE)
         IN  /\ NodeIds(db) = {} /\ EdgeIds(db) = {}
             /\ \A n \in Nodes(fx) : DOMAIN n.props \subseteq DOMAIN db.nodes[TableOf(n)].columns.types
             /\ \A e \in Edges(fx) : DOMAIN e.props \subseteq DOMAIN db.rels[TypeOf(e)].columns.types
<1> DEFINE db == Staged(fx, FALSE)
<1>1. /\ db.nodes = [l \in NodeLabels(fx) |-> Emptied(NodeTable(fx, l), "extra")]
      /\ DOMAIN db.rels = AllTypes(fx)
      /\ \A t \in AllTypes(fx) : db.rels[t] = Emptied(Plan(fx).rels[t], "edges")
  BY StagedIf
<1>2. ASSUME NEW l
      PROVE  /\ Emptied(NodeTable(fx, l), "extra").columns.rows = <<>>
             /\ Emptied(NodeTable(fx, l), "extra").columns.types = NodeTable(fx, l).columns.types
             /\ DOMAIN NodeTable(fx, l).columns.types = Names(NodesOf(fx, l))
  BY DEF Emptied, NodeTable, Columns
<1>3. ASSUME NEW t
      PROVE  /\ Emptied(RelTable(fx, t), "edges").edges = <<>>
             /\ Emptied(RelTable(fx, t), "edges").columns.types = RelTable(fx, t).columns.types
             /\ DOMAIN RelTable(fx, t).columns.types = Names(EdgesOf(fx, t))
  BY DEF Emptied, RelTable, Columns
<1>4. \A l : Emptied(EmptyTable(l), "edges").edges = <<>>
  BY DEF Emptied, EmptyTable
<1>5. \A t \in AllTypes(fx) : Plan(fx).rels[t] =
        IF t \in RelTypes(fx) THEN RelTable(fx, t)
        ELSE EmptyTable(CHOOSE l \in Untouched(fx) : EmptyRel(l) = t)
  BY DEF Plan
<1>6. RelTypes(fx) \subseteq AllTypes(fx)
  BY DEF AllTypes
<1> HIDE DEF db
<1>7. \A l \in DOMAIN db.nodes : DOMAIN db.nodes[l].columns.rows = {}
  <2>1. \A l \in DOMAIN db.nodes : db.nodes[l].columns.rows = <<>>
    BY <1>1, <1>2
  <2>2. DOMAIN <<>> = {}
    OBVIOUS
  <2> QED BY <2>1, <2>2
<1>8. \A t \in DOMAIN db.rels : DOMAIN db.rels[t].edges = {}
  <2>1. \A t \in DOMAIN db.rels : db.rels[t].edges = <<>>
    BY <1>1, <1>3, <1>4, <1>5
  <2>2. DOMAIN <<>> = {}
    OBVIOUS
  <2> QED BY <2>1, <2>2
<1>9. NodeIds(db) = {} /\ EdgeIds(db) = {}
  BY <1>7, <1>8 DEF NodeIds, EdgeIds
<1>10. ASSUME NEW n \in Nodes(fx)
       PROVE  DOMAIN n.props \subseteq DOMAIN db.nodes[TableOf(n)].columns.types
  <2>1. TableOf(n) \in NodeLabels(fx)
    BY DEF NodeLabels
  <2>2. DOMAIN db.nodes[TableOf(n)].columns.types = Names(NodesOf(fx, TableOf(n)))
    BY <1>1, <1>2, <2>1
  <2>3. n \in Range(NodesOf(fx, TableOf(n)))
    BY NodesOfTable
  <2> QED BY <2>2, <2>3 DEF Names
<1>11. ASSUME NEW e \in Edges(fx)
       PROVE  DOMAIN e.props \subseteq DOMAIN db.rels[TypeOf(e)].columns.types
  <2>1. TypeOf(e) \in RelTypes(fx)
    BY DEF RelTypes
  <2>2. DOMAIN db.rels[TypeOf(e)].columns.types = Names(EdgesOf(fx, TypeOf(e)))
    BY <1>1, <1>3, <1>5, <1>6, <2>1
  <2>3. e \in Range(EdgesOf(fx, TypeOf(e)))
    BY EdgesOfTable
  <2> QED BY <2>2, <2>3 DEF Names
<1> QED BY <1>9, <1>10, <1>11 DEF db

\* Nothing of a fixture is lost, added or moved on its way through the file:
\* whatever the fixture, if its counts fit the converter reads its nodes, its
\* edges and its values, and the file of the shape has a place for all of them.
THEOREM StagedFixture == Spec => []StagedIsFixture
<1>1. Answered => StagedIsFixture
  <2> SUFFICES ASSUME Answered, Asked("staging"), subject.file.made
               PROVE  StagedIsFixture
    BY DEF StagedIsFixture
  <2>1. PICK fx \in FixtureSet, rows \in BOOLEAN : Valid(fx) /\ subject = StagingAnswer(fx, rows)
    BY AskedStaging
  <2>2. subject.fixture = fx /\ subject.file = Staged(fx, rows) /\ subject.rows = rows
    BY <2>1 DEF StagingAnswer
  <2>3. Written(fx) /\ Valid(fx) /\ Staged(fx, rows).made
    BY <2>1, <2>2, TablesAssumption
  <2>4. CASE rows
    <3>1. ~Unplannable(fx) /\ Staged(fx, rows) = Plan(fx)
      BY <2>3, <2>4, StagedIf
    <3>2. InRange(fx) => Holds(Staged(fx, rows), fx)
      BY <2>3, <3>1, PlanHolds
    <3> QED BY <2>2, <2>4, <3>2 DEF StagedIsFixture
  <2>5. CASE ~rows
    <3>1. rows = FALSE
      BY <2>5
    <3>2. LET db == Staged(fx, rows)
          IN  /\ NodeIds(db) = {} /\ EdgeIds(db) = {}
              /\ \A n \in Nodes(fx) : DOMAIN n.props \subseteq DOMAIN db.nodes[TableOf(n)].columns.types
              /\ \A e \in Edges(fx) : DOMAIN e.props \subseteq DOMAIN db.rels[TypeOf(e)].columns.types
      BY <2>3, <3>1, ShapeIs
    <3> QED BY <2>2, <2>5, <3>2 DEF StagedIsFixture
  <2> QED BY <2>4, <2>5
<1> QED BY <1>1, AlwaysAnswered, PTL
=============================================================================
