-------------------------- MODULE PriceTimeProofs --------------------------
(***************************************************************************)
(* The matching engine implements PriceTimePriority, for any symbols,      *)
(* prices, orders and requests.                                            *)
(***************************************************************************)
EXTENDS PriceTime, MatchingEngineProofs

---------------------------------------------------------------------------
(* Sequences                                                               *)

\* r is q with x in front of what was at m.
HasInserted(r, S, q, m, x) ==
    /\ r \in Seq(S) /\ Len(r) = Len(q) + 1
    /\ \A i \in 1 .. m - 1 : r[i] = q[i]
    /\ r[m] = x
    /\ \A i \in m .. Len(q) : r[i + 1] = q[i]

LEMMA InsertAtElements ==
    ASSUME NEW S, NEW q \in Seq(S), NEW x \in S, NEW m \in 1 .. Len(q) + 1
    PROVE  HasInserted(Promise!InsertAt(q, m, x), S, q, m, x)
<1>0. PICK r, k : r = Promise!InsertAt(q, m, x) /\ k = m - 1
  OBVIOUS
<1> k \in 0 .. Len(q) /\ m = k + 1
  BY <1>0
<1>1. PICK a, b, c : /\ a = SubSeq(q, 1, k) /\ b = SubSeq(q, k + 1, Len(q))
                     /\ c = a \o << x >>
  OBVIOUS
<1>2. r = c \o b
  <2>1. r = SubSeq(q, 1, m - 1) \o << x >> \o SubSeq(q, m, Len(q))
    BY <1>0, Zenon DEF Promise!InsertAt
  <2> QED BY <1>0, <1>1, <2>1
<1>3. a \in Seq(S) /\ Len(a) = k /\ \A i \in 1 .. k : a[i] = q[i]
  BY <1>1
<1>4. b \in Seq(S) /\ Len(b) = Len(q) - k /\ \A i \in 1 .. Len(q) - k : b[i] = q[k + i]
  BY <1>1
<1>5. c \in Seq(S) /\ Len(c) = k + 1 /\ c[k + 1] = x /\ \A i \in 1 .. k : c[i] = q[i]
  BY <1>1, <1>3
<1>6. /\ r \in Seq(S) /\ Len(r) = Len(q) + 1
      /\ \A i \in 1 .. Len(q) + 1 : r[i] = IF i <= k + 1 THEN c[i] ELSE b[i - (k + 1)]
  <2>1. /\ r \in Seq(S) /\ Len(r) = Len(c) + Len(b)
        /\ \A i \in 1 .. Len(c) + Len(b) : r[i] = IF i <= Len(c) THEN c[i] ELSE b[i - Len(c)]
    <3>1. /\ c \o b \in Seq(S) /\ Len(c \o b) = Len(c) + Len(b)
          /\ \A i \in 1 .. Len(c) + Len(b) :
                 (c \o b)[i] = IF i <= Len(c) THEN c[i] ELSE b[i - Len(c)]
      BY <1>4, <1>5, ConcatProperties, Zenon
    <3> QED BY <1>2, <3>1, Zenon
  <2>2. Len(c) = k + 1 /\ Len(c) + Len(b) = Len(q) + 1
    BY <1>4, <1>5
  <2> QED BY <2>1, <2>2
<1>7. \A i \in k + 1 .. Len(q) : r[i + 1] = q[i]
  <2> SUFFICES ASSUME NEW i \in k + 1 .. Len(q) PROVE r[i + 1] = q[i]
    OBVIOUS
  <2>1. PICK j, l : j = i + 1 /\ l = i - k
    OBVIOUS
  <2>2. j \in 1 .. Len(q) + 1 /\ ~(j <= k + 1) /\ j - (k + 1) = l
    BY <2>1
  <2>3. l \in 1 .. Len(q) - k /\ k + l = i
    BY <2>1
  <2>4. r[j] = b[l]
    BY <1>6, <2>2
  <2>5. b[l] = q[i]
    BY <1>4, <2>3
  <2> QED BY <2>1, <2>4, <2>5
<1>8. (\A i \in 1 .. k : r[i] = q[i]) /\ r[k + 1] = x
  BY <1>5, <1>6
<1> QED BY <1>0, <1>6, <1>7, <1>8 DEF HasInserted

\* r is q without what was at k.
HasRemoved(r, S, q, k) ==
    /\ r \in Seq(S) /\ Len(r) = Len(q) - 1
    /\ \A i \in 1 .. k - 1 : r[i] = q[i]
    /\ \A i \in k .. Len(q) - 1 : r[i] = q[i + 1]

LEMMA RemoveAtElements ==
    ASSUME NEW S, NEW q \in Seq(S), NEW k \in 1 .. Len(q)
    PROVE  HasRemoved(Promise!RemoveAt(q, k), S, q, k)
<1>0. PICK r : r = Promise!RemoveAt(q, k)
  OBVIOUS
<1>1. r = SubSeq(q, 1, k - 1) \o SubSeq(q, k + 1, Len(q))
  BY <1>0 DEF Promise!RemoveAt
<1>2. PICK a, b : a = SubSeq(q, 1, k - 1) /\ b = SubSeq(q, k + 1, Len(q))
  OBVIOUS
<1>3. a \in Seq(S) /\ Len(a) = k - 1 /\ \A i \in 1 .. k - 1 : a[i] = q[i]
  BY <1>2
<1>4. b \in Seq(S) /\ Len(b) = Len(q) - k /\ \A i \in 1 .. Len(q) - k : b[i] = q[k + i]
  BY <1>2
<1>5. r = a \o b
  BY <1>1, <1>2
<1>6. /\ r \in Seq(S) /\ Len(r) = Len(q) - 1
      /\ \A i \in 1 .. Len(q) - 1 : r[i] = IF i <= k - 1 THEN a[i] ELSE b[i - (k - 1)]
  <2>1. /\ a \o b \in Seq(S) /\ Len(a \o b) = Len(a) + Len(b)
        /\ \A i \in 1 .. Len(a) + Len(b) :
               (a \o b)[i] = IF i <= Len(a) THEN a[i] ELSE b[i - Len(a)]
    BY <1>3, <1>4, ConcatProperties, Zenon
  <2>2. /\ r \in Seq(S) /\ Len(r) = Len(a) + Len(b)
        /\ \A i \in 1 .. Len(a) + Len(b) : r[i] = IF i <= Len(a) THEN a[i] ELSE b[i - Len(a)]
    BY <1>5, <2>1, Zenon
  <2>3. Len(a) = k - 1 /\ Len(a) + Len(b) = Len(q) - 1
    BY <1>3, <1>4
  <2> QED BY <2>2, <2>3
<1>7. \A i \in k .. Len(q) - 1 : r[i] = q[i + 1]
  <2> SUFFICES ASSUME NEW i \in k .. Len(q) - 1 PROVE r[i] = q[i + 1]
    OBVIOUS
  <2>1. PICK m, l : m = i + 1 /\ l = i - (k - 1)
    OBVIOUS
  <2>2. i \in 1 .. Len(q) - 1 /\ ~(i <= k - 1)
    OBVIOUS
  <2>3. l \in 1 .. Len(q) - k /\ k + l = m
    BY <2>1
  <2>4. r[i] = b[l]
    BY <1>6, <2>1, <2>2
  <2>5. b[l] = q[m]
    BY <1>4, <2>3
  <2> QED BY <2>1, <2>4, <2>5
<1>8. \A i \in 1 .. k - 1 : r[i] = q[i]
  <2>1. \A i \in 1 .. k - 1 : i \in 1 .. Len(q) - 1 /\ i <= k - 1
    OBVIOUS
  <2> QED BY <1>3, <1>6, <2>1
<1> QED BY <1>0, <1>6, <1>7, <1>8 DEF HasRemoved

---------------------------------------------------------------------------
(* The ranking of a side                                                   *)

\* q lists the orders of a side, best price first, then the order of the lists.
Ranks(q, book, side) ==
    /\ q \in Seq(Nat)
    /\ \A i \in DOMAIN q : q[i] \in IdsOn(book, side)
    /\ \A id \in IdsOn(book, side) : \E i \in DOMAIN q : q[i] = id
    /\ \A i, j \in DOMAIN q : i < j => Precedes(book, side, q[i], q[j])

OrdersOf(q, book) == [i \in DOMAIN q |-> book.order_index_[q[i]]]

LEMMA IdsOnSide ==
    ASSUME NEW book, BookOK(book), NEW side \in Sides, NEW id \in IdsOn(book, side)
    PROVE  /\ id \in DOMAIN book.order_index_ /\ id \in Nat
           /\ book.order_index_[id] \in Order
           /\ book.order_index_[id].exchange_id = id
           /\ book.order_index_[id].side = side
           /\ book.order_index_[id].price \in DOMAIN book.levels[side]
           /\ book.order_index_[id].price \in Int
  BY DEF BookOK, BookType, IndexedIsListed, IdsOn, Order

\* Two orders are not both in front of each other.
LEMMA PrecedesOneWay ==
    ASSUME NEW book, BookOK(book), NEW side \in Sides,
           NEW x \in IdsOn(book, side), NEW y \in IdsOn(book, side),
           Precedes(book, side, x, y)
    PROVE  ~Precedes(book, side, y, x)
<1>1. PICK p, q : p = book.order_index_[x].price /\ q = book.order_index_[y].price
  OBVIOUS
<1>2. p \in Int /\ q \in Int /\ p \in DOMAIN book.levels[side]
  BY <1>1, IdsOnSide
<1>3. Better(side, p, q) \/ (p = q /\ InFront(book, side, p, x, y))
  BY <1>1 DEF Precedes
<1>4. ~Better(side, p, q) \/ (~Better(side, q, p) /\ p # q)
  BY <1>2 DEF Better
<1>5. ~(InFront(book, side, p, x, y) /\ InFront(book, side, p, y, x))
  <2>1. book.levels[side][p] \in Seq(Nat)
    BY <1>2 DEF BookOK, BookType
  <2>2. \A i, j \in DOMAIN book.levels[side][p] :
            book.levels[side][p][i] = book.levels[side][p][j] => i = j
    BY <1>2 DEF BookOK, ListedOnce
  <2> QED BY <2>1, <2>2 DEF InFront
<1>6. p = q => ~Better(side, q, p)
  BY <1>2 DEF Better
<1> QED BY <1>1, <1>3, <1>4, <1>5, <1>6 DEF Precedes

LEMMA RanksOnce ==
    ASSUME NEW book, BookOK(book), NEW side \in Sides, NEW q, Ranks(q, book, side),
           NEW i \in DOMAIN q, NEW j \in DOMAIN q, q[i] = q[j]
    PROVE  i = j
<1>1. \A k, l \in DOMAIN q : k < l => q[k] # q[l]
  BY PrecedesOneWay DEF Ranks
<1>2. i \in Nat /\ j \in Nat
  BY DEF Ranks
<1> QED BY <1>1, <1>2

LEMMA RanksAll ==
    ASSUME NEW book, BookOK(book), NEW side \in Sides, NEW q, Ranks(q, book, side)
    PROVE  IsFiniteSet(IdsOn(book, side)) /\ Cardinality(IdsOn(book, side)) = Len(q)
<1>1. PICK S : S = IdsOn(book, side)
  OBVIOUS
<1>2. q \in Seq(Nat) /\ DOMAIN q = 1 .. Len(q) /\ Len(q) \in Nat
  BY DEF Ranks
<1>3. q \in [1 .. Len(q) -> S]
  BY <1>1, <1>2 DEF Ranks
<1>4. \A a, b \in 1 .. Len(q) : q[a] = q[b] => a = b
  BY <1>2, RanksOnce
<1>5. \A x \in S : \E a \in 1 .. Len(q) : q[a] = x
  BY <1>1, <1>2 DEF Ranks
<1>6. q \in Bijection(1 .. Len(q), S)
  BY <1>3, <1>4, <1>5 DEF Bijection, Injection, Surjection, IsInjective
<1>7. ExistsBijection(1 .. Len(q), S)
  BY <1>6 DEF ExistsBijection
<1> QED BY <1>1, <1>2, <1>7, FS_CountingElements, FS_NatBijection

\* A side has one ranking.
LEMMA RanksUnique ==
    ASSUME NEW book, BookOK(book), NEW side \in Sides,
           NEW q, Ranks(q, book, side), NEW r, Ranks(r, book, side)
    PROVE  q = r
<1>1. Len(q) = Len(r) /\ q \in Seq(Nat) /\ r \in Seq(Nat)
  BY RanksAll DEF Ranks
<1>2. PICK Bad : Bad = {i \in DOMAIN q : q[i] # r[i]}
  OBVIOUS
<1>3. SUFFICES ASSUME Bad # {} PROVE FALSE
  <2>1. ASSUME Bad = {} PROVE q = r
    <3>1. DOMAIN q = 1 .. Len(q) /\ DOMAIN r = 1 .. Len(q)
      BY <1>1
    <3>2. \A i \in 1 .. Len(q) : q[i] = r[i]
      BY <1>2, <2>1, <3>1
    <3>3. q = [i \in 1 .. Len(q) |-> q[i]] /\ r = [i \in 1 .. Len(q) |-> r[i]]
      BY <1>1, <3>1
    <3> QED BY <3>2, <3>3
  <2> QED BY <2>1
<1>4. Bad \subseteq Nat
  BY <1>1, <1>2
<1>5. PICK i \in Bad : \A k \in Bad : ~(k < i)
  BY <1>3, <1>4, NatMinimum
<1>6. i \in DOMAIN q /\ i \in DOMAIN r /\ i \in Nat /\ q[i] # r[i]
      /\ \A k \in DOMAIN q : k < i => q[k] = r[k]
  BY <1>1, <1>2, <1>5
<1>7. PICK j \in DOMAIN r : r[j] = q[i]
  BY <1>6 DEF Ranks
<1>8. PICK k \in DOMAIN q : q[k] = r[i]
  BY <1>6 DEF Ranks
<1>9. i < j
  <2>1. j # i
    BY <1>6, <1>7
  <2>2. ~(j < i)
    <3> SUFFICES ASSUME j < i PROVE FALSE
      OBVIOUS
    <3>1. j \in DOMAIN q /\ q[j] = q[i]
      BY <1>1, <1>6, <1>7
    <3> QED BY <1>6, <2>1, <3>1, RanksOnce
  <2> QED BY <1>1, <1>6, <2>1, <2>2
<1>10. i < k
  <2>1. k # i
    BY <1>6, <1>8
  <2>2. ~(k < i)
    <3> SUFFICES ASSUME k < i PROVE FALSE
      OBVIOUS
    <3>1. k \in DOMAIN r /\ r[k] = r[i]
      BY <1>1, <1>6, <1>8
    <3> QED BY <1>6, <2>1, <3>1, RanksOnce
  <2> QED BY <1>1, <1>6, <2>1, <2>2
<1>11. Precedes(book, side, r[i], q[i]) /\ Precedes(book, side, q[i], r[i])
  BY <1>6, <1>7, <1>8, <1>9, <1>10 DEF Ranks
<1>12. q[i] \in IdsOn(book, side) /\ r[i] \in IdsOn(book, side)
  BY <1>6 DEF Ranks
<1> QED BY <1>11, <1>12, PrecedesOneWay

LEMMA RankedIs ==
    ASSUME NEW book, BookOK(book), NEW side \in Sides, NEW q, Ranks(q, book, side)
    PROVE  RankedSide(book, side) = OrdersOf(q, book)
<1>1. PICK S, n : S = IdsOn(book, side) /\ n = Len(q)
  OBVIOUS
<1>2. Cardinality(S) = n /\ n \in Nat /\ DOMAIN q = 1 .. n
  <2>1. q \in Seq(Nat)
    BY DEF Ranks
  <2> QED BY <1>1, <2>1, RanksAll
<1>3. \A r \in [1 .. n -> S] :
          (\A i, j \in DOMAIN r : i < j => Precedes(book, side, r[i], r[j])) => r = q
  <2> SUFFICES ASSUME NEW r \in [1 .. n -> S],
                      \A i, j \in DOMAIN r : i < j => Precedes(book, side, r[i], r[j])
               PROVE  r = q
    OBVIOUS
  <2>1. \A id \in S : id \in Nat
    BY <1>1, IdsOnSide
  <2>2. r \in Seq(Nat) /\ DOMAIN r = 1 .. n
    BY <1>2, <2>1
  <2>3. \A i, j \in 1 .. n : r[i] = r[j] => i = j
    <3>1. \A k, l \in 1 .. n : k < l => r[k] # r[l]
      BY <1>1, <2>2, PrecedesOneWay
    <3> QED BY <1>2, <3>1
  <2>4. r \in Injection(1 .. n, S)
    BY <2>3 DEF Injection, IsInjective
  <2>5. IsFiniteSet(S) /\ Cardinality(1 .. n) = n
    <3>1. IsFiniteSet(S)
      BY <1>1, RanksAll
    <3>2. 1 \in Int /\ n \in Int /\ (1 > n => n = 0) /\ n - 1 + 1 = n
      BY <1>2
    <3>3. Cardinality(1 .. n) = IF 1 > n THEN 0 ELSE n - 1 + 1
      BY <3>2, FS_Interval
    <3> QED BY <3>1, <3>2, <3>3
  <2>6. r \in Surjection(1 .. n, S)
    BY <1>2, <2>4, <2>5, FS_Injection
  <2>7. \A id \in S : \E i \in 1 .. n : r[i] = id
    BY <2>6 DEF Surjection
  <2>8. Ranks(r, book, side)
    BY <1>1, <2>2, <2>7 DEF Ranks
  <2> QED BY <2>8, RanksUnique
<1>4. q \in [1 .. n -> S] /\ \A i, j \in DOMAIN q : i < j => Precedes(book, side, q[i], q[j])
  BY <1>1, <1>2 DEF Ranks
<1>5. RankedIds(book, side)
          = CHOOSE r \in [1 .. n -> S] :
                \A i, j \in DOMAIN r : i < j => Precedes(book, side, r[i], r[j])
  BY <1>1, <1>2 DEF RankedIds
<1>6. RankedIds(book, side) = q
  BY <1>3, <1>4, <1>5
<1> QED BY <1>6 DEF RankedSide, OrdersOf

---------------------------------------------------------------------------
(* What the operations of a book do to the ranking                         *)

\* A side whose lists and prices stay as they are.
LEMMA RanksSame ==
    ASSUME NEW book, NEW b, NEW side \in Sides, NEW q, Ranks(q, book, side),
           IdsOn(b, side) = IdsOn(book, side),
           b.levels[side] = book.levels[side],
           \A id \in IdsOn(book, side) :
               b.order_index_[id].price = book.order_index_[id].price
    PROVE  Ranks(q, b, side)
<1>1. \A x, y \in IdsOn(book, side) : Precedes(book, side, x, y) => Precedes(b, side, x, y)
  BY Zenon DEF Precedes, InFront
<1> QED BY <1>1, SMTT(30) DEF Ranks

\* A prefix of the positions.
LEMMA DownClosed ==
    ASSUME NEW n \in Nat, NEW D \in SUBSET (1 .. n),
           \A i, j \in 1 .. n : i < j /\ j \in D => i \in D
    PROVE  \E k \in 0 .. n : D = 1 .. k /\ Cardinality(D) = k
<1>1. \A k \in 0 .. n : Cardinality(1 .. k) = k
  <2> SUFFICES ASSUME NEW k \in 0 .. n PROVE Cardinality(1 .. k) = k
    OBVIOUS
  <2>1. Cardinality(1 .. k) = IF 1 > k THEN 0 ELSE k - 1 + 1
    BY FS_Interval
  <2> QED BY <2>1
<1>2. CASE D = 1 .. n
  BY <1>1, <1>2
<1>3. CASE D # 1 .. n
  <2>1. PICK E : E = (1 .. n) \ D
    OBVIOUS
  <2>2. E # {}
    <3>1. D \subseteq 1 .. n
      OBVIOUS
    <3> QED BY <1>3, <2>1, <3>1, Zenon
  <2>6. E \subseteq Nat
    BY <2>1
  <2>3. PICK m \in E : \A l \in E : ~(l < m)
    BY <2>2, <2>6, NatMinimum
  <2>4. m \in 1 .. n /\ m - 1 \in 0 .. n
    BY <2>1, <2>3
  <2>5. D = 1 .. m - 1
    <3>1. \A i \in 1 .. m - 1 : i \in D
      BY <2>1, <2>3, <2>4
    <3>2. \A i \in D : i \in 1 .. m - 1
      <4> SUFFICES ASSUME NEW i \in D PROVE i \in 1 .. m - 1
        OBVIOUS
      <4>1. i # m /\ i \in 1 .. n /\ m \notin D
        BY <2>1, <2>3
      <4>2. ~(m < i)
        BY <2>4, <4>1
      <4> QED BY <2>4, <4>1, <4>2
    <3> QED BY <3>1, <3>2
  <2> QED BY <1>1, <2>4, <2>5
<1> QED BY <1>2, <1>3

\* Where Insert puts an order: behind all that are at least as good.
LEMMA InsertPlace ==
    ASSUME NEW book, BookOK(book), NEW o \in Order, NEW q, Ranks(q, book, o.side)
    PROVE  \E k \in 0 .. Len(q) :
               /\ Promise!Insert(OrdersOf(q, book), o) = Promise!InsertAt(OrdersOf(q, book), k + 1, o)
               /\ \A i \in 1 .. k : ~Better(o.side, o.price, book.order_index_[q[i]].price)
               /\ \A i \in k + 1 .. Len(q) : Better(o.side, o.price, book.order_index_[q[i]].price)
<1>1. PICK Q, n, D, side :
          /\ Q = OrdersOf(q, book) /\ n = Len(q) /\ side = o.side
          /\ D = {i \in 1 .. n : ~Better(side, o.price, book.order_index_[q[i]].price)}
  BY ZenonT(40)
<1>2. q \in Seq(Nat) /\ DOMAIN q = 1 .. n /\ n \in Nat /\ side \in Sides /\ o.price \in Int
  BY <1>1 DEF Ranks, Order
<1>3. \A i \in 1 .. n : book.order_index_[q[i]].price \in Int
  BY <1>1, <1>2, IdsOnSide DEF Ranks
<1>4. \A i, j \in 1 .. n : i < j /\ j \in D => i \in D
  <2> SUFFICES ASSUME NEW i \in 1 .. n, NEW j \in 1 .. n, i < j, j \in D PROVE i \in D
    OBVIOUS
  <2>1. PICK x, y, z : /\ x = book.order_index_[q[i]].price /\ y = book.order_index_[q[j]].price
                       /\ z = o.price
    OBVIOUS
  <2>2. Precedes(book, side, q[i], q[j])
    BY <1>1, <1>2 DEF Ranks
  <2>3. Better(side, x, y) \/ x = y
    BY <2>1, <2>2 DEF Precedes
  <2>4. ~Better(side, z, y)
    BY <1>1, <2>1
  <2>5. x \in Int /\ y \in Int /\ z \in Int
    BY <1>2, <1>3, <2>1
  <2>6. ~Better(side, z, x)
    BY <2>3, <2>4, <2>5 DEF Better
  <2> QED BY <1>1, <2>1, <2>6
<1>5. PICK k \in 0 .. n : D = 1 .. k /\ Cardinality(D) = k
  <2>1. D \in SUBSET (1 .. n)
    BY <1>1
  <2> QED BY <1>2, <1>4, <2>1, DownClosed, Zenon
<1>6. D = {i \in DOMAIN Q : ~Promise!Ahead(o.side, o.price, Q[i].price)}
  <2>1. DOMAIN Q = 1 .. n /\ \A i \in 1 .. n : Q[i] = book.order_index_[q[i]]
    BY <1>1, <1>2 DEF OrdersOf
  <2>2. \A p : Promise!Ahead(o.side, o.price, p) <=> Better(side, o.price, p)
    BY <1>1 DEF Promise!Ahead, Better
  <2> QED BY <1>1, <2>1, <2>2
<1>7. Promise!Insert(Q, o) = Promise!InsertAt(Q, k + 1, o)
  <2>1. Promise!Insert(Q, o) = Promise!InsertAt(Q, 1 + Promise!Cardinality(D), o)
    BY <1>6 DEF Promise!Insert
  <2>2. Promise!Cardinality(D) = Cardinality(D)
    BY DEF Promise!Cardinality, Cardinality
  <2>3. 1 + Promise!Cardinality(D) = k + 1
    BY <1>2, <1>5, <2>2
  <2> QED BY <2>1, <2>3
<1>8. \A i \in k + 1 .. n : i \in 1 .. n /\ i \notin D
  BY <1>2, <1>5
<1> QED BY <1>1, <1>5, <1>7, <1>8

\* An order that rests: the ranking with it.
LEMMA PushBackRanks ==
    ASSUME NEW book, BookOK(book), NEW o \in Order, o.type = "limit", o.price \in Prices,
           o.exchange_id \notin DOMAIN book.order_index_,
           NEW q, Ranks(q, book, o.side)
    PROVE  \E r : /\ Ranks(r, PushBack(book, o), o.side)
                  /\ OrdersOf(r, PushBack(book, o)) = Promise!Insert(OrdersOf(q, book), o)
                  /\ \E i \in DOMAIN r : OrdersOf(r, PushBack(book, o))[i] = o
<1>1. PICK b, id, side, p, n :
          /\ b = PushBack(book, o) /\ id = o.exchange_id /\ side = o.side /\ p = o.price
          /\ n = Len(q)
  OBVIOUS
<1>2. /\ id \in Nat /\ side \in Sides /\ p \in Int
      /\ q \in Seq(Nat) /\ DOMAIN q = 1 .. n /\ n \in Nat
  BY <1>1 DEF Order, Ranks
<1>3. PICK k \in 0 .. n :
          /\ Promise!Insert(OrdersOf(q, book), o) = Promise!InsertAt(OrdersOf(q, book), k + 1, o)
          /\ \A i \in 1 .. k : ~Better(side, p, book.order_index_[q[i]].price)
          /\ \A i \in k + 1 .. n : Better(side, p, book.order_index_[q[i]].price)
  BY <1>1, InsertPlace
<1>4. PICK r, m : m = k + 1 /\ r = Promise!InsertAt(q, m, id)
  OBVIOUS
<1>5. /\ r \in Seq(Nat) /\ Len(r) = n + 1 /\ DOMAIN r = 1 .. n + 1
      /\ \A i \in 1 .. k : r[i] = q[i]
      /\ r[k + 1] = id
      /\ \A i \in k + 1 .. n : r[i + 1] = q[i]
  <2>1. q \in Seq(Nat) /\ id \in Nat /\ m \in 1 .. Len(q) + 1
    BY <1>1, <1>2, <1>4
  <2>2. /\ r \in Seq(Nat) /\ Len(r) = Len(q) + 1
        /\ \A i \in 1 .. m - 1 : r[i] = q[i]
        /\ r[m] = id
        /\ \A i \in m .. Len(q) : r[i + 1] = q[i]
    <3>1. HasInserted(r, Nat, q, m, id)
      BY <1>4, <2>1, InsertAtElements
    <3> QED BY <3>1 DEF HasInserted
  <2>3. m = k + 1 /\ m - 1 = k /\ Len(q) = n
    BY <1>1, <1>2, <1>4
  <2>4. \A i \in 1 .. k : r[i] = q[i]
    BY <2>2, <2>3, Zenon
  <2>5. r[k + 1] = id
    BY <2>2, <2>3, Zenon
  <2>6. \A i \in k + 1 .. n : r[i + 1] = q[i]
    BY <2>2, <2>3, Zenon
  <2>7. r \in Seq(Nat) /\ Len(r) = n + 1
    BY <2>2, <2>3, Zenon
  <2>8. DOMAIN r = 1 .. n + 1
    BY <2>7
  <2> QED BY <2>4, <2>5, <2>6, <2>7, <2>8, Zenon
<1>6. PICK I : I = IdsOn(book, side)
  OBVIOUS
<1>7. /\ b.order_index_ = Put(book.order_index_, id, o) /\ BookOK(b)
      /\ id \notin DOMAIN book.order_index_
  BY <1>1, PushBackOK
<1>8. /\ IdsOn(b, side) = I \cup {id} /\ id \notin I
      /\ b.order_index_[id] = o
      /\ \A x \in I : b.order_index_[x] = book.order_index_[x]
  BY <1>1, <1>6, <1>7 DEF IdsOn, Put
<1>9. PICK L : L = book.levels[side]
  OBVIOUS
<1>10. PICK lst : lst = IF p \in DOMAIN L THEN L[p] ELSE << >>
  OBVIOUS
<1>11. b.levels[side] = Put(L, p, Append(lst, id))
  <2>1. side \in DOMAIN book.levels
    BY <1>2 DEF BookOK, BookType
  <2> QED BY <1>1, <1>9, <1>10, <2>1 DEF PushBack
<1>12. lst \in Seq(Nat)
  BY <1>2, <1>9, <1>10 DEF BookOK, BookType
<1>13. /\ DOMAIN Append(lst, id) = DOMAIN lst \cup {Len(lst) + 1}
       /\ Append(lst, id)[Len(lst) + 1] = id
       /\ \A i \in DOMAIN lst : Append(lst, id)[i] = lst[i] /\ i < Len(lst) + 1
  BY <1>2, <1>12, AppendListProperties
<1>14. \A x, y \in I : Precedes(book, side, x, y) => Precedes(b, side, x, y)
  <2> SUFFICES ASSUME NEW x \in I, NEW y \in I, Precedes(book, side, x, y)
               PROVE  Precedes(b, side, x, y)
    OBVIOUS
  <2>1. PICK c, d : c = book.order_index_[x].price /\ d = book.order_index_[y].price
    OBVIOUS
  <2>2. c = b.order_index_[x].price /\ d = b.order_index_[y].price
    BY <1>8, <2>1
  <2>3. c \in DOMAIN L
    BY <1>2, <1>6, <1>9, <2>1, IdsOnSide
  <2>4. ASSUME InFront(book, side, c, x, y) PROVE InFront(b, side, c, x, y)
    <3>1. PICK i, j \in DOMAIN L[c] : i < j /\ L[c][i] = x /\ L[c][j] = y
      BY <1>9, <2>4 DEF InFront
    <3>2. CASE c = p
      <4>1. lst = L[c] /\ b.levels[side][c] = Append(lst, id)
        BY <1>10, <1>11, <2>3, <3>2 DEF Put
      <4> QED BY <1>13, <3>1, <4>1 DEF InFront
    <3>3. CASE c # p
      <4>1. b.levels[side][c] = L[c]
        BY <1>11, <2>3, <3>3 DEF Put
      <4> QED BY <3>1, <4>1 DEF InFront
    <3> QED BY <3>2, <3>3
  <2> QED BY <2>1, <2>2, <2>4 DEF Precedes
<1>15. \A x \in I : ~Better(side, p, book.order_index_[x].price) => Precedes(b, side, x, id)
  <2> SUFFICES ASSUME NEW x \in I, ~Better(side, p, book.order_index_[x].price)
               PROVE  Precedes(b, side, x, id)
    OBVIOUS
  <2>1. PICK c : c = book.order_index_[x].price
    OBVIOUS
  <2>2. c \in Int /\ c \in DOMAIN L /\ c = b.order_index_[x].price /\ p = b.order_index_[id].price
    BY <1>1, <1>2, <1>6, <1>8, <1>9, <2>1, IdsOnSide
  <2>3. Better(side, c, p) \/ c = p
    BY <1>2, <2>1, <2>2, SMTT(30) DEF Better
  <2>4. ASSUME c = p PROVE InFront(b, side, c, x, id)
    <3>1. \E i \in DOMAIN L[c] : L[c][i] = x
      BY <1>6, <1>9, <2>1 DEF IdsOn, BookOK, IndexedIsListed
    <3>2. lst = L[c] /\ b.levels[side][c] = Append(lst, id)
      BY <1>10, <1>11, <2>2, <2>4 DEF Put
    <3> QED BY <1>13, <3>1, <3>2 DEF InFront
  <2> QED BY <2>2, <2>3, <2>4 DEF Precedes
<1>16. \A x \in I : Better(side, p, book.order_index_[x].price) => Precedes(b, side, id, x)
  BY <1>1, <1>8 DEF Precedes
<1>17. Ranks(r, b, side)
  <2>1. \A i \in DOMAIN r : \/ i \in 1 .. k /\ r[i] = q[i] /\ i \in 1 .. n
                            \/ i = k + 1 /\ r[i] = id
                            \/ \E j \in k + 1 .. n : i = j + 1 /\ r[i] = q[j] /\ j \in 1 .. n
    <3>1. \A i \in 1 .. n + 1 : \/ i \in 1 .. k /\ i \in 1 .. n
                                \/ i = k + 1
                                \/ i - 1 \in k + 1 .. n /\ i - 1 \in 1 .. n /\ i = (i - 1) + 1
      BY <1>2
    <3>2. TAKE i \in DOMAIN r
    <3>3. i \in 1 .. n + 1
      BY <1>5, Zenon
    <3>4. CASE i \in 1 .. k /\ i \in 1 .. n
      BY <1>5, <3>4, Zenon
    <3>5. CASE i = k + 1
      BY <1>5, <3>5, Zenon
    <3>6. ASSUME i - 1 \in k + 1 .. n /\ i - 1 \in 1 .. n /\ i = (i - 1) + 1
          PROVE  \E j \in k + 1 .. n : i = j + 1 /\ r[i] = q[j] /\ j \in 1 .. n
      <4>1. r[(i - 1) + 1] = q[i - 1]
        BY <1>5, <3>6, Zenon
      <4> QED BY <3>6, <4>1, Zenon
    <3> QED BY <3>1, <3>3, <3>4, <3>5, <3>6, Zenon
  <2>2. \A i \in 1 .. n : q[i] \in I
    BY <1>1, <1>2, <1>6 DEF Ranks
  <2>3. \A i \in DOMAIN r : r[i] \in I \cup {id}
    BY <2>1, <2>2
  <2>4. \A x \in I \cup {id} : \E i \in DOMAIN r : r[i] = x
    <3>1. \A x \in I : \E i \in 1 .. n : q[i] = x
      BY <1>1, <1>2, <1>6 DEF Ranks
    <3>2. \A i \in 1 .. n : \E j \in DOMAIN r : r[j] = q[i]
      <4> SUFFICES ASSUME NEW i \in 1 .. n PROVE \E j \in DOMAIN r : r[j] = q[i]
        OBVIOUS
      <4>1. CASE i \in 1 .. k
        <5>1. i \in DOMAIN r
          BY <1>2, <1>5
        <5> QED BY <1>5, <4>1, <5>1
      <4>2. CASE i \in k + 1 .. n
        <5>1. i + 1 \in DOMAIN r
          BY <1>2, <1>5
        <5> QED BY <1>5, <4>2, <5>1
      <4> QED BY <1>2, <4>1, <4>2
    <3>3. k + 1 \in DOMAIN r
      BY <1>2, <1>5
    <3> QED BY <1>5, <3>1, <3>2, <3>3
  <2>5. \A i, j \in DOMAIN r : i < j => Precedes(b, side, r[i], r[j])
    <3> SUFFICES ASSUME NEW i \in DOMAIN r, NEW j \in DOMAIN r, i < j
                 PROVE  Precedes(b, side, r[i], r[j])
      OBVIOUS
    <3>1. \A l, j1 \in 1 .. n : l < j1 => Precedes(b, side, q[l], q[j1])
      BY <1>1, <1>2, <1>6, <1>14, <2>2 DEF Ranks
    <3>2. \A l \in 1 .. k : Precedes(b, side, q[l], id)
      BY <1>2, <1>3, <1>15, <2>2
    <3>3. \A l \in k + 1 .. n : Precedes(b, side, id, q[l])
      BY <1>2, <1>3, <1>16, <2>2
    <3>4. CASE i \in 1 .. k /\ r[i] = q[i] /\ i \in 1 .. n
      <4>1. CASE j \in 1 .. k /\ r[j] = q[j] /\ j \in 1 .. n
        BY <3>1, <3>4, <4>1
      <4>2. CASE j = k + 1 /\ r[j] = id
        BY <3>2, <3>4, <4>2
      <4>3. CASE \E l \in k + 1 .. n : j = l + 1 /\ r[j] = q[l] /\ l \in 1 .. n
        <5>1. PICK l \in k + 1 .. n : j = l + 1 /\ r[j] = q[l] /\ l \in 1 .. n
          BY <4>3
        <5>2. i < l
          BY <3>4, <5>1
        <5> QED BY <3>1, <3>4, <5>1, <5>2
      <4> QED BY <2>1, <4>1, <4>2, <4>3
    <3>5. CASE i = k + 1 /\ r[i] = id
      <4>1. PICK l \in k + 1 .. n : j = l + 1 /\ r[j] = q[l] /\ l \in 1 .. n
        BY <1>5, <2>1, <3>5
      <4> QED BY <3>3, <3>5, <4>1
    <3>6. CASE \E l \in k + 1 .. n : i = l + 1 /\ r[i] = q[l] /\ l \in 1 .. n
      <4>1. PICK h \in k + 1 .. n : i = h + 1 /\ r[i] = q[h] /\ h \in 1 .. n
        BY <3>6
      <4>2. PICK l \in k + 1 .. n : j = l + 1 /\ r[j] = q[l] /\ l \in 1 .. n
        <5>1. i \in Int /\ j \in Int /\ k + 1 < i
          BY <1>2, <1>5, <4>1
        <5>2. j \notin 1 .. k /\ j # k + 1
          BY <5>1
        <5> QED BY <2>1, <5>2
      <4>3. h < l
        BY <1>2, <4>1, <4>2
      <4> QED BY <3>1, <4>1, <4>2, <4>3
    <3> QED BY <2>1, <3>4, <3>5, <3>6
  <2> QED BY <1>5, <1>8, <2>3, <2>4, <2>5 DEF Ranks
<1>18. OrdersOf(r, b) = Promise!Insert(OrdersOf(q, book), o)
  <2>1. PICK Q, R, X : /\ Q = OrdersOf(q, book) /\ R = OrdersOf(r, b)
                       /\ X = Promise!InsertAt(Q, k + 1, o)
    OBVIOUS
  <2>2. \A i \in 1 .. n : q[i] \in I
    BY <1>1, <1>2, <1>6 DEF Ranks
  <2>3. /\ Q \in Seq(Order) /\ Len(Q) = n
        /\ \A i \in 1 .. n : Q[i] = book.order_index_[q[i]]
    <3>1. \A i \in 1 .. n : book.order_index_[q[i]] \in Order
      BY <1>2, <1>6, <2>2, IdsOnSide
    <3>2. Q = [i \in 1 .. n |-> book.order_index_[q[i]]]
      BY <1>2, <2>1 DEF OrdersOf
    <3> QED BY <1>2, <3>1, <3>2
  <2>4. /\ X \in Seq(Order) /\ Len(X) = n + 1
        /\ \A i \in 1 .. k : X[i] = Q[i]
        /\ X[k + 1] = o
        /\ \A i \in k + 1 .. n : X[i + 1] = Q[i]
    <3>1. Q \in Seq(Order) /\ m \in 1 .. Len(Q) + 1 /\ X = Promise!InsertAt(Q, m, o)
      BY <1>2, <1>4, <2>1, <2>3
    <3>2. /\ X \in Seq(Order) /\ Len(X) = Len(Q) + 1
          /\ \A i \in 1 .. m - 1 : X[i] = Q[i]
          /\ X[m] = o
          /\ \A i \in m .. Len(Q) : X[i + 1] = Q[i]
      <4>1. HasInserted(X, Order, Q, m, o)
        BY <3>1, InsertAtElements
      <4> QED BY <4>1 DEF HasInserted
    <3>3. m = k + 1 /\ m - 1 = k
      BY <1>2, <1>4
    <3> QED BY <2>3, <3>2, <3>3
  <2>5. R = [i \in 1 .. n + 1 |-> b.order_index_[r[i]]]
    BY <1>5, <2>1 DEF OrdersOf
  <2>6. \A i \in 1 .. n + 1 : X[i] = b.order_index_[r[i]]
    <3> SUFFICES ASSUME NEW i \in 1 .. n + 1 PROVE X[i] = b.order_index_[r[i]]
      OBVIOUS
    <3>1. CASE i \in 1 .. k
      BY <1>5, <1>8, <2>2, <2>3, <2>4, <3>1, SMTT(30)
    <3>2. CASE i = k + 1
      BY <1>5, <1>8, <2>4, <3>2
    <3>3. CASE i \notin 1 .. k /\ i # k + 1
      <4>1. PICK j : j = i - 1
        OBVIOUS
      <4>2. j \in k + 1 .. n /\ i = j + 1 /\ j \in 1 .. n
        BY <1>2, <3>3, <4>1
      <4>3. X[i] = Q[j] /\ r[i] = q[j]
        BY <1>5, <2>4, <4>2
      <4> QED BY <1>8, <2>2, <2>3, <4>2, <4>3
    <3> QED BY <3>1, <3>2, <3>3
  <2>7. X = [i \in 1 .. n + 1 |-> X[i]]
    BY <1>2, <2>4
  <2>8. X = R
    BY <2>5, <2>6, <2>7
  <2> QED BY <1>3, <2>1, <2>8
<1>19. k + 1 \in DOMAIN r /\ OrdersOf(r, b)[k + 1] = o
  BY <1>2, <1>5, <1>8 DEF OrdersOf
<1> QED BY <1>1, <1>17, <1>18, <1>19

\* Erasing a node keeps the others in order.
LEMMA EraseKeepsOrder ==
    ASSUME NEW lst \in Seq(Nat), NEW id, \E i \in DOMAIN lst : lst[i] = id,
           NEW i \in DOMAIN lst, NEW j \in DOMAIN lst, i < j, lst[i] # id, lst[j] # id
    PROVE  \E k, l \in DOMAIN EraseNode(lst, id) :
               k < l /\ EraseNode(lst, id)[k] = lst[i] /\ EraseNode(lst, id)[l] = lst[j]
<1>1. PICK m, n, e : m = Position(lst, id) /\ n = Len(lst) /\ e = EraseNode(lst, id)
  OBVIOUS
<1>2. m \in DOMAIN lst /\ lst[m] = id
  BY <1>1 DEF Position
<1>3. n \in Nat /\ DOMAIN lst = 1 .. n
  BY <1>1
<1>4. e = [h \in 1 .. n - 1 |-> IF h < m THEN lst[h] ELSE lst[h + 1]]
  BY <1>1 DEF EraseNode
<1>5. \A h \in 1 .. n : h # m =>
          \E g \in 1 .. n - 1 : g = (IF h < m THEN h ELSE h - 1) /\ e[g] = lst[h]
  <2> SUFFICES ASSUME NEW h \in 1 .. n, h # m
               PROVE  \E g \in 1 .. n - 1 : g = (IF h < m THEN h ELSE h - 1) /\ e[g] = lst[h]
    OBVIOUS
  <2>1. CASE h < m
    <3>1. h \in 1 .. n - 1
      BY <1>2, <1>3, <2>1
    <3> QED BY <1>4, <2>1, <3>1
  <2>2. CASE ~(h < m)
    <3>1. PICK g : g = h - 1
      OBVIOUS
    <3>2. g \in 1 .. n - 1 /\ ~(g < m) /\ g + 1 = h
      BY <1>2, <1>3, <2>2, <3>1
    <3>3. e[g] = lst[h]
      BY <1>4, <3>2
    <3> QED BY <2>2, <3>1, <3>2, <3>3
  <2> QED BY <2>1, <2>2
<1>6. i # m /\ j # m
  BY <1>2
<1>7. PICK k \in 1 .. n - 1 : k = (IF i < m THEN i ELSE i - 1) /\ e[k] = lst[i]
  BY <1>3, <1>5, <1>6
<1>8. PICK l \in 1 .. n - 1 : l = (IF j < m THEN j ELSE j - 1) /\ e[l] = lst[j]
  BY <1>3, <1>5, <1>6
<1>9. k < l
  BY <1>2, <1>3, <1>6, <1>7, <1>8, SMTT(30)
<1>10. DOMAIN e = 1 .. n - 1
  BY <1>4
<1> QED BY <1>1, <1>7, <1>8, <1>9, <1>10

\* An order that is taken out: the ranking without it.
LEMMA UnlinkRanks ==
    ASSUME NEW book, BookOK(book), NEW id \in DOMAIN book.order_index_,
           NEW side, side = book.order_index_[id].side,
           NEW q, Ranks(q, book, side), NEW k \in DOMAIN q, q[k] = id
    PROVE  \E r : /\ Ranks(r, Unlink(book, id), side)
                  /\ OrdersOf(r, Unlink(book, id)) = Promise!RemoveAt(OrdersOf(q, book), k)
<1>1. PICK b, n, o, p : /\ b = Unlink(book, id) /\ n = Len(q)
                        /\ o = book.order_index_[id] /\ p = o.price
  OBVIOUS
<1>2. /\ o \in Order /\ id \in Nat /\ side \in Sides /\ p \in Int /\ p \in DOMAIN book.levels[side]
      /\ q \in Seq(Nat) /\ DOMAIN q = 1 .. n /\ n \in Nat /\ n = Len(q)
      /\ id \in IdsOn(book, side)
  <2>1. o \in Order /\ side \in Sides /\ id \in IdsOn(book, side)
    BY <1>1 DEF BookOK, BookType, Order, IdsOn
  <2>2. q \in Seq(Nat)
    BY DEF Ranks
  <2> QED BY <1>1, <2>1, <2>2, IdsOnSide
<1>3. PICK I : I = IdsOn(book, side)
  OBVIOUS
<1>4. b.order_index_ = Drop(book.order_index_, id) /\ BookOK(b)
  BY <1>1, UnlinkOK
<1>5. /\ IdsOn(b, side) = I \ {id}
      /\ \A x \in I \ {id} : b.order_index_[x] = book.order_index_[x]
  BY <1>3, <1>4 DEF IdsOn, Drop
<1>6. PICK L, e : L = book.levels[side] /\ e = EraseNode(L[p], id)
  BY SMTT(30)
<1>7. b.levels[side] = IF e = << >> THEN Drop(L, p) ELSE Put(L, p, e)
  <2>1. side \in DOMAIN book.levels
    BY <1>2, SMTT(30) DEF BookOK, BookType
  <2> QED BY <1>1, <1>6, <2>1, Zenon DEF Unlink
<1>8. L[p] \in Seq(Nat) /\ \E i \in DOMAIN L[p] : L[p][i] = id
  <2>1. L[p] \in Seq(Nat)
    BY <1>2, <1>6 DEF BookOK, BookType
  <2>2. o = book.order_index_[id] /\ o.side = side /\ o.price = p
    BY <1>1
  <2>3. \E i \in DOMAIN book.levels[o.side][o.price] : book.levels[o.side][o.price][i] = id
    BY <2>2 DEF BookOK, IndexedIsListed
  <2> QED BY <1>6, <2>1, <2>2, <2>3, Zenon
<1>9. \A x, y \in I \ {id} : Precedes(book, side, x, y) => Precedes(b, side, x, y)
  <2> SUFFICES ASSUME NEW x \in I \ {id}, NEW y \in I \ {id}, Precedes(book, side, x, y)
               PROVE  Precedes(b, side, x, y)
    OBVIOUS
  <2>1. PICK c, d : c = book.order_index_[x].price /\ d = book.order_index_[y].price
    OBVIOUS
  <2>2. c = b.order_index_[x].price /\ d = b.order_index_[y].price
    BY <1>5, <2>1
  <2>3. c \in DOMAIN L
    BY <1>2, <1>3, <1>6, <2>1, IdsOnSide
  <2>4. ASSUME InFront(book, side, c, x, y) PROVE InFront(b, side, c, x, y)
    <3>1. PICK i, j \in DOMAIN L[c] : i < j /\ L[c][i] = x /\ L[c][j] = y
      BY <1>6, <2>4, ZenonT(40) DEF InFront
    <3>2. CASE c = p
      <4>1. \E g, h \in DOMAIN e : g < h /\ e[g] = x /\ e[h] = y
        <5>1. PICK lst : lst = L[p]
          OBVIOUS
        <5>2. /\ lst \in Seq(Nat) /\ e = EraseNode(lst, id) /\ \E h \in DOMAIN lst : lst[h] = id
              /\ i \in DOMAIN lst /\ j \in DOMAIN lst /\ lst[i] = x /\ lst[j] = y
              /\ x # id /\ y # id /\ i < j
          BY <1>6, <1>8, <3>1, <3>2, <5>1, Zenon
        <5>3. \E g, h \in DOMAIN EraseNode(lst, id) :
                  g < h /\ EraseNode(lst, id)[g] = lst[i] /\ EraseNode(lst, id)[h] = lst[j]
          BY <5>2, EraseKeepsOrder
        <5> QED BY <5>2, <5>3
      <4>2. e # << >>
        BY <4>1
      <4>3. b.levels[side][c] = e
        BY <1>7, <2>3, <3>2, <4>2 DEF Put
      <4> QED BY <4>1, <4>3 DEF InFront
    <3>3. CASE c # p
      <4>1. b.levels[side][c] = L[c]
        BY <1>7, <2>3, <3>3 DEF Put, Drop
      <4> QED BY <3>1, <4>1 DEF InFront
    <3> QED BY <3>2, <3>3
  <2> QED BY <2>1, <2>2, <2>4 DEF Precedes
<1>10. PICK r : r = Promise!RemoveAt(q, k)
  OBVIOUS
<1>11. HasRemoved(r, Nat, q, k)
  BY <1>2, <1>10, RemoveAtElements
<1>12. /\ r \in Seq(Nat) /\ DOMAIN r = 1 .. n - 1 /\ Len(r) = n - 1
       /\ \A i \in 1 .. k - 1 : r[i] = q[i]
       /\ \A i \in k .. n - 1 : r[i] = q[i + 1]
  <2>1. /\ r \in Seq(Nat) /\ Len(r) = n - 1
        /\ \A i \in 1 .. k - 1 : r[i] = q[i]
        /\ \A i \in k .. n - 1 : r[i] = q[i + 1]
    BY <1>2, <1>11 DEF HasRemoved
  <2> QED BY <1>2, <2>1
<1>13. k \in 1 .. n
  BY <1>2
<1>14. \A i \in 1 .. n - 1 : \E j \in 1 .. n : j = (IF i < k THEN i ELSE i + 1) /\ r[i] = q[j] /\ j # k
  <2> SUFFICES ASSUME NEW i \in 1 .. n - 1
               PROVE  \E j \in 1 .. n : j = (IF i < k THEN i ELSE i + 1) /\ r[i] = q[j] /\ j # k
    OBVIOUS
  <2>1. CASE i < k
    <3>1. i \in 1 .. k - 1 /\ i \in 1 .. n /\ i # k
      BY <1>2, <1>13, <2>1
    <3> QED BY <1>12, <2>1, <3>1
  <2>2. CASE ~(i < k)
    <3>1. PICK j : j = i + 1
      OBVIOUS
    <3>2. i \in k .. n - 1 /\ j \in 1 .. n /\ j # k
      BY <1>2, <1>13, <2>2, <3>1
    <3> QED BY <1>12, <2>2, <3>1, <3>2
  <2> QED BY <2>1, <2>2
<1>15. \A j \in 1 .. n : q[j] \in I /\ (q[j] = id => j = k)
  BY <1>2, <1>3, <1>13, RanksOnce DEF Ranks
<1>16. Ranks(r, b, side)
  <2>1. \A i \in DOMAIN r : r[i] \in I \ {id}
    BY <1>12, <1>14, <1>15
  <2>2. \A x \in I \ {id} : \E i \in DOMAIN r : r[i] = x
    <3> SUFFICES ASSUME NEW x \in I \ {id} PROVE \E i \in DOMAIN r : r[i] = x
      OBVIOUS
    <3>1. PICK j \in 1 .. n : q[j] = x
      BY <1>2, <1>3 DEF Ranks
    <3>2. j # k
      BY <3>1
    <3>3. CASE j < k
      <4>1. j \in 1 .. k - 1 /\ j \in 1 .. n - 1
        BY <1>2, <1>13, <3>3
      <4> QED BY <1>12, <3>1, <4>1
    <3>4. CASE ~(j < k)
      <4>1. PICK i : i = j - 1
        OBVIOUS
      <4>2. i \in k .. n - 1 /\ i \in 1 .. n - 1 /\ i + 1 = j
        BY <1>2, <1>13, <3>2, <3>4, <4>1
      <4> QED BY <1>12, <3>1, <4>2
    <3> QED BY <3>3, <3>4
  <2>3. \A i, j \in DOMAIN r : i < j => Precedes(b, side, r[i], r[j])
    <3> SUFFICES ASSUME NEW i \in 1 .. n - 1, NEW j \in 1 .. n - 1, i < j
                 PROVE  Precedes(b, side, r[i], r[j])
      BY <1>12
    <3>1. PICK g \in 1 .. n : g = (IF i < k THEN i ELSE i + 1) /\ r[i] = q[g]
      BY <1>14
    <3>2. PICK h \in 1 .. n : h = (IF j < k THEN j ELSE j + 1) /\ r[j] = q[h]
      BY <1>14
    <3>3. g < h
      BY <1>13, <3>1, <3>2
    <3>4. Precedes(book, side, q[g], q[h])
      BY <1>2, <3>3 DEF Ranks
    <3>5. r[i] \in I \ {id} /\ r[j] \in I \ {id}
      BY <1>12, <2>1
    <3> QED BY <1>9, <3>1, <3>2, <3>4, <3>5
  <2> QED BY <1>5, <1>12, <2>1, <2>2, <2>3 DEF Ranks
<1>17. OrdersOf(r, b) = Promise!RemoveAt(OrdersOf(q, book), k)
  <2>1. PICK Q, R, X : /\ Q = OrdersOf(q, book) /\ R = OrdersOf(r, b)
                       /\ X = Promise!RemoveAt(Q, k)
    OBVIOUS
  <2>2. /\ Q \in Seq(Order) /\ Len(Q) = n
        /\ \A i \in 1 .. n : Q[i] = book.order_index_[q[i]]
    <3>1. \A i \in 1 .. n : book.order_index_[q[i]] \in Order
      BY <1>2, <1>3, <1>15, IdsOnSide
    <3>2. Q = [i \in 1 .. n |-> book.order_index_[q[i]]]
      BY <1>2, <2>1 DEF OrdersOf
    <3> QED BY <1>2, <3>1, <3>2
  <2>3. HasRemoved(X, Order, Q, k)
    BY <1>13, <2>1, <2>2, RemoveAtElements
  <2>4. /\ X \in Seq(Order) /\ Len(X) = n - 1
        /\ \A i \in 1 .. k - 1 : X[i] = Q[i]
        /\ \A i \in k .. n - 1 : X[i] = Q[i + 1]
    BY <2>2, <2>3 DEF HasRemoved
  <2>5. R = [i \in 1 .. n - 1 |-> b.order_index_[r[i]]]
    BY <1>12, <2>1 DEF OrdersOf
  <2>6. \A i \in 1 .. n - 1 : X[i] = b.order_index_[r[i]]
    <3> SUFFICES ASSUME NEW i \in 1 .. n - 1 PROVE X[i] = b.order_index_[r[i]]
      OBVIOUS
    <3>1. PICK j \in 1 .. n : j = (IF i < k THEN i ELSE i + 1) /\ r[i] = q[j] /\ j # k
      BY <1>14
    <3>2. X[i] = Q[j]
      <4>1. CASE i < k
        <5>1. i \in 1 .. k - 1
          BY <1>13, <4>1
        <5> QED BY <2>4, <3>1, <4>1, <5>1
      <4>2. CASE ~(i < k)
        <5>1. i \in k .. n - 1
          BY <1>13, <4>2
        <5> QED BY <2>4, <3>1, <4>2, <5>1
      <4> QED BY <4>1, <4>2
    <3>3. q[j] \in I \ {id}
      BY <1>15, <3>1
    <3> QED BY <1>5, <2>2, <3>1, <3>2, <3>3
  <2>7. X = [i \in 1 .. n - 1 |-> X[i]]
    BY <1>2, <2>4
  <2> QED BY <2>1, <2>5, <2>6, <2>7
<1> QED BY <1>1, <1>16, <1>17

---------------------------------------------------------------------------
(* The ranked sides of a book                                              *)

BookRanks(book) == \A d \in Sides : \E q : Ranks(q, book, d)

\* In b the side d of book is ranked Q, the other one as before.
SideBecomes(b, book, d, Q) ==
    /\ BookRanks(b)
    /\ RankedSide(b, d) = Q
    /\ \A e \in Sides : e # d => RankedSide(b, e) = RankedSide(book, e)

IsRanking(Q, q, book, side) ==
    /\ Q \in Seq(Order) /\ Len(Q) = Len(q) /\ Len(q) \in Nat
    /\ \A i \in 1 .. Len(q) : /\ Q[i] = book.order_index_[q[i]]
                              /\ Q[i].exchange_id = q[i]
                              /\ Q[i].side = side
                              /\ q[i] \in IdsOn(book, side)

LEMMA RankedElements ==
    ASSUME NEW book, BookOK(book), NEW side \in Sides, NEW q, Ranks(q, book, side)
    PROVE  IsRanking(RankedSide(book, side), q, book, side)
<1>1. PICK Q, n : Q = RankedSide(book, side) /\ n = Len(q)
  OBVIOUS
<1>2. q \in Seq(Nat) /\ DOMAIN q = 1 .. n /\ n \in Nat
  <2>1. q \in Seq(Nat)
    BY DEF Ranks
  <2> QED BY <1>1, <2>1
<1>3. Q = [i \in 1 .. n |-> book.order_index_[q[i]]]
  BY <1>1, <1>2, RankedIs DEF OrdersOf
<1>4. \A i \in 1 .. n : q[i] \in IdsOn(book, side)
  BY <1>2 DEF Ranks
<1>5. \A i \in 1 .. n : /\ book.order_index_[q[i]] \in Order
                        /\ book.order_index_[q[i]].exchange_id = q[i]
                        /\ book.order_index_[q[i]].side = side
  BY <1>4, IdsOnSide
<1>6. Q \in Seq(Order) /\ Len(Q) = n
  BY <1>2, <1>3, <1>5
<1> QED BY <1>1, <1>2, <1>3, <1>4, <1>5, <1>6 DEF IsRanking

LEMMA OtherSide ==
    ASSUME NEW book, BookOK(book), NEW b, BookOK(b), NEW side \in Sides,
           \E q : Ranks(q, book, side),
           IdsOn(b, side) = IdsOn(book, side),
           b.levels[side] = book.levels[side],
           \A id \in IdsOn(book, side) : b.order_index_[id] = book.order_index_[id]
    PROVE  (\E q : Ranks(q, b, side)) /\ RankedSide(b, side) = RankedSide(book, side)
<1>1. PICK q : Ranks(q, book, side)
  OBVIOUS
<1>2. Ranks(q, b, side)
  BY <1>1, RanksSame
<1>3. RankedSide(b, side) = OrdersOf(q, b) /\ RankedSide(book, side) = OrdersOf(q, book)
  BY <1>1, <1>2, RankedIs
<1>4. OrdersOf(q, b) = OrdersOf(q, book)
  <2>1. \A i \in DOMAIN q : b.order_index_[q[i]] = book.order_index_[q[i]]
    BY <1>1 DEF Ranks
  <2> QED BY <2>1 DEF OrdersOf
<1> QED BY <1>2, <1>3, <1>4

LEMMA PushBackRanked ==
    ASSUME NEW book, BookOK(book), BookRanks(book), NEW o \in Order, o.type = "limit",
           o.price \in Prices, o.exchange_id \notin DOMAIN book.order_index_
    PROVE  /\ SideBecomes(PushBack(book, o), book, o.side,
                          Promise!Insert(RankedSide(book, o.side), o))
           /\ \E i \in DOMAIN RankedSide(PushBack(book, o), o.side) :
                  RankedSide(PushBack(book, o), o.side)[i] = o
<1>1. PICK b, d : b = PushBack(book, o) /\ d = o.side
  OBVIOUS
<1>2. BookOK(b) /\ b.order_index_ = Put(book.order_index_, o.exchange_id, o) /\ d \in Sides
  BY <1>1, PushBackOK DEF Order
<1>3. PICK q : Ranks(q, book, d)
  BY <1>2 DEF BookRanks
<1>4. PICK r : /\ Ranks(r, b, d)
               /\ OrdersOf(r, b) = Promise!Insert(OrdersOf(q, book), o)
               /\ \E i \in DOMAIN r : OrdersOf(r, b)[i] = o
  BY <1>1, <1>3, PushBackRanks
<1>5. RankedSide(b, d) = OrdersOf(r, b) /\ RankedSide(book, d) = OrdersOf(q, book)
  BY <1>2, <1>3, <1>4, RankedIs
<1>6. \A e \in Sides : e # d =>
          (\E p : Ranks(p, b, e)) /\ RankedSide(b, e) = RankedSide(book, e)
  <2> SUFFICES ASSUME NEW e \in Sides, e # d
               PROVE  (\E p : Ranks(p, b, e)) /\ RankedSide(b, e) = RankedSide(book, e)
    OBVIOUS
  <2>1. b.levels[e] = book.levels[e]
    BY <1>1, PushBackLevels DEF BookOK
  <2>2. IdsOn(b, e) = IdsOn(book, e)
    BY <1>1, <1>2 DEF IdsOn, Put
  <2>3. \A id \in IdsOn(book, e) : b.order_index_[id] = book.order_index_[id]
    BY <1>1, <1>2 DEF IdsOn, Put
  <2>4. \E p : Ranks(p, book, e)
    BY DEF BookRanks
  <2> QED BY <1>2, <2>1, <2>2, <2>3, <2>4, OtherSide
<1>7. BookRanks(b)
  BY <1>4, <1>6 DEF BookRanks
<1>8. DOMAIN OrdersOf(r, b) = DOMAIN r
  BY DEF OrdersOf
<1> QED BY <1>1, <1>4, <1>5, <1>6, <1>7, <1>8 DEF SideBecomes

LEMMA UnlinkRanked ==
    ASSUME NEW book, BookOK(book), BookRanks(book), NEW id \in DOMAIN book.order_index_,
           NEW d, d = book.order_index_[id].side,
           NEW k \in DOMAIN RankedSide(book, d), RankedSide(book, d)[k].exchange_id = id
    PROVE  SideBecomes(Unlink(book, id), book, d, Promise!RemoveAt(RankedSide(book, d), k))
<1>1. PICK b : b = Unlink(book, id)
  OBVIOUS
<1>2. BookOK(b) /\ b.order_index_ = Drop(book.order_index_, id) /\ d \in Sides
  <2>1. book.order_index_[id] \in Order
    BY DEF BookOK, BookType
  <2> QED BY <1>1, <2>1, UnlinkOK DEF Order
<1>3. PICK q : Ranks(q, book, d)
  BY <1>2 DEF BookRanks
<1>4. RankedSide(book, d) = OrdersOf(q, book) /\ IsRanking(RankedSide(book, d), q, book, d)
  BY <1>2, <1>3, RankedIs, RankedElements
<1>5. k \in DOMAIN q /\ q[k] = id
  <2>1. q \in Seq(Nat)
    BY <1>3 DEF Ranks
  <2> QED BY <1>4, <2>1 DEF IsRanking
<1>6. PICK r : Ranks(r, b, d) /\ OrdersOf(r, b) = Promise!RemoveAt(OrdersOf(q, book), k)
  BY <1>1, <1>3, <1>5, UnlinkRanks
<1>7. RankedSide(b, d) = OrdersOf(r, b)
  BY <1>2, <1>6, RankedIs
<1>8. \A e \in Sides : e # d =>
          (\E p : Ranks(p, b, e)) /\ RankedSide(b, e) = RankedSide(book, e)
  <2> SUFFICES ASSUME NEW e \in Sides, e # d
               PROVE  (\E p : Ranks(p, b, e)) /\ RankedSide(b, e) = RankedSide(book, e)
    OBVIOUS
  <2>1. b.levels[e] = book.levels[e]
    BY <1>1 DEF Unlink, BookOK, BookType
  <2>2. IdsOn(b, e) = IdsOn(book, e)
    BY <1>1, <1>2 DEF IdsOn, Drop
  <2>3. \A x \in IdsOn(book, e) : b.order_index_[x] = book.order_index_[x]
    BY <1>1, <1>2 DEF IdsOn, Drop
  <2>4. \E p : Ranks(p, book, e)
    BY DEF BookRanks
  <2> QED BY <1>2, <2>1, <2>2, <2>3, <2>4, OtherSide
<1>9. BookRanks(b)
  BY <1>6, <1>8 DEF BookRanks
<1> QED BY <1>1, <1>4, <1>6, <1>7, <1>8, <1>9 DEF SideBecomes

LEMMA UpdateRanked ==
    ASSUME NEW book, BookOK(book), BookRanks(book), NEW id \in DOMAIN book.order_index_,
           NEW o \in Order, o.exchange_id = id, o.type = "limit",
           o.side = book.order_index_[id].side,
           o.price = book.order_index_[id].price,
           NEW k \in DOMAIN RankedSide(book, o.side),
           RankedSide(book, o.side)[k].exchange_id = id
    PROVE  SideBecomes([book EXCEPT !.order_index_ = Put(@, id, o)], book, o.side,
                       [RankedSide(book, o.side) EXCEPT ![k] = o])
<1>1. PICK b, d : b = [book EXCEPT !.order_index_ = Put(@, id, o)] /\ d = o.side
  OBVIOUS
<1>2. BookOK(b) /\ b.order_index_ = Put(book.order_index_, id, o) /\ d \in Sides
  BY <1>1, UpdateNodeOK DEF Order
<1>3. PICK q : Ranks(q, book, d)
  BY <1>2 DEF BookRanks
<1>4. PICK Q : /\ Q = RankedSide(book, d) /\ Q = OrdersOf(q, book)
               /\ IsRanking(Q, q, book, d) /\ q \in Seq(Nat)
  <2>1. q \in Seq(Nat)
    BY <1>3 DEF Ranks
  <2> QED BY <1>2, <1>3, <2>1, RankedIs, RankedElements
<1>5. k \in DOMAIN q /\ q[k] = id /\ DOMAIN Q = DOMAIN q
  <2>1. Q \in Seq(Order) /\ Len(Q) = Len(q) /\ k \in DOMAIN Q /\ Q[k].exchange_id = id
    BY <1>1, <1>4 DEF IsRanking
  <2>2. DOMAIN Q = 1 .. Len(q) /\ DOMAIN q = 1 .. Len(q)
    BY <1>4, <2>1
  <2> QED BY <1>4, <2>1, <2>2 DEF IsRanking
<1>6. \A e \in Sides : IdsOn(b, e) = IdsOn(book, e)
  BY <1>1, <1>2 DEF IdsOn, Put
<1>7. \A e \in Sides : b.levels[e] = book.levels[e]
  BY <1>1
<1>8. \A x \in DOMAIN book.order_index_ :
          b.order_index_[x].price = book.order_index_[x].price
  BY <1>1, <1>2 DEF Put
<1>9. Ranks(q, b, d)
  <2>1. \A x \in IdsOn(book, d) : b.order_index_[x].price = book.order_index_[x].price
    BY <1>8 DEF IdsOn
  <2> QED BY <1>2, <1>3, <1>6, <1>7, <2>1, RanksSame
<1>10. RankedSide(b, d) = [Q EXCEPT ![k] = o]
  <2>1. RankedSide(b, d) = [i \in DOMAIN q |-> b.order_index_[q[i]]]
    BY <1>2, <1>9, RankedIs DEF OrdersOf
  <2>2. \A i \in DOMAIN q : i # k => q[i] # id
    BY <1>2, <1>3, <1>5, RanksOnce
  <2>3. \A i \in DOMAIN q : q[i] \in DOMAIN book.order_index_ /\ Q[i] = book.order_index_[q[i]]
    BY <1>3, <1>4 DEF Ranks, IdsOn, OrdersOf
  <2>4. \A i \in DOMAIN q : b.order_index_[q[i]] = IF i = k THEN o ELSE Q[i]
    BY <1>2, <1>5, <2>2, <2>3 DEF Put
  <2>5. [Q EXCEPT ![k] = o] = [i \in DOMAIN q |-> IF i = k THEN o ELSE Q[i]]
    BY <1>5
  <2> QED BY <2>1, <2>4, <2>5
<1>11. \A e \in Sides : e # d =>
          (\E p : Ranks(p, b, e)) /\ RankedSide(b, e) = RankedSide(book, e)
  <2> SUFFICES ASSUME NEW e \in Sides, e # d
               PROVE  (\E p : Ranks(p, b, e)) /\ RankedSide(b, e) = RankedSide(book, e)
    OBVIOUS
  <2>1. \A x \in IdsOn(book, e) : b.order_index_[x] = book.order_index_[x]
    BY <1>1, <1>2 DEF IdsOn, Put
  <2>2. \E p : Ranks(p, book, e)
    BY DEF BookRanks
  <2> QED BY <1>2, <1>6, <1>7, <2>1, <2>2, OtherSide
<1>12. BookRanks(b)
  BY <1>9, <1>11 DEF BookRanks
<1> QED BY <1>1, <1>4, <1>10, <1>11, <1>12 DEF SideBecomes

\* The first of a ranking is the front of the best level.
LEMMA BestIsFirst ==
    ASSUME NEW book, BookOK(book), NEW side \in Sides, NEW q, Ranks(q, book, side),
           DOMAIN book.levels[side] # {}
    PROVE  1 \in DOMAIN q /\ q[1] = Head(book.levels[side][BestPrice(book, side)])
<1>1. PICK p, lst, id : /\ p = BestPrice(book, side) /\ lst = book.levels[side][p]
                        /\ id = Head(lst)
  OBVIOUS
<1>2. p \in DOMAIN book.levels[side] /\ \A c \in DOMAIN book.levels[side] : ~Better(side, c, p)
  BY <1>1, BestPriceIsBest DEF BookOK
<1>3. lst \in Seq(Nat) /\ lst # << >>
  BY <1>1, <1>2 DEF BookOK, BookType, NoEmptyLevel
<1>4. 1 \in DOMAIN lst /\ id = lst[1]
  BY <1>1, <1>3
<1>5. /\ id \in IdsOn(book, side) /\ book.order_index_[id].price = p
  BY <1>1, <1>2, <1>4 DEF BookOK, ListedIsIndexed, IdsOn
<1>6. q \in Seq(Nat)
  BY DEF Ranks
<1>7. PICK i \in DOMAIN q : q[i] = id
  BY <1>5 DEF Ranks
<1>8. 1 \in DOMAIN q /\ (i # 1 => 1 < i)
  BY <1>6
<1>9. i = 1
  <2> SUFFICES ASSUME 1 < i PROVE FALSE
    BY <1>8
  <2>1. PICK x, c : x = q[1] /\ c = book.order_index_[x].price
    OBVIOUS
  <2>2. x \in IdsOn(book, side) /\ Precedes(book, side, x, id)
    BY <1>7, <1>8, <2>1 DEF Ranks
  <2>3. c \in DOMAIN book.levels[side]
    BY <2>1, <2>2, IdsOnSide
  <2>4. InFront(book, side, p, x, id)
    BY <1>2, <1>5, <2>1, <2>2, <2>3 DEF Precedes
  <2>5. PICK g, h \in DOMAIN lst : g < h /\ lst[g] = x /\ lst[h] = id
    BY <1>1, <2>4 DEF InFront
  <2>6. h = 1
    BY <1>1, <1>2, <1>4, <2>5 DEF BookOK, ListedOnce
  <2> QED BY <1>3, <2>5, <2>6
<1> QED BY <1>1, <1>7, <1>8, <1>9

LEMMA HeadIsBest ==
    ASSUME NEW book, BookOK(book), BookRanks(book), NEW side \in Sides
    PROVE  /\ RankedSide(book, side) \in Seq(Order)
           /\ RankedSide(book, side) # << >> <=> DOMAIN book.levels[side] # {}
           /\ DOMAIN book.levels[side] # {} =>
                  /\ 1 \in DOMAIN RankedSide(book, side)
                  /\ Head(RankedSide(book, side))
                         = book.order_index_[Head(book.levels[side][BestPrice(book, side)])]
                  /\ Head(RankedSide(book, side)) = RankedSide(book, side)[1]
<1>1. PICK Q, q : Q = RankedSide(book, side) /\ Ranks(q, book, side)
  BY DEF BookRanks
<1>2. IsRanking(Q, q, book, side) /\ q \in Seq(Nat)
  <2>1. q \in Seq(Nat)
    BY <1>1 DEF Ranks
  <2> QED BY <1>1, <2>1, RankedElements
<1>3. Q \in Seq(Order) /\ DOMAIN Q = DOMAIN q /\ Len(Q) = Len(q)
      /\ \A i \in DOMAIN q : Q[i] = book.order_index_[q[i]] /\ q[i] \in IdsOn(book, side)
  <2>1. Q \in Seq(Order) /\ Len(Q) = Len(q)
    BY <1>2 DEF IsRanking
  <2>2. DOMAIN q = 1 .. Len(q)
    BY <1>2
  <2> QED BY <1>2, <2>1, <2>2 DEF IsRanking
<1>4. Q # << >> => DOMAIN book.levels[side] # {}
  <2> SUFFICES ASSUME Q # << >> PROVE DOMAIN book.levels[side] # {}
    OBVIOUS
  <2>1. 1 \in DOMAIN q
    BY <1>3
  <2>2. q[1] \in IdsOn(book, side)
    BY <1>3, <2>1
  <2> QED BY <2>2, IdsOnSide
<1>5. ASSUME DOMAIN book.levels[side] # {}
      PROVE  /\ 1 \in DOMAIN Q /\ Q # << >> /\ Head(Q) = Q[1]
             /\ Q[1] = book.order_index_[Head(book.levels[side][BestPrice(book, side)])]
  <2>1. 1 \in DOMAIN q /\ q[1] = Head(book.levels[side][BestPrice(book, side)])
    BY <1>1, <1>5, BestIsFirst
  <2>2. 1 \in DOMAIN Q /\ Q # << >> /\ Head(Q) = Q[1]
    BY <1>3, <2>1
  <2> QED BY <1>3, <2>1, <2>2
<1> QED BY <1>1, <1>3, <1>4, <1>5

---------------------------------------------------------------------------
(* The operators of PriceTimePriority                                      *)

LEMMA CounterIsOpposite ==
    ASSUME NEW d \in Sides
    PROVE  Promise!Counter(d) = Opposite(d) /\ Opposite(d) \in Sides /\ Opposite(d) # d
<1>1. \A s \in Sides : s # d <=> s = Opposite(d)
  BY DEF Sides, Opposite
<1>2. Opposite(d) \in Sides /\ Opposite(d) # d
  BY DEF Sides, Opposite
<1>3. (CHOOSE s \in Sides : s # d) = Opposite(d)
  BY <1>1, <1>2
<1> QED BY <1>2, <1>3 DEF Promise!Counter

LEMMA TradableIsCrosses ==
    ASSUME NEW o \in Order, NEW r \in Order
    PROVE  Promise!Tradable(o, r) <=> Crosses(o, r.price)
  BY DEF Order, Promise!Tradable, Promise!Ahead, Crosses

\* The loop's condition, and the order it trades with.
LEMMA CanMatchIs ==
    ASSUME NEW book, BookOK(book), BookRanks(book), NEW o \in Order,
           NEW Q, Q = RankedSide(book, Opposite(o.side))
    PROVE  /\ CanMatch(book, o) <=> o.leaves_qty > 0 /\ Q # << >> /\ Promise!Tradable(o, Head(Q))
           /\ CanMatch(book, o) => Head(Q) = Resting(book, o) /\ 1 \in DOMAIN Q /\ Head(Q) = Q[1]
<1>1. PICK s : s = Opposite(o.side) /\ s \in Sides
  BY DEF Order, Sides, Opposite
<1>2. PICK p : p = BestPrice(book, s)
  OBVIOUS
<1>3. /\ Q \in Seq(Order)
      /\ Q # << >> <=> DOMAIN book.levels[s] # {}
      /\ DOMAIN book.levels[s] # {} =>
             1 \in DOMAIN Q /\ Head(Q) = book.order_index_[Head(book.levels[s][p])] /\ Head(Q) = Q[1]
  BY <1>1, <1>2, HeadIsBest
<1>4. ASSUME DOMAIN book.levels[s] # {}
      PROVE  /\ Head(Q) = Resting(book, o) /\ Head(Q) \in Order /\ Head(Q).price = p
  <2>1. p \in DOMAIN book.levels[s]
    BY <1>1, <1>2, <1>4, BestPriceIsBest DEF BookOK
  <2>2. book.levels[s][p] \in Seq(Nat) /\ book.levels[s][p] # << >>
    BY <1>1, <2>1 DEF BookOK, BookType, NoEmptyLevel
  <2>3. 1 \in DOMAIN book.levels[s][p] /\ Head(book.levels[s][p]) = book.levels[s][p][1]
    BY <2>2
  <2>4. book.order_index_[Head(book.levels[s][p])].price = p
    BY <1>1, <2>1, <2>3 DEF BookOK, ListedIsIndexed
  <2>5. Head(Q) \in Order
    BY <1>3, <1>4
  <2> QED BY <1>1, <1>2, <1>3, <1>4, <2>4, <2>5 DEF Resting
<1>5. ASSUME DOMAIN book.levels[s] # {}
      PROVE  Promise!Tradable(o, Head(Q)) <=> Crosses(o, p)
  BY <1>4, <1>5, TradableIsCrosses
<1> QED BY <1>1, <1>2, <1>3, <1>4, <1>5 DEF CanMatch

LEMMA RemoveFirst ==
    ASSUME NEW S, NEW Q \in Seq(S), 1 \in DOMAIN Q
    PROVE  Promise!RemoveAt(Q, 1) = Tail(Q)
<1>1. PICK n, R, T : n = Len(Q) /\ R = Promise!RemoveAt(Q, 1) /\ T = Tail(Q)
  OBVIOUS
<1>2. n \in Nat /\ 1 \in 1 .. n
  BY <1>1
<1>3. HasRemoved(R, S, Q, 1)
  BY <1>1, <1>2, RemoveAtElements
<1>4. R \in Seq(S) /\ Len(R) = n - 1 /\ \A i \in 1 .. n - 1 : R[i] = Q[i + 1]
  BY <1>1, <1>2, <1>3 DEF HasRemoved
<1>5. T \in Seq(S) /\ Len(T) = n - 1 /\ \A i \in 1 .. n - 1 : T[i] = Q[i + 1]
  BY <1>1, <1>2
<1>6. R = [i \in 1 .. n - 1 |-> R[i]] /\ T = [i \in 1 .. n - 1 |-> T[i]]
  BY <1>2, <1>4, <1>5
<1> QED BY <1>1, <1>4, <1>5, <1>6

\* One fill: the head of the opposite queue leaves it, or keeps its place with less.
LEMMA FillRanked ==
    ASSUME NEW book, BookOK(book), BookRanks(book), NEW o \in Order, CanMatch(book, o),
           NEW Q, Q = RankedSide(book, Opposite(o.side)),
           NEW n, n = FillQty(book, o)
    PROVE  /\ n = Promise!Min({o.leaves_qty, Head(Q).leaves_qty})
           /\ SideBecomes(AfterFill(book, o), book, Opposite(o.side),
                  IF n = Head(Q).leaves_qty THEN Tail(Q)
                  ELSE Promise!ReplaceAt(Q, 1, [Head(Q) EXCEPT !.leaves_qty = @ - n]))
<1>1. PICK s, r, id : s = Opposite(o.side) /\ r = Resting(book, o) /\ id = r.exchange_id
  OBVIOUS
<1>2. /\ s \in Sides /\ r \in Order /\ id \in DOMAIN book.order_index_
      /\ book.order_index_[id] = r /\ r.type = "limit" /\ r.side = s
  BY <1>1, RestingProperties DEF Order, Sides, Opposite
<1>3. Head(Q) = r /\ 1 \in DOMAIN Q /\ Q[1] = r /\ Q \in Seq(Order)
  BY <1>1, <1>2, CanMatchIs, HeadIsBest
<1>4. n = Lesser(o.leaves_qty, r.leaves_qty) /\ n \in Int /\ r.leaves_qty \in Int
  BY <1>1, <1>2, AfterFillOK DEF FillQty, Order
<1>5. n = Promise!Min({o.leaves_qty, Head(Q).leaves_qty})
  <2>1. o.leaves_qty \in Int
    BY DEF Order
  <2>2. \A a, b \in Int : Promise!Min({a, b}) = Lesser(a, b)
    BY DEF Promise!Min, Lesser
  <2> QED BY <1>3, <1>4, <2>1, <2>2
<1>6. CASE n = r.leaves_qty
  <2>1. AfterFill(book, o) = Unlink(book, id)
    BY <1>1, <1>4, <1>6 DEF AfterFill
  <2>2. SideBecomes(Unlink(book, id), book, s, Promise!RemoveAt(Q, 1))
    BY <1>1, <1>2, <1>3, UnlinkRanked
  <2>3. Promise!RemoveAt(Q, 1) = Tail(Q)
    BY <1>3, RemoveFirst
  <2> QED BY <1>1, <1>3, <1>5, <1>6, <2>1, <2>2, <2>3
<1>7. CASE n # r.leaves_qty
  <2>1. PICK x : x = [r EXCEPT !.leaves_qty = @ - n]
    OBVIOUS
  <2>2. r.leaves_qty - n # 0 /\ r.leaves_qty - n \in Int
    BY <1>4, <1>7
  <2>3. AfterFill(book, o) = [book EXCEPT !.order_index_ = Put(@, id, x)]
    BY <1>1, <2>1, <2>2 DEF AfterFill
  <2>4. /\ x \in Order /\ x.exchange_id = id /\ x.type = "limit" /\ x.side = s
        /\ x.side = book.order_index_[id].side /\ x.price = book.order_index_[id].price
    BY <1>1, <1>2, <2>1, <2>2 DEF Order
  <2>5. SideBecomes([book EXCEPT !.order_index_ = Put(@, id, x)], book, s, [Q EXCEPT ![1] = x])
    <3>1. Q = RankedSide(book, x.side) /\ 1 \in DOMAIN RankedSide(book, x.side)
          /\ RankedSide(book, x.side)[1].exchange_id = id
      BY <1>1, <1>3, <2>4
    <3>2. SideBecomes([book EXCEPT !.order_index_ = Put(@, id, x)], book, x.side,
                      [RankedSide(book, x.side) EXCEPT ![1] = x])
      BY <1>2, <2>4, <3>1, UpdateRanked
    <3> QED BY <2>4, <3>1, <3>2
  <2> QED BY <1>1, <1>3, <1>5, <1>7, <2>1, <2>3, <2>5 DEF Promise!ReplaceAt
<1> QED BY <1>6, <1>7

---------------------------------------------------------------------------
(* What a fill-or-kill order could get                                     *)

ImageOf(q, t) == {q[i] : i \in t}

\* A sum over positions is the sum over the ids at these positions.
LEMMA SumReindexed ==
    ASSUME NEW b, NEW c, NEW T, IsFiniteSet(T), NEW q, NEW S, IsFiniteSet(S),
           \A i \in T : q[i] \in S /\ Leaves(c, i) = Leaves(b, q[i]) /\ Leaves(c, i) \in Int,
           \A i, j \in T : q[i] = q[j] => i = j
    PROVE  SumLeaves(c, T) = SumLeaves(b, ImageOf(q, T))
<1>1. PICK Bad : Bad = {n \in Nat : \E t \in SUBSET T :
                           /\ Cardinality(t) = n
                           /\ SumLeaves(c, t) # SumLeaves(b, ImageOf(q, t))}
  OBVIOUS
<1>2. SUFFICES ASSUME Bad # {} PROVE FALSE
  <2>1. T \in SUBSET T /\ Cardinality(T) \in Nat
    BY FS_CardinalityType
  <2> QED BY <1>1, <2>1
<1>3. PICK n \in Bad : \A k \in Bad : ~(k < n)
  <2>1. Bad \subseteq Nat
    BY <1>1
  <2> QED BY <1>2, <2>1, NatMinimum
<1>4. PICK t \in SUBSET T : Cardinality(t) = n /\ SumLeaves(c, t) # SumLeaves(b, ImageOf(q, t))
  BY <1>1, <1>3
<1>5. IsFiniteSet(t) /\ IsFiniteSet(ImageOf(q, t)) /\ ImageOf(q, t) \subseteq S
  <2>1. ImageOf(q, t) \subseteq S
    BY DEF ImageOf
  <2> QED BY <2>1, FS_Subset
<1>6. t # {}
  <2> SUFFICES ASSUME t = {} PROVE FALSE
    OBVIOUS
  <2>1. ImageOf(q, t) = {}
    BY DEF ImageOf
  <2> QED BY <1>4, <2>1, SumOfNone
<1>7. PICK x \in t : TRUE
  BY <1>6
<1>8. PICK u : u = t \ {x}
  OBVIOUS
<1>9. ImageOf(q, u) = ImageOf(q, t) \ {q[x]} /\ q[x] \in ImageOf(q, t)
  BY <1>7, <1>8 DEF ImageOf
<1>10. SumLeaves(c, u) = SumLeaves(b, ImageOf(q, u))
  <2>1. Cardinality(u) \in Nat /\ Cardinality(u) = Cardinality(t) - 1
    BY <1>5, <1>7, <1>8, FS_RemoveElement, FS_Subset, FS_CardinalityType
  <2>4. n \in Nat /\ n = Cardinality(t)
    BY <1>1, <1>3, <1>4
  <2>2. Cardinality(u) < n
    BY <2>1, <2>4
  <2>3. Cardinality(u) \notin Bad
    BY <1>3, <2>2
  <2> QED BY <1>1, <1>8, <2>1, <2>3
<1>11. SumLeaves(c, t) = Leaves(c, x) + SumLeaves(c, u)
  BY <1>5, <1>7, <1>8, SumWithout
<1>12. SumLeaves(b, ImageOf(q, t)) = Leaves(b, q[x]) + SumLeaves(b, ImageOf(q, u))
  <2>1. \A y \in ImageOf(q, t) : Leaves(b, y) \in Int
    BY DEF ImageOf
  <2> QED BY <1>5, <1>9, <2>1, SumWithout
<1> QED BY <1>4, <1>7, <1>10, <1>11, <1>12

\* Liquidity is what available_to_fill adds up.
LEMMA LiquidityIsReach ==
    ASSUME NEW o \in Order, o.symbol \in DOMAIN books_,
           BookOK(books_[o.symbol]), BookRanks(books_[o.symbol])
    PROVE  Promise!Liquidity(o) = SumLeaves(books_[o.symbol], Reachable(books_[o.symbol], o))
<1>1. PICK book, s, Q, q :
          /\ book = books_[o.symbol] /\ s = Opposite(o.side)
          /\ Q = RankedSide(book, s) /\ Ranks(q, book, s)
  BY CounterIsOpposite DEF BookRanks, Order
<1>2. s \in Sides /\ Promise!Counter(o.side) = s
  BY <1>1, CounterIsOpposite DEF Order
<1>3. Ranking[o.symbol][s] = Q
  BY <1>1, <1>2 DEF Ranking
<1>4. IsRanking(Q, q, book, s) /\ q \in Seq(Nat)
  <2>1. q \in Seq(Nat)
    BY <1>1 DEF Ranks
  <2> QED BY <1>1, <1>2, <2>1, RankedElements
<1>5. PICK T, c : /\ T = {i \in DOMAIN Q : Promise!Tradable(o, Q[i])}
                  /\ c = [order_index_ |-> Q]
  OBVIOUS
<1>6. Promise!Liquidity(o) = SumLeaves(c, T)
  <2>1. Promise!Liquidity(o) = Promise!MapThenSumSet(LAMBDA i : Q[i].leaves_qty, T)
    BY <1>2, <1>3, <1>5 DEF Promise!Liquidity
  <2>2. SumLeaves(c, T) = MapThenSumSet(LAMBDA i : Q[i].leaves_qty, T)
    BY <1>5 DEF SumLeaves
  <2>3. Promise!MapThenSumSet(LAMBDA i : Q[i].leaves_qty, T)
            = MapThenSumSet(LAMBDA i : Q[i].leaves_qty, T)
    BY DEF Promise!MapThenSumSet, Promise!MapThenFoldSet, MapThenSumSet, MapThenFoldSet
  <2> QED BY <2>1, <2>2, <2>3
<1>7. /\ Q \in Seq(Order) /\ DOMAIN Q = 1 .. Len(q) /\ DOMAIN q = 1 .. Len(q) /\ Len(q) \in Nat
      /\ \A i \in DOMAIN q : /\ Q[i] = book.order_index_[q[i]] /\ Q[i] \in Order
                             /\ q[i] \in IdsOn(book, s)
  <2>1. Q \in Seq(Order) /\ Len(Q) = Len(q)
    BY <1>4 DEF IsRanking
  <2>2. DOMAIN Q = 1 .. Len(q) /\ DOMAIN q = 1 .. Len(q)
    BY <1>4, <2>1
  <2> QED BY <1>4, <2>1, <2>2 DEF IsRanking
<1>8. PICK S : S = IdsOn(book, s) /\ IsFiniteSet(S)
  BY <1>1, <1>2, RanksAll
<1>9. IsFiniteSet(T)
  <2>1. IsFiniteSet(1 .. Len(q)) /\ T \subseteq 1 .. Len(q)
    BY <1>5, <1>7, FS_Interval
  <2> QED BY <2>1, FS_Subset
<1>10. \A i \in T : q[i] \in S /\ Leaves(c, i) = Leaves(book, q[i]) /\ Leaves(c, i) \in Int
  BY <1>5, <1>7, <1>8 DEF Leaves, Order
<1>11. \A i, j \in T : q[i] = q[j] => i = j
  BY <1>1, <1>2, <1>5, <1>7, RanksOnce
<1>12. SumLeaves(c, T) = SumLeaves(book, ImageOf(q, T))
  BY <1>8, <1>9, <1>10, <1>11, SumReindexed
<1>13. ImageOf(q, T) = Reachable(book, o)
  <2>1. Reachable(book, o) = {id \in IdsOn(book, s) : Crosses(o, book.order_index_[id].price)}
    BY <1>1, ReachableIds DEF IdsOn
  <2>2. \A i \in DOMAIN q : i \in T <=> Crosses(o, book.order_index_[q[i]].price)
    BY <1>5, <1>7, TradableIsCrosses
  <2>3. \A id \in IdsOn(book, s) : \E i \in DOMAIN q : q[i] = id
    BY <1>1 DEF Ranks
  <2>4. T \subseteq DOMAIN q
    BY <1>5, <1>7
  <2> QED BY <1>7, <2>1, <2>2, <2>3, <2>4 DEF ImageOf
<1> QED BY <1>1, <1>6, <1>12, <1>13

---------------------------------------------------------------------------
(* The invariant that the mapping needs, and how the mapped state changes  *)

\* Every side of every book is ranked.
AllRanked == \A s \in DOMAIN books_ : BookRanks(books_[s])

\* A replace that is being matched is about the order it took out of the book.
ReqOK ==
    pc = "match" /\ cur.tag = "REPLACE" =>
        /\ cur.req.symbol = cur.order.symbol
        /\ cur.req.orig_order_id = cur.order.exchange_id

RankInv == AllRanked /\ ReqOK

LEMMA EmptyRanked ==
    BookRanks(EmptyBook) /\ \A d \in Sides : RankedSide(EmptyBook, d) = << >>
<1>1. \A d \in Sides : Ranks(<< >>, EmptyBook, d)
  BY DEF Ranks, IdsOn, EmptyBook, NoEntry
<1>2. \A d \in Sides : RankedSide(EmptyBook, d) = << >>
  <2> SUFFICES ASSUME NEW d \in Sides PROVE RankedSide(EmptyBook, d) = << >>
    OBVIOUS
  <2>1. RankedSide(EmptyBook, d) = OrdersOf(<< >>, EmptyBook)
    BY <1>1, EmptyBookOK, RankedIs
  <2> QED BY <2>1 DEF OrdersOf
<1> QED BY <1>1, <1>2 DEF BookRanks

\* The book of s becomes b, whose side d is ranked Q.
BookBecomes(s, b, d, Q) ==
    /\ s \in DOMAIN books_
    /\ books_' = [books_ EXCEPT ![s] = b]
    /\ d \in Sides
    /\ SideBecomes(b, books_[s], d, Q)

RankingBecomes(s, d, Q) == AllRanked' /\ Ranking' = [Ranking EXCEPT ![s][d] = Q]

LEMMA RankingUpdate ==
    ASSUME AllRanked, NEW s, NEW b, NEW d, NEW Q, BookBecomes(s, b, d, Q)
    PROVE  RankingBecomes(s, d, Q)
<1> USE DEF BookBecomes
<1>1. /\ DOMAIN books_' = DOMAIN books_ /\ books_'[s] = b
      /\ \A t \in DOMAIN books_ : t # s => books_'[t] = books_[t]
  OBVIOUS
<1>2. AllRanked'
  BY <1>1 DEF AllRanked, SideBecomes
<1>3. Ranking' = [t \in DOMAIN books_ |-> [e \in Sides |-> RankedSide(books_'[t], e)]]
  BY <1>1 DEF Ranking
<1>4. Ranking = [t \in DOMAIN books_ |-> [e \in Sides |-> RankedSide(books_[t], e)]]
  BY DEF Ranking
<1>5. [Ranking EXCEPT ![s][d] = Q]
          = [t \in DOMAIN books_ |-> [e \in Sides |-> IF t = s /\ e = d THEN Q
                                                      ELSE RankedSide(books_[t], e)]]
  BY <1>4
<1>6. \A t \in DOMAIN books_, e \in Sides :
          RankedSide(books_'[t], e) = IF t = s /\ e = d THEN Q ELSE RankedSide(books_[t], e)
  BY <1>1 DEF SideBecomes
<1> QED BY <1>2, <1>3, <1>5, <1>6 DEF RankingBecomes

LEMMA RankingSame ==
    ASSUME UNCHANGED books_
    PROVE  Ranking' = Ranking /\ (AllRanked => AllRanked')
  BY DEF Ranking, AllRanked

LEMMA RankingSameBooks ==
    ASSUME AllRanked, DOMAIN books_' = DOMAIN books_, \A s \in DOMAIN books_ : books_'[s] = books_[s]
    PROVE  Ranking' = Ranking /\ AllRanked'
<1>1. AllRanked'
  BY DEF AllRanked
<1>2. Ranking' = [t \in DOMAIN books_ |-> [e \in Sides |-> RankedSide(books_'[t], e)]]
  BY DEF Ranking
<1> QED BY <1>1, <1>2 DEF Ranking

LEMMA OrderIsSomething == \A o \in Order : o # Nothing
<1> SUFFICES ASSUME NEW o \in Order, o = Nothing PROVE FALSE
  OBVIOUS
<1>1. "exchange_id" \in DOMAIN o /\ "exchange_id" \notin DOMAIN Nothing
  BY DEF Order, Nothing
<1> QED BY <1>1

LEMMA Announcements ==
    /\ Announcement(NoCall) = Nothing
    /\ \A m, t : Announcement(OnFill(m, t))
                     = [kind |-> "trade", maker |-> m.exchange_id, taker |-> t.exchange_id,
                        price |-> m.price, qty |-> m.qty]
    /\ \A o : Announcement(OnTifCancel(o)) = [kind |-> "killed", order |-> o]
    /\ \A o, n : Announcement(OnOrderRested(o, n))
                     = [kind |-> "rested", id |-> o.exchange_id, leaves |-> n]
    /\ \A r, f : Announcement(OnCancel(r, f))
                     = [kind |-> "cancelled", symbol |-> r.symbol, id |-> r.orig_order_id,
                        found |-> f]
    /\ \A r, n : Announcement(OnReplace(r, n))
                     = [kind |-> "amended", symbol |-> r.symbol, id |-> r.orig_order_id,
                        leaves |-> n]
    /\ \A s : Announcement(SnapshotCb(s)) = [kind |-> "snapshot"]
<1> USE DEF Announcement
<1>1. Announcement(NoCall) = Nothing
  BY DEF NoCall, Nothing
<1>2. \A m, t : Announcement(OnFill(m, t))
                    = [kind |-> "trade", maker |-> m.exchange_id, taker |-> t.exchange_id,
                       price |-> m.price, qty |-> m.qty]
  BY DEF OnFill
<1>3. \A o : Announcement(OnTifCancel(o)) = [kind |-> "killed", order |-> o]
  BY DEF OnTifCancel
<1>4. \A o, n : Announcement(OnOrderRested(o, n))
                    = [kind |-> "rested", id |-> o.exchange_id, leaves |-> n]
  BY DEF OnOrderRested
<1>5. \A r, f : Announcement(OnCancel(r, f))
                    = [kind |-> "cancelled", symbol |-> r.symbol, id |-> r.orig_order_id,
                       found |-> f]
  BY DEF OnCancel
<1>6. \A r, n : Announcement(OnReplace(r, n))
                    = [kind |-> "amended", symbol |-> r.symbol, id |-> r.orig_order_id,
                       leaves |-> n]
  BY DEF OnReplace
<1>7. \A s : Announcement(SnapshotCb(s)) = [kind |-> "snapshot"]
  BY DEF SnapshotCb
<1> QED BY <1>1, <1>2, <1>3, <1>4, <1>5, <1>6, <1>7

\* Steps that the abstract engine does not see.
LEMMA Unseen ==
    ASSUME RankInv, UNCHANGED << books_, main, call >>,
           \/ UNCHANGED << pc, cur >>
           \/ pc # "match" /\ pc' # "match"
    PROVE  RankInv' /\ UNCHANGED Promise!vars
<1>1. Ranking' = Ranking /\ AllRanked'
  BY RankingSame DEF RankInv
<1>2. UNCHANGED Aggression /\ UNCHANGED Replaced /\ ReqOK'
  BY DEF Aggression, Replaced, RankInv, ReqOK
<1>3. UNCHANGED Announcement(call) /\ UNCHANGED (main # "recovery")
  BY DEF Announcement
<1> QED BY <1>1, <1>2, <1>3 DEF RankInv, Promise!vars

---------------------------------------------------------------------------
(* The steps of the main and the admin thread                              *)

Allowed == RankInv' /\ (Promise!Next \/ UNCHANGED Promise!vars)

LEMMA RestoreAllowed ==
    ASSUME IInv, RankInv, RestoreOrder
    PROVE  Allowed
<1>1. PICK o : o = Head(rows)
  OBVIOUS
<1>2. CASE o.symbol \notin valid_symbols_
  <2>1. UNCHANGED << books_, main, call, pc, cur >>
    BY <1>1, <1>2 DEF RestoreOrder
  <2> QED BY <2>1, Unseen DEF Allowed
<1>3. CASE o.symbol \in valid_symbols_
  <2>1. PICK s, book, b, d : /\ s = o.symbol /\ book = books_[s] /\ d = o.side
                             /\ b = PushBack(book, o)
    OBVIOUS
  <2>2. s \in DOMAIN books_ /\ books_' = [books_ EXCEPT ![s] = b]
        /\ UNCHANGED << pc, cur, call, main >> /\ main = "recovery"
    BY <1>1, <1>3, <2>1 DEF RestoreOrder, valid_symbols_
  <2>3. /\ o \in Order /\ o.type = "limit" /\ o.price \in Prices
        /\ o.exchange_id \notin DOMAIN book.order_index_
    <3>1. rows \in Seq(Order) /\ rows # << >>
      BY DEF RestoreOrder, IInv, TypeOK
    <3>2. 1 \in DOMAIN rows /\ o = rows[1] /\ o \in Order
      BY <1>1, <3>1, PopProperties
    <3>3. o.exchange_id \in UnrestoredIds
      BY <3>2 DEF UnrestoredIds
    <3>4. o.exchange_id \notin ListedIds
      BY <3>3 DEF IInv, Fresh, OnePlace
    <3> QED BY <2>1, <2>2, <3>2, <3>4 DEF IInv, RowsOK, ListedIds
  <2>4. BookOK(book) /\ BookRanks(book) /\ d \in Sides
    BY <2>1, <2>2, <2>3 DEF IInv, BooksOK, RankInv, AllRanked, Order
  <2>5. PICK Q : /\ Q = Promise!Insert(RankedSide(book, d), o)
                 /\ SideBecomes(b, book, d, Q)
                 /\ \E i \in DOMAIN Q : Q[i] = o
    BY <2>1, <2>3, <2>4, PushBackRanked DEF SideBecomes
  <2>6. AllRanked' /\ Ranking' = [Ranking EXCEPT ![s][d] = Q]
    <3>1. AllRanked /\ BookBecomes(s, b, d, Q)
      BY <2>1, <2>2, <2>4, <2>5 DEF RankInv, BookBecomes
    <3>2. RankingBecomes(s, d, Q)
      BY <3>1, RankingUpdate
    <3> QED BY <3>2 DEF RankingBecomes
  <2>7. UNCHANGED << main # "recovery", Aggression, Replaced, Announcement(call) >> /\ ReqOK'
    BY <2>2 DEF Aggression, Replaced, Announcement, RankInv, ReqOK
  <2>8. DOMAIN Ranking = DOMAIN books_ /\ Ranking[s][d] = RankedSide(book, d)
        /\ Ranking'[s][d] = Q
    BY <2>1, <2>2, <2>4, <2>6 DEF Ranking
  <2>9. Promise!PutBack
    <3>1. PICK i \in DOMAIN Ranking'[s][d] : Ranking'[s][d][i] = o
      BY <2>5, <2>8
    <3>2. Ranking' = [Ranking EXCEPT ![s][d] = Promise!Insert(@, Ranking'[s][d][i])]
      BY <2>5, <2>6, <2>8, <3>1
    <3> QED BY <2>2, <2>4, <2>7, <2>8, <3>1, <3>2 DEF Promise!PutBack
  <2> QED BY <2>6, <2>7, <2>9 DEF Allowed, RankInv, Promise!Next
<1> QED BY <1>2, <1>3

LEMMA MainAllowed ==
    ASSUME IInv, RankInv, Start \/ StopAcceptor \/ Stop
    PROVE  Allowed
<1>1. CASE Start
  <2>1. UNCHANGED << books_, cur, call >> /\ pc = "created" /\ pc' = "run"
        /\ main = "recovery" /\ main' = "serving"
    BY <1>1 DEF Start, IInv, RowsOK
  <2>2. Ranking' = Ranking /\ AllRanked'
    BY <2>1, RankingSame DEF RankInv
  <2>3. UNCHANGED << Aggression, Replaced, Announcement(call) >> /\ ReqOK'
    BY <2>1 DEF Aggression, Replaced, Announcement, ReqOK
  <2>4. Promise!Open
    BY <2>1, <2>2, <2>3 DEF Promise!Open
  <2> QED BY <2>2, <2>3, <2>4 DEF Allowed, RankInv, Promise!Next
<1>2. CASE StopAcceptor \/ Stop
  <2>1. UNCHANGED << books_, pc, cur, call >> /\ main # "recovery" /\ main' # "recovery"
    BY <1>2 DEF StopAcceptor, Stop
  <2>2. Ranking' = Ranking /\ AllRanked'
    BY <2>1, RankingSame DEF RankInv
  <2>3. UNCHANGED << main # "recovery", Aggression, Replaced, Announcement(call) >> /\ ReqOK'
    BY <2>1 DEF Aggression, Replaced, Announcement, RankInv, ReqOK
  <2> QED BY <2>2, <2>3 DEF Allowed, RankInv, Promise!vars
<1> QED BY <1>1, <1>2

LEMMA RegisterAllowed ==
    ASSUME IInv, RankInv, NEW s \in Symbols, RegisterSymbol(s)
    PROVE  Allowed
<1>1. /\ s \notin DOMAIN books_ /\ books_' = Put(books_, s, EmptyBook)
      /\ UNCHANGED << main, pc, cur, call >>
  BY DEF RegisterSymbol, valid_symbols_
<1>2. /\ DOMAIN books_' = DOMAIN books_ \cup {s} /\ books_'[s] = EmptyBook
      /\ \A t \in DOMAIN books_ : t # s /\ books_'[t] = books_[t]
  BY <1>1 DEF Put
<1>3. AllRanked'
  BY <1>2, EmptyRanked DEF RankInv, AllRanked
<1>4. UNCHANGED << main # "recovery", Aggression, Replaced, Announcement(call) >> /\ ReqOK'
  BY <1>1 DEF Aggression, Replaced, Announcement, RankInv, ReqOK
<1>5. DOMAIN Ranking = DOMAIN books_
  BY DEF Ranking
<1>6. Ranking' = [t \in DOMAIN Ranking \cup {s} |->
                     IF t = s THEN [d \in Sides |-> << >>] ELSE Ranking[t]]
  <2>1. Ranking' = [t \in DOMAIN books_ \cup {s} |-> [d \in Sides |-> RankedSide(books_'[t], d)]]
    BY <1>2 DEF Ranking
  <2>2. [d \in Sides |-> RankedSide(books_'[s], d)] = [d \in Sides |-> << >>]
    BY <1>2, EmptyRanked
  <2>3. \A t \in DOMAIN books_ : [d \in Sides |-> RankedSide(books_'[t], d)] = Ranking[t]
    BY <1>2 DEF Ranking
  <2> QED BY <1>2, <1>5, <2>1, <2>2, <2>3
<1>7. Promise!List
  BY <1>1, <1>4, <1>5, <1>6 DEF Promise!List
<1> QED BY <1>3, <1>4, <1>7 DEF Allowed, RankInv, Promise!Next

LEMMA GatewayAllowed ==
    ASSUME RankInv, GatewayNext
    PROVE  Allowed
<1>1. UNCHANGED << books_, main, pc, cur, call >>
  BY DEF GatewayNext, Submit, Reject, Cancel, Replace, RequestSnapshot, Request
<1> QED BY <1>1, Unseen DEF Allowed

---------------------------------------------------------------------------
(* Looking up an order                                                     *)

LEMMA HasIs ==
    ASSUME NEW book, BookOK(book), BookRanks(book), NEW d \in Sides, NEW id
    PROVE  Promise!Has(RankedSide(book, d), id) <=> id \in IdsOn(book, d)
<1>1. PICK Q, q : Q = RankedSide(book, d) /\ Ranks(q, book, d)
  BY DEF BookRanks
<1>2. IsRanking(Q, q, book, d) /\ q \in Seq(Nat)
  <2>1. q \in Seq(Nat)
    BY <1>1 DEF Ranks
  <2> QED BY <1>1, <2>1, RankedElements
<1>3. DOMAIN Q = DOMAIN q /\ \A i \in DOMAIN q : Q[i].exchange_id = q[i]
  <2>1. Q \in Seq(Order) /\ Len(Q) = Len(q)
    BY <1>2 DEF IsRanking
  <2>2. DOMAIN Q = 1 .. Len(q) /\ DOMAIN q = 1 .. Len(q)
    BY <1>2, <2>1
  <2> QED BY <1>2, <2>2 DEF IsRanking
<1>4. id \in IdsOn(book, d) <=> \E i \in DOMAIN q : q[i] = id
  BY <1>1 DEF Ranks
<1> QED BY <1>1, <1>3, <1>4 DEF Promise!Has

\* Where a resting order is.
IsRankOf(k, Q, o) ==
    /\ k \in DOMAIN Q
    /\ Q[k] = o
    /\ \A i \in DOMAIN Q : Q[i].exchange_id = o.exchange_id <=> i = k

LEMMA RankOf ==
    ASSUME NEW book, BookOK(book), BookRanks(book), NEW id \in DOMAIN book.order_index_,
           NEW o, o = book.order_index_[id],
           NEW Q, Q = RankedSide(book, o.side)
    PROVE  \E k : IsRankOf(k, Q, o)
<1>1. o \in Order /\ o.side \in Sides /\ o.exchange_id = id /\ id \in IdsOn(book, o.side)
  BY DEF BookOK, BookType, IndexedIsListed, Order, IdsOn
<1>2. PICK q : Ranks(q, book, o.side)
  BY <1>1 DEF BookRanks
<1>3. IsRanking(Q, q, book, o.side) /\ q \in Seq(Nat)
  <2>1. q \in Seq(Nat)
    BY <1>2 DEF Ranks
  <2> QED BY <1>1, <1>2, <2>1, RankedElements
<1>4. /\ DOMAIN Q = DOMAIN q
      /\ \A i \in DOMAIN q : Q[i].exchange_id = q[i] /\ Q[i] = book.order_index_[q[i]]
  <2>1. Q \in Seq(Order) /\ Len(Q) = Len(q)
    BY <1>3 DEF IsRanking
  <2>2. DOMAIN Q = 1 .. Len(q) /\ DOMAIN q = 1 .. Len(q)
    BY <1>3, <2>1
  <2> QED BY <1>3, <2>2 DEF IsRanking
<1>5. PICK k \in DOMAIN q : q[k] = id
  BY <1>1, <1>2 DEF Ranks
<1>6. \A i \in DOMAIN q : q[i] = id <=> i = k
  BY <1>1, <1>2, <1>5, RanksOnce
<1>7. IsRankOf(k, Q, o)
  BY <1>1, <1>4, <1>5, <1>6 DEF IsRankOf
<1> QED BY <1>7

LEMMA LeaveIs ==
    ASSUME NEW k, NEW Q, NEW o, IsRankOf(k, Q, o)
    PROVE  Promise!Leave(Q, o.exchange_id) = Promise!RemoveAt(Q, k)
<1>1. (CHOOSE i \in DOMAIN Q : Q[i].exchange_id = o.exchange_id) = k
  BY DEF IsRankOf
<1> QED BY <1>1 DEF Promise!Leave, Promise!IndexOf

\* A request finds the order in the index exactly if it is ranked, on that side.
LEMMA KnownIs ==
    ASSUME IInv, AllRanked, NEW s \in DOMAIN books_, NEW id
    PROVE  /\ Promise!Known(s, id) <=> id \in DOMAIN books_[s].order_index_
           /\ id \in DOMAIN books_[s].order_index_ =>
                  Promise!SideOf(s, id) = books_[s].order_index_[id].side
<1>1. PICK book : book = books_[s] /\ BookOK(book) /\ BookRanks(book)
  BY DEF IInv, BooksOK, AllRanked
<1>2. \A d \in Sides : Ranking[s][d] = RankedSide(book, d)
  BY <1>1 DEF Ranking
<1>3. \A d \in Sides : Promise!Has(Ranking[s][d], id) <=> id \in IdsOn(book, d)
  BY <1>1, <1>2, HasIs
<1>4. ASSUME id \in DOMAIN book.order_index_
      PROVE  book.order_index_[id].side \in Sides
  BY <1>1, <1>4 DEF BookOK, BookType, Order
<1>5. Promise!Known(s, id) <=> id \in DOMAIN book.order_index_
  BY <1>3, <1>4 DEF Promise!Known, IdsOn
<1>6. ASSUME id \in DOMAIN book.order_index_
      PROVE  Promise!SideOf(s, id) = book.order_index_[id].side
  <2>1. \A d \in Sides : Promise!Has(Ranking[s][d], id) <=> d = book.order_index_[id].side
    BY <1>3, <1>6 DEF IdsOn
  <2>2. (CHOOSE d \in Sides : Promise!Has(Ranking[s][d], id)) = book.order_index_[id].side
    BY <1>4, <1>6, <2>1
  <2> QED BY <2>2 DEF Promise!SideOf
<1> QED BY <1>1, <1>5, <1>6

---------------------------------------------------------------------------
(* The steps of the engine thread                                          *)

LEMMA PopIdle ==
    ASSUME IInv, NEW tag, Pop(tag)
    PROVE  /\ Promise!Idle /\ Aggression = Nothing /\ Replaced = FALSE
           /\ Announcement(call) = Nothing /\ main # "recovery"
           /\ pc = "run" /\ call = NoCall
           /\ Head(queue_) \in WorkItem /\ Head(queue_).tag = tag
<1>1. pc = "run" /\ call = NoCall
  BY DEF Pop
<1>2. main # "recovery"
  BY <1>1, Serving
<1>3. Aggression = Nothing /\ Replaced = FALSE /\ Announcement(call) = Nothing
  BY <1>1, Announcements DEF Aggression, Replaced
<1>4. Head(queue_) \in WorkItem /\ Head(queue_).tag = tag
  BY HeadTailProperties DEF Pop, IInv, TypeOK
<1> QED BY <1>1, <1>2, <1>3, <1>4 DEF Promise!Idle

LEMMA RunOrderAllowed ==
    ASSUME IInv, FInv, SumsFit, RankInv, RunOrder
    PROVE  Allowed
<1>1. PICK o, s, book, n : /\ o = Head(queue_).order /\ s = o.symbol /\ book = books_[s]
                           /\ n = [o EXCEPT !.leaves_qty = o.qty]
  OBVIOUS
<1>2. Pop("ORDER") /\ UNCHANGED << books_, main >>
  BY DEF RunOrder, NoBook
<1>3. /\ Promise!Idle /\ Aggression = Nothing /\ Replaced = FALSE
      /\ Announcement(call) = Nothing /\ main # "recovery" /\ pc = "run" /\ o \in Order
  <2>1. Head(queue_) \in WorkItem /\ Head(queue_).tag = "ORDER"
    BY <1>2, PopIdle
  <2>2. o \in Order
    BY <1>1, <2>1 DEF WorkItem
  <2> QED BY <1>2, <2>2, PopIdle
<1>4. /\ n \in Order /\ n.symbol = s /\ n.leaves_qty = o.qty /\ n.qty = o.qty
      /\ n.tif = o.tif /\ n.side = o.side /\ n.type = o.type /\ n.price = o.price
  BY <1>1, <1>3 DEF Order
<1>5. ASSUME s \in DOMAIN books_
      PROVE  Promise!Liquidity(n) = SumLeaves(book, Reachable(book, o))
  <2>1. BookOK(book) /\ BookRanks(book)
    BY <1>1, <1>5 DEF IInv, BooksOK, RankInv, AllRanked
  <2>2. Promise!Liquidity(n) = SumLeaves(book, Reachable(book, n))
    BY <1>1, <1>4, <1>5, <2>1, LiquidityIsReach
  <2> QED BY <1>4, <2>2, ReachSame
<1>6. Ranking' = Ranking /\ AllRanked'
  BY <1>2, RankingSame DEF RankInv
<1>7. UNCHANGED (main # "recovery")
  BY <1>2
<1>8. CASE NoBook(s)
  <2>1. UNCHANGED << books_, main, call >> /\ pc # "match" /\ pc' # "match"
    BY <1>2, <1>3, <1>8 DEF NoBook
  <2> QED BY <2>1, Unseen DEF Allowed
<1>9. CASE /\ s \in DOMAIN books_ /\ o.tif = "fok" /\ AvailableToFill(book, o) < o.qty
           /\ call' = OnTifCancel(n) /\ UNCHANGED << pc, cur >>
  <2>1. SumLeaves(book, Reachable(book, o)) < o.qty
    <3>1. PICK m : m = SumLeaves(book, Reachable(book, o))
      OBVIOUS
    <3>2. m \in -(IntMax + 1) .. IntMax
      BY <1>1, <1>3, <1>9, <3>1 DEF SumsFit
    <3>3. WrapInt(m) < o.qty
      BY <1>9, <3>1 DEF AvailableToFill
    <3> QED BY <3>1, <3>2, <3>3, WrapFits
  <2>2. Announcement(call)' = [kind |-> "killed", order |-> n]
    BY <1>9, Announcements
  <2>3. UNCHANGED << Aggression, Replaced >> /\ ReqOK'
    BY <1>9 DEF Aggression, Replaced, RankInv, ReqOK
  <2>4. Announcement(call)' # Nothing
    BY <2>2 DEF Nothing
  <2>5. Promise!Kill
    BY <1>3, <1>4, <1>5, <1>6, <1>7, <1>9, <2>1, <2>2, <2>3, <2>4 DEF Promise!Kill
  <2> QED BY <1>6, <2>3, <2>5 DEF Allowed, RankInv, Promise!Next
<1>10. CASE /\ s \in DOMAIN books_ /\ (o.tif = "fok" => AvailableToFill(book, o) >= o.qty)
            /\ Add([tag |-> "ORDER", order |-> o]) /\ UNCHANGED call
  <2>1. pc' = "match" /\ cur' = [tag |-> "ORDER", order |-> n]
    BY <1>1, <1>10 DEF Add
  <2>2. Aggression' = n /\ Replaced' = FALSE /\ ReqOK' /\ Announcement(call)' = Announcement(call)
    BY <1>10, <2>1 DEF Aggression, Replaced, ReqOK, Announcement
  <2>3. n.tif = "fok" => Promise!Liquidity(n) >= n.qty
    <3>1. EntriesOK
      BY DEF FInv
    <3>2. o.tif = "fok" => SumLeaves(book, Reachable(book, o)) >= o.qty
      BY <1>1, <1>3, <1>10, <3>1, AvailableIsThere
    <3> QED BY <1>4, <1>5, <1>10, <3>2
  <2>4. DOMAIN Ranking = DOMAIN books_
    BY DEF Ranking
  <2>5. Promise!Enter
    BY <1>3, <1>4, <1>6, <1>7, <1>10, <2>2, <2>3, <2>4 DEF Promise!Enter
  <2> QED BY <1>6, <2>2, <2>5 DEF Allowed, RankInv, Promise!Next
<1> QED
  <2>1. \/ NoBook(o.symbol)
        \/ /\ o.symbol \in valid_symbols_ /\ o.tif = "fok"
           /\ AvailableToFill(books_[o.symbol], o) < o.qty
           /\ call' = OnTifCancel([o EXCEPT !.leaves_qty = o.qty])
           /\ UNCHANGED << pc, cur >>
        \/ /\ o.symbol \in valid_symbols_
           /\ o.tif = "fok" => AvailableToFill(books_[o.symbol], o) >= o.qty
           /\ Add([tag |-> "ORDER", order |-> o])
           /\ UNCHANGED call
    BY <1>1 DEF RunOrder
  <2> QED BY <1>1, <1>8, <1>9, <1>10, <2>1 DEF valid_symbols_

LEMMA RunCancelAllowed ==
    ASSUME IInv, RankInv, RunCancel
    PROVE  Allowed
<1>1. PICK req, s, id, book : /\ req = Head(queue_).req /\ s = req.symbol
                              /\ id = req.orig_order_id /\ book = books_[s]
  OBVIOUS
<1>2. Pop("CANCEL") /\ UNCHANGED main
  BY DEF RunCancel
<1>3. /\ Promise!Idle /\ Aggression = Nothing /\ Replaced = FALSE
      /\ Announcement(call) = Nothing /\ main # "recovery" /\ pc = "run"
  BY <1>2, PopIdle
<1>4. CASE NoBook(s) /\ UNCHANGED call
  <2>1. UNCHANGED << books_, main, call >> /\ pc # "match" /\ pc' # "match"
    BY <1>2, <1>3, <1>4 DEF NoBook
  <2> QED BY <2>1, Unseen DEF Allowed
<1>5. CASE /\ s \in DOMAIN books_ /\ books_' = [books_ EXCEPT ![s] = Cancelled(book, id)]
           /\ call' = OnCancel(req, Found(book, id)) /\ UNCHANGED << pc, cur >>
  <2>1. Announcement(call)' = [kind |-> "cancelled", symbol |-> s, id |-> id,
                               found |-> Found(book, id)]
    BY <1>1, <1>5, Announcements
  <2>2. UNCHANGED << Aggression, Replaced, main # "recovery" >> /\ ReqOK'
    BY <1>2, <1>5 DEF Aggression, Replaced, RankInv, ReqOK
  <2>3. Announcement(call)' # Nothing
    BY <2>1 DEF Nothing
  <2>4. Found(book, id) <=> Promise!Known(s, id)
    BY <1>1, <1>5, KnownIs DEF Found, RankInv
  <2>5. CASE Found(book, id)
    <3>1. PICK o, d, Q, b : /\ o = book.order_index_[id] /\ d = o.side
                            /\ Q = RankedSide(book, d) /\ b = Unlink(book, id)
      OBVIOUS
    <3>2. id \in DOMAIN book.order_index_ /\ BookOK(book) /\ BookRanks(book)
      BY <1>1, <1>5, <2>5 DEF Found, IInv, BooksOK, RankInv, AllRanked
    <3>3. o.exchange_id = id /\ d \in Sides
      BY <3>1, <3>2 DEF BookOK, BookType, Order, IndexedIsListed
    <3>4. PICK k : IsRankOf(k, Q, o)
      BY <3>1, <3>2, RankOf
    <3>5. Promise!Leave(Q, id) = Promise!RemoveAt(Q, k)
      BY <3>3, <3>4, LeaveIs
    <3>6. SideBecomes(b, book, d, Promise!Leave(Q, id))
      <4>1. k \in DOMAIN RankedSide(book, d) /\ RankedSide(book, d)[k].exchange_id = id
        BY <3>1, <3>3, <3>4, SMTT(30) DEF IsRankOf
      <4> QED BY <3>1, <3>2, <3>5, <4>1, UnlinkRanked
    <3>7. BookBecomes(s, b, d, Promise!Leave(Q, id))
      BY <1>1, <1>5, <2>5, <3>1, <3>3, <3>6, Zenon DEF BookBecomes, Cancelled
    <3>8. RankingBecomes(s, d, Promise!Leave(Q, id))
      BY <3>7, RankingUpdate, SMTT(30) DEF RankInv
    <3>9. Promise!SideOf(s, id) = d /\ Ranking[s][d] = Q
      BY <1>1, <1>5, <3>1, <3>2, <3>3, KnownIs, Zenon DEF RankInv, Ranking
    <3>10. Ranking' = [Ranking EXCEPT ![s][Promise!SideOf(s, id)] = Promise!Leave(@, id)]
      BY <3>8, <3>9 DEF RankingBecomes
    <3>11. Promise!Cancel
      BY <1>3, <2>1, <2>2, <2>3, <2>4, <2>5, <3>10 DEF Promise!Cancel
    <3> QED BY <2>2, <3>8, <3>11 DEF Allowed, RankInv, RankingBecomes, Promise!Next
  <2>6. CASE ~Found(book, id)
    <3>1. DOMAIN books_' = DOMAIN books_ /\ \A t \in DOMAIN books_ : books_'[t] = books_[t]
      BY <1>1, <1>5, <2>6 DEF Cancelled
    <3>2. Ranking' = Ranking /\ AllRanked'
      BY <3>1, RankingSameBooks DEF RankInv
    <3>4. Announcement(call)'.found = FALSE
      <4>1. Found(book, id) = FALSE
        BY <2>6 DEF Found
      <4>2. Announcement(call)' = [kind |-> "cancelled", symbol |-> s, id |-> id, found |-> FALSE]
        BY <2>1, <4>1, Zenon
      <4> QED BY <4>2
    <3>5. Promise!Known(s, id) = FALSE
      BY <2>4, <2>6 DEF Promise!Known
    <3>6. /\ Announcement(call)'.kind = "cancelled" /\ Announcement(call)'.symbol = s
          /\ Announcement(call)'.id = id
      BY <2>1
    <3>3. Promise!Cancel
      BY <1>3, <2>2, <2>3, <3>2, <3>4, <3>5, <3>6 DEF Promise!Cancel
    <3> QED BY <2>2, <3>2, <3>3 DEF Allowed, RankInv, Promise!Next
  <2> QED BY <2>5, <2>6
<1> QED
  <2>1. \/ NoBook(req.symbol) /\ UNCHANGED call
        \/ /\ req.symbol \in valid_symbols_
           /\ books_' = [books_ EXCEPT ![req.symbol] = Cancelled(@, req.orig_order_id)]
           /\ call' = OnCancel(req, Found(books_[req.symbol], req.orig_order_id))
           /\ UNCHANGED << pc, cur >>
    BY <1>1 DEF RunCancel, NoBook
  <2> QED BY <1>1, <1>4, <1>5, <2>1 DEF valid_symbols_

LEMMA RunSnapshotAllowed ==
    ASSUME IInv, RankInv, RunSnapshot
    PROVE  Allowed
<1>1. /\ Promise!Idle /\ Aggression = Nothing /\ Replaced = FALSE
      /\ Announcement(call) = Nothing /\ main # "recovery"
  BY PopIdle DEF RunSnapshot
<1>2. UNCHANGED << books_, main, pc, cur >> /\ \E x : call' = SnapshotCb(x)
  BY DEF RunSnapshot
<1>3. Announcement(call)' = [kind |-> "snapshot"]
  BY <1>2, Announcements
<1>4. Announcement(call)' # Nothing
  BY <1>3 DEF Nothing
<1>5. Ranking' = Ranking /\ AllRanked'
  BY <1>2, RankingSame DEF RankInv
<1>6. UNCHANGED << Aggression, Replaced, main # "recovery" >> /\ ReqOK'
  BY <1>2 DEF Aggression, Replaced, RankInv, ReqOK
<1>7. Promise!Answer
  BY <1>1, <1>3, <1>4, <1>5, <1>6 DEF Promise!Answer
<1> QED BY <1>5, <1>6, <1>7 DEF Allowed, RankInv, Promise!Next

\* Two fields of one entry, changed one after the other.
TwiceIsOnce(R, s, d, Q, k, o, n) ==
    [R EXCEPT ![s][d][k].qty = n, ![s][d][k].leaves_qty = n]
        = [R EXCEPT ![s][d] = [Q EXCEPT ![k] = [o EXCEPT !.qty = n, !.leaves_qty = n]]]

LEMMA ExceptTwice ==
    ASSUME NEW R, NEW s \in DOMAIN R, NEW d \in DOMAIN R[s], NEW Q, Q = R[s][d],
           NEW k \in DOMAIN Q, NEW o \in Order, Q[k] = o, NEW n
    PROVE  TwiceIsOnce(R, s, d, Q, k, o, n)
<1>1. PICK y, R1 : /\ y = [o EXCEPT !.qty = n]
                   /\ R1 = [R EXCEPT ![s][d][k].qty = n]
  OBVIOUS
<1>2. R1 = [R EXCEPT ![s] = [R[s] EXCEPT ![d] = [Q EXCEPT ![k] = y]]]
  BY <1>1
<1>3. R1[s] = [R[s] EXCEPT ![d] = [Q EXCEPT ![k] = y]]
  BY <1>2
<1>4. R1[s][d] = [Q EXCEPT ![k] = y]
  BY <1>3
<1>5. R1[s][d][k] = y
  BY <1>4
<1>6. PICK x : x = [y EXCEPT !.leaves_qty = n]
  OBVIOUS
<1>7. [R EXCEPT ![s][d][k].qty = n, ![s][d][k].leaves_qty = n]
          = [R1 EXCEPT ![s] = [R1[s] EXCEPT ![d] = [R1[s][d] EXCEPT ![k] = x]]]
  BY <1>1, <1>5, <1>6
<1>8. PICK V, W : V = [Q EXCEPT ![k] = x] /\ W = [R[s] EXCEPT ![d] = V]
  OBVIOUS
<1>9. [R1[s][d] EXCEPT ![k] = x] = V
  BY <1>4, <1>8
<1>10. [R1[s] EXCEPT ![d] = V] = W
  BY <1>3, <1>8
<1>11. [R1 EXCEPT ![s] = W] = [R EXCEPT ![s] = W]
  BY <1>2
<1>12. [R EXCEPT ![s][d][k].qty = n, ![s][d][k].leaves_qty = n] = [R EXCEPT ![s] = W]
  <2>1. [R EXCEPT ![s][d][k].qty = n, ![s][d][k].leaves_qty = n]
            = [R1 EXCEPT ![s] = [R1[s] EXCEPT ![d] = V]]
    BY <1>7, <1>9, Zenon
  <2> QED BY <1>10, <1>11, <2>1, Zenon
<1>13. x = [o EXCEPT !.qty = n, !.leaves_qty = n]
  BY <1>1, <1>6
<1> QED BY <1>8, <1>12, <1>13, Zenon DEF TwiceIsOnce

LEMMA RunReplaceAllowed ==
    ASSUME IInv, RankInv, RunReplace
    PROVE  Allowed
<1>1. PICK req, s, id, book, p, n :
          /\ req = Head(queue_).req /\ s = req.symbol /\ id = req.orig_order_id
          /\ book = books_[s] /\ p = req.new_price /\ n = req.new_qty
  OBVIOUS
<1>2. Pop("REPLACE") /\ UNCHANGED main
  BY DEF RunReplace
<1>3. /\ Promise!Idle /\ Aggression = Nothing /\ Replaced = FALSE
      /\ Announcement(call) = Nothing /\ main # "recovery" /\ pc = "run"
      /\ req \in ReplaceRequest
  <2>1. Head(queue_) \in WorkItem /\ Head(queue_).tag = "REPLACE"
    BY <1>2, PopIdle
  <2>2. req \in ReplaceRequest
    BY <1>1, <2>1 DEF WorkItem
  <2> QED BY <1>2, <2>2, PopIdle
<1>4. p \in Int /\ n \in Int
  BY <1>1, <1>3, PriceAssumption DEF ReplaceRequest, Prices
<1>5. UNCHANGED (main # "recovery")
  BY <1>2
<1>6. CASE NoBook(s) /\ UNCHANGED call
  <2>1. UNCHANGED << books_, main, call >> /\ pc # "match" /\ pc' # "match"
    BY <1>2, <1>3, <1>6 DEF NoBook
  <2> QED BY <2>1, Unseen DEF Allowed
<1>7. CASE /\ s \in DOMAIN books_ /\ ~Found(book, id)
           /\ call' = OnReplace(req, -1) /\ UNCHANGED << books_, pc, cur >>
  <2>1. Announcement(call)' = [kind |-> "amended", symbol |-> s, id |-> id, leaves |-> -1]
    BY <1>1, <1>7, Announcements
  <2>2. UNCHANGED << Aggression, Replaced >> /\ ReqOK'
    BY <1>7 DEF Aggression, Replaced, RankInv, ReqOK
  <2>3. Announcement(call)' # Nothing
    BY <2>1 DEF Nothing
  <2>4. ~Promise!Known(s, id)
    BY <1>1, <1>7, KnownIs DEF Found, RankInv
  <2>5. Ranking' = Ranking /\ AllRanked'
    BY <1>7, RankingSame DEF RankInv
  <2>6. Promise!Answer
    BY <1>3, <1>5, <2>1, <2>2, <2>3, <2>4, <2>5 DEF Promise!Answer
  <2> QED BY <2>2, <2>5, <2>6 DEF Allowed, RankInv, Promise!Next
<1>8. ASSUME s \in DOMAIN books_, Found(book, id),
             NEW o, NEW d, NEW Q, NEW k,
             o = book.order_index_[id], d = o.side, Q = RankedSide(book, d), IsRankOf(k, Q, o)
      PROVE  /\ BookOK(book) /\ BookRanks(book) /\ id \in DOMAIN book.order_index_
             /\ o \in Order /\ o.exchange_id = id /\ o.type = "limit" /\ o.symbol = s
             /\ d \in Sides /\ k \in DOMAIN Q /\ Q[k] = o
             /\ s \in DOMAIN Ranking /\ DOMAIN Ranking[s] = Sides /\ Ranking[s][d] = Q
  <2>1. BookOK(book) /\ BookRanks(book) /\ id \in DOMAIN book.order_index_ /\ o.symbol = s
    BY <1>1, <1>8, Zenon DEF Found, IInv, BooksOK, RankInv, AllRanked
  <2>2. o \in Order /\ o.exchange_id = id /\ o.type = "limit" /\ d \in Sides
    BY <1>8, <2>1 DEF BookOK, BookType, Order, IndexedIsListed
  <2>3. s \in DOMAIN Ranking /\ DOMAIN Ranking[s] = Sides /\ Ranking[s][d] = Q
    BY <1>1, <1>8, <2>2, Zenon DEF Ranking
  <2> QED BY <1>8, <2>1, <2>2, <2>3, SMTT(30) DEF IsRankOf
<1>9. CASE /\ s \in DOMAIN books_ /\ Found(book, id) /\ InPlace(book, id, p, n)
           /\ books_' = [books_ EXCEPT ![s] = Reduced(book, id, n)]
           /\ call' = OnReplace(req, n) /\ UNCHANGED << pc, cur >>
  <2>1. PICK o, d, Q, x : /\ o = book.order_index_[id] /\ d = o.side /\ Q = RankedSide(book, d)
                          /\ x = [o EXCEPT !.qty = n, !.leaves_qty = n]
    OBVIOUS
  <2>2. PICK k : IsRankOf(k, Q, o)
    <3>1. BookOK(book) /\ BookRanks(book) /\ id \in DOMAIN book.order_index_
      BY <1>1, <1>9 DEF Found, IInv, BooksOK, RankInv, AllRanked
    <3> QED BY <2>1, <3>1, RankOf
  <2>3. /\ BookOK(book) /\ BookRanks(book) /\ id \in DOMAIN book.order_index_
        /\ o \in Order /\ o.exchange_id = id /\ o.type = "limit" /\ o.symbol = s
        /\ d \in Sides /\ k \in DOMAIN Q /\ Q[k] = o
        /\ s \in DOMAIN Ranking /\ DOMAIN Ranking[s] = Sides /\ Ranking[s][d] = Q
    BY <1>8, <1>9, <2>1, <2>2
  <2>4. x \in Order /\ x.exchange_id = id /\ x.type = "limit" /\ x.side = d /\ x.price = o.price
    BY <1>4, <2>1, <2>3 DEF Order
  <2>5. SideBecomes(Reduced(book, id, n), book, d, [Q EXCEPT ![k] = x])
    <3>1. Reduced(book, id, n) = [book EXCEPT !.order_index_ = Put(@, id, x)]
      BY <2>1 DEF Reduced
    <3>2. /\ x.side = book.order_index_[id].side /\ x.price = book.order_index_[id].price
          /\ k \in DOMAIN RankedSide(book, x.side)
          /\ RankedSide(book, x.side)[k].exchange_id = id
      BY <2>1, <2>3, <2>4
    <3>3. SideBecomes([book EXCEPT !.order_index_ = Put(@, id, x)], book, x.side,
                      [RankedSide(book, x.side) EXCEPT ![k] = x])
      BY <2>3, <2>4, <3>2, UpdateRanked
    <3> QED BY <2>1, <2>4, <3>1, <3>3
  <2>6. RankingBecomes(s, d, [Q EXCEPT ![k] = x])
    <3>1. BookBecomes(s, Reduced(book, id, n), d, [Q EXCEPT ![k] = x])
      BY <1>1, <1>9, <2>3, <2>5 DEF BookBecomes
    <3> QED BY <3>1, RankingUpdate DEF RankInv
  <2>7. Ranking' = [Ranking EXCEPT ![s][d][k].qty = n, ![s][d][k].leaves_qty = n]
    <3>1. Ranking' = [Ranking EXCEPT ![s][d] =
                         [Q EXCEPT ![k] = [o EXCEPT !.qty = n, !.leaves_qty = n]]]
      BY <2>1, <2>6 DEF RankingBecomes
    <3>2. TwiceIsOnce(Ranking, s, d, Q, k, o, n)
      BY <2>3, ExceptTwice
    <3> QED BY <3>1, <3>2, Zenon DEF TwiceIsOnce
  <2>8. Announcement(call)' = [kind |-> "amended", symbol |-> s, id |-> id, leaves |-> n]
    BY <1>1, <1>9, Announcements
  <2>9. UNCHANGED << Aggression, Replaced >> /\ ReqOK'
    BY <1>9 DEF Aggression, Replaced, RankInv, ReqOK
  <2>10. Announcement(call)' # Nothing
    BY <2>8 DEF Nothing
  <2>11. n < o.leaves_qty
    BY <1>9, <2>1, SMTT(30) DEF InPlace
  <2>12. Promise!Reduce
    <3>1. /\ Announcement(call)'.kind = "amended" /\ Announcement(call)'.leaves = n
          /\ Announcement(call)' = Promise!Amended(s, Ranking[s][d][k].exchange_id, n)
      BY <2>3, <2>8 DEF Promise!Amended
    <3>2. \E s1 \in DOMAIN Ranking, d1 \in Sides : \E i \in DOMAIN Ranking[s1][d1] :
              /\ Announcement(call)'.leaves < Ranking[s1][d1][i].leaves_qty
              /\ Ranking' = [Ranking EXCEPT ![s1][d1][i].qty = Announcement(call)'.leaves,
                                            ![s1][d1][i].leaves_qty = Announcement(call)'.leaves]
              /\ Announcement(call)' = Promise!Amended(s1, Ranking[s1][d1][i].exchange_id,
                                                       Announcement(call)'.leaves)
      BY <2>3, <2>7, <2>11, <3>1, Zenon
    <3> QED BY <1>3, <1>5, <2>9, <2>10, <3>1, <3>2, Zenon DEF Promise!Reduce
  <2> QED BY <2>6, <2>9, <2>12 DEF Allowed, RankInv, RankingBecomes, Promise!Next
<1>10. CASE /\ s \in DOMAIN books_ /\ Found(book, id) /\ ~InPlace(book, id, p, n)
            /\ books_' = [books_ EXCEPT ![s] = Unlink(book, id)]
            /\ Add([tag |-> "REPLACE", req |-> req,
                    order |-> [book.order_index_[id] EXCEPT !.price = p, !.qty = n]])
            /\ UNCHANGED call
  <2>1. PICK o, d, Q, x : /\ o = book.order_index_[id] /\ d = o.side /\ Q = RankedSide(book, d)
                          /\ x = [o EXCEPT !.price = p, !.qty = n, !.leaves_qty = n]
    OBVIOUS
  <2>2. PICK k : IsRankOf(k, Q, o)
    <3>1. BookOK(book) /\ BookRanks(book) /\ id \in DOMAIN book.order_index_
      BY <1>1, <1>10 DEF Found, IInv, BooksOK, RankInv, AllRanked
    <3> QED BY <2>1, <3>1, RankOf
  <2>3. /\ BookOK(book) /\ BookRanks(book) /\ id \in DOMAIN book.order_index_
        /\ o \in Order /\ o.exchange_id = id /\ o.type = "limit" /\ o.symbol = s
        /\ d \in Sides /\ k \in DOMAIN Q /\ Q[k] = o
        /\ s \in DOMAIN Ranking /\ DOMAIN Ranking[s] = Sides /\ Ranking[s][d] = Q
    BY <1>8, <1>10, <2>1, <2>2
  <2>4. x \in Order /\ x.exchange_id = id /\ x.symbol = s /\ x.price = p /\ x.qty = n
    BY <1>4, <2>1, <2>3 DEF Order
  <2>5. pc' = "match" /\ cur' = [tag |-> "REPLACE", req |-> req, order |-> x]
    BY <1>4, <1>10, <2>1, <2>3 DEF Add, Order
  <2>6. SideBecomes(Unlink(book, id), book, d, Promise!Leave(Q, id))
    <3>1. Promise!Leave(Q, id) = Promise!RemoveAt(Q, k)
      BY <2>2, <2>3, LeaveIs
    <3>2. k \in DOMAIN RankedSide(book, d) /\ RankedSide(book, d)[k].exchange_id = id
      BY <2>1, <2>3
    <3> QED BY <2>1, <2>3, <3>1, <3>2, UnlinkRanked
  <2>7. RankingBecomes(s, d, Promise!Leave(Q, id))
    <3>1. BookBecomes(s, Unlink(book, id), d, Promise!Leave(Q, id))
      BY <1>1, <1>10, <2>3, <2>6 DEF BookBecomes
    <3> QED BY <3>1, RankingUpdate DEF RankInv
  <2>8. Aggression' = x /\ Replaced' = TRUE /\ Announcement(call)' = Announcement(call)
    BY <1>10, <2>5 DEF Aggression, Replaced, Announcement
  <2>9. ReqOK'
    BY <1>1, <2>4, <2>5 DEF ReqOK
  <2>10. p # o.price \/ n >= o.leaves_qty
    BY <1>4, <1>10, <2>1, <2>3 DEF InPlace, Order
  <2>11. Ranking' = [Ranking EXCEPT ![s][d] = Promise!Leave(@, o.exchange_id)]
    BY <2>3, <2>7 DEF RankingBecomes
  <2>12. Promise!Amend
    <3>1. PICK y : y = Aggression'
      OBVIOUS
    <3>2. /\ s \in DOMAIN Ranking /\ d \in Sides /\ k \in DOMAIN Ranking[s][d]
          /\ Ranking[s][d][k] = o
      BY <2>3
    <3>3. /\ y.price # Ranking[s][d][k].price \/ y.qty >= Ranking[s][d][k].leaves_qty
          /\ y = [Ranking[s][d][k] EXCEPT !.price = y.price, !.qty = y.qty, !.leaves_qty = y.qty]
          /\ Ranking' = [Ranking EXCEPT ![s][d] =
                            Promise!Leave(@, Ranking[s][d][k].exchange_id)]
      <4>1. y = [o EXCEPT !.price = y.price, !.qty = y.qty, !.leaves_qty = y.qty]
        BY <2>1, <2>4, <2>8, <3>1
      <4>2. y.price # o.price \/ y.qty >= o.leaves_qty
        BY <2>4, <2>8, <2>10, <3>1
      <4> QED BY <2>11, <3>2, <4>1, <4>2, Zenon
    <3>4. /\ \/ Aggression'.price # Ranking[s][d][k].price
             \/ Aggression'.qty >= Ranking[s][d][k].leaves_qty
          /\ Aggression' = [Ranking[s][d][k] EXCEPT !.price = Aggression'.price,
                                                    !.qty = Aggression'.qty,
                                                    !.leaves_qty = Aggression'.qty]
      BY <3>1, <3>3, Zenon
    <3>5. y \in Order /\ Replaced' = TRUE /\ Announcement(call)' = Announcement(call)
      BY <2>4, <2>8, <3>1
    <3>6. \E s1 \in DOMAIN Ranking, d1 \in Sides : \E i \in DOMAIN Ranking[s1][d1] :
              /\ \/ Aggression'.price # Ranking[s1][d1][i].price
                 \/ Aggression'.qty >= Ranking[s1][d1][i].leaves_qty
              /\ Aggression' = [Ranking[s1][d1][i] EXCEPT !.price = Aggression'.price,
                                                           !.qty = Aggression'.qty,
                                                           !.leaves_qty = Aggression'.qty]
              /\ Ranking' = [Ranking EXCEPT ![s1][d1] =
                                Promise!Leave(@, Ranking[s1][d1][i].exchange_id)]
      BY <3>2, <3>3, <3>4, Zenon
    <3>7. Aggression' \in Order
      BY <3>1, <3>5
    <3> QED BY <1>3, <1>5, <3>5, <3>6, <3>7, Zenon DEF Promise!Amend
  <2> QED BY <2>7, <2>9, <2>12 DEF Allowed, RankInv, RankingBecomes, Promise!Next
<1> QED
  <2>1. \/ NoBook(req.symbol) /\ UNCHANGED call
        \/ /\ req.symbol \in valid_symbols_ /\ ~Found(books_[req.symbol], id)
           /\ call' = OnReplace(req, -1) /\ UNCHANGED << books_, pc, cur >>
        \/ /\ req.symbol \in valid_symbols_ /\ Found(books_[req.symbol], id)
           /\ InPlace(books_[req.symbol], id, req.new_price, req.new_qty)
           /\ books_' = [books_ EXCEPT ![req.symbol] = Reduced(@, id, req.new_qty)]
           /\ call' = OnReplace(req, req.new_qty) /\ UNCHANGED << pc, cur >>
        \/ /\ req.symbol \in valid_symbols_ /\ Found(books_[req.symbol], id)
           /\ ~InPlace(books_[req.symbol], id, req.new_price, req.new_qty)
           /\ books_' = [books_ EXCEPT ![req.symbol] = Unlink(@, id)]
           /\ Add([tag |-> "REPLACE", req |-> req,
                   order |-> [books_[req.symbol].order_index_[id] EXCEPT !.price = req.new_price,
                                                                       !.qty = req.new_qty]])
           /\ UNCHANGED call
    BY <1>1 DEF RunReplace, NoBook
  <2> QED BY <1>1, <1>6, <1>7, <1>9, <1>10, <2>1, SMTT(30) DEF valid_symbols_

\* The aggressor and its book, during add().
LEMMA Matching ==
    ASSUME IInv, RankInv, pc = "match", NEW o, o = cur.order, NEW s, s = o.symbol,
           NEW book, book = books_[s]
    PROVE  /\ o \in Order /\ s \in DOMAIN books_ /\ BookOK(book) /\ BookRanks(book)
           /\ o.side \in Sides /\ Promise!Counter(o.side) = Opposite(o.side)
           /\ Opposite(o.side) \in Sides /\ o.exchange_id \notin DOMAIN book.order_index_
           /\ PriceOK(o) /\ Aggression = o /\ cur \in Aggressor
           /\ \A d \in Sides : Ranking[s][d] = RankedSide(book, d)
<1>1. cur \in Aggressor /\ s \in DOMAIN books_ /\ PriceOK(o)
  BY DEF IInv, TypeOK, CurOK
<1>2. o \in Order /\ o.side \in Sides
  BY <1>1 DEF Aggressor, Order
<1>3. BookOK(book) /\ BookRanks(book)
  BY <1>1 DEF IInv, BooksOK, RankInv, AllRanked
<1>4. o.exchange_id \notin DOMAIN book.order_index_
  BY <1>1 DEF IInv, Fresh, OnePlace, MatchingIds, ListedIds
<1>5. \A d \in Sides : Ranking[s][d] = RankedSide(book, d)
  BY <1>1 DEF Ranking
<1> QED BY <1>1, <1>2, <1>3, <1>4, <1>5, CounterIsOpposite DEF Aggression

\* match_against's loop goes on exactly while the aggressor can trade.
LEMMA CanTradeIs ==
    ASSUME IInv, RankInv, pc = "match"
    PROVE  Promise!CanTrade <=> CanMatch(books_[cur.order.symbol], cur.order)
<1>1. PICK o, s, book, e, Q : /\ o = cur.order /\ s = o.symbol /\ book = books_[s]
                              /\ e = Opposite(o.side) /\ Q = RankedSide(book, e)
  OBVIOUS
<1>2. /\ o \in Order /\ BookOK(book) /\ BookRanks(book) /\ e \in Sides
      /\ Promise!Counter(o.side) = e /\ Aggression = o /\ Ranking[s][e] = Q
  BY <1>1, Matching
<1>3. CanMatch(book, o) <=> o.leaves_qty > 0 /\ Q # << >> /\ Promise!Tradable(o, Head(Q))
  BY <1>1, <1>2, CanMatchIs
<1>4. Promise!CanTrade <=> o.leaves_qty > 0 /\ Q # << >> /\ Promise!Tradable(o, Head(Q))
  BY <1>1, <1>2 DEF Promise!CanTrade
<1> QED BY <1>1, <1>3, <1>4

LEMMA MatchFillAllowed ==
    ASSUME IInv, RankInv, MatchFill
    PROVE  Allowed
<1>1. PICK o, s, book, e, Q, r, n, x :
          /\ o = cur.order /\ s = o.symbol /\ book = books_[s]
          /\ e = Opposite(o.side) /\ Q = RankedSide(book, e)
          /\ r = Resting(book, o) /\ n = FillQty(book, o)
          /\ x = [o EXCEPT !.leaves_qty = @ - n]
  OBVIOUS
<1>2. /\ pc = "match" /\ call = NoCall /\ CanMatch(book, o)
      /\ books_' = [books_ EXCEPT ![s] = AfterFill(book, o)]
      /\ cur' = [cur EXCEPT !.order.leaves_qty = @ - n]
      /\ call' = OnFill(MakeFill(r, r.price, n, r.leaves_qty - n),
                        MakeFill(o, r.price, n, o.leaves_qty - n))
      /\ UNCHANGED << main, pc >>
  BY <1>1 DEF MatchFill
<1>3. /\ o \in Order /\ s \in DOMAIN books_ /\ BookOK(book) /\ BookRanks(book) /\ e \in Sides
      /\ Promise!Counter(o.side) = e /\ Aggression = o /\ Ranking[s][e] = Q /\ cur \in Aggressor
  BY <1>1, <1>2, Matching
<1>4. Head(Q) = r
  BY <1>1, <1>2, <1>3, CanMatchIs
<1>5. PICK Z : Z = IF n = r.leaves_qty THEN Tail(Q)
                   ELSE Promise!ReplaceAt(Q, 1, [r EXCEPT !.leaves_qty = @ - n])
  BY Zenon
<1>6. n = Promise!Min({o.leaves_qty, r.leaves_qty}) /\ SideBecomes(AfterFill(book, o), book, e, Z)
  <2>1. /\ n = Promise!Min({o.leaves_qty, Head(Q).leaves_qty})
        /\ SideBecomes(AfterFill(book, o), book, Opposite(o.side),
                  IF n = Head(Q).leaves_qty THEN Tail(Q)
                  ELSE Promise!ReplaceAt(Q, 1, [Head(Q) EXCEPT !.leaves_qty = @ - n]))
    BY <1>1, <1>2, <1>3, FillRanked, SMTT(30)
  <2> QED BY <1>1, <1>4, <1>5, <2>1, Zenon
<1>7. RankingBecomes(s, e, Z)
  <2>1. BookBecomes(s, AfterFill(book, o), e, Z)
    BY <1>1, <1>2, <1>3, <1>6 DEF BookBecomes
  <2> QED BY <2>1, RankingUpdate DEF RankInv
<1>8. cur'.order = x /\ cur'.tag = cur.tag /\ (cur.tag = "REPLACE" => cur'.req = cur.req)
  BY <1>1, <1>2, <1>3 DEF Aggressor
<1>9. x.symbol = o.symbol /\ x.exchange_id = o.exchange_id
  BY <1>1, <1>3 DEF Order
<1>10. Aggression' = x /\ Replaced' = Replaced /\ ReqOK'
  BY <1>1, <1>2, <1>8, <1>9 DEF Aggression, Replaced, RankInv, ReqOK
<1>11. Announcement(call) = Nothing
  BY <1>2, Announcements
<1>12. Announcement(call)' = [kind |-> "trade", maker |-> r.exchange_id, taker |-> o.exchange_id,
                              price |-> r.price, qty |-> n]
  <2>1. PICK f, g : f = MakeFill(r, r.price, n, r.leaves_qty - n)
                    /\ g = MakeFill(o, r.price, n, o.leaves_qty - n)
    OBVIOUS
  <2>2. f.exchange_id = r.exchange_id /\ f.price = r.price /\ f.qty = n
        /\ g.exchange_id = o.exchange_id
    BY <2>1 DEF MakeFill
  <2>3. Announcement(call)' = [kind |-> "trade", maker |-> f.exchange_id, taker |-> g.exchange_id,
                               price |-> f.price, qty |-> f.qty]
    BY <1>2, <2>1, Announcements
  <2> QED BY <2>2, <2>3
<1>13. UNCHANGED (main # "recovery")
  BY <1>2
<1>14. Promise!CanTrade
  BY <1>1, <1>2, CanTradeIs
<1>15. Aggression # Nothing
  BY <1>3, OrderIsSomething
<1>16. Promise!Trade
  <2>1. Ranking[Aggression.symbol][Promise!Counter(Aggression.side)] = Q
    BY <1>1, <1>3
  <2>2. Promise!Min({Aggression.leaves_qty, Head(Q).leaves_qty}) = n
    BY <1>3, <1>4, <1>6, SMTT(30)
  <2>3. Ranking' = [Ranking EXCEPT ![Aggression.symbol][Promise!Counter(Aggression.side)] =
                       IF n = Head(Q).leaves_qty THEN Tail(Q)
                       ELSE Promise!ReplaceAt(Q, 1, [Head(Q) EXCEPT !.leaves_qty = @ - n])]
    BY <1>1, <1>3, <1>4, <1>5, <1>7 DEF RankingBecomes
  <2>4. Aggression' = [Aggression EXCEPT !.leaves_qty = @ - n]
    BY <1>1, <1>3, <1>10
  <2>5. Announcement(call)' = [kind |-> "trade", maker |-> Head(Q).exchange_id,
                               taker |-> Aggression.exchange_id,
                               price |-> Head(Q).price, qty |-> n]
    BY <1>3, <1>4, <1>12
  <2> QED BY <1>10, <1>11, <1>13, <1>14, <1>15, <2>1, <2>2, <2>3, <2>4, <2>5 DEF Promise!Trade
<1> QED BY <1>7, <1>10, <1>16 DEF Allowed, RankInv, RankingBecomes, Promise!Next

\* The remainder rests exactly if it is that of a limit order that is good till
\* cancelled: a fill-or-kill order has none.
LEMMA RestsIs ==
    ASSUME IInv, FInv, RankInv, pc = "match", ~CanMatch(books_[cur.order.symbol], cur.order)
    PROVE  Rests(cur.order) <=> /\ cur.order.leaves_qty > 0 /\ cur.order.type = "limit"
                                /\ cur.order.tif = "gtc"
<1>1. PICK o, book : o = cur.order /\ book = books_[o.symbol]
  OBVIOUS
<1>2. o \in Order /\ BookOK(book)
  BY <1>1, Matching
<1>3. ~(o.leaves_qty > 0 /\ o.tif = "fok")
  <2> SUFFICES ASSUME o.leaves_qty > 0, o.tif = "fok" PROVE FALSE
    OBVIOUS
  <2>1. Reachable(book, o) = {}
    BY <1>1, <1>2, LoopEndReach
  <2>2. SumLeaves(book, Reachable(book, o)) >= o.leaves_qty
    BY <1>1 DEF FInv, Covered
  <2>3. 0 >= o.leaves_qty
    BY <2>1, <2>2, SumOfNone
  <2> QED BY <1>2, <2>3 DEF Order
<1>4. o.tif \in Tifs
  BY <1>2 DEF Order
<1> QED BY <1>1, <1>3, <1>4 DEF Rests, Tifs

LEMMA MatchEndAllowed ==
    ASSUME IInv, FInv, RankInv, MatchEnd
    PROVE  Allowed
<1>1. PICK o, s, book : o = cur.order /\ s = o.symbol /\ book = books_[s]
  OBVIOUS
<1>2. /\ pc = "match" /\ call = NoCall /\ ~CanMatch(book, o)
      /\ books_' = IF Rests(o) THEN [books_ EXCEPT ![s] = PushBack(book, o)] ELSE books_
      /\ call' = AfterAdd(cur) /\ cur' = NoCur /\ pc' = "run" /\ UNCHANGED main
  BY <1>1 DEF MatchEnd
<1>3. /\ o \in Order /\ s \in DOMAIN books_ /\ BookOK(book) /\ BookRanks(book)
      /\ o.side \in Sides /\ o.exchange_id \notin DOMAIN book.order_index_
      /\ PriceOK(o) /\ Aggression = o /\ cur \in Aggressor
      /\ Ranking[s][o.side] = RankedSide(book, o.side)
  BY <1>1, <1>2, Matching
<1>4. Rests(o) <=> o.leaves_qty > 0 /\ o.type = "limit" /\ o.tif = "gtc"
  BY <1>1, <1>2, RestsIs
<1>5. Aggression' = Nothing /\ Replaced' = FALSE /\ ReqOK'
  BY <1>2 DEF Aggression, Replaced, ReqOK
<1>6. UNCHANGED (main # "recovery")
  BY <1>2
<1>7. Announcement(call) = Nothing
  BY <1>2, Announcements
<1>8. ~Promise!CanTrade
  BY <1>1, <1>2, CanTradeIs
<1>9. Aggression # Nothing
  BY <1>3, OrderIsSomething
<1>10. /\ AllRanked'
       /\ Ranking' = IF Rests(o) THEN [Ranking EXCEPT ![s][o.side] = Promise!Insert(@, o)]
                                 ELSE Ranking
  <2>1. CASE Rests(o)
    <3>1. PICK d, Z : d = o.side /\ Z = Promise!Insert(RankedSide(book, d), o)
      OBVIOUS
    <3>2. o.type = "limit" /\ o.price \in Prices
      BY <1>3, <2>1 DEF Rests, PriceOK
    <3>3. SideBecomes(PushBack(book, o), book, d, Z)
      BY <1>3, <3>1, <3>2, PushBackRanked
    <3>4. BookBecomes(s, PushBack(book, o), d, Z)
      BY <1>1, <1>2, <1>3, <2>1, <3>1, <3>3 DEF BookBecomes
    <3>5. RankingBecomes(s, d, Z)
      BY <3>4, RankingUpdate DEF RankInv
    <3> QED BY <1>3, <2>1, <3>1, <3>5 DEF RankingBecomes
  <2>2. CASE ~Rests(o)
    <3>1. Ranking' = Ranking /\ AllRanked'
      BY <1>2, <2>2, RankingSame DEF RankInv
    <3> QED BY <2>2, <3>1
  <2> QED BY <2>1, <2>2
<1>11. cur.tag \in {"ORDER", "REPLACE"}
  BY <1>3 DEF Aggressor
<1>12. CASE cur.tag = "REPLACE"
  <2>1. call' = OnReplace(cur.req, o.leaves_qty)
    BY <1>1, <1>2, <1>12 DEF AfterAdd
  <2>2. Announcement(call)' = [kind |-> "amended", symbol |-> cur.req.symbol,
                               id |-> cur.req.orig_order_id, leaves |-> o.leaves_qty]
    BY <2>1, Announcements
  <2>3. Announcement(call)' = Promise!Amended(o.symbol, o.exchange_id, o.leaves_qty)
    BY <1>1, <1>2, <1>12, <2>2 DEF RankInv, ReqOK, Promise!Amended
  <2>4. Replaced
    BY <1>2, <1>12 DEF Replaced
  <2>5. Promise!Settle
    BY <1>1, <1>3, <1>4, <1>5, <1>6, <1>7, <1>8, <1>9, <1>10, <2>3, <2>4 DEF Promise!Settle
  <2> QED BY <1>5, <1>10, <2>5 DEF Allowed, RankInv, Promise!Next
<1>13. CASE cur.tag = "ORDER"
  <2>1. ~Replaced
    BY <1>13 DEF Replaced
  <2>2. CASE Rests(o)
    <3>1. call' = OnOrderRested([o EXCEPT !.leaves_qty = o.qty], o.leaves_qty)
      BY <1>1, <1>2, <1>4, <1>13, <2>2 DEF AfterAdd
    <3>2. PICK y : y = [o EXCEPT !.leaves_qty = o.qty]
      OBVIOUS
    <3>6. y.exchange_id = o.exchange_id
      BY <1>3, <3>2 DEF Order
    <3>3. Announcement(call)' = [kind |-> "rested", id |-> y.exchange_id, leaves |-> o.leaves_qty]
      BY <3>1, <3>2, Announcements
    <3>4. Announcement(call)' = [kind |-> "rested", id |-> o.exchange_id, leaves |-> o.leaves_qty]
      BY <3>3, <3>6
    <3>5. Promise!Settle
      BY <1>1, <1>3, <1>4, <1>5, <1>6, <1>7, <1>8, <1>9, <1>10, <2>1, <2>2, <3>4 DEF Promise!Settle
    <3> QED BY <1>5, <1>10, <3>5 DEF Allowed, RankInv, Promise!Next
  <2>3. CASE o.tif = "ioc" /\ o.leaves_qty > 0
    <3>1. call' = OnTifCancel(o)
      BY <1>1, <1>2, <1>13, <2>3 DEF AfterAdd
    <3>2. Announcement(call)' = [kind |-> "killed", order |-> o]
      BY <3>1, Announcements
    <3>3. Promise!Settle
      BY <1>1, <1>3, <1>4, <1>5, <1>6, <1>7, <1>8, <1>9, <1>10, <2>1, <2>3, <3>2 DEF Promise!Settle
    <3> QED BY <1>5, <1>10, <3>3 DEF Allowed, RankInv, Promise!Next
  <2>4. CASE ~Rests(o) /\ ~(o.tif = "ioc" /\ o.leaves_qty > 0)
    <3>1. call' = NoCall
      BY <1>1, <1>2, <1>4, <1>13, <2>4 DEF AfterAdd
    <3>2. Announcement(call)' = Nothing
      BY <3>1, Announcements
    <3>3. Promise!Settle
      BY <1>1, <1>3, <1>4, <1>5, <1>6, <1>7, <1>8, <1>9, <1>10, <2>1, <2>4, <3>2 DEF Promise!Settle
    <3> QED BY <1>5, <1>10, <3>3 DEF Allowed, RankInv, Promise!Next
  <2> QED BY <2>2, <2>3, <2>4
<1> QED BY <1>11, <1>12, <1>13

---------------------------------------------------------------------------
(* Every step                                                              *)

LEMMA ReturnAllowed ==
    ASSUME RankInv, CallbackReturn
    PROVE  Allowed
<1>1. call' = NoCall /\ UNCHANGED << books_, main, pc, cur >>
  BY DEF CallbackReturn
<1>2. Announcement(call)' = Nothing
  BY <1>1, Announcements
<1>3. Ranking' = Ranking /\ AllRanked'
  BY <1>1, RankingSame DEF RankInv
<1>4. UNCHANGED << Aggression, Replaced, main # "recovery" >> /\ ReqOK'
  BY <1>1 DEF Aggression, Replaced, RankInv, ReqOK
<1>5. CASE Announcement(call) # Nothing
  <2>1. Promise!Announced
    BY <1>2, <1>3, <1>4, <1>5 DEF Promise!Announced
  <2> QED BY <1>3, <1>4, <2>1 DEF Allowed, RankInv, Promise!Next
<1>6. CASE Announcement(call) = Nothing
  <2>1. UNCHANGED Promise!vars
    BY <1>2, <1>3, <1>4, <1>6 DEF Promise!vars
  <2> QED BY <1>3, <1>4, <2>1 DEF Allowed, RankInv
<1> QED BY <1>5, <1>6

LEMMA NextAllowed ==
    ASSUME IInv, FInv, SumsFit, RankInv, [Next]_vars
    PROVE  Allowed
<1>1. CASE MainNext
  BY <1>1, RestoreAllowed, MainAllowed DEF MainNext
<1>2. CASE AdminNext
  BY <1>2, RegisterAllowed DEF AdminNext
<1>3. CASE GatewayNext
  BY <1>3, GatewayAllowed
<1>4. CASE EngineNext
  <2>1. CASE Exit
    <3>1. UNCHANGED << books_, main, call >> /\ pc # "match" /\ pc' # "match"
      BY <2>1 DEF Exit
    <3> QED BY <3>1, Unseen DEF Allowed
  <2> QED BY <1>4, <2>1, RunOrderAllowed, RunCancelAllowed, RunReplaceAllowed,
             RunSnapshotAllowed, MatchFillAllowed, MatchEndAllowed, ReturnAllowed
          DEF EngineNext
<1>5. CASE Over \/ UNCHANGED vars
  <2>1. UNCHANGED << books_, main, call, pc, cur >>
    BY <1>5 DEF Over, vars
  <2> QED BY <2>1, Unseen DEF Allowed
<1> QED BY <1>1, <1>2, <1>3, <1>4, <1>5 DEF Next

LEMMA InitAllowed ==
    ASSUME Init
    PROVE  RankInv /\ Promise!Init
<1>1. /\ books_ = [s \in InitSymbols |-> EmptyBook] /\ main = "recovery" /\ pc = "created"
      /\ call = NoCall
  BY DEF Init
<1>2. RankInv
  BY <1>1, EmptyRanked DEF RankInv, AllRanked, ReqOK
<1>3. Ranking = [s \in InitSymbols |-> [d \in Sides |-> << >>]]
  <2>1. \A s \in InitSymbols : [d \in Sides |-> RankedSide(books_[s], d)] = [d \in Sides |-> << >>]
    BY <1>1, EmptyRanked
  <2> QED BY <1>1, <2>1 DEF Ranking
<1>4. InitSymbols \in SUBSET Symbols
  BY SymbolAssumption
<1>5. Aggression = Nothing /\ Replaced = FALSE /\ Announcement(call) = Nothing
  BY <1>1, Announcements DEF Aggression, Replaced
<1>6. Promise!Init
  BY <1>1, <1>3, <1>4, <1>5 DEF Promise!Init
<1> QED BY <1>2, <1>6

\* The engine keeps price-time priority for any symbols, prices, orders and requests: every
\* step of MatchingEngine is a step of PriceTimePriority or a stutter, as long as no sum of
\* leaves_qty overflows and no replace and no recovered row asks for a negative quantity.
THEOREM EngineImplementsPriceTime ==
    ASSUME ReplaceQtys \subseteq Nat,
           \A r \in RestingRows : \A i \in DOMAIN r : r[i].leaves_qty >= 0
    PROVE  Spec /\ []SumsFit => ImplementsPriceTime
<1>1. Init => RankInv /\ FInv /\ Promise!Init
  BY InitAllowed, FokInit
<1>2. RankInv /\ FInv /\ IInv /\ SumsFit /\ [Next]_vars => RankInv' /\ FInv' /\ [Promise!Next]_(Promise!vars)
  BY NextAllowed, FokNext DEF Allowed
<1> QED BY <1>1, <1>2, EngineInvariant, PTL DEF Spec, ImplementsPriceTime, Promise!Spec
=============================================================================
