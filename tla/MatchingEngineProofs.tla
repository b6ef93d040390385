----------------------- MODULE MatchingEngineProofs -----------------------
(***************************************************************************)
(* The safety of the matching engine, for any number of symbols, orders    *)
(* and requests, any grid of prices and any quantities, including those a  *)
(* replace request should not carry.                                       *)
(*                                                                         *)
(* The invariants the runs check are not inductive: that a book stays      *)
(* consistent when an order is put in needs that its id is in no book yet, *)
(* and that in turn needs that an id is in one place only and was handed   *)
(* out once (Fresh).  None of this depends on prices: IInv holds of an     *)
(* engine that was handed crossed rows too, and none but those ever cross. *)
(* If they do not, no book is crossed; that needs more: the rows still to  *)
(* be restored fit the books (NothingCrosses).                             *)
(* Fill or kill is at the end: it needs sums over the books.               *)
(***************************************************************************)
EXTENDS MatchingEngine, FiniteSetTheorems, SequenceTheorems, WellFoundedInduction, TLAPS

---------------------------------------------------------------------------
(***************************************************************************)
(* What the operations of a book preserve, for every grid of prices and    *)
(* any quantities.  The consistency of the lists and the index (BookOK)    *)
(* does not depend on the prices in them: a crossed book keeps it too.     *)
(***************************************************************************)

BookOK(book) ==
    /\ BookType(book)
    /\ ListedIsIndexed(book)
    /\ IndexedIsListed(book)
    /\ ListedOnce(book)
    /\ NoEmptyLevel(book)

\* A book with no other levels than another one, and no order elsewhere.
Within(b, book) ==
    /\ \A s \in Sides : DOMAIN b.levels[s] \subseteq DOMAIN book.levels[s]
    /\ \A x \in DOMAIN b.order_index_ :
           /\ x \in DOMAIN book.order_index_
           /\ b.order_index_[x].side = book.order_index_[x].side
           /\ b.order_index_[x].price = book.order_index_[x].price

---------------------------------------------------------------------------
(* The best price                                                          *)

\* A non-empty set of naturals has a least element.
LEMMA NatMinimum ==
    ASSUME NEW T, T \subseteq Nat, T # {}
    PROVE  \E x \in T : \A y \in T : ~(y < x)
<1> DEFINE R == OpToRel(<, Nat)
<1>1. IsWellFoundedOn(R, Nat)
  BY NatLessThanWellFounded
<1>2. \A y, x \in Nat : y < x => << y, x >> \in R
  BY DEF OpToRel
<1> HIDE DEF R
<1>3. \E x \in T : \A y \in T : ~(<< y, x >> \in R)
  BY <1>1, WFMin
<1> QED BY <1>2, <1>3

\* begin() of a non-empty side of the book: a level no other level is better than.
LEMMA BestPriceIsBest ==
    ASSUME NEW book, BookType(book), NEW side \in Sides, DOMAIN book.levels[side] # {}
    PROVE  /\ BestPrice(book, side) \in DOMAIN book.levels[side]
           /\ \A q \in DOMAIN book.levels[side] : ~Better(side, q, BestPrice(book, side))
<1> DEFINE D == DOMAIN book.levels[side]
           Rank(p) == IF side = "buy" THEN MaxPrice - p ELSE p - MinPrice
<1>1. D \subseteq Prices /\ D # {}
  BY DEF BookType
<1>2. \A p \in D : Rank(p) \in Nat /\ p \in Int
  BY <1>1, PriceAssumption DEF Prices
<1>3. \E x \in {Rank(p) : p \in D} : \A y \in {Rank(p) : p \in D} : ~(y < x)
  <2>1. {Rank(p) : p \in D} \subseteq Nat /\ {Rank(p) : p \in D} # {}
    BY <1>1, <1>2
  <2> HIDE DEF Rank
  <2> QED BY <2>1, NatMinimum
<1>4. PICK p \in D : \A q \in D : ~(Rank(q) < Rank(p))
  BY <1>3
<1>5. \A q \in D : ~Better(side, q, p)
  BY <1>2, <1>4, PriceAssumption DEF Better, Sides
<1> QED BY <1>5 DEF BestPrice

---------------------------------------------------------------------------
(* Lists                                                                   *)

\* lst.erase(list_it): the other nodes, each once, and not the erased one.
LEMMA EraseNodeProperties ==
    ASSUME NEW lst \in Seq(Nat), NEW id,
           \E i \in DOMAIN lst : lst[i] = id,
           \A i, j \in DOMAIN lst : lst[i] = lst[j] => i = j
    PROVE  /\ EraseNode(lst, id) \in Seq(Nat)
           /\ \A i \in DOMAIN EraseNode(lst, id) :
                  \E j \in DOMAIN lst : EraseNode(lst, id)[i] = lst[j] /\ lst[j] # id
           /\ \A j \in DOMAIN lst : lst[j] # id =>
                  \E i \in DOMAIN EraseNode(lst, id) : EraseNode(lst, id)[i] = lst[j]
           /\ \A i, j \in DOMAIN EraseNode(lst, id) :
                  EraseNode(lst, id)[i] = EraseNode(lst, id)[j] => i = j
<1> DEFINE k == Position(lst, id)
           n == Len(lst)
           e == EraseNode(lst, id)
<1>1. n \in Nat /\ DOMAIN lst = 1 .. n /\ \A i \in 1 .. n : lst[i] \in Nat
  BY LenProperties, ElementOfSeq
<1>2. k \in 1 .. n /\ lst[k] = id
  BY <1>1 DEF Position
<1>3. e = [i \in 1 .. (n - 1) |-> IF i < k THEN lst[i] ELSE lst[i + 1]]
  BY DEF EraseNode
<1> HIDE DEF k, n, e
<1>4. e \in [1 .. (n - 1) -> Nat] /\ DOMAIN e = 1 .. (n - 1)
  BY <1>1, <1>2, <1>3
<1>5. e \in Seq(Nat)
  <2>1. n - 1 \in Nat
    BY <1>1, <1>2
  <2> QED BY <1>4, <2>1, SeqDef
<1> DEFINE src(i) == IF i < k THEN i ELSE i + 1
<1>6. ASSUME NEW i \in 1 .. (n - 1)
      PROVE  src(i) \in 1 .. n /\ src(i) # k /\ e[i] = lst[src(i)] /\ lst[src(i)] # id
  <2>1. src(i) \in 1 .. n /\ src(i) # k /\ e[i] = lst[src(i)]
    BY <1>1, <1>2, <1>3
  <2> HIDE DEF src
  <2> QED BY <1>1, <1>2, <2>1
<1>7. ASSUME NEW j \in 1 .. n, lst[j] # id
      PROVE  \E i \in 1 .. (n - 1) : e[i] = lst[j]
  <2>1. CASE j < k
    <3>1. j \in 1 .. (n - 1) /\ e[j] = lst[j]
      BY <1>1, <1>2, <1>3, <2>1
    <3> QED BY <3>1
  <2>2. CASE j > k
    <3>1. j - 1 \in 1 .. (n - 1) /\ ~(j - 1 < k) /\ (j - 1) + 1 = j
      BY <1>1, <1>2, <2>2
    <3>2. e[j - 1] = lst[j]
      BY <1>3, <3>1
    <3> QED BY <3>1, <3>2
  <2> QED BY <1>1, <1>2, <1>7, <2>1, <2>2
<1>8. ASSUME NEW i \in 1 .. (n - 1), NEW j \in 1 .. (n - 1), e[i] = e[j]
      PROVE  i = j
  <2>1. src(i) = src(j)
    <3> HIDE DEF src
    <3> QED BY <1>1, <1>6, <1>8
  <2> QED BY <1>1, <1>2, <2>1
<1> HIDE DEF src
<1> QED BY <1>1, <1>4, <1>5, <1>6, <1>7, <1>8 DEF e

\* lst.push_back: the same nodes and one more at the end.
LEMMA AppendListProperties ==
    ASSUME NEW lst \in Seq(Nat), NEW id \in Nat
    PROVE  /\ Append(lst, id) \in Seq(Nat)
           /\ Append(lst, id) # << >>
           /\ DOMAIN Append(lst, id) = DOMAIN lst \cup {Len(lst) + 1}
           /\ Len(lst) + 1 \notin DOMAIN lst
           /\ Append(lst, id)[Len(lst) + 1] = id
           /\ \A i \in DOMAIN lst : Append(lst, id)[i] = lst[i]
<1>1. Len(lst) \in Nat /\ DOMAIN lst = 1 .. Len(lst)
  BY LenProperties
<1>2. /\ Append(lst, id) \in Seq(Nat)
      /\ Append(lst, id) # << >>
      /\ Len(Append(lst, id)) = Len(lst) + 1
      /\ \A i \in 1 .. Len(lst) : Append(lst, id)[i] = lst[i]
      /\ Append(lst, id)[Len(lst) + 1] = id
  BY AppendProperties
<1>3. DOMAIN Append(lst, id) = 1 .. (Len(lst) + 1)
  BY <1>2, LenProperties
<1>4. 1 .. (Len(lst) + 1) = (1 .. Len(lst)) \cup {Len(lst) + 1}
  BY <1>1
<1> QED BY <1>1, <1>2, <1>3, <1>4
---------------------------------------------------------------------------
(* Books                                                                   *)

\* A book as the constructor leaves it.
LEMMA EmptyBookOK == BookOK(EmptyBook) /\ NotCrossed(EmptyBook)
  BY DEF EmptyBook, NoEntry, BookOK, BookType, ListedIsIndexed, IndexedIsListed, ListedOnce,
         NoEmptyLevel, NotCrossed, Sides

\* Replacing the order kept in a node by one that may stay there.
LEMMA UpdateNodeOK ==
    ASSUME NEW book, BookOK(book), NEW id \in DOMAIN book.order_index_, NEW o \in Order,
           o.exchange_id = id,
           o.side = book.order_index_[id].side,
           o.price = book.order_index_[id].price,
           o.type = "limit"
    PROVE  LET b == [book EXCEPT !.order_index_ = Put(@, id, o)]
           IN  BookOK(b) /\ b.order_index_ = Put(book.order_index_, id, o) /\ Within(b, book)
<1> DEFINE b == [book EXCEPT !.order_index_ = Put(@, id, o)]
<1>1. b = [levels |-> book.levels, order_index_ |-> Put(book.order_index_, id, o)]
  BY DEF BookOK, BookType
<1>2. /\ DOMAIN b.order_index_ = DOMAIN book.order_index_
      /\ \A x \in DOMAIN book.order_index_ :
             b.order_index_[x] = IF x = id THEN o ELSE book.order_index_[x]
      /\ b.levels = book.levels
      /\ DOMAIN b = {"levels", "order_index_"}
      /\ b = [levels |-> b.levels, order_index_ |-> b.order_index_]
      /\ b.order_index_ = Put(book.order_index_, id, o)
  BY <1>1 DEF Put
<1> HIDE DEF b
<1>3. BookType(b)
  BY <1>2 DEF BookOK, BookType
<1>4. ListedIsIndexed(b)
  BY <1>2 DEF BookOK, ListedIsIndexed
<1>5. IndexedIsListed(b)
  <2> SUFFICES ASSUME NEW x \in DOMAIN b.order_index_
               PROVE  LET r == b.order_index_[x]
                      IN  /\ r.exchange_id = x
                          /\ r.type = "limit"
                          /\ r.price \in DOMAIN b.levels[r.side]
                          /\ \E i \in DOMAIN b.levels[r.side][r.price] :
                                 b.levels[r.side][r.price][i] = x
    BY SMTT(30) DEF IndexedIsListed
  <2> DEFINE r == b.order_index_[x]
             q == book.order_index_[x]
  <2>1. /\ q.exchange_id = x /\ q.type = "limit" /\ q.price \in DOMAIN book.levels[q.side]
        /\ \E i \in DOMAIN book.levels[q.side][q.price] : book.levels[q.side][q.price][i] = x
    BY <1>2, Zenon DEF BookOK, IndexedIsListed
  <2>2. /\ r.exchange_id = x /\ r.type = "limit"
        /\ r.side = q.side /\ r.price = q.price
    BY <1>2, <2>1
  <2> HIDE DEF r, q
  <2>3. /\ r.price \in DOMAIN b.levels[r.side]
        /\ \E i \in DOMAIN b.levels[r.side][r.price] : b.levels[r.side][r.price][i] = x
    BY <1>2, <2>1, <2>2
  <2> QED BY <2>2, <2>3, SMTT(30) DEF r
<1>6. ListedOnce(b) /\ NoEmptyLevel(b) /\ Within(b, book)
  BY <1>2 DEF BookOK, ListedOnce, NoEmptyLevel, Within
<1> QED BY <1>2, <1>3, <1>4, <1>5, <1>6 DEF BookOK, b

\* Taking an order out.
LEMMA UnlinkOK ==
    ASSUME NEW book, BookOK(book), NEW id \in DOMAIN book.order_index_
    PROVE  /\ BookOK(Unlink(book, id))
           /\ Unlink(book, id).order_index_ = Drop(book.order_index_, id)
           /\ Within(Unlink(book, id), book)
<1> DEFINE o == book.order_index_[id]
           side == book.levels[o.side]
           old == side[o.price]
           lst == EraseNode(old, id)
           new == IF lst = << >> THEN Drop(side, o.price) ELSE Put(side, o.price, lst)
           b == Unlink(book, id)
<1>1. /\ o \in Order /\ o.side \in Sides /\ o.price \in DOMAIN side
      /\ old \in Seq(Nat)
      /\ \E i \in DOMAIN old : old[i] = id
      /\ \A i, j \in DOMAIN old : old[i] = old[j] => i = j
  <2>1. o \in Order
    BY DEF BookOK, BookType
  <2>2. o.side \in Sides
    BY <2>1, SMTT(30) DEF Order
  <2>3. o.price \in DOMAIN side /\ \E i \in DOMAIN old : old[i] = id
    BY DEF BookOK, IndexedIsListed
  <2>4. old \in Seq(Nat)
    BY <2>2, <2>3, SMTT(30) DEF BookOK, BookType
  <2>5. \A i, j \in DOMAIN old : old[i] = old[j] => i = j
    BY <2>2, <2>3 DEF BookOK, ListedOnce
  <2> QED BY <2>1, <2>2, <2>3, <2>4, <2>5, Zenon
<1>2. /\ lst \in Seq(Nat)
      /\ \A i \in DOMAIN lst : \E j \in DOMAIN old : lst[i] = old[j] /\ old[j] # id
      /\ \A j \in DOMAIN old : old[j] # id => \E i \in DOMAIN lst : lst[i] = old[j]
      /\ \A i, j \in DOMAIN lst : lst[i] = lst[j] => i = j
  <2> HIDE DEF old
  <2> QED BY <1>1, EraseNodeProperties
<1>3. b = [levels |-> [book.levels EXCEPT ![o.side] = new],
           order_index_ |-> Drop(book.order_index_, id)]
  BY DEF Unlink
<1>4. /\ DOMAIN b = {"levels", "order_index_"}
      /\ b = [levels |-> b.levels, order_index_ |-> b.order_index_]
      /\ DOMAIN b.levels = Sides
      /\ b.levels = [s \in Sides |-> b.levels[s]]
      /\ b.levels[o.side] = new
      /\ \A s \in Sides : s # o.side => b.levels[s] = book.levels[s]
      /\ b.order_index_ = Drop(book.order_index_, id)
      /\ DOMAIN b.order_index_ = DOMAIN book.order_index_ \ {id}
      /\ \A x \in DOMAIN book.order_index_ : x # id => b.order_index_[x] = book.order_index_[x]
  <2> HIDE DEF new, o
  <2>1. o.side \in Sides /\ DOMAIN book.levels = Sides
    BY <1>1 DEF BookOK, BookType
  <2> HIDE DEF b
  <2> QED BY <1>3, <2>1 DEF Drop
<1>5. /\ DOMAIN new \subseteq DOMAIN side
      /\ \A p \in DOMAIN side : p # o.price => p \in DOMAIN new /\ new[p] = side[p]
      /\ o.price \in DOMAIN new <=> lst # << >>
      /\ o.price \in DOMAIN new => new[o.price] = lst
  BY <1>1, Zenon DEF Drop, Put
<1>0. o = book.order_index_[id] /\ side = book.levels[o.side] /\ old = side[o.price]
  OBVIOUS
<1> HIDE DEF b, new, lst, o, side, old
<1>6. BookType(b)
  <2>1. ASSUME NEW s \in Sides
        PROVE  /\ DOMAIN b.levels[s] \subseteq Prices
               /\ \A p \in DOMAIN b.levels[s] : b.levels[s][p] \in Seq(Nat)
    <3>1. /\ DOMAIN book.levels[s] \subseteq Prices
          /\ \A p \in DOMAIN book.levels[s] : book.levels[s][p] \in Seq(Nat)
      BY DEF BookOK, BookType
    <3>2. CASE s = o.side
      <4>1. b.levels[s] = new /\ side = book.levels[s]
        BY <1>0, <1>4, <3>2
      <4>2. ASSUME NEW p \in DOMAIN new PROVE new[p] \in Seq(Nat)
        BY <1>2, <1>5, <3>1, <4>1
      <4> QED BY <1>5, <3>1, <4>1, <4>2
    <3>3. CASE s # o.side
      BY <1>4, <3>1, <3>3
    <3> QED BY <3>2, <3>3
  <2>2. /\ DOMAIN b.order_index_ \subseteq Nat
        /\ \A x \in DOMAIN b.order_index_ : b.order_index_[x] \in Order
    BY <1>4 DEF BookOK, BookType
  <2> QED BY <1>4, <2>1, <2>2 DEF BookType
<1>7. ListedIsIndexed(b)
  <2> SUFFICES ASSUME NEW s \in Sides, NEW p \in DOMAIN b.levels[s],
                      NEW i \in DOMAIN b.levels[s][p]
               PROVE  /\ b.levels[s][p][i] \in DOMAIN b.order_index_
                      /\ b.order_index_[b.levels[s][p][i]].side = s
                      /\ b.order_index_[b.levels[s][p][i]].price = p
    BY SMTT(30) DEF ListedIsIndexed
  <2>1. CASE s = o.side /\ p = o.price
    <3>1. PICK j \in DOMAIN old : lst[i] = old[j] /\ old[j] # id
      BY <1>2, <1>4, <1>5, <2>1
    <3>2. b.levels[s][p][i] = old[j]
      BY <1>4, <1>5, <2>1, <3>1, SMTT(30)
    <3>3. /\ old[j] \in DOMAIN book.order_index_
          /\ book.order_index_[old[j]].side = o.side
          /\ book.order_index_[old[j]].price = o.price
      <4>1. /\ o.side \in Sides /\ o.price \in DOMAIN book.levels[o.side]
            /\ j \in DOMAIN book.levels[o.side][o.price]
            /\ old[j] = book.levels[o.side][o.price][j]
        BY <1>0, <1>1, Zenon
      <4> QED BY <4>1 DEF BookOK, ListedIsIndexed
    <3> QED BY <1>4, <2>1, <3>1, <3>2, <3>3
  <2>2. CASE ~(s = o.side /\ p = o.price)
    <3>1. p \in DOMAIN book.levels[s] /\ b.levels[s][p] = book.levels[s][p]
      BY <1>0, <1>4, <1>5, <2>2
    <3>2. book.levels[s][p][i] # id
      BY <1>0, <2>2, <3>1, SMTT(30) DEF BookOK, ListedIsIndexed
    <3> QED BY <1>4, <3>1, <3>2 DEF BookOK, ListedIsIndexed
  <2> QED BY <2>1, <2>2
<1>8. IndexedIsListed(b)
  <2> SUFFICES ASSUME NEW x \in DOMAIN b.order_index_
               PROVE  LET r == b.order_index_[x]
                      IN  /\ r.exchange_id = x
                          /\ r.type = "limit"
                          /\ r.price \in DOMAIN b.levels[r.side]
                          /\ \E i \in DOMAIN b.levels[r.side][r.price] :
                                 b.levels[r.side][r.price][i] = x
    BY DEF IndexedIsListed
  <2> DEFINE r == b.order_index_[x]
  <2>1. x \in DOMAIN book.order_index_ /\ x # id /\ r = book.order_index_[x]
    BY <1>4, SMTT(30)
  <2>2. /\ r.exchange_id = x /\ r.type = "limit" /\ r.side \in Sides
        /\ r.price \in DOMAIN book.levels[r.side]
        /\ \E i \in DOMAIN book.levels[r.side][r.price] : book.levels[r.side][r.price][i] = x
    <3>1. book.order_index_[x] \in Order
      BY <2>1 DEF BookOK, BookType
    <3>2. book.order_index_[x].side \in Sides
      BY <3>1 DEF Order
    <3> QED BY <2>1, <3>2 DEF BookOK, IndexedIsListed
  <2> HIDE DEF r
  <2>3. CASE r.side = o.side /\ r.price = o.price
    <3>0. PICK j \in DOMAIN old : old[j] = x
      BY <1>0, <2>2, <2>3, Zenon
    <3>1. \E i \in DOMAIN lst : lst[i] = x
      BY <1>2, <2>1, <3>0
    <3>2. lst # << >>
      BY <3>1
    <3>3. r.price \in DOMAIN b.levels[r.side] /\ b.levels[r.side][r.price] = lst
      BY <1>4, <1>5, <2>3, <3>2
    <3> QED BY <2>2, <3>1, <3>3, SMTT(30) DEF r
  <2>4. CASE ~(r.side = o.side /\ r.price = o.price)
    <3>1. r.price \in DOMAIN b.levels[r.side] /\ b.levels[r.side][r.price] = book.levels[r.side][r.price]
      BY <1>0, <1>4, <1>5, <2>2, <2>4
    <3> QED BY <2>2, <3>1, Zenon DEF r
  <2> QED BY <2>3, <2>4, SMTT(30)
<1>9. ListedOnce(b) /\ NoEmptyLevel(b)
  <2> SUFFICES ASSUME NEW s \in Sides, NEW p \in DOMAIN b.levels[s]
               PROVE  /\ b.levels[s][p] # << >>
                      /\ \A i, j \in DOMAIN b.levels[s][p] :
                             b.levels[s][p][i] = b.levels[s][p][j] => i = j
    BY DEF ListedOnce, NoEmptyLevel
  <2>1. CASE s = o.side /\ p = o.price
    <3>1. b.levels[s][p] = lst /\ lst # << >>
      BY <1>4, <1>5, <2>1
    <3> QED BY <1>2, <3>1
  <2>2. CASE ~(s = o.side /\ p = o.price)
    <3>1. p \in DOMAIN book.levels[s] /\ b.levels[s][p] = book.levels[s][p]
      BY <1>0, <1>4, <1>5, <2>2
    <3> QED BY <3>1 DEF BookOK, ListedOnce, NoEmptyLevel
  <2> QED BY <2>1, <2>2
<1>10. Within(b, book)
  <2> HIDE DEF b, o, side
  <2>1. \A s \in Sides : DOMAIN b.levels[s] \subseteq DOMAIN book.levels[s]
    BY <1>0, <1>4, <1>5 DEF side
  <2>2. \A x \in DOMAIN b.order_index_ :
            x \in DOMAIN book.order_index_ /\ b.order_index_[x] = book.order_index_[x]
    BY <1>4
  <2> QED BY <2>1, <2>2 DEF Within
<1> QED BY <1>4, <1>6, <1>7, <1>8, <1>9, <1>10 DEF BookOK, b
\* The price of o crosses no level of the opposite side.
Fits(book, o) ==
    IF o.side = "buy" THEN \A a \in DOMAIN book.levels["sell"] : o.price < a
                      ELSE \A b \in DOMAIN book.levels["buy"] : b < o.price

\* Fewer orders cross no more.
LEMMA WithinCrosses ==
    ASSUME NEW book, NEW b, Within(b, book)
    PROVE  CrossPairs(b) \subseteq CrossPairs(book)
  BY DEF Within, CrossPairs

\* A book in which no two orders cross has no crossed levels.
LEMMA NoPairNotCrossed ==
    ASSUME NEW book, BookOK(book), CrossPairs(book) = {}
    PROVE  NotCrossed(book)
<1> SUFFICES ASSUME NEW b \in DOMAIN book.levels["buy"], NEW a \in DOMAIN book.levels["sell"]
             PROVE  b < a
  BY DEF NotCrossed
<1>1. b \in Int /\ a \in Int
  BY PriceAssumption DEF BookOK, BookType, Prices, Sides
<1>2. \A s \in Sides : \A p \in DOMAIN book.levels[s] :
          \E id \in DOMAIN book.order_index_ :
              book.order_index_[id].side = s /\ book.order_index_[id].price = p
  <2> SUFFICES ASSUME NEW s \in Sides, NEW p \in DOMAIN book.levels[s]
               PROVE  \E id \in DOMAIN book.order_index_ :
                          book.order_index_[id].side = s /\ book.order_index_[id].price = p
    OBVIOUS
  <2>1. PICK lst : lst = book.levels[s][p]
    OBVIOUS
  <2>2. lst \in Seq(Nat) /\ lst # << >>
    BY <2>1 DEF BookOK, BookType, NoEmptyLevel
  <2>3. 1 \in DOMAIN lst
    BY <2>2
  <2> QED BY <2>1, <2>3 DEF BookOK, ListedIsIndexed
<1>3. PICK x \in DOMAIN book.order_index_ :
          book.order_index_[x].side = "buy" /\ book.order_index_[x].price = b
  BY <1>2 DEF Sides
<1>4. PICK y \in DOMAIN book.order_index_ :
          book.order_index_[y].side = "sell" /\ book.order_index_[y].price = a
  BY <1>2 DEF Sides
<1>5. ~(b >= a)
  <2>1. << x, y >> \notin CrossPairs(book)
    OBVIOUS
  <2> QED BY <1>3, <1>4, <2>1 DEF CrossPairs
<1> QED BY <1>1, <1>5

LEMMA NotCrossedNoPair ==
    ASSUME NEW book, BookOK(book), NotCrossed(book)
    PROVE  CrossPairs(book) = {}
<1> SUFFICES ASSUME NEW p \in CrossPairs(book) PROVE FALSE
  OBVIOUS
<1>1. PICK b, a : b = book.order_index_[p[1]].price /\ a = book.order_index_[p[2]].price
  OBVIOUS
<1>2. /\ b \in DOMAIN book.levels["buy"] /\ a \in DOMAIN book.levels["sell"]
      /\ b >= a /\ b \in Int /\ a \in Int
  BY <1>1 DEF CrossPairs, BookOK, BookType, IndexedIsListed, Order
<1> QED BY <1>2 DEF NotCrossed

\* An order that crosses no level crosses no order.
LEMMA FitsCrosses ==
    ASSUME NEW book, BookOK(book), NEW o \in Order, Fits(book, o),
           NEW b, b.order_index_ = Put(book.order_index_, o.exchange_id, o)
    PROVE  CrossPairs(b) \subseteq CrossPairs(book)
<1> SUFFICES ASSUME NEW p \in CrossPairs(b) PROVE p \in CrossPairs(book)
  OBVIOUS
<1>1. PICK id : id = o.exchange_id
  OBVIOUS
<1>2. PICK x, y : x = p[1] /\ y = p[2]
  OBVIOUS
<1>3. /\ p = << x, y >>
      /\ x \in DOMAIN book.order_index_ \cup {id} /\ y \in DOMAIN book.order_index_ \cup {id}
      /\ b.order_index_[x].side = "buy" /\ b.order_index_[y].side = "sell"
      /\ b.order_index_[x].price >= b.order_index_[y].price
  BY <1>1, <1>2 DEF CrossPairs, Put
<1>4. /\ b.order_index_[id] = o
      /\ \A z \in DOMAIN book.order_index_ : z # id => b.order_index_[z] = book.order_index_[z]
  BY <1>1 DEF Put
<1>5. \A z \in DOMAIN book.order_index_ :
          /\ book.order_index_[z].price \in DOMAIN book.levels[book.order_index_[z].side]
          /\ book.order_index_[z].price \in Int
  BY DEF BookOK, BookType, IndexedIsListed, Order
<1>6. x # id
  <2> SUFFICES ASSUME x = id PROVE FALSE
    OBVIOUS
  <2>1. o.side = "buy" /\ y # id /\ y \in DOMAIN book.order_index_
    BY <1>3, <1>4
  <2>2. book.order_index_[y].side = "sell" /\ o.price >= book.order_index_[y].price
    BY <1>3, <1>4, <2>1
  <2>3. o.price < book.order_index_[y].price
    BY <1>5, <2>1, <2>2 DEF Fits
  <2> QED BY <1>5, <2>1, <2>2, <2>3 DEF Order
<1>7. y # id
  <2> SUFFICES ASSUME y = id PROVE FALSE
    OBVIOUS
  <2>1. o.side = "sell" /\ x \in DOMAIN book.order_index_
    BY <1>3, <1>4, <1>6
  <2>2. book.order_index_[x].side = "buy" /\ book.order_index_[x].price >= o.price
    BY <1>3, <1>4, <1>6
  <2>3. book.order_index_[x].price < o.price
    BY <1>5, <2>1, <2>2 DEF Fits
  <2> QED BY <1>5, <2>1, <2>2, <2>3 DEF Order
<1> QED BY <1>3, <1>4, <1>6, <1>7 DEF CrossPairs

\* Putting an order in, at the end of the list of its price.
LEMMA PushBackOK ==
    ASSUME NEW book, BookOK(book), NEW o \in Order,
           o.type = "limit", o.price \in Prices,
           o.exchange_id \notin DOMAIN book.order_index_
    PROVE  /\ BookOK(PushBack(book, o))
           /\ PushBack(book, o).order_index_ = Put(book.order_index_, o.exchange_id, o)
           /\ NotCrossed(book) /\ Fits(book, o) => NotCrossed(PushBack(book, o))
<1> DEFINE id == o.exchange_id
           side == book.levels[o.side]
           old == IF o.price \in DOMAIN side THEN side[o.price] ELSE << >>
           lst == Append(old, id)
           new == Put(side, o.price, lst)
           b == PushBack(book, o)
<1>1. id \in Nat /\ o.side \in Sides
  BY DEF Order
<1>2. /\ old \in Seq(Nat)
      /\ \A i, j \in DOMAIN old : old[i] = old[j] => i = j
      /\ \A i \in DOMAIN old :
             /\ old[i] \in DOMAIN book.order_index_
             /\ book.order_index_[old[i]].side = o.side
             /\ book.order_index_[old[i]].price = o.price
  <2>1. CASE o.price \in DOMAIN side
    <3>1. old = book.levels[o.side][o.price] /\ o.price \in DOMAIN book.levels[o.side]
      BY <2>1
    <3> HIDE DEF old, side
    <3>2. old \in Seq(Nat)
      BY <1>1, <3>1 DEF BookOK, BookType
    <3>3. \A i, j \in DOMAIN old : old[i] = old[j] => i = j
      BY <1>1, <3>1, SMTT(30) DEF BookOK, ListedOnce
    <3>4. ASSUME NEW i \in DOMAIN old
          PROVE  /\ old[i] \in DOMAIN book.order_index_
                 /\ book.order_index_[old[i]].side = o.side
                 /\ book.order_index_[old[i]].price = o.price
      BY <1>1, <3>1 DEF BookOK, ListedIsIndexed
    <3> QED BY <3>2, <3>3, <3>4
  <2>2. CASE o.price \notin DOMAIN side
    <3>1. old = << >>
      BY <2>2
    <3> HIDE DEF old
    <3> QED BY <3>1
  <2> QED BY <2>1, <2>2, Zenon
<1>3. /\ lst \in Seq(Nat) /\ lst # << >>
      /\ DOMAIN lst = DOMAIN old \cup {Len(old) + 1}
      /\ lst[Len(old) + 1] = id
      /\ \A i \in DOMAIN old : lst[i] = old[i]
  <2> HIDE DEF old
  <2> QED BY <1>1, <1>2, AppendListProperties
<1>4. b = [levels |-> [book.levels EXCEPT ![o.side] = new],
           order_index_ |-> Put(book.order_index_, id, o)]
  BY DEF PushBack
<1>5. /\ DOMAIN new = DOMAIN side \cup {o.price}
      /\ new[o.price] = lst
      /\ \A p \in DOMAIN side : p # o.price => new[p] = side[p]
      /\ o.price \in DOMAIN side => old = side[o.price]
      /\ side = book.levels[o.side]
  BY DEF Put
<1>6. /\ DOMAIN b = {"levels", "order_index_"}
      /\ b = [levels |-> b.levels, order_index_ |-> b.order_index_]
      /\ DOMAIN b.levels = Sides
      /\ b.levels = [s \in Sides |-> b.levels[s]]
      /\ b.levels[o.side] = new
      /\ \A s \in Sides : s # o.side => b.levels[s] = book.levels[s]
      /\ b.order_index_ = Put(book.order_index_, id, o)
      /\ DOMAIN b.order_index_ = DOMAIN book.order_index_ \cup {id}
      /\ b.order_index_[id] = o
      /\ \A x \in DOMAIN book.order_index_ : b.order_index_[x] = book.order_index_[x]
  <2>1. DOMAIN book.levels = Sides /\ id \notin DOMAIN book.order_index_
    BY DEF BookOK, BookType
  <2> HIDE DEF new, b, id
  <2> QED BY <1>1, <1>4, <2>1 DEF Put
<1> HIDE DEF b, new, lst, side, old
<1>7. BookType(b)
  <2>1. ASSUME NEW s \in Sides
        PROVE  /\ DOMAIN b.levels[s] \subseteq Prices
               /\ \A p \in DOMAIN b.levels[s] : b.levels[s][p] \in Seq(Nat)
    <3>1. /\ DOMAIN book.levels[s] \subseteq Prices
          /\ \A p \in DOMAIN book.levels[s] : book.levels[s][p] \in Seq(Nat)
      BY DEF BookOK, BookType
    <3>2. CASE s = o.side
      <4>1. b.levels[s] = new /\ side = book.levels[s]
        BY <1>5, <1>6, <3>2
      <4>2. ASSUME NEW p \in DOMAIN new PROVE new[p] \in Seq(Nat)
        BY <1>3, <1>5, <3>1, <4>1
      <4> QED BY <1>5, <3>1, <4>1, <4>2
    <3>3. CASE s # o.side
      BY <1>6, <3>1, <3>3
    <3> QED BY <3>2, <3>3
  <2>2. /\ DOMAIN b.order_index_ \subseteq Nat
        /\ \A x \in DOMAIN b.order_index_ : b.order_index_[x] \in Order
    BY <1>1, <1>6 DEF BookOK, BookType
  <2> QED BY <1>6, <2>1, <2>2 DEF BookType
<1>8. ASSUME NEW s \in Sides, NEW p \in DOMAIN b.levels[s], ~(s = o.side /\ p = o.price)
      PROVE  p \in DOMAIN book.levels[s] /\ b.levels[s][p] = book.levels[s][p]
  BY <1>5, <1>6, <1>8
<1>9. ListedIsIndexed(b)
  <2> SUFFICES ASSUME NEW s \in Sides, NEW p \in DOMAIN b.levels[s],
                      NEW i \in DOMAIN b.levels[s][p]
               PROVE  /\ b.levels[s][p][i] \in DOMAIN b.order_index_
                      /\ b.order_index_[b.levels[s][p][i]].side = s
                      /\ b.order_index_[b.levels[s][p][i]].price = p
    BY DEF ListedIsIndexed
  <2>1. CASE s = o.side /\ p = o.price
    <3>1. b.levels[s][p] = lst
      BY <1>5, <1>6, <2>1, SMTT(30)
    <3>2. CASE i \in DOMAIN old
      BY <1>2, <1>3, <1>6, <2>1, <3>1, <3>2, SMTT(30)
    <3>3. CASE i = Len(old) + 1
      BY <1>3, <1>6, <2>1, <3>1, <3>3
    <3> QED BY <1>3, <3>1, <3>2, <3>3
  <2>2. CASE ~(s = o.side /\ p = o.price)
    <3>1. p \in DOMAIN book.levels[s] /\ b.levels[s][p] = book.levels[s][p]
      BY <1>8, <2>2
    <3> QED BY <1>6, <3>1, SMTT(30) DEF BookOK, ListedIsIndexed
  <2> QED BY <2>1, <2>2
<1>10. IndexedIsListed(b)
  <2> SUFFICES ASSUME NEW x \in DOMAIN b.order_index_
               PROVE  LET r == b.order_index_[x]
                      IN  /\ r.exchange_id = x
                          /\ r.type = "limit"
                          /\ r.price \in DOMAIN b.levels[r.side]
                          /\ \E i \in DOMAIN b.levels[r.side][r.price] :
                                 b.levels[r.side][r.price][i] = x
    BY DEF IndexedIsListed
  <2>1. CASE x = id
    <3>1. b.levels[o.side][o.price] = lst /\ o.price \in DOMAIN b.levels[o.side]
      BY <1>5, <1>6
    <3> QED BY <1>3, <1>6, <2>1, <3>1, Zenon
  <2>2. CASE x # id
    <3> DEFINE r == b.order_index_[x]
    <3>1. x \in DOMAIN book.order_index_ /\ r = book.order_index_[x]
      BY <1>6, <2>2, SMTT(30)
    <3>2. /\ r.exchange_id = x /\ r.type = "limit" /\ r.side \in Sides
          /\ r.price \in DOMAIN book.levels[r.side]
          /\ \E i \in DOMAIN book.levels[r.side][r.price] : book.levels[r.side][r.price][i] = x
      <4>1. book.order_index_[x] \in Order
        BY <3>1 DEF BookOK, BookType
      <4>2. book.order_index_[x].side \in Sides
        BY <4>1 DEF Order
      <4> QED BY <3>1, <4>2 DEF BookOK, IndexedIsListed
    <3> HIDE DEF r
    <3>3. CASE r.side = o.side /\ r.price = o.price
      <4>1. PICK j \in DOMAIN old : old[j] = x
        BY <1>5, <3>2, <3>3
      <4>2. j \in DOMAIN lst /\ lst[j] = x
        BY <1>3, <4>1
      <4>3. r.price \in DOMAIN b.levels[r.side] /\ b.levels[r.side][r.price] = lst
        BY <1>5, <1>6, <3>3
      <4> QED BY <3>2, <4>2, <4>3 DEF r
    <3>4. CASE ~(r.side = o.side /\ r.price = o.price)
      <4>1. r.price \in DOMAIN b.levels[r.side]
        BY <1>5, <1>6, <3>2
      <4>2. b.levels[r.side][r.price] = book.levels[r.side][r.price]
        BY <1>8, <3>2, <3>4, <4>1
      <4> QED BY <3>2, <4>1, <4>2, Zenon DEF r
    <3> QED BY <3>3, <3>4
  <2> QED BY <2>1, <2>2, SMTT(30)
<1>11. ListedOnce(b) /\ NoEmptyLevel(b)
  <2> SUFFICES ASSUME NEW s \in Sides, NEW p \in DOMAIN b.levels[s]
               PROVE  /\ b.levels[s][p] # << >>
                      /\ \A i, j \in DOMAIN b.levels[s][p] :
                             b.levels[s][p][i] = b.levels[s][p][j] => i = j
    BY DEF ListedOnce, NoEmptyLevel
  <2>1. CASE s = o.side /\ p = o.price
    <3>1. b.levels[s][p] = lst
      BY <1>5, <1>6, <2>1
    <3>2. \A i \in DOMAIN old : old[i] # id
      BY <1>2
    <3>3. \A i, j \in DOMAIN lst : lst[i] = lst[j] => i = j
      BY <1>2, <1>3, <3>2
    <3> QED BY <1>3, <3>1, <3>3
  <2>2. CASE ~(s = o.side /\ p = o.price)
    <3>1. p \in DOMAIN book.levels[s] /\ b.levels[s][p] = book.levels[s][p]
      BY <1>8, <2>2
    <3> QED BY <3>1 DEF BookOK, ListedOnce, NoEmptyLevel
  <2> QED BY <2>1, <2>2
<1>12. NotCrossed(book) /\ Fits(book, o) => NotCrossed(b)
  <2>1. CASE o.side = "buy"
    <3>1. DOMAIN b.levels["buy"] = DOMAIN book.levels["buy"] \cup {o.price}
      BY <1>5, <1>6, <2>1
    <3>2. DOMAIN b.levels["sell"] = DOMAIN book.levels["sell"]
      BY <1>6, <2>1 DEF Sides
    <3> QED BY <2>1, <3>1, <3>2 DEF NotCrossed, Fits
  <2>2. CASE o.side = "sell"
    <3>1. DOMAIN b.levels["sell"] = DOMAIN book.levels["sell"] \cup {o.price}
      BY <1>5, <1>6, <2>2
    <3>2. DOMAIN b.levels["buy"] = DOMAIN book.levels["buy"]
      BY <1>6, <2>2 DEF Sides
    <3> QED BY <2>2, <3>1, <3>2 DEF NotCrossed, Fits
  <2> QED BY <1>1, <2>1, <2>2 DEF Sides
<1> QED BY <1>6, <1>7, <1>9, <1>10, <1>11, <1>12 DEF BookOK, b
---------------------------------------------------------------------------
(* Matching                                                                *)

\* The order match_against takes from the front of the best opposite level.
LEMMA RestingProperties ==
    ASSUME NEW book, BookOK(book), NEW o \in Order, CanMatch(book, o)
    PROVE  /\ Resting(book, o) \in Order
           /\ Resting(book, o).exchange_id \in DOMAIN book.order_index_
           /\ book.order_index_[Resting(book, o).exchange_id] = Resting(book, o)
           /\ Resting(book, o).type = "limit"
           /\ Resting(book, o).side = Opposite(o.side)
           /\ Resting(book, o).price = BestPrice(book, Opposite(o.side))
           /\ Resting(book, o).price \in Prices
<1> DEFINE side == Opposite(o.side)
           p == BestPrice(book, side)
           lst == book.levels[side][p]
           id == Head(lst)
<1>1. side \in Sides
  BY DEF Order, Opposite, Sides
<1>2. p \in DOMAIN book.levels[side]
  BY <1>1, BestPriceIsBest DEF BookOK, CanMatch
<1> HIDE DEF side, p
<1>3. p \in Prices
  BY <1>1, <1>2 DEF BookOK, BookType
<1>4. lst \in Seq(Nat) /\ lst # << >>
  BY <1>1, <1>2 DEF BookOK, BookType, NoEmptyLevel
<1>5. 1 \in DOMAIN lst /\ lst[1] = id
  <2> HIDE DEF lst
  <2> QED BY <1>4
<1>6. /\ id \in DOMAIN book.order_index_
      /\ book.order_index_[id].side = side
      /\ book.order_index_[id].price = p
  BY <1>1, <1>2, <1>5 DEF BookOK, ListedIsIndexed
<1>7. Resting(book, o) = book.order_index_[id]
  BY DEF Resting, side, p
<1> HIDE DEF id, lst
<1>8. /\ book.order_index_[id] \in Order
      /\ book.order_index_[id].exchange_id = id
      /\ book.order_index_[id].type = "limit"
  BY <1>6, Zenon DEF BookOK, BookType, IndexedIsListed
<1> QED BY <1>3, <1>6, <1>7, <1>8 DEF side, p

\* One fill: the resting order stays with what is left of it, or is unlinked.
LEMMA AfterFillOK ==
    ASSUME NEW book, BookOK(book), NEW o \in Order, CanMatch(book, o)
    PROVE  /\ BookOK(AfterFill(book, o))
           /\ DOMAIN AfterFill(book, o).order_index_ \subseteq DOMAIN book.order_index_
           /\ \A id \in DOMAIN AfterFill(book, o).order_index_ :
                  AfterFill(book, o).order_index_[id].symbol = book.order_index_[id].symbol
           /\ Within(AfterFill(book, o), book)
           /\ FillQty(book, o) \in Int
<1> DEFINE r == Resting(book, o)
           left == r.leaves_qty - FillQty(book, o)
<1>1. /\ r \in Order /\ r.exchange_id \in DOMAIN book.order_index_
      /\ book.order_index_[r.exchange_id] = r /\ r.type = "limit"
  BY RestingProperties
<1>2. FillQty(book, o) \in Int /\ left \in Int
  <2>1. r.leaves_qty \in Int /\ o.leaves_qty \in Int
    BY <1>1 DEF Order
  <2>2. FillQty(book, o) = Lesser(o.leaves_qty, r.leaves_qty)
    BY DEF FillQty
  <2> HIDE DEF r
  <2> QED BY <2>1, <2>2 DEF Lesser
<1> HIDE DEF r, left
<1>3. CASE left = 0
  <2>1. AfterFill(book, o) = Unlink(book, r.exchange_id)
    BY <1>3 DEF AfterFill, left, r
  <2>2. /\ BookOK(Unlink(book, r.exchange_id))
        /\ Unlink(book, r.exchange_id).order_index_ = Drop(book.order_index_, r.exchange_id)
        /\ Within(Unlink(book, r.exchange_id), book)
    BY <1>1, UnlinkOK
  <2> QED BY <1>2, <2>1, <2>2 DEF Drop
<1>4. CASE left # 0
  <2> DEFINE n == [r EXCEPT !.leaves_qty = left]
             b == [book EXCEPT !.order_index_ = Put(@, r.exchange_id, n)]
  <2>1. AfterFill(book, o) = b
    BY <1>4 DEF AfterFill, left, r
  <2>2. /\ n \in Order /\ n.exchange_id = r.exchange_id /\ n.side = r.side
        /\ n.price = r.price /\ n.type = r.type /\ n.symbol = r.symbol
    BY <1>1, <1>2 DEF Order
  <2> HIDE DEF n
  <2>3. BookOK(b) /\ b.order_index_ = Put(book.order_index_, r.exchange_id, n) /\ Within(b, book)
    BY <1>1, <2>2, UpdateNodeOK
  <2> HIDE DEF b
  <2> QED BY <1>1, <1>2, <2>1, <2>2, <2>3 DEF Put
<1> QED BY <1>3, <1>4

\* When the match loop has ended, what is left of a limit order crosses nothing.
LEMMA LoopEndFits ==
    ASSUME NEW book, BookOK(book), NEW o \in Order,
           o.type = "limit", o.leaves_qty > 0, ~CanMatch(book, o)
    PROVE  Fits(book, o)
<1> DEFINE side == Opposite(o.side)
           D == DOMAIN book.levels[side]
           p == BestPrice(book, side)
<1>1. side \in Sides /\ o.price \in Int /\ o.side \in Sides
  BY DEF Order, Opposite, Sides
<1>2. D \subseteq Int
  BY <1>1, PriceAssumption DEF BookOK, BookType, Prices
<1>3. CASE D = {}
  BY <1>1, <1>3 DEF Fits, Opposite, Sides
<1>4. CASE D # {}
  <2>1. p \in D /\ \A q \in D : ~Better(side, q, p)
    BY <1>1, <1>4, BestPriceIsBest DEF BookOK
  <2>2. ~Crosses(o, p)
    BY <1>4 DEF CanMatch
  <2> HIDE DEF p
  <2>3. CASE o.side = "buy"
    <3>1. side = "sell" /\ o.price < p
      BY <1>1, <1>2, <2>1, <2>2, <2>3 DEF Crosses, Opposite
    <3> QED BY <1>1, <1>2, <2>1, <2>3, <3>1 DEF Better, Fits
  <2>4. CASE o.side = "sell"
    <3>1. side = "buy" /\ o.price > p
      BY <1>1, <1>2, <2>1, <2>2, <2>4 DEF Crosses, Opposite
    <3> QED BY <1>1, <1>2, <2>1, <2>4, <3>1 DEF Better, Fits
  <2> QED BY <1>1, <2>3, <2>4 DEF Sides
<1> QED BY <1>3, <1>4

\* A reduction in place.
LEMMA ReducedOK ==
    ASSUME NEW book, BookOK(book), NEW id \in DOMAIN book.order_index_, NEW qty \in Int
    PROVE  /\ BookOK(Reduced(book, id, qty))
           /\ DOMAIN Reduced(book, id, qty).order_index_ = DOMAIN book.order_index_
           /\ \A x \in DOMAIN book.order_index_ :
                  Reduced(book, id, qty).order_index_[x].symbol = book.order_index_[x].symbol
           /\ Within(Reduced(book, id, qty), book)
<1> DEFINE o == book.order_index_[id]
           n == [o EXCEPT !.qty = qty, !.leaves_qty = qty]
           b == [book EXCEPT !.order_index_ = Put(@, id, n)]
<1>1. o \in Order /\ o.exchange_id = id /\ o.type = "limit"
  BY DEF BookOK, BookType, IndexedIsListed
<1>2. Reduced(book, id, qty) = b
  BY DEF Reduced, BookOK, BookType
<1>3. /\ n \in Order /\ n.exchange_id = id /\ n.side = o.side
      /\ n.price = o.price /\ n.type = "limit" /\ n.symbol = o.symbol
  <2> HIDE DEF o
  <2> QED BY <1>1 DEF Order
<1> HIDE DEF n
<1>4. BookOK(b) /\ b.order_index_ = Put(book.order_index_, id, n) /\ Within(b, book)
  BY <1>3, UpdateNodeOK
<1> HIDE DEF b
<1> QED BY <1>2, <1>3, <1>4 DEF Put

---------------------------------------------------------------------------
(* The invariant of the engine                                             *)

BooksOK ==
    \A s \in DOMAIN books_ :
        /\ BookOK(books_[s])
        /\ \A id \in DOMAIN books_[s].order_index_ : books_[s].order_index_[id].symbol = s

PriceOK(o) == o.type = "limit" => o.price \in Prices

QueueOK ==
    /\ \A i \in DOMAIN queue_ : queue_[i].tag = "ORDER" =>
           /\ queue_[i].order.symbol \in DOMAIN books_
           /\ PriceOK(queue_[i].order)
    /\ \A i, j \in DOMAIN queue_ :
           /\ queue_[i].tag = "ORDER"
           /\ queue_[j].tag = "ORDER"
           /\ queue_[i].order.exchange_id = queue_[j].order.exchange_id
           => i = j

CurOK == pc = "match" => PriceOK(cur.order)

Fresh == OnePlace /\ LiveIds \subseteq 0 .. order_seq_

RowsOK ==
    /\ main = "recovery" <=> pc = "created"
    /\ main # "recovery" => rows = << >>
    /\ \A i \in DOMAIN rows : rows[i].type = "limit" /\ rows[i].price \in Prices
    /\ \A i, j \in DOMAIN rows : i # j => rows[i].exchange_id # rows[j].exchange_id

DrainOK == StopsDrained /\ (pc = "stopped" => main = "stopping")

IInv == TypeOK /\ BooksOK /\ QueueOK /\ CurOK /\ Fresh /\ RowsOK /\ DrainOK

\* Rows of which no two cross, such as those of an empty database.
RowsUncrossed ==
    \A r \in RestingRows : \A i, j \in DOMAIN r :
        r[i].symbol = r[j].symbol /\ r[i].side = "buy" /\ r[j].side = "sell"
            => r[i].price < r[j].price

\* No book is crossed, and the rows still to be restored cross neither the books nor
\* each other.
NothingCrosses ==
    /\ Uncrossed
    /\ \A i \in DOMAIN rows :
           rows[i].symbol \in DOMAIN books_ => Fits(books_[rows[i].symbol], rows[i])
    /\ \A i, j \in DOMAIN rows :
           rows[i].symbol = rows[j].symbol /\ rows[i].side = "buy" /\ rows[j].side = "sell"
               => rows[i].price < rows[j].price

\* No step takes an id that was handed out and is dead back to life.
Keeps == LiveIds' \cap (0 .. order_seq_) \subseteq LiveIds

---------------------------------------------------------------------------
(* Sequences                                                               *)

\* What a pop leaves: every element but the first, one position further down.
LEMMA PopProperties ==
    ASSUME NEW S, NEW q \in Seq(S), q # << >>
    PROVE  /\ 1 \in DOMAIN q /\ Head(q) = q[1] /\ q[1] \in S
           /\ Tail(q) \in Seq(S) /\ Len(Tail(q)) < Len(q)
           /\ \A i \in DOMAIN Tail(q) :
                  /\ i \in Nat /\ i + 1 # 1
                  /\ i + 1 \in DOMAIN q
                  /\ Tail(q)[i] = q[i + 1]
<1>1. Len(q) \in Nat \ {0} /\ DOMAIN q = 1 .. Len(q)
  BY EmptySeq, LenProperties
<1>2. Head(q) = q[1] /\ q[1] \in S
  BY <1>1, ElementOfSeq
<1>3. /\ Tail(q) \in Seq(S)
      /\ Len(Tail(q)) = Len(q) - 1
      /\ \A i \in 1 .. Len(Tail(q)) : Tail(q)[i] = q[i + 1]
  BY HeadTailProperties
<1>4. DOMAIN Tail(q) = 1 .. (Len(q) - 1)
  BY <1>3, LenProperties
<1> QED BY <1>1, <1>2, <1>3, <1>4

\* What a push adds: one element at the end.
LEMMA PushProperties ==
    ASSUME NEW S, NEW q \in Seq(S), NEW e \in S
    PROVE  /\ Append(q, e) \in Seq(S)
           /\ Len(Append(q, e)) = Len(q) + 1
           /\ Len(q) \in Nat
           /\ \A i \in DOMAIN Append(q, e) :
                  \/ i \in DOMAIN q /\ Append(q, e)[i] = q[i]
                  \/ i = Len(q) + 1 /\ Append(q, e)[i] = e
<1>1. Len(q) \in Nat /\ DOMAIN q = 1 .. Len(q)
  BY LenProperties
<1>2. /\ Append(q, e) \in Seq(S)
      /\ Len(Append(q, e)) = Len(q) + 1
      /\ \A i \in 1 .. Len(q) : Append(q, e)[i] = q[i]
      /\ Append(q, e)[Len(q) + 1] = e
  BY AppendProperties
<1>3. DOMAIN Append(q, e) = 1 .. (Len(q) + 1)
  BY <1>2, LenProperties
<1> QED BY <1>1, <1>2, <1>3

---------------------------------------------------------------------------
(* Initial states                                                          *)

\* A started process with the rows of its database still to be restored.
LEMMA InitIInv == Init => IInv
<1> SUFFICES ASSUME Init PROVE IInv
  OBVIOUS
<1>1. /\ DOMAIN books_ = InitSymbols
      /\ \A s \in DOMAIN books_ : books_[s] = EmptyBook
      /\ DOMAIN EmptyBook.order_index_ = {}
      /\ \A s \in Sides : DOMAIN EmptyBook.levels[s] = {}
  BY DEF Init, EmptyBook, NoEntry
<1>2. queue_ = << >> /\ DOMAIN queue_ = {} /\ queue_ \in Seq(WorkItem) /\ Len(queue_) = 0
  BY DEF Init
<1>3. /\ rows \in Seq(Order)
      /\ \A i \in DOMAIN rows : rows[i].type = "limit" /\ rows[i].price \in Prices
      /\ \A i, j \in DOMAIN rows : i < j => rows[i].exchange_id < rows[j].exchange_id
  BY RowsAssumption DEF Init
<1>4. Len(rows) \in Nat /\ DOMAIN rows = 1 .. Len(rows)
  BY <1>3, LenProperties
<1>5. \A i \in DOMAIN rows : rows[i] \in Order /\ rows[i].exchange_id \in Nat
  <2>1. \A i \in DOMAIN rows : rows[i] \in Order
    BY <1>3, <1>4, ElementOfSeq
  <2> QED BY <2>1 DEF Order
<1>6. TypeOK
  <2>1. order_seq_ \in Nat
    <3>1. CASE rows = << >>
      BY <3>1 DEF Init
    <3>2. CASE rows # << >>
      <4>1. Len(rows) \in DOMAIN rows
        BY <1>3, <1>4, <3>2, EmptySeq
      <4> QED BY <1>5, <3>2, <4>1 DEF Init
    <3> QED BY <3>1, <3>2
  <2>2. \A s \in DOMAIN books_ : BookType(books_[s])
    BY <1>1, EmptyBookOK DEF BookOK
  <2> QED BY <1>1, <1>2, <1>3, <2>1, <2>2, SymbolAssumption, BoundAssumption DEF Init, TypeOK
<1>7. BooksOK
  BY <1>1, EmptyBookOK DEF BooksOK
<1>8. QueueOK /\ CurOK /\ DrainOK
  BY <1>2 DEF Init, QueueOK, CurOK, DrainOK, StopsDrained
<1>9. Fresh
  <2>1. ListedIds = {} /\ QueuedIds = {} /\ MatchingIds = {}
    BY <1>1, <1>2 DEF Init, ListedIds, QueuedIds, MatchingIds
  <2>2. ASSUME NEW i \in DOMAIN rows PROVE rows[i].exchange_id \in 0 .. order_seq_
    <3>1. Len(rows) \in DOMAIN rows /\ i \in Nat /\ (i = Len(rows) \/ i < Len(rows))
      BY <1>4
    <3>2. order_seq_ = rows[Len(rows)].exchange_id
      BY <3>1, <1>3, <1>4, EmptySeq DEF Init
    <3>3. rows[i].exchange_id <= rows[Len(rows)].exchange_id
      BY <1>3, <1>5, <3>1
    <3> QED BY <1>5, <3>1, <3>2, <3>3
  <2>3. OnePlace
    BY <1>1, <2>1 DEF OnePlace
  <2> QED BY <2>1, <2>2, <2>3 DEF Fresh, LiveIds, UnrestoredIds
<1>10. RowsOK
  <2>1. \A i, j \in DOMAIN rows : i # j => rows[i].exchange_id # rows[j].exchange_id
    <3> SUFFICES ASSUME NEW i \in DOMAIN rows, NEW j \in DOMAIN rows, i # j
                 PROVE  rows[i].exchange_id # rows[j].exchange_id
      OBVIOUS
    <3>1. i < j \/ j < i
      BY <1>4
    <3> QED BY <1>3, <1>5, <3>1
  <2> QED BY <1>3, <2>1 DEF Init, RowsOK
<1> QED BY <1>6, <1>7, <1>8, <1>9, <1>10 DEF IInv

\* The books are empty, and every row fits them.
LEMMA InitUncrossed ==
    ASSUME RowsUncrossed, Init
    PROVE  NothingCrosses
<1>1. /\ \A s \in DOMAIN books_ : books_[s] = EmptyBook
      /\ \A s \in Sides : DOMAIN EmptyBook.levels[s] = {}
  BY DEF Init, EmptyBook, NoEntry
<1>2. Uncrossed
  BY <1>1, EmptyBookOK DEF Uncrossed
<1>3. \A i \in DOMAIN rows :
          rows[i].symbol \in DOMAIN books_ => Fits(books_[rows[i].symbol], rows[i])
  BY <1>1 DEF Fits, Sides
<1>4. \A i, j \in DOMAIN rows :
          rows[i].symbol = rows[j].symbol /\ rows[i].side = "buy" /\ rows[j].side = "sell"
              => rows[i].price < rows[j].price
  BY DEF Init, RowsUncrossed
<1> QED BY <1>2, <1>3, <1>4 DEF NothingCrosses

---------------------------------------------------------------------------
(* Steps that touch neither the books nor the queue                        *)

\* The main thread's phases, a callback's return, the exit of run() and stuttering.
LEMMA PhaseStep ==
    ASSUME IInv, \/ Start \/ StopAcceptor \/ Stop \/ CallbackReturn \/ Exit
                 \/ UNCHANGED vars
    PROVE  IInv' /\ Keeps
<1>1. /\ UNCHANGED << books_, queue_, order_seq_, requests, rows, cur >>
      /\ pc' = "match" <=> pc = "match"
      /\ main' \in {"recovery", "serving", "closing", "stopping"}
      /\ pc' \in {"created", "run", "match", "stopped", "undefined"}
      /\ main' = "recovery" <=> pc' = "created"
      /\ main' # "recovery" => rows = << >>
      /\ pc' = "stopped" =>
             main' = "stopping" /\ queue_ = << >> /\ call' = NoCall
  BY DEF IInv, TypeOK, RowsOK, DrainOK, StopsDrained, Start, StopAcceptor, Stop,
         CallbackReturn, Exit, vars, stop_
<1>2. TypeOK'
  BY <1>1 DEF IInv, TypeOK
<1>3. BooksOK' /\ QueueOK' /\ CurOK'
  BY <1>1 DEF IInv, BooksOK, QueueOK, CurOK
<1>4. /\ ListedIds' = ListedIds /\ QueuedIds' = QueuedIds /\ MatchingIds' = MatchingIds
      /\ UnrestoredIds' = UnrestoredIds
  BY <1>1 DEF ListedIds, QueuedIds, MatchingIds, UnrestoredIds
<1>5. LiveIds' = LiveIds
  BY <1>4 DEF LiveIds
<1>6. Fresh'
  BY <1>1, <1>4, <1>5 DEF IInv, Fresh, OnePlace
<1>7. RowsOK'
  BY <1>1 DEF IInv, RowsOK
<1>8. DrainOK'
  <2>1. pc' = "stopped" => cur' = NoCur
    BY <1>1, <1>2 DEF TypeOK
  <2> QED BY <1>1, <2>1 DEF DrainOK, StopsDrained
<1> QED BY <1>2, <1>3, <1>5, <1>6, <1>7, <1>8 DEF IInv, Keeps

---------------------------------------------------------------------------
(* Steps of the QuickFIX thread                                            *)

\* A push: an order carries an id no order has, and the symbol of a book; the rest carry
\* none.
LEMMA PushItem ==
    ASSUME IInv, NEW item \in WorkItem, Push(item),
           UNCHANGED << books_, rows, main, pc, cur, call >>,
           requests' \in 0 .. MaxRequests,
           order_seq_' \in Nat, order_seq_ <= order_seq_',
           item.tag = "ORDER" => /\ item.order.symbol \in DOMAIN books_
                                 /\ PriceOK(item.order)
                                 /\ item.order.exchange_id \in 0 .. order_seq_'
                                 /\ item.order.exchange_id \notin LiveIds
    PROVE  /\ IInv'
           /\ LiveIds' \subseteq LiveIds \cup {x \in {item.order.exchange_id} : item.tag = "ORDER"}
<1> DEFINE n == Len(queue_) + 1
<1>1. /\ queue_ \in Seq(WorkItem) /\ queue_' = Append(queue_, item)
      /\ Len(queue_) < QueueSize - 1 /\ order_seq_ \in Nat
  BY DEF IInv, TypeOK, Push
<1>2. /\ queue_' \in Seq(WorkItem)
      /\ Len(queue_') = Len(queue_) + 1
      /\ Len(queue_) \in Nat
      /\ \A i \in DOMAIN queue_' :
             \/ i \in DOMAIN queue_ /\ queue_'[i] = queue_[i]
             \/ i = n /\ queue_'[i] = item
  BY <1>1, PushProperties
<1>3. Len(queue_') < QueueSize
  BY <1>1, <1>2, BoundAssumption
<1> HIDE DEF n
<1>4. main = "serving"
  BY DEF Push
<1>5. TypeOK'
  BY <1>2, <1>3 DEF IInv, TypeOK
<1>6. BooksOK' /\ CurOK' /\ RowsOK' /\ DrainOK'
  BY <1>4 DEF IInv, BooksOK, CurOK, RowsOK, DrainOK, StopsDrained
<1>7. ASSUME item.tag = "ORDER", NEW i \in DOMAIN queue_, queue_[i].tag = "ORDER"
      PROVE  queue_[i].order.exchange_id # item.order.exchange_id
  BY <1>7 DEF LiveIds, QueuedIds
<1>8. QueueOK'
  <2>1. ASSUME NEW i \in DOMAIN queue_', queue_'[i].tag = "ORDER"
        PROVE  queue_'[i].order.symbol \in DOMAIN books_' /\ PriceOK(queue_'[i].order)
    BY <1>2, <2>1 DEF IInv, QueueOK
  <2>2. ASSUME NEW i \in DOMAIN queue_', NEW j \in DOMAIN queue_',
               queue_'[i].tag = "ORDER", queue_'[j].tag = "ORDER",
               queue_'[i].order.exchange_id = queue_'[j].order.exchange_id
        PROVE  i = j
    BY <1>2, <1>7, <2>2 DEF IInv, QueueOK
  <2> QED BY <2>1, <2>2 DEF QueueOK, PriceOK
<1>9. QueuedIds' \subseteq QueuedIds \cup {y \in {item.order.exchange_id} : item.tag = "ORDER"}
  BY <1>2 DEF QueuedIds
<1>10. /\ ListedIds' = ListedIds /\ MatchingIds' = MatchingIds /\ UnrestoredIds' = UnrestoredIds
  BY DEF ListedIds, MatchingIds, UnrestoredIds
<1>11. LiveIds' \subseteq 0 .. order_seq_'
  <2>1. 0 .. order_seq_ \subseteq 0 .. order_seq_'
    BY <1>1
  <2> QED BY <1>9, <1>10, <2>1 DEF IInv, Fresh, LiveIds
<1>12. OnePlace'
  BY <1>9, <1>10 DEF IInv, Fresh, LiveIds, OnePlace
<1> QED BY <1>5, <1>6, <1>8, <1>9, <1>10, <1>11, <1>12 DEF IInv, Fresh, LiveIds

\* ... in particular one that carries the next id.
LEMMA PushStep ==
    ASSUME IInv, NEW item \in WorkItem, Push(item),
           UNCHANGED << books_, rows, main, pc, cur, call >>,
           requests' \in 0 .. MaxRequests,
           \/ item.tag # "ORDER" /\ order_seq_' = order_seq_
           \/ /\ item.tag = "ORDER"
              /\ item.order.symbol \in DOMAIN books_
              /\ PriceOK(item.order)
              /\ order_seq_' = order_seq_ + 1
              /\ item.order.exchange_id = order_seq_ + 1
    PROVE  IInv' /\ Keeps
<1>1. order_seq_ \in Nat /\ LiveIds \subseteq 0 .. order_seq_
  BY DEF IInv, TypeOK, Fresh
<1>2. order_seq_' \in Nat /\ order_seq_ <= order_seq_'
  BY <1>1
<1>3. ASSUME item.tag = "ORDER"
      PROVE  /\ item.order.exchange_id \in 0 .. order_seq_'
             /\ item.order.exchange_id \notin 0 .. order_seq_
  BY <1>1, <1>3
<1>4. /\ IInv'
      /\ LiveIds' \subseteq LiveIds \cup {x \in {item.order.exchange_id} : item.tag = "ORDER"}
  BY <1>1, <1>2, <1>3, PushItem
<1> QED BY <1>3, <1>4 DEF Keeps

\* What the QuickFIX thread does: submit, reject, cancel, replace and requestSnapshot.
LEMMA GatewayStep ==
    ASSUME IInv, GatewayNext
    PROVE  IInv' /\ Keeps
<1>1. ASSUME NEW o \in NewOrders, Submit(o)
      PROVE  IInv' /\ Keeps
  <2> DEFINE n == [o EXCEPT !.exchange_id = order_seq_ + 1]
             item == [tag |-> "ORDER", order |-> n]
  <2>1. o \in Order /\ PriceOK(o) /\ order_seq_ \in Nat
    <3>0. Prices \cup {0} \subseteq Int /\ Qtys \subseteq Int /\ {0} \subseteq Nat
      BY PriceAssumption, QtyAssumption DEF Prices
    <3>1. o \in Order
      BY <3>0 DEF NewOrders, Order
    <3> QED BY <3>1 DEF NewOrders, PriceOK, IInv, TypeOK
  <2>2. n \in Order /\ n.exchange_id = order_seq_ + 1 /\ n.symbol = o.symbol /\ PriceOK(n)
    BY <2>1 DEF Order, PriceOK
  <2>3. o.symbol \in DOMAIN books_
    BY <1>1 DEF Submit, valid_symbols_
  <2>4. Push(item) /\ order_seq_' = order_seq_ + 1
        /\ UNCHANGED << books_, requests, rows, main, pc, cur, call >>
    BY <1>1 DEF Submit
  <2> HIDE DEF n
  <2>5. /\ item \in WorkItem /\ item.tag = "ORDER" /\ item.order = n
    BY <2>2 DEF WorkItem
  <2> HIDE DEF item
  <2>6. requests' \in 0 .. MaxRequests
    BY <2>4 DEF IInv, TypeOK
  <2> QED BY <2>2, <2>3, <2>4, <2>5, <2>6, PushStep
<1>2. ASSUME NEW item \in WorkItem, item.tag # "ORDER", Request(item)
      PROVE  IInv' /\ Keeps
  <2>1. requests' \in 0 .. MaxRequests
    BY <1>2, BoundAssumption DEF Request, IInv, TypeOK
  <2> QED BY <1>2, <2>1, PushStep DEF Request
<1>3. ASSUME NEW id \in 1 .. order_seq_, NEW s \in MsgSymbols, NEW c \in Clients,
             Cancel([client_id |-> c, symbol |-> s, orig_order_id |-> id])
      PROVE  IInv' /\ Keeps
  <2> DEFINE item == [tag |-> "CANCEL",
                      req |-> [client_id |-> c, symbol |-> s, orig_order_id |-> id]]
  <2>1. item \in WorkItem /\ item.tag # "ORDER"
    BY SymbolAssumption DEF WorkItem, CancelRequest
  <2>2. Request(item)
    BY <1>3 DEF Cancel
  <2> HIDE DEF item
  <2> QED BY <1>2, <2>1, <2>2
<1>4. ASSUME NEW id \in 1 .. order_seq_, NEW s \in MsgSymbols, NEW c \in Clients,
             NEW p \in Prices, NEW q \in ReplaceQtys, NEW old \in ClOrdIds, NEW new \in ClOrdIds,
             Replace([new_clord_id |-> new, old_clord_id |-> old, client_id |-> c,
                      orig_order_id |-> id, symbol |-> s, new_price |-> p, new_qty |-> q])
      PROVE  IInv' /\ Keeps
  <2> DEFINE item == [tag |-> "REPLACE",
                      req |-> [new_clord_id |-> new, old_clord_id |-> old, client_id |-> c,
                               orig_order_id |-> id, symbol |-> s,
                               new_price |-> p, new_qty |-> q]]
  <2>1. item \in WorkItem /\ item.tag # "ORDER"
    BY SymbolAssumption, QtyAssumption DEF WorkItem, ReplaceRequest
  <2>2. Request(item)
    BY <1>4 DEF Replace
  <2> HIDE DEF item
  <2> QED BY <1>2, <2>1, <2>2
<1>5. ASSUME RequestSnapshot PROVE IInv' /\ Keeps
  <2> DEFINE item == [tag |-> "SNAPSHOT"]
  <2>1. item \in WorkItem /\ item.tag # "ORDER"
    BY DEF WorkItem
  <2>2. Request(item)
    BY <1>5 DEF RequestSnapshot
  <2> HIDE DEF item
  <2> QED BY <1>2, <2>1, <2>2
<1>6. ASSUME Reject PROVE IInv' /\ Keeps
  <2>1. /\ UNCHANGED << books_, queue_, requests, rows, main, pc, cur, call >>
        /\ order_seq_ \in Nat /\ order_seq_' = order_seq_ + 1
    BY <1>6 DEF Reject, IInv, TypeOK
  <2>2. TypeOK' /\ BooksOK' /\ QueueOK' /\ CurOK' /\ RowsOK' /\ DrainOK'
    BY <2>1 DEF IInv, TypeOK, BooksOK, QueueOK, CurOK, RowsOK, DrainOK, StopsDrained
  <2>3. /\ ListedIds' = ListedIds /\ QueuedIds' = QueuedIds /\ MatchingIds' = MatchingIds
        /\ UnrestoredIds' = UnrestoredIds /\ 0 .. order_seq_ \subseteq 0 .. order_seq_'
    BY <2>1 DEF ListedIds, QueuedIds, MatchingIds, UnrestoredIds
  <2>4. Fresh' /\ Keeps
    BY <2>1, <2>3 DEF IInv, Fresh, OnePlace, LiveIds, Keeps
  <2> QED BY <2>2, <2>4 DEF IInv
<1> QED BY <1>1, <1>3, <1>4, <1>5, <1>6 DEF GatewayNext

---------------------------------------------------------------------------
(* Steps that change one book                                              *)

\* A book gets a new value whose orders are its own old ones and the ones in X,
\* which were in no book.
ChangesBook(s, b, X) ==
    /\ s \in DOMAIN books_
    /\ books_' = [books_ EXCEPT ![s] = b]
    /\ BookOK(b)
    /\ \A id \in DOMAIN b.order_index_ : b.order_index_[id].symbol = s
    /\ DOMAIN b.order_index_ \subseteq DOMAIN books_[s].order_index_ \cup X
    /\ X \cap ListedIds = {}

\* What the other parts of the invariant need to know of such a change.
BookChanged(s, b, X) ==
    /\ DOMAIN books_' = DOMAIN books_
    /\ books_'[s] = b
    /\ \A t \in DOMAIN books_ : t # s => books_'[t] = books_[t]
    /\ BooksOK'
    /\ \A t \in DOMAIN books_' : BookType(books_'[t])
    /\ ListedIds' \subseteq ListedIds \cup X
    /\ \A t, u \in DOMAIN books_' :
           t # u => DOMAIN books_'[t].order_index_ \cap DOMAIN books_'[u].order_index_ = {}
    /\ \A id \in DOMAIN books_[s].order_index_ :
           id \notin DOMAIN b.order_index_ => id \notin ListedIds'

\* Changing one book keeps every book consistent and every id in one book.
LEMMA BookUpdate ==
    ASSUME IInv, NEW s, NEW b, NEW X, ChangesBook(s, b, X)
    PROVE  BookChanged(s, b, X)
<1> USE DEF ChangesBook
<1>1. /\ DOMAIN books_' = DOMAIN books_
      /\ books_'[s] = b
      /\ \A t \in DOMAIN books_ : t # s => books_'[t] = books_[t]
  OBVIOUS
<1>2. BooksOK'
  BY <1>1 DEF IInv, BooksOK
<1>3. \A t \in DOMAIN books_' : BookType(books_'[t])
  BY <1>2 DEF BooksOK, BookOK
<1>4. \A t, u \in DOMAIN books_ :
          t # u => DOMAIN books_[t].order_index_ \cap DOMAIN books_[u].order_index_ = {}
  BY DEF IInv, Fresh, OnePlace
<1>5. \A t \in DOMAIN books_ : DOMAIN books_[t].order_index_ \subseteq ListedIds
  BY DEF ListedIds
<1>6. ASSUME NEW t \in DOMAIN books_', NEW u \in DOMAIN books_', t # u,
             NEW id \in DOMAIN books_'[t].order_index_, id \in DOMAIN books_'[u].order_index_
      PROVE  FALSE
  <2>1. CASE t = s
    BY <1>1, <1>4, <1>5, <1>6, <2>1
  <2>2. CASE u = s
    BY <1>1, <1>4, <1>5, <1>6, <2>2
  <2>3. CASE t # s /\ u # s
    BY <1>1, <1>4, <1>6, <2>3
  <2> QED BY <2>1, <2>2, <2>3
<1>7. ListedIds' \subseteq ListedIds \cup X
  <2>1. ASSUME NEW t \in DOMAIN books_', NEW id \in DOMAIN books_'[t].order_index_
        PROVE  id \in ListedIds \cup X
    BY <1>1, <1>5
  <2> QED BY <2>1 DEF ListedIds
<1>8. ASSUME NEW id \in DOMAIN books_[s].order_index_, id \notin DOMAIN b.order_index_,
             id \in ListedIds'
      PROVE  FALSE
  <2>1. PICK t \in DOMAIN books_' : id \in DOMAIN books_'[t].order_index_
    BY <1>8 DEF ListedIds
  <2> QED BY <1>1, <1>4, <1>8, <2>1
<1> QED BY <1>1, <1>2, <1>3, <1>6, <1>7, <1>8 DEF BookChanged

\* Registering a symbol adds an empty book and touches no other.
LEMMA RegisterStep ==
    ASSUME IInv, NEW s \in Symbols, RegisterSymbol(s)
    PROVE  IInv' /\ Keeps
<1>1. /\ s \notin DOMAIN books_ /\ main \in {"serving", "closing"}
      /\ books_' = Put(books_, s, EmptyBook)
      /\ UNCHANGED << queue_, order_seq_, requests, rows, main, pc, cur, call >>
  BY DEF RegisterSymbol, valid_symbols_
<1>2. /\ DOMAIN books_' = DOMAIN books_ \cup {s}
      /\ books_'[s] = EmptyBook
      /\ \A t \in DOMAIN books_ : books_'[t] = books_[t]
  BY <1>1 DEF Put
<1>3. BookOK(EmptyBook) /\ DOMAIN EmptyBook.order_index_ = {}
  BY EmptyBookOK DEF EmptyBook, NoEntry
<1>4. BooksOK'
  BY <1>2, <1>3 DEF IInv, BooksOK
<1>5. \A t \in DOMAIN books_' : BookType(books_'[t])
  BY <1>4 DEF BooksOK, BookOK
<1>6. TypeOK'
  BY <1>1, <1>2, <1>5 DEF IInv, TypeOK
<1>7. QueueOK' /\ CurOK' /\ DrainOK'
  BY <1>1, <1>2 DEF IInv, QueueOK, CurOK, DrainOK, StopsDrained, PriceOK
<1>8. rows = << >>
  BY <1>1 DEF IInv, RowsOK
<1>9. RowsOK'
  BY <1>1, <1>8 DEF IInv, RowsOK
<1>10. ListedIds' = ListedIds
  BY <1>2, <1>3 DEF ListedIds
<1>11. QueuedIds' = QueuedIds /\ MatchingIds' = MatchingIds /\ UnrestoredIds' = UnrestoredIds
  BY <1>1 DEF QueuedIds, MatchingIds, UnrestoredIds
<1>12. OnePlace'
  BY <1>2, <1>3, <1>10, <1>11 DEF IInv, Fresh, OnePlace
<1>13. LiveIds' = LiveIds
  BY <1>10, <1>11 DEF LiveIds
<1> QED BY <1>1, <1>4, <1>6, <1>7, <1>9, <1>12, <1>13 DEF IInv, Fresh, Keeps

\* Restoring a row: its id is in no book.
LEMMA RestoreStep ==
    ASSUME IInv, RestoreOrder
    PROVE  IInv' /\ Keeps
<1> DEFINE o == Head(rows)
           s == o.symbol
<1>1. /\ main = "recovery" /\ rows # << >> /\ rows' = Tail(rows)
      /\ books_' = IF s \in DOMAIN books_ THEN [books_ EXCEPT ![s] = PushBack(books_[s], o)]
                   ELSE books_
      /\ UNCHANGED << queue_, order_seq_, requests, main, pc, cur, call >>
  BY DEF RestoreOrder, valid_symbols_
<1>2. rows \in Seq(Order)
  BY DEF IInv, TypeOK
<1>3. /\ 1 \in DOMAIN rows /\ o = rows[1] /\ o \in Order
      /\ rows' \in Seq(Order)
      /\ \A i \in DOMAIN rows' : /\ i \in Nat /\ i + 1 # 1 /\ i + 1 \in DOMAIN rows
                                 /\ rows'[i] = rows[i + 1]
  BY <1>1, <1>2, PopProperties
<1> HIDE DEF o
<1>4. /\ o.type = "limit" /\ o.price \in Prices
      /\ o.exchange_id \in UnrestoredIds
  BY <1>3 DEF IInv, RowsOK, UnrestoredIds
<1>5. o.exchange_id \notin ListedIds
  BY <1>4 DEF IInv, Fresh, OnePlace
<1>6. ASSUME NEW i \in DOMAIN rows'
      PROVE  /\ rows'[i].exchange_id # o.exchange_id
             /\ rows'[i].exchange_id \in UnrestoredIds
             /\ rows'[i] \in Order
             /\ rows'[i].type = "limit" /\ rows'[i].price \in Prices
  <2>1. rows'[i] \in Order
    BY <1>3, ElementOfSeq, LenProperties
  <2> QED BY <1>3, <2>1 DEF IInv, RowsOK, UnrestoredIds
<1>7. \A i, j \in DOMAIN rows' : i # j => rows'[i].exchange_id # rows'[j].exchange_id
  <2> SUFFICES ASSUME NEW i \in DOMAIN rows', NEW j \in DOMAIN rows', i # j
               PROVE  rows'[i].exchange_id # rows'[j].exchange_id
    OBVIOUS
  <2>1. i + 1 # j + 1
    BY <1>3
  <2>2. /\ i + 1 \in DOMAIN rows /\ rows'[i] = rows[i + 1]
        /\ j + 1 \in DOMAIN rows /\ rows'[j] = rows[j + 1]
    BY <1>3
  <2> QED BY <2>1, <2>2 DEF IInv, RowsOK
<1>8. UnrestoredIds' \subseteq UnrestoredIds \ {o.exchange_id}
  BY <1>6 DEF UnrestoredIds
<1>9. QueuedIds' = QueuedIds /\ MatchingIds' = MatchingIds
  BY <1>1 DEF QueuedIds, MatchingIds
<1>10. pc = "created" /\ MatchingIds = {}
  BY <1>1 DEF IInv, RowsOK, MatchingIds
<1>20. QueuedIds \cap UnrestoredIds = {}
  BY DEF IInv, Fresh, OnePlace
<1>11. CASE s \in DOMAIN books_
  <2> DEFINE b == PushBack(books_[s], o)
             X == {o.exchange_id}
  <2>1. BookOK(books_[s]) /\ \A id \in DOMAIN books_[s].order_index_ :
                                  books_[s].order_index_[id].symbol = s
    BY <1>11 DEF IInv, BooksOK
  <2>2. o.exchange_id \notin DOMAIN books_[s].order_index_
    BY <1>5, <1>11 DEF ListedIds
  <2>3. BookOK(b) /\ b.order_index_ = Put(books_[s].order_index_, o.exchange_id, o)
    BY <1>3, <1>4, <1>11, <2>1, <2>2, PushBackOK
  <2>4. /\ DOMAIN b.order_index_ = DOMAIN books_[s].order_index_ \cup X
        /\ \A id \in DOMAIN b.order_index_ : b.order_index_[id].symbol = s
    BY <2>1, <2>3 DEF Put
  <2> HIDE DEF b
  <2>6. X \cap ListedIds = {} /\ books_' = [books_ EXCEPT ![s] = b]
    BY <1>1, <1>5, <1>11 DEF b
  <2>7. BookChanged(s, b, X)
    <3>1. ChangesBook(s, b, X)
      BY <1>11, <2>3, <2>4, <2>6 DEF ChangesBook
    <3> HIDE DEF X, s
    <3> QED BY <3>1, BookUpdate
  <2> USE DEF BookChanged
  <2>8. TypeOK'
    BY <1>1, <1>3, <2>7 DEF IInv, TypeOK
  <2>9. QueueOK' /\ CurOK' /\ DrainOK'
    BY <1>1, <2>7 DEF IInv, QueueOK, CurOK, DrainOK, StopsDrained, PriceOK
  <2>11. RowsOK'
    BY <1>1, <1>6, <1>7 DEF IInv, RowsOK
  <2>12. OnePlace'
    BY <1>4, <1>8, <1>9, <1>10, <1>20, <2>7 DEF IInv, Fresh, OnePlace
  <2>13. LiveIds' \subseteq LiveIds
    BY <1>4, <1>8, <1>9, <2>7 DEF LiveIds
  <2> QED BY <1>1, <2>7, <2>8, <2>9, <2>11, <2>12, <2>13 DEF IInv, Fresh, Keeps
<1>12. CASE s \notin DOMAIN books_
  <2>1. books_' = books_ /\ ListedIds' = ListedIds
    BY <1>1, <1>12 DEF ListedIds
  <2>2. TypeOK' /\ BooksOK'
    BY <1>1, <1>3, <2>1 DEF IInv, TypeOK, BooksOK
  <2>3. QueueOK' /\ CurOK' /\ DrainOK'
    BY <1>1, <2>1 DEF IInv, QueueOK, CurOK, DrainOK, StopsDrained, PriceOK
  <2>4. RowsOK'
    BY <1>1, <1>6, <1>7, <2>1 DEF IInv, RowsOK
  <2>5. OnePlace'
    BY <1>8, <1>9, <2>1 DEF IInv, Fresh, OnePlace
  <2>6. LiveIds' \subseteq LiveIds
    BY <1>8, <1>9, <2>1 DEF LiveIds
  <2> QED BY <1>1, <2>2, <2>3, <2>4, <2>5, <2>6 DEF IInv, Fresh, Keeps
<1> QED BY <1>11, <1>12

---------------------------------------------------------------------------
(* Steps of the engine thread                                              *)

\* Between two iterations of run(), and inside add().
LEMMA Serving ==
    ASSUME IInv, pc \in {"run", "match"}
    PROVE  /\ rows = << >> /\ main # "recovery" /\ UnrestoredIds = {}
           /\ pc = "run" => cur = NoCur /\ MatchingIds = {}
<1>1. rows = << >> /\ main # "recovery"
  BY DEF IInv, RowsOK
<1> QED BY <1>1 DEF IInv, TypeOK, UnrestoredIds, MatchingIds

\* What a step of the engine thread has to establish: the books and the queue are
\* consistent, the aggressor is a legal order, and ids move from the queue to the
\* aggressor to a book and out, never back.
EngineMoves ==
    /\ pc \in {"run", "match"}
    /\ UNCHANGED << order_seq_, requests, rows, main >>
    /\ pc' \in {"run", "match", "undefined"}
    /\ IF pc' = "match" THEN /\ cur' \in Aggressor
                             /\ cur'.order.symbol \in DOMAIN books_
                             /\ PriceOK(cur'.order)
                        ELSE cur' = NoCur
    /\ DOMAIN books_' = DOMAIN books_
    /\ BooksOK'
    /\ \A t, u \in DOMAIN books_' :
           t # u => DOMAIN books_'[t].order_index_ \cap DOMAIN books_'[u].order_index_ = {}
    /\ queue_' \in Seq(WorkItem) /\ Len(queue_') < QueueSize
    /\ QueueOK'
    /\ ListedIds' \cup QueuedIds' \cup MatchingIds' \subseteq LiveIds
    /\ ListedIds' \cap QueuedIds' = {}
    /\ ListedIds' \cap MatchingIds' = {}
    /\ QueuedIds' \cap MatchingIds' = {}

\* Such a step preserves the invariant.
LEMMA EngineMovesOK ==
    ASSUME IInv, EngineMoves
    PROVE  IInv' /\ Keeps
<1> USE DEF EngineMoves
<1>1. rows = << >> /\ rows' = << >> /\ main' # "recovery" /\ UnrestoredIds' = {}
  BY Serving DEF UnrestoredIds
<1>2. \A t \in DOMAIN books_' : BookType(books_'[t])
  BY DEF BooksOK, BookOK
<1>3. TypeOK'
  BY <1>2 DEF IInv, TypeOK
<1>4. CurOK' /\ DrainOK'
  BY DEF CurOK, DrainOK, StopsDrained, PriceOK
<1>5. RowsOK'
  BY <1>1 DEF RowsOK
<1>6. OnePlace'
  BY <1>1 DEF OnePlace
<1>7. LiveIds' \subseteq LiveIds
  BY <1>1 DEF LiveIds
<1> QED BY <1>3, <1>4, <1>5, <1>6, <1>7 DEF IInv, Fresh, Keeps

\* What run() knows of the item it has popped.
LEMMA PopStep ==
    ASSUME IInv, NEW tag, Pop(tag), DOMAIN books_' = DOMAIN books_
    PROVE  /\ Head(queue_) \in WorkItem /\ Head(queue_).tag = tag
           /\ pc = "run" /\ call = NoCall
           /\ queue_' \in Seq(WorkItem) /\ Len(queue_') < QueueSize
           /\ QueueOK'
           /\ QueuedIds' \subseteq QueuedIds
           /\ tag = "ORDER" => /\ Head(queue_).order.exchange_id \in QueuedIds
                               /\ Head(queue_).order.exchange_id \notin QueuedIds'
                               /\ Head(queue_).order.symbol \in DOMAIN books_
                               /\ PriceOK(Head(queue_).order)
<1>1. /\ queue_ \in Seq(WorkItem) /\ queue_ # << >> /\ queue_' = Tail(queue_)
      /\ pc = "run" /\ call = NoCall /\ Head(queue_).tag = tag /\ Len(queue_) < QueueSize
  BY DEF IInv, TypeOK, Pop
<1>2. /\ 1 \in DOMAIN queue_ /\ Head(queue_) = queue_[1] /\ queue_[1] \in WorkItem
      /\ queue_' \in Seq(WorkItem) /\ Len(queue_') < Len(queue_)
      /\ \A i \in DOMAIN queue_' : /\ i \in Nat /\ i + 1 # 1 /\ i + 1 \in DOMAIN queue_
                                   /\ queue_'[i] = queue_[i + 1]
  BY <1>1, PopProperties
<1>3. Len(queue_') < QueueSize
  BY <1>1, <1>2, LenProperties, BoundAssumption
<1>4. QueueOK'
  <2>1. ASSUME NEW i \in DOMAIN queue_', queue_'[i].tag = "ORDER"
        PROVE  queue_'[i].order.symbol \in DOMAIN books_' /\ PriceOK(queue_'[i].order)
    BY <1>2, <2>1 DEF IInv, QueueOK
  <2>2. ASSUME NEW i \in DOMAIN queue_', NEW j \in DOMAIN queue_',
               queue_'[i].tag = "ORDER", queue_'[j].tag = "ORDER",
               queue_'[i].order.exchange_id = queue_'[j].order.exchange_id
        PROVE  i = j
    <3>1. /\ i + 1 \in DOMAIN queue_ /\ queue_'[i] = queue_[i + 1]
          /\ j + 1 \in DOMAIN queue_ /\ queue_'[j] = queue_[j + 1]
          /\ i \in Nat /\ j \in Nat
      BY <1>2
    <3>2. i + 1 = j + 1
      BY <2>2, <3>1 DEF IInv, QueueOK
    <3> QED BY <3>1, <3>2
  <2> QED BY <2>1, <2>2 DEF QueueOK, PriceOK
<1>5. QueuedIds' \subseteq QueuedIds
  BY <1>2 DEF QueuedIds
<1>6. ASSUME tag = "ORDER"
      PROVE  /\ Head(queue_).order.exchange_id \in QueuedIds
             /\ Head(queue_).order.exchange_id \notin QueuedIds'
             /\ Head(queue_).order.symbol \in DOMAIN books_
             /\ PriceOK(Head(queue_).order)
  <2>1. Head(queue_).order.exchange_id \in QueuedIds
    BY <1>1, <1>2, <1>6 DEF QueuedIds
  <2>2. Head(queue_).order.symbol \in DOMAIN books_ /\ PriceOK(Head(queue_).order)
    BY <1>1, <1>2, <1>6 DEF IInv, QueueOK
  <2>3. ASSUME NEW i \in DOMAIN queue_', queue_'[i].tag = "ORDER",
               queue_'[i].order.exchange_id = Head(queue_).order.exchange_id
        PROVE  FALSE
    <3>1. /\ i + 1 \in DOMAIN queue_ /\ queue_'[i] = queue_[i + 1] /\ i + 1 # 1
          /\ 1 \in DOMAIN queue_ /\ Head(queue_) = queue_[1]
      BY <1>2
    <3> QED BY <1>1, <1>6, <2>3, <3>1 DEF IInv, QueueOK
  <2> QED BY <2>1, <2>2, <2>3 DEF QueuedIds
<1> QED BY <1>1, <1>2, <1>3, <1>4, <1>5, <1>6

\* A step that leaves books_ alone keeps every book consistent and every id in one book.
LEMMA UnchangedBooks ==
    ASSUME IInv, UNCHANGED books_
    PROVE  /\ DOMAIN books_' = DOMAIN books_ /\ BooksOK' /\ ListedIds' = ListedIds
           /\ \A t, u \in DOMAIN books_' :
                  t # u => DOMAIN books_'[t].order_index_ \cap DOMAIN books_'[u].order_index_ = {}
  BY DEF IInv, Fresh, OnePlace, BooksOK, ListedIds

\* run()'s ORDER branch: the order is killed, begins to match, or finds no book.
LEMMA RunOrderStep ==
    ASSUME IInv, RunOrder
    PROVE  IInv' /\ Keeps
<1> DEFINE o == Head(queue_).order
<1>1. Pop("ORDER") /\ UNCHANGED << books_, order_seq_, requests, rows, main >>
  BY DEF RunOrder, NoBook
<1>2. /\ DOMAIN books_' = DOMAIN books_ /\ BooksOK' /\ ListedIds' = ListedIds
      /\ \A t, u \in DOMAIN books_' :
             t # u => DOMAIN books_'[t].order_index_ \cap DOMAIN books_'[u].order_index_ = {}
  BY <1>1, UnchangedBooks
<1>3. /\ Head(queue_) \in WorkItem /\ Head(queue_).tag = "ORDER"
      /\ pc = "run" /\ call = NoCall
      /\ queue_' \in Seq(WorkItem) /\ Len(queue_') < QueueSize
      /\ QueueOK'
      /\ QueuedIds' \subseteq QueuedIds
      /\ o.exchange_id \in QueuedIds /\ o.exchange_id \notin QueuedIds'
      /\ o.symbol \in DOMAIN books_ /\ PriceOK(o)
  BY <1>1, <1>2, PopStep
<1>4. o \in Order
  BY <1>3 DEF WorkItem
<1> HIDE DEF o
<1>5. cur = NoCur /\ MatchingIds = {} /\ UnrestoredIds = {}
  BY <1>3, Serving
<1>6. ListedIds \cap QueuedIds = {}
  BY DEF IInv, Fresh, OnePlace
<1>7. \/ pc' \in {"run", "undefined"} /\ cur' = NoCur
      \/ Add([tag |-> "ORDER", order |-> o])
  BY <1>3, <1>5 DEF RunOrder, NoBook, o
<1>8. CASE pc' \in {"run", "undefined"} /\ cur' = NoCur
  <2>1. MatchingIds' = {}
    BY <1>8 DEF MatchingIds
  <2>2. EngineMoves
    BY <1>1, <1>2, <1>3, <1>6, <1>8, <2>1 DEF EngineMoves, LiveIds
  <2> QED BY <2>2, EngineMovesOK
<1>9. CASE Add([tag |-> "ORDER", order |-> o])
  <2> DEFINE n == [o EXCEPT !.leaves_qty = o.qty]
  <2>1. /\ n \in Order /\ n.exchange_id = o.exchange_id /\ n.symbol = o.symbol
        /\ n.type = o.type /\ n.price = o.price
    BY <1>4 DEF Order
  <2>2. pc' = "match" /\ cur' = [tag |-> "ORDER", order |-> n]
    BY <1>9 DEF Add
  <2> HIDE DEF n
  <2>3. cur' \in Aggressor /\ cur'.order = n
    BY <2>1, <2>2 DEF Aggressor
  <2>4. PriceOK(cur'.order) /\ cur'.order.symbol \in DOMAIN books_
    BY <1>3, <2>1, <2>3 DEF PriceOK
  <2>5. MatchingIds' = {o.exchange_id}
    BY <2>1, <2>2, <2>3 DEF MatchingIds
  <2>6. EngineMoves
    BY <1>1, <1>2, <1>3, <1>6, <2>2, <2>3, <2>4, <2>5 DEF EngineMoves, LiveIds
  <2> QED BY <2>6, EngineMovesOK
<1> QED BY <1>7, <1>8, <1>9

\* run()'s SNAPSHOT branch only reads the books.
LEMMA RunSnapshotStep ==
    ASSUME IInv, RunSnapshot
    PROVE  IInv' /\ Keeps
<1>1. Pop("SNAPSHOT") /\ UNCHANGED << books_, order_seq_, requests, rows, main, pc, cur >>
  BY DEF RunSnapshot
<1>2. /\ DOMAIN books_' = DOMAIN books_ /\ BooksOK' /\ ListedIds' = ListedIds
      /\ \A t, u \in DOMAIN books_' :
             t # u => DOMAIN books_'[t].order_index_ \cap DOMAIN books_'[u].order_index_ = {}
  BY <1>1, UnchangedBooks
<1>3. /\ pc = "run" /\ queue_' \in Seq(WorkItem) /\ Len(queue_') < QueueSize
      /\ QueueOK' /\ QueuedIds' \subseteq QueuedIds
  BY <1>1, <1>2, PopStep
<1>4. cur = NoCur /\ MatchingIds = {}
  BY <1>3, Serving
<1>5. MatchingIds' = {}
  BY <1>1, <1>3 DEF MatchingIds
<1>6. ListedIds \cap QueuedIds = {}
  BY DEF IInv, Fresh, OnePlace
<1>7. EngineMoves
  BY <1>1, <1>2, <1>3, <1>4, <1>5, <1>6 DEF EngineMoves, LiveIds
<1> QED BY <1>7, EngineMovesOK

\* A popped request whose symbol has no book, or that changes no book.
LEMMA RequestDropped ==
    ASSUME IInv, NEW tag, Pop(tag),
           UNCHANGED << books_, order_seq_, requests, rows, main, cur >>,
           pc' \in {"run", "undefined"}
    PROVE  IInv' /\ Keeps
<1>1. /\ DOMAIN books_' = DOMAIN books_ /\ BooksOK' /\ ListedIds' = ListedIds
      /\ \A t, u \in DOMAIN books_' :
             t # u => DOMAIN books_'[t].order_index_ \cap DOMAIN books_'[u].order_index_ = {}
  BY UnchangedBooks
<1>2. /\ pc = "run" /\ queue_' \in Seq(WorkItem) /\ Len(queue_') < QueueSize
      /\ QueueOK' /\ QueuedIds' \subseteq QueuedIds
  BY <1>1, PopStep
<1>3. cur = NoCur
  BY <1>2, Serving
<1>4. MatchingIds' = {}
  BY DEF MatchingIds
<1>5. ListedIds \cap QueuedIds = {}
  BY DEF IInv, Fresh, OnePlace
<1>6. EngineMoves
  BY <1>1, <1>2, <1>3, <1>4, <1>5 DEF EngineMoves, LiveIds
<1> QED BY <1>6, EngineMovesOK

\* A popped request that only takes orders out of a book, or changes them there.
LEMMA RequestServed ==
    ASSUME IInv, NEW tag, Pop(tag), NEW s, NEW b, ChangesBook(s, b, {}),
           UNCHANGED << order_seq_, requests, rows, main, pc, cur >>
    PROVE  IInv' /\ Keeps
<1>1. BookChanged(s, b, {})
  BY BookUpdate
<1>2. DOMAIN books_' = DOMAIN books_ /\ ListedIds' \subseteq ListedIds
  BY <1>1 DEF BookChanged
<1>3. /\ pc = "run" /\ queue_' \in Seq(WorkItem) /\ Len(queue_') < QueueSize
      /\ QueueOK' /\ QueuedIds' \subseteq QueuedIds
  BY <1>2, PopStep
<1>4. cur = NoCur
  BY <1>3, Serving
<1>5. MatchingIds' = {}
  BY <1>3 DEF MatchingIds
<1>6. ListedIds \cap QueuedIds = {}
  BY DEF IInv, Fresh, OnePlace
<1>7. EngineMoves
  BY <1>1, <1>2, <1>3, <1>4, <1>5, <1>6 DEF EngineMoves, LiveIds, BookChanged
<1> QED BY <1>7, EngineMovesOK

\* run()'s CANCEL branch: OrderBook::cancel unlinks the order if it is there.
LEMMA RunCancelStep ==
    ASSUME IInv, RunCancel
    PROVE  IInv' /\ Keeps
<1> DEFINE req == Head(queue_).req
           s == req.symbol
           id == req.orig_order_id
           b == Cancelled(books_[s], id)
<1>1. /\ Pop("CANCEL") /\ UNCHANGED << order_seq_, requests, rows, main >>
      /\ \/ NoBook(s)
         \/ /\ s \in DOMAIN books_ /\ books_' = [books_ EXCEPT ![s] = b]
            /\ UNCHANGED << pc, cur >>
  BY DEF RunCancel, valid_symbols_
<1>2. CASE NoBook(s)
  <2>1. pc' = "undefined" /\ UNCHANGED << books_, cur >>
    BY <1>2 DEF NoBook
  <2> QED BY <1>1, <2>1, RequestDropped
<1>3. CASE s \in DOMAIN books_ /\ books_' = [books_ EXCEPT ![s] = b] /\ UNCHANGED << pc, cur >>
  <2>1. BookOK(books_[s]) /\ \A x \in DOMAIN books_[s].order_index_ :
                                  books_[s].order_index_[x].symbol = s
    BY <1>3 DEF IInv, BooksOK
  <2>2. /\ BookOK(b)
        /\ DOMAIN b.order_index_ \subseteq DOMAIN books_[s].order_index_
        /\ \A x \in DOMAIN b.order_index_ : b.order_index_[x] = books_[s].order_index_[x]
    <3>1. CASE id \in DOMAIN books_[s].order_index_
      <4>1. b = Unlink(books_[s], id)
        BY <3>1 DEF Cancelled, Found
      <4> HIDE DEF b, s, id
      <4>2. BookOK(b) /\ b.order_index_ = Drop(books_[s].order_index_, id)
        BY <2>1, <3>1, <4>1, UnlinkOK
      <4> QED BY <4>2 DEF Drop
    <3>2. CASE id \notin DOMAIN books_[s].order_index_
      BY <2>1, <3>2 DEF Cancelled, Found
    <3> QED BY <3>1, <3>2
  <2> HIDE DEF b, s, id, req
  <2>3. ChangesBook(s, b, {})
    BY <1>3, <2>1, <2>2 DEF ChangesBook
  <2> QED BY <1>1, <1>3, <2>3, RequestServed
<1> QED BY <1>1, <1>2, <1>3

\* run()'s REPLACE branch: not found, reduced in place, or unlinked and matched again.
LEMMA RunReplaceStep ==
    ASSUME IInv, RunReplace
    PROVE  IInv' /\ Keeps
<1> DEFINE req == Head(queue_).req
           s == req.symbol
           id == req.orig_order_id
           book == books_[s]
           r == book.order_index_[id]
           agg == [tag |-> "REPLACE", req |-> req,
                   order |-> [r EXCEPT !.price = req.new_price, !.qty = req.new_qty]]
<1>1. Pop("REPLACE") /\ UNCHANGED << order_seq_, requests, rows, main >>
  BY DEF RunReplace
<1>2. \/ NoBook(s)
      \/ UNCHANGED << books_, pc, cur >>
      \/ /\ s \in DOMAIN books_ /\ id \in DOMAIN book.order_index_
         /\ books_' = [books_ EXCEPT ![s] = Reduced(book, id, req.new_qty)]
         /\ UNCHANGED << pc, cur >>
      \/ /\ s \in DOMAIN books_ /\ id \in DOMAIN book.order_index_
         /\ books_' = [books_ EXCEPT ![s] = Unlink(book, id)]
         /\ Add(agg)
  BY DEF RunReplace, valid_symbols_, Found
<1>3. CASE NoBook(s)
  <2>1. pc' = "undefined" /\ UNCHANGED << books_, cur >>
    BY <1>3 DEF NoBook
  <2> QED BY <1>1, <2>1, RequestDropped
<1>4. CASE UNCHANGED << books_, pc, cur >>
  <2>1. pc' = "run"
    BY <1>1, <1>4 DEF Pop
  <2> QED BY <1>1, <1>4, <2>1, RequestDropped
<1>5. /\ Head(queue_) \in WorkItem /\ Head(queue_).tag = "REPLACE"
  BY <1>1, HeadTailProperties DEF Pop, IInv, TypeOK
<1>6. req \in ReplaceRequest /\ req.new_qty \in Int /\ req.new_price \in Prices
  <2>1. req \in ReplaceRequest
    BY <1>5 DEF WorkItem
  <2> QED BY <2>1 DEF ReplaceRequest
<1>7. ASSUME s \in DOMAIN books_
      PROVE  BookOK(book) /\ \A x \in DOMAIN book.order_index_ : book.order_index_[x].symbol = s
  BY <1>7 DEF IInv, BooksOK
<1>8. CASE /\ s \in DOMAIN books_ /\ id \in DOMAIN book.order_index_
           /\ books_' = [books_ EXCEPT ![s] = Reduced(book, id, req.new_qty)]
           /\ UNCHANGED << pc, cur >>
  <2> DEFINE b == Reduced(book, id, req.new_qty)
             q == req.new_qty
  <2>0. q \in Int
    BY <1>6
  <2>1. /\ BookOK(b)
        /\ DOMAIN b.order_index_ = DOMAIN book.order_index_
        /\ \A x \in DOMAIN book.order_index_ : b.order_index_[x].symbol = book.order_index_[x].symbol
    <3> HIDE DEF id, book, q
    <3> QED BY <1>7, <1>8, <2>0, ReducedOK DEF q
  <2> HIDE DEF b, s, id, req
  <2>2. ChangesBook(s, b, {})
    BY <1>7, <1>8, <2>1 DEF ChangesBook, b
  <2> QED BY <1>1, <1>8, <2>2, RequestServed
<1>9. CASE /\ s \in DOMAIN books_ /\ id \in DOMAIN book.order_index_
           /\ books_' = [books_ EXCEPT ![s] = Unlink(book, id)]
           /\ Add(agg)
  <2> DEFINE b == Unlink(book, id)
             n == [r EXCEPT !.price = req.new_price, !.qty = req.new_qty,
                            !.leaves_qty = req.new_qty]
  <2>1. BookOK(b) /\ b.order_index_ = Drop(book.order_index_, id)
    <3> HIDE DEF id, book
    <3> QED BY <1>7, <1>9, UnlinkOK
  <2>2. /\ DOMAIN b.order_index_ = DOMAIN book.order_index_ \ {id}
        /\ \A x \in DOMAIN b.order_index_ : b.order_index_[x] = book.order_index_[x]
    <3> HIDE DEF b
    <3> QED BY <2>1, Zenon DEF Drop
  <2>3. r \in Order /\ r.exchange_id = id /\ r.symbol = s /\ r.type = "limit"
    BY <1>7, <1>9, Zenon DEF BookOK, BookType, IndexedIsListed
  <2>4. /\ n \in Order /\ n.exchange_id = id /\ n.symbol = s
        /\ n.price = req.new_price
    <3>1. req.new_price \in Int
      BY <1>6, PriceAssumption DEF Prices
    <3> HIDE DEF r, req
    <3> QED BY <1>6, <2>3, <3>1 DEF Order
  <2>5. pc' = "match" /\ cur' = [tag |-> "REPLACE", req |-> req, order |-> n]
    <3> HIDE DEF req
    <3> DEFINE m == [r EXCEPT !.price = req.new_price, !.qty = req.new_qty]
    <3>1. m.qty = req.new_qty /\ [m EXCEPT !.leaves_qty = req.new_qty] = n
      <4> HIDE DEF r
      <4> QED BY <2>3 DEF Order
    <3>2. [agg EXCEPT !.order.leaves_qty = agg.order.qty]
            = [tag |-> "REPLACE", req |-> req, order |-> n]
      <4>1. agg = [tag |-> "REPLACE", req |-> req, order |-> m]
        OBVIOUS
      <4> HIDE DEF m, agg, n
      <4> QED BY <3>1, <4>1
    <3> QED BY <1>9, <3>2 DEF Add
  <2> HIDE DEF n, r, b, book, agg
  <2>6. cur' \in Aggressor /\ cur'.order = n
    <3> HIDE DEF req
    <3> QED BY <1>6, <2>4, <2>5 DEF Aggressor
  <2>7. PriceOK(cur'.order) /\ cur'.order.symbol \in DOMAIN books_
    BY <1>6, <1>9, <2>4, <2>6 DEF PriceOK
  <2>8. MatchingIds' = {id}
    BY <2>4, <2>5, <2>6 DEF MatchingIds
  <2>9. BookChanged(s, b, {})
    <3>1. ChangesBook(s, b, {})
      BY <1>7, <1>9, <2>1, <2>2, Zenon DEF ChangesBook, b, book
    <3> HIDE DEF s
    <3> QED BY <3>1, BookUpdate
  <2>10. id \in ListedIds /\ id \notin ListedIds' /\ ListedIds' \subseteq ListedIds
    <3>1. id \in ListedIds
      BY <1>9 DEF ListedIds, book
    <3> QED BY <1>9, <2>2, <2>9, <3>1 DEF BookChanged, book
  <2>11. /\ pc = "run" /\ queue_' \in Seq(WorkItem) /\ Len(queue_') < QueueSize
         /\ QueueOK' /\ QueuedIds' \subseteq QueuedIds
    BY <1>1, <2>9, PopStep DEF BookChanged
  <2>12. ListedIds \cap QueuedIds = {}
    BY DEF IInv, Fresh, OnePlace
  <2> HIDE DEF s, id, req
  <2>13. EngineMoves
    BY <1>1, <2>5, <2>6, <2>7, <2>8, <2>9, <2>10, <2>11, <2>12
       DEF EngineMoves, LiveIds, BookChanged
  <2> QED BY <2>13, EngineMovesOK
<1> HIDE DEF agg, r, book, id, s, req
<1> QED BY <1>2, <1>3, <1>4, <1>8, <1>9

\* A step inside add() leaves the queue alone.
LEMMA QueueKept ==
    ASSUME IInv, UNCHANGED queue_, DOMAIN books_' = DOMAIN books_
    PROVE  /\ queue_' \in Seq(WorkItem) /\ Len(queue_') < QueueSize
           /\ QueueOK' /\ QueuedIds' = QueuedIds
  BY DEF IInv, TypeOK, QueueOK, QueuedIds, PriceOK

\* One iteration of match_against: the aggressor shrinks, the maker shrinks or leaves.
LEMMA MatchFillStep ==
    ASSUME IInv, MatchFill
    PROVE  IInv' /\ Keeps
<1> DEFINE o == cur.order
           s == o.symbol
           book == books_[s]
           b == AfterFill(book, o)
           left == o.leaves_qty - FillQty(book, o)
           n == [o EXCEPT !.leaves_qty = left]
<1>1. /\ pc = "match" /\ CanMatch(book, o)
      /\ books_' = [books_ EXCEPT ![s] = b]
      /\ cur' = [cur EXCEPT !.order.leaves_qty = left]
      /\ UNCHANGED << queue_, order_seq_, requests, rows, main, pc >>
  BY DEF MatchFill
<1>2. cur \in Aggressor /\ s \in DOMAIN books_ /\ PriceOK(o)
  BY <1>1 DEF IInv, TypeOK, CurOK
<1>3. o \in Order
  BY <1>2 DEF Aggressor
<1>4. BookOK(book) /\ \A x \in DOMAIN book.order_index_ : book.order_index_[x].symbol = s
  BY <1>2 DEF IInv, BooksOK
<1>5. /\ BookOK(b)
      /\ DOMAIN b.order_index_ \subseteq DOMAIN book.order_index_
      /\ \A x \in DOMAIN b.order_index_ : b.order_index_[x].symbol = book.order_index_[x].symbol
      /\ FillQty(book, o) \in Int
  <2> HIDE DEF o, book
  <2> QED BY <1>1, <1>3, <1>4, AfterFillOK
<1>6. left \in Int
  <2>1. o.leaves_qty \in Int
    BY <1>3 DEF Order
  <2> HIDE DEF o
  <2> QED BY <1>5, <2>1
<1>7. cur' \in Aggressor /\ cur'.order = n
  <2> HIDE DEF left
  <2>1. n \in Order
    <3> HIDE DEF o
    <3> QED BY <1>3, <1>6 DEF Order
  <2>2. cur' = [cur EXCEPT !.order = n]
    BY <1>1
  <2> HIDE DEF n
  <2> QED BY <1>2, <2>1, <2>2 DEF Aggressor
<1>8. n.exchange_id = o.exchange_id /\ n.symbol = s /\ n.type = o.type /\ n.price = o.price
  <2> HIDE DEF left
  <2>1. ASSUME NEW q \in Order, NEW y
        PROVE  LET m == [q EXCEPT !.leaves_qty = y]
               IN  /\ m.exchange_id = q.exchange_id /\ m.symbol = q.symbol
                   /\ m.type = q.type /\ m.price = q.price
    BY DEF Order
  <2> HIDE DEF o
  <2> QED BY <1>3, <2>1
<1> HIDE DEF n, left, b, book
<1>9. BookChanged(s, b, {})
  <2>1. ChangesBook(s, b, {})
    BY <1>1, <1>2, <1>4, <1>5 DEF ChangesBook, book
  <2> HIDE DEF s
  <2> QED BY <2>1, BookUpdate
<1>10. DOMAIN books_' = DOMAIN books_ /\ ListedIds' \subseteq ListedIds
  BY <1>9 DEF BookChanged
<1>11. /\ queue_' \in Seq(WorkItem) /\ Len(queue_') < QueueSize
       /\ QueueOK' /\ QueuedIds' = QueuedIds
  BY <1>1, <1>10, QueueKept
<1>12. MatchingIds = {o.exchange_id} /\ MatchingIds' = {o.exchange_id}
  BY <1>1, <1>7, <1>8 DEF MatchingIds
<1>13. /\ ListedIds \cap QueuedIds = {} /\ ListedIds \cap MatchingIds = {}
       /\ QueuedIds \cap MatchingIds = {}
  BY DEF IInv, Fresh, OnePlace
<1>14. PriceOK(cur'.order) /\ cur'.order.symbol \in DOMAIN books_
  BY <1>2, <1>7, <1>8 DEF PriceOK
<1> HIDE DEF o, s
<1>15. EngineMoves
  BY <1>1, <1>7, <1>9, <1>10, <1>11, <1>12, <1>13, <1>14 DEF EngineMoves, LiveIds, BookChanged
<1> QED BY <1>15, EngineMovesOK

\* The end of add(): the remainder of a limit order rests.
LEMMA MatchEndStep ==
    ASSUME IInv, MatchEnd
    PROVE  IInv' /\ Keeps
<1> DEFINE o == cur.order
           s == o.symbol
           book == books_[s]
           b == PushBack(book, o)
           X == {o.exchange_id}
<1>1. /\ pc = "match" /\ ~CanMatch(book, o)
      /\ books_' = IF Rests(o) THEN [books_ EXCEPT ![s] = b] ELSE books_
      /\ cur' = NoCur /\ pc' = "run"
      /\ UNCHANGED << queue_, order_seq_, requests, rows, main >>
  BY DEF MatchEnd
<1>2. cur \in Aggressor /\ s \in DOMAIN books_ /\ PriceOK(o)
  BY <1>1 DEF IInv, TypeOK, CurOK
<1>3. o \in Order
  BY <1>2 DEF Aggressor
<1>4. BookOK(book) /\ \A x \in DOMAIN book.order_index_ : book.order_index_[x].symbol = s
  BY <1>2 DEF IInv, BooksOK
<1>5. MatchingIds = X /\ MatchingIds' = {}
  BY <1>1 DEF MatchingIds
<1>6. /\ ListedIds \cap QueuedIds = {} /\ ListedIds \cap MatchingIds = {}
      /\ QueuedIds \cap MatchingIds = {}
  BY DEF IInv, Fresh, OnePlace
<1>7. CASE Rests(o)
  <2>1. o.type = "limit" /\ o.leaves_qty > 0 /\ o.price \in Prices
    BY <1>2, <1>7 DEF Rests, PriceOK
  <2>2. o.exchange_id \notin DOMAIN book.order_index_
    BY <1>2, <1>5, <1>6 DEF ListedIds
  <2>3. BookOK(b) /\ b.order_index_ = Put(book.order_index_, o.exchange_id, o)
    <3> HIDE DEF o, book
    <3> QED BY <1>3, <1>4, <2>1, <2>2, PushBackOK
  <2> HIDE DEF b
  <2>4. /\ DOMAIN b.order_index_ = DOMAIN book.order_index_ \cup X
        /\ \A x \in DOMAIN b.order_index_ : b.order_index_[x].symbol = s
    BY <1>4, <2>3 DEF Put
  <2>5. BookChanged(s, b, X)
    <3>1. X \cap ListedIds = {} /\ books_' = [books_ EXCEPT ![s] = b]
      BY <1>1, <1>5, <1>6, <1>7
    <3> HIDE DEF X
    <3>2. ChangesBook(s, b, X)
      BY <1>2, <2>3, <2>4, <3>1 DEF ChangesBook
    <3> HIDE DEF s, book
    <3> QED BY <3>2, BookUpdate
  <2>6. DOMAIN books_' = DOMAIN books_ /\ ListedIds' \subseteq ListedIds \cup X
    BY <2>5 DEF BookChanged
  <2>7. /\ queue_' \in Seq(WorkItem) /\ Len(queue_') < QueueSize
        /\ QueueOK' /\ QueuedIds' = QueuedIds
    BY <1>1, <2>6, QueueKept
  <2> HIDE DEF o, s, book, X
  <2>8. EngineMoves
    BY <1>1, <1>5, <1>6, <2>5, <2>6, <2>7 DEF EngineMoves, LiveIds, BookChanged
  <2> QED BY <2>8, EngineMovesOK
<1>8. CASE ~Rests(o)
  <2>1. UNCHANGED books_
    BY <1>1, <1>8
  <2>2. /\ DOMAIN books_' = DOMAIN books_ /\ BooksOK' /\ ListedIds' = ListedIds
        /\ \A t, u \in DOMAIN books_' :
               t # u => DOMAIN books_'[t].order_index_ \cap DOMAIN books_'[u].order_index_ = {}
    BY <2>1, UnchangedBooks
  <2>3. /\ queue_' \in Seq(WorkItem) /\ Len(queue_') < QueueSize
        /\ QueueOK' /\ QueuedIds' = QueuedIds
    BY <1>1, <2>2, QueueKept
  <2> HIDE DEF o, s, book, X
  <2>4. EngineMoves
    BY <1>1, <1>5, <1>6, <2>2, <2>3 DEF EngineMoves, LiveIds
  <2> QED BY <2>4, EngineMovesOK
<1> QED BY <1>7, <1>8

---------------------------------------------------------------------------
(* Nothing crosses                                                         *)

\* The levels PushBack leaves.
LEMMA PushBackLevels ==
    ASSUME NEW book, BookType(book), NEW o \in Order
    PROVE  /\ DOMAIN PushBack(book, o).levels[o.side]
                  = DOMAIN book.levels[o.side] \cup {o.price}
           /\ \A s \in Sides : s # o.side => PushBack(book, o).levels[s] = book.levels[s]
<1>1. o.side \in Sides /\ DOMAIN book.levels = Sides
  BY DEF Order, BookType
<1> QED BY <1>1 DEF PushBack, Put

\* Restoring a row that fits leaves room for those that do not cross it.
LEMMA RestoreUncrossed ==
    ASSUME IInv, NothingCrosses, RestoreOrder
    PROVE  NothingCrosses'
<1> DEFINE o == Head(rows)
           s == o.symbol
           b == PushBack(books_[s], o)
<1>1. /\ rows # << >> /\ rows' = Tail(rows)
      /\ books_' = IF s \in DOMAIN books_ THEN [books_ EXCEPT ![s] = b] ELSE books_
  BY DEF RestoreOrder, valid_symbols_
<1>2. rows \in Seq(Order)
  BY DEF IInv, TypeOK
<1>3. /\ 1 \in DOMAIN rows /\ o = rows[1] /\ o \in Order
      /\ \A i \in DOMAIN rows' : /\ i \in Nat /\ i + 1 # 1 /\ i + 1 \in DOMAIN rows
                                 /\ rows'[i] = rows[i + 1]
  BY <1>1, <1>2, PopProperties
<1> HIDE DEF o
<1>4. /\ o.type = "limit" /\ o.price \in Prices /\ o.side \in Sides
      /\ s \in DOMAIN books_ => Fits(books_[s], o)
      /\ o.exchange_id \in UnrestoredIds
  BY <1>3 DEF IInv, RowsOK, NothingCrosses, UnrestoredIds, Order
<1>5. o.exchange_id \notin ListedIds
  BY <1>4 DEF IInv, Fresh, OnePlace
<1>6. ASSUME NEW i \in DOMAIN rows'
      PROVE  /\ rows'[i].side \in Sides
             /\ rows'[i].symbol \in DOMAIN books_ => Fits(books_[rows'[i].symbol], rows'[i])
             /\ rows'[i].symbol = s /\ rows'[i].side = "buy" /\ o.side = "sell"
                    => rows'[i].price < o.price
             /\ rows'[i].symbol = s /\ rows'[i].side = "sell" /\ o.side = "buy"
                    => o.price < rows'[i].price
  <2>1. i + 1 \in DOMAIN rows /\ rows'[i] = rows[i + 1] /\ rows[i + 1] \in Order
    BY <1>2, <1>3, ElementOfSeq, LenProperties
  <2> QED BY <1>3, <2>1 DEF NothingCrosses, Order
<1>7. \A i, j \in DOMAIN rows' :
          rows'[i].symbol = rows'[j].symbol /\ rows'[i].side = "buy" /\ rows'[j].side = "sell"
              => rows'[i].price < rows'[j].price
  BY <1>3 DEF NothingCrosses
<1>8. CASE s \notin DOMAIN books_
  BY <1>1, <1>6, <1>7, <1>8 DEF NothingCrosses, Uncrossed
<1>9. CASE s \in DOMAIN books_
  <2>1. BookOK(books_[s]) /\ NotCrossed(books_[s])
    BY <1>9 DEF IInv, BooksOK, NothingCrosses, Uncrossed
  <2>2. o.exchange_id \notin DOMAIN books_[s].order_index_
    BY <1>5, <1>9 DEF ListedIds
  <2>3. NotCrossed(b)
    BY <1>3, <1>4, <1>9, <2>1, <2>2, PushBackOK
  <2>4. /\ DOMAIN b.levels[o.side] = DOMAIN books_[s].levels[o.side] \cup {o.price}
        /\ \A t \in Sides : t # o.side => b.levels[t] = books_[s].levels[t]
    BY <1>3, <2>1, PushBackLevels DEF BookOK
  <2>5. /\ DOMAIN books_' = DOMAIN books_ /\ books_'[s] = b
        /\ \A t \in DOMAIN books_ : t # s => books_'[t] = books_[t]
    BY <1>1, <1>9
  <2> HIDE DEF b, s
  <2>6. ASSUME NEW i \in DOMAIN rows', rows'[i].symbol \in DOMAIN books_'
        PROVE  Fits(books_'[rows'[i].symbol], rows'[i])
    <3> DEFINE r == rows'[i]
    <3>1. r.side \in Sides
      BY <1>6
    <3>2. CASE r.symbol # s
      BY <1>6, <2>5, <2>6, <3>2
    <3>3. CASE r.symbol = s
      <4>1. Fits(books_[s], r) /\ books_'[r.symbol] = b
        BY <1>6, <1>9, <2>5, <3>3
      <4>2. CASE r.side = "buy"
        <5>1. CASE o.side = "buy"
          BY <2>4, <4>1, <4>2, <5>1 DEF Fits, Sides
        <5>2. CASE o.side = "sell"
          BY <1>6, <2>4, <3>3, <4>1, <4>2, <5>2 DEF Fits
        <5> QED BY <1>4, <5>1, <5>2 DEF Sides
      <4>3. CASE r.side = "sell"
        <5>1. CASE o.side = "sell"
          BY <2>4, <4>1, <4>3, <5>1 DEF Fits, Sides
        <5>2. CASE o.side = "buy"
          BY <1>6, <2>4, <3>3, <4>1, <4>3, <5>2 DEF Fits
        <5> QED BY <1>4, <5>1, <5>2 DEF Sides
      <4> QED BY <3>1, <4>2, <4>3 DEF Sides
    <3> QED BY <3>2, <3>3
  <2>7. Uncrossed'
    BY <2>3, <2>5 DEF NothingCrosses, Uncrossed
  <2> QED BY <1>7, <2>6, <2>7 DEF NothingCrosses
<1> QED BY <1>8, <1>9

\* One book changes, and no two orders come to cross in it.
LEMMA CrossingStep ==
    ASSUME NEW s, NEW b,
           \/ UNCHANGED books_
           \/ /\ s \in DOMAIN books_
              /\ books_' = [books_ EXCEPT ![s] = b]
              /\ CrossPairs(b) \subseteq CrossPairs(books_[s])
    PROVE  Crossings' \subseteq Crossings
<1>1. CASE UNCHANGED books_
  BY <1>1 DEF Crossings
<1>2. CASE ~UNCHANGED books_
  <2> SUFFICES ASSUME NEW t \in DOMAIN books_'
               PROVE  t \in DOMAIN books_ /\ CrossPairs(books_'[t]) \subseteq CrossPairs(books_[t])
    BY DEF Crossings
  <2>1. t \in DOMAIN books_
    BY <1>2
  <2>2. CASE t = s
    BY <1>2, <2>1, <2>2
  <2>3. CASE t # s
    <3>1. books_'[t] = books_[t]
      BY <1>2, <2>1, <2>3
    <3> QED BY <2>1, <3>1
  <2> QED BY <2>2, <2>3
<1> QED BY <1>1, <1>2

\* cancel and replace take levels away ...
LEMMA RequestCrosses ==
    ASSUME IInv, RunCancel \/ RunReplace
    PROVE  Crossings' \subseteq Crossings
<1> DEFINE req == Head(queue_).req
           s == req.symbol
           id == req.orig_order_id
           q == req.new_qty
           book == books_[s]
<1>1. queue_ # << >>
  BY DEF RunCancel, RunReplace, Pop
<1>3. CASE RunCancel
  <2>1. \/ UNCHANGED books_
        \/ /\ s \in DOMAIN books_ /\ books_' = [books_ EXCEPT ![s] = Cancelled(book, id)]
    BY <1>3 DEF RunCancel, NoBook, valid_symbols_
  <2> HIDE DEF s, id
  <2>2. ASSUME s \in DOMAIN books_
        PROVE  CrossPairs(Cancelled(book, id)) \subseteq CrossPairs(book)
    <3>1. BookOK(book)
      BY <2>2 DEF IInv, BooksOK
    <3> HIDE DEF book
    <3> QED BY <3>1, UnlinkOK, WithinCrosses DEF Cancelled, Found
  <2> DEFINE b == Cancelled(book, id)
  <2>3. \/ UNCHANGED books_
        \/ /\ s \in DOMAIN books_
           /\ books_' = [books_ EXCEPT ![s] = b]
           /\ CrossPairs(b) \subseteq CrossPairs(books_[s])
    BY <2>1, <2>2
  <2> HIDE DEF b
  <2> QED BY <2>3, CrossingStep
<1>4. CASE RunReplace
  <2>1. /\ Head(queue_) \in WorkItem /\ Head(queue_).tag = "REPLACE"
    BY <1>1, <1>4, HeadTailProperties DEF RunReplace, Pop, IInv, TypeOK
  <2>2. q \in Int
    BY <2>1, SMTT(30) DEF WorkItem, ReplaceRequest
  <2>3. \/ UNCHANGED books_
        \/ /\ s \in DOMAIN books_ /\ id \in DOMAIN book.order_index_
           /\ \E b \in {Reduced(book, id, q), Unlink(book, id)} :
                  books_' = [books_ EXCEPT ![s] = b]
    BY <1>4, Zenon DEF RunReplace, NoBook, valid_symbols_, Found
  <2> HIDE DEF s, id, q
  <2>4. ASSUME s \in DOMAIN books_, id \in DOMAIN book.order_index_,
               NEW b \in {Reduced(book, id, q), Unlink(book, id)}
        PROVE  CrossPairs(b) \subseteq CrossPairs(book)
    <3>1. BookOK(book)
      BY <2>4 DEF IInv, BooksOK
    <3> HIDE DEF book
    <3>2. Within(b, book)
      BY <2>2, <2>4, <3>1, UnlinkOK, ReducedOK
    <3> QED BY <3>2, WithinCrosses
  <2>5. CASE UNCHANGED books_
    BY <2>5, CrossingStep
  <2>6. CASE ~UNCHANGED books_
    <3>1. PICK b \in {Reduced(book, id, q), Unlink(book, id)} :
              books_' = [books_ EXCEPT ![s] = b]
      BY <2>3, <2>6
    <3>2. /\ s \in DOMAIN books_
          /\ CrossPairs(b) \subseteq CrossPairs(books_[s])
      BY <2>3, <2>4, <2>6, <3>1
    <3> QED BY <3>1, <3>2, CrossingStep
  <2> QED BY <2>5, <2>6, SMTT(30)
<1> QED BY <1>3, <1>4

\* ... so does a fill, and what is left of the aggressor crosses nothing.
LEMMA MatchCrosses ==
    ASSUME IInv, MatchFill \/ MatchEnd
    PROVE  Crossings' \subseteq Crossings
<1> DEFINE o == cur.order
           s == o.symbol
           book == books_[s]
<1>1. pc = "match"
  BY DEF MatchFill, MatchEnd
<1>3. cur \in Aggressor /\ s \in DOMAIN books_ /\ PriceOK(o)
  BY <1>1 DEF IInv, TypeOK, CurOK
<1>4. o \in Order /\ BookOK(book)
  BY <1>3 DEF Aggressor, IInv, BooksOK
<1>5. MatchingIds = {o.exchange_id} /\ ListedIds \cap MatchingIds = {}
  BY <1>1 DEF MatchingIds, IInv, Fresh, OnePlace
<1>6. o.exchange_id \notin DOMAIN book.order_index_
  BY <1>3, <1>5 DEF ListedIds
<1>7. \/ UNCHANGED books_
      \/ CanMatch(book, o) /\ books_' = [books_ EXCEPT ![s] = AfterFill(book, o)]
      \/ ~CanMatch(book, o) /\ Rests(o) /\ books_' = [books_ EXCEPT ![s] = PushBack(book, o)]
  BY DEF MatchFill, MatchEnd
<1>8. PriceOK(o) /\ Rests(o) => o.type = "limit" /\ o.leaves_qty > 0 /\ o.price \in Prices
  BY DEF PriceOK, Rests
<1> HIDE DEF o, s
<1>9. CanMatch(book, o) => (CrossPairs(AfterFill(book, o)) \subseteq CrossPairs(book))
  <2> HIDE DEF book
  <2> QED BY <1>4, AfterFillOK, WithinCrosses
<1>10. ~CanMatch(book, o) /\ Rests(o) => (CrossPairs(PushBack(book, o)) \subseteq CrossPairs(book))
  <2> SUFFICES ASSUME ~CanMatch(book, o), Rests(o)
               PROVE  CrossPairs(PushBack(book, o)) \subseteq CrossPairs(book)
    OBVIOUS
  <2> HIDE DEF book
  <2>1. Fits(book, o)
    BY <1>3, <1>4, <1>8, LoopEndFits
  <2>2. PushBack(book, o).order_index_ = Put(book.order_index_, o.exchange_id, o)
    BY <1>3, <1>4, <1>6, <1>8, PushBackOK
  <2> QED BY <1>4, <2>1, <2>2, FitsCrosses
<1>11. PICK a, b : a = AfterFill(book, o) /\ b = PushBack(book, o)
  OBVIOUS
<1> QED BY <1>3, <1>7, <1>9, <1>10, <1>11, CrossingStep

\* No step but a restore lets two orders cross.
LEMMA NextCrosses ==
    ASSUME IInv, [Next]_vars, ~RestoreOrder
    PROVE  Crossings' \subseteq Crossings
<1>1. CASE UNCHANGED books_
  BY <1>1 DEF Crossings
<1>2. ASSUME NEW s \in Symbols, RegisterSymbol(s)
      PROVE  Crossings' \subseteq Crossings
  <2>1. books_' = Put(books_, s, EmptyBook) /\ s \notin DOMAIN books_
    BY <1>2 DEF RegisterSymbol, valid_symbols_
  <2>2. CrossPairs(EmptyBook) = {}
    BY DEF CrossPairs, EmptyBook, NoEntry
  <2>3. /\ DOMAIN books_' = DOMAIN books_ \cup {s} /\ books_'[s] = EmptyBook
        /\ \A t \in DOMAIN books_ : books_'[t] = books_[t]
    BY <2>1 DEF Put
  <2> QED BY <2>2, <2>3 DEF Crossings
<1>3. CASE Start \/ StopAcceptor \/ Stop \/ GatewayNext \/ Over \/ UNCHANGED vars
  <2>1. UNCHANGED books_
    BY <1>3 DEF Start, StopAcceptor, Stop, GatewayNext, Submit, Reject, Cancel, Replace,
                RequestSnapshot, Request, Over, vars
  <2> QED BY <1>1, <2>1
<1>4. CASE RunOrder \/ RunSnapshot \/ Exit \/ CallbackReturn
  <2>1. UNCHANGED books_
    BY <1>4 DEF RunOrder, RunSnapshot, Exit, CallbackReturn, NoBook
  <2> QED BY <1>1, <2>1
<1> QED BY <1>2, <1>3, <1>4, RequestCrosses, MatchCrosses
        DEF Next, MainNext, AdminNext, EngineNext

---------------------------------------------------------------------------
(* Theorems                                                                *)

\* Every step of every thread preserves the invariant and revives no order.
LEMMA NextStep ==
    ASSUME IInv, [Next]_vars
    PROVE  IInv' /\ Keeps
<1>1. CASE MainNext
  BY <1>1, RestoreStep, PhaseStep DEF MainNext
<1>2. CASE AdminNext
  BY <1>2, RegisterStep DEF AdminNext
<1>3. CASE GatewayNext
  BY <1>3, GatewayStep
<1>4. CASE EngineNext
  BY <1>4, RunOrderStep, RunCancelStep, RunReplaceStep, RunSnapshotStep, MatchFillStep,
     MatchEndStep, PhaseStep DEF EngineNext
<1>5. CASE Over \/ UNCHANGED vars
  BY <1>5, PhaseStep DEF Over
<1> QED BY <1>1, <1>2, <1>3, <1>4, <1>5 DEF Next

\* Books that are not crossed stay so.
LEMMA NextUncrossed ==
    ASSUME IInv, IInv', NothingCrosses, [Next]_vars
    PROVE  NothingCrosses'
<1>1. CASE RestoreOrder
  BY <1>1, RestoreUncrossed
<1>2. CASE UNCHANGED << books_, rows >>
  BY <1>2 DEF NothingCrosses, Uncrossed
<1>3. CASE ~RestoreOrder /\ ~UNCHANGED << books_, rows >>
  <2>1. rows' = << >>
    <3>1. UNCHANGED << books_, rows >> \/ main # "recovery"
      BY <1>3 DEF Next, MainNext, Start, StopAcceptor, Stop, AdminNext, RegisterSymbol,
                  GatewayNext, Submit, Reject, Cancel, Replace, RequestSnapshot, Request, Push,
                  EngineNext, RunOrder, RunCancel, RunReplace, RunSnapshot, Pop, MatchFill,
                  MatchEnd, Exit, CallbackReturn, Over, vars, IInv, RowsOK
    <3>2. UNCHANGED rows
      BY <1>3 DEF Next, MainNext, Start, StopAcceptor, Stop, AdminNext, RegisterSymbol,
                  GatewayNext, Submit, Reject, Cancel, Replace, RequestSnapshot, Request,
                  EngineNext, RunOrder, RunCancel, RunReplace, RunSnapshot, MatchFill,
                  MatchEnd, Exit, CallbackReturn, Over, vars
    <3> QED BY <1>3, <3>1, <3>2 DEF IInv, RowsOK
  <2>2. Crossings = {}
    BY NotCrossedNoPair DEF NothingCrosses, Uncrossed, Crossings, IInv, BooksOK
  <2>3. Crossings' = {}
    BY <1>3, <2>2, NextCrosses
  <2>4. Uncrossed'
    <3> SUFFICES ASSUME NEW s \in DOMAIN books_' PROVE NotCrossed(books_'[s])
      BY DEF Uncrossed
    <3>1. BookOK(books_'[s]) /\ CrossPairs(books_'[s]) = {}
      BY <2>3 DEF IInv, BooksOK, Crossings
    <3> QED BY <3>1, NoPairNotCrossed
  <2> QED BY <2>1, <2>4 DEF NothingCrosses
<1> QED BY <1>1, <1>2, <1>3

\* The strengthened invariant holds in every reachable state of the engine.
THEOREM EngineInvariant == Spec => []IInv
<1>1. Init => IInv
  BY InitIInv
<1>2. IInv /\ [Next]_vars => IInv'
  BY NextStep
<1> QED BY <1>1, <1>2, PTL DEF Spec

\* Every variable keeps its type: books of registered symbols, a queue within the ring
\* buffer, an aggressor exactly while run() is inside add().
THEOREM EngineTypeOK == Spec => []TypeOK
<1>1. IInv => TypeOK
  BY DEF IInv
<1> QED BY <1>1, EngineInvariant, PTL

\* bids_, asks_ and order_index_ agree in every state, whatever was filled, cancelled
\* or replaced.
THEOREM EngineIndexExact == Spec => []IndexExact
<1>1. IInv => IndexExact
  BY DEF IInv, BooksOK, BookOK, IndexExact
<1> QED BY <1>1, EngineInvariant, PTL

\* match_against never calls front() on an empty list.
THEOREM EngineLevelsNonEmpty == Spec => []LevelsNonEmpty
<1>1. IInv => LevelsNonEmpty
  BY DEF IInv, BooksOK, BookOK, LevelsNonEmpty
<1> QED BY <1>1, EngineInvariant, PTL

\* Once the rows are restored, no two resting orders come to cross: what could trade has
\* traded before an order rests, whatever replaces change its price and however the rows
\* themselves cross.
THEOREM EngineNoNewCrossing == Spec => NoNewCrossing
<1>1. IInv /\ [Next]_vars => [main # "recovery" => Crossings' \subseteq Crossings]_vars
  <2> SUFFICES ASSUME IInv, [Next]_vars, main # "recovery"
               PROVE  Crossings' \subseteq Crossings
    OBVIOUS
  <2>1. ~RestoreOrder
    BY DEF RestoreOrder
  <2> QED BY <2>1, NextCrosses
<1> QED BY <1>1, EngineInvariant, PTL DEF Spec, NoNewCrossing

\* Started on rows of which no two cross, as on an empty database, no book is ever
\* crossed.
THEOREM EngineUncrossed == ASSUME RowsUncrossed PROVE Spec => []Uncrossed
<1>1. Init => NothingCrosses
  BY InitUncrossed
<1>2. IInv /\ IInv' /\ NothingCrosses /\ [Next]_vars => NothingCrosses'
  BY NextUncrossed
<1>3. NothingCrosses => Uncrossed
  BY DEF NothingCrosses
<1> QED BY <1>1, <1>2, <1>3, EngineInvariant, PTL DEF Spec

\* An order is in one place at a time: database, queue, aggressor or one book.
THEOREM EngineOnePlace == Spec => []OnePlace
<1>1. IInv => OnePlace
  BY DEF IInv, Fresh
<1> QED BY <1>1, EngineInvariant, PTL

\* An order that run() pops has a book: book_for never misses for a new order.
THEOREM EngineQueuedOrderHasBook == Spec => []QueuedOrderHasBook
<1>1. IInv => QueuedOrderHasBook
  BY DEF IInv, QueueOK, QueuedOrderHasBook, valid_symbols_
<1> QED BY <1>1, EngineInvariant, PTL

\* The engine thread exits with an empty queue and no callback pending.
THEOREM EngineStopsDrained == Spec => []StopsDrained
<1>1. IInv => StopsDrained
  BY DEF IInv, DrainOK
<1> QED BY <1>1, EngineInvariant, PTL

\* An order that left the exchange never comes back under an id already handed out.
THEOREM EngineNoResurrection == Spec => NoResurrection
<1>1. IInv /\ [Next]_vars => [LiveIds' \cap (0 .. order_seq_) \subseteq LiveIds]_vars
  BY NextStep DEF Keeps
<1> QED BY <1>1, EngineInvariant, PTL DEF Spec, NoResurrection

---------------------------------------------------------------------------
(***************************************************************************)
(* Fill or kill: run() asks available_to_fill once, before add(), and the  *)
(* match loop then works order by order on books that change under it.     *)
(* That the two agree is a fact about sums: one fill takes from the        *)
(* resting quantity in the aggressor's reach exactly what it takes from    *)
(* the aggressor.                                                          *)
(*                                                                         *)
(* SumLeaves is a fold over a set of ids.  Its equation has a solution on  *)
(* the subsets of a finite set, and any element can be taken out of a sum  *)
(* first; both are shown on a smallest set where they would fail.          *)
(***************************************************************************)

\* The equation of the fold that SumLeaves is.
IsSum(f, b, S) ==
    f = [s \in SUBSET S |->
            IF s = {} THEN 0
            ELSE b.order_index_[CHOOSE x \in s : TRUE].leaves_qty
                     + f[s \ {CHOOSE x \in s : TRUE}]]

\* SumLeaves is the chosen solution of that equation.
LEMMA SumIsFold ==
    ASSUME NEW b, NEW S
    PROVE  SumLeaves(b, S) = (CHOOSE f : IsSum(f, b, S))[S]
  BY DEF SumLeaves, MapThenSumSet, MapThenFoldSet, IsSum

\* Two facts about %, on which the wrap-around of a sum rests.
LEMMA ModSmall ==
    ASSUME NEW n \in Nat, NEW m \in Nat \ {0}
    PROVE  n % m <= n
  BY SMTT(20)

LEMMA ModSame ==
    ASSUME NEW m \in Nat \ {0}, NEW n \in 0 .. m - 1
    PROVE  n % m = n
  BY SMTT(20)

Chosen(s) == CHOOSE x \in s : TRUE

\* leaves_qty of the node of id x.
Leaves(b, x) == b.order_index_[x].leaves_qty

\* The chosen element of a subset, and the subset without it.
LEMMA ChosenProperties ==
    ASSUME NEW S, IsFiniteSet(S), NEW s \in SUBSET S, s # {}
    PROVE  /\ Chosen(s) \in s
           /\ s \ {Chosen(s)} \in SUBSET S
           /\ Cardinality(s) \in Nat /\ Cardinality(s \ {Chosen(s)}) \in Nat
           /\ Cardinality(s \ {Chosen(s)}) = Cardinality(s) - 1
<1>1. Chosen(s) \in s
  BY DEF Chosen
<1>2. IsFiniteSet(s)
  BY FS_Subset
<1>3. Cardinality(s) \in Nat
  BY <1>2, FS_CardinalityType
<1>4. /\ IsFiniteSet(s \ {Chosen(s)})
      /\ Cardinality(s \ {Chosen(s)}) = Cardinality(s) - 1
  BY <1>1, <1>2, FS_RemoveElement
<1> QED BY <1>1, <1>3, <1>4, FS_CardinalityType

\* The equation has a solution on the subsets of a finite set.
LEMMA SumExists ==
    ASSUME NEW b, NEW S, IsFiniteSet(S)
    PROVE  \E f : IsSum(f, b, S)
<1> DEFINE N == Cardinality(S)
           Dom(n) == {s \in SUBSET S : Cardinality(s) <= n}
           Eq(f, s) == f[s] = IF s = {} THEN 0 ELSE Leaves(b, Chosen(s)) + f[s \ {Chosen(s)}]
           Good(f, n) == f = [s \in Dom(n) |-> f[s]] /\ \A s \in Dom(n) : Eq(f, s)
           Stuck == {n \in 0 .. N : ~\E f : Good(f, n)}
<1>1. N \in Nat
  BY FS_CardinalityType
<1>2. \A s \in SUBSET S : Cardinality(s) \in Nat /\ Cardinality(s) <= N
  BY FS_Subset, FS_CardinalityType
<1>3. Stuck = {}
  <2>1. SUFFICES ASSUME Stuck # {} PROVE FALSE
    OBVIOUS
  <2>2. PICK n \in Stuck : \A m \in Stuck : ~(m < n)
    <3>1. Stuck \subseteq Nat
      BY <1>1
    <3> HIDE DEF Stuck
    <3> QED BY <2>1, <3>1, NatMinimum
  <2>3. n \in 0 .. N /\ ~\E f : Good(f, n)
    OBVIOUS
  <2>4. n # 0
    <3> DEFINE f == [s \in Dom(0) |-> 0]
    <3>1. \A s \in Dom(0) : s = {}
      BY <1>2, FS_Subset, FS_EmptySet
    <3>2. Good(f, 0)
      BY <3>1
    <3> HIDE DEF f, Good
    <3> QED BY <2>3, <3>2
  <2>5. n - 1 \in 0 .. N /\ n - 1 < n /\ n \in Nat
    BY <1>1, <2>3, <2>4
  <2>6. PICK g : Good(g, n - 1)
    BY <2>2, <2>5
  <2> HIDE DEF Stuck
  <2> DEFINE f == [s \in Dom(n) |->
                      IF s \in Dom(n - 1) THEN g[s]
                      ELSE Leaves(b, Chosen(s)) + g[s \ {Chosen(s)}]]
  <2>7. ASSUME NEW s \in Dom(n) PROVE Eq(f, s)
    <3>1. CASE s = {}
      <4>1. s \in Dom(n - 1)
        BY <2>4, <2>5, <3>1, FS_EmptySet
      <4> QED BY <2>6, <3>1, <4>1
    <3>2. CASE s # {}
      <4>1. /\ Chosen(s) \in s /\ s \ {Chosen(s)} \in SUBSET S
            /\ Cardinality(s) \in Nat /\ Cardinality(s \ {Chosen(s)}) \in Nat
            /\ Cardinality(s \ {Chosen(s)}) = Cardinality(s) - 1
        BY <3>2, ChosenProperties
      <4>2. s \ {Chosen(s)} \in Dom(n - 1) /\ s \ {Chosen(s)} \in Dom(n)
        BY <2>5, <4>1
      <4>3. f[s \ {Chosen(s)}] = g[s \ {Chosen(s)}]
        BY <4>2
      <4>4. s \in Dom(n - 1) => g[s] = Leaves(b, Chosen(s)) + g[s \ {Chosen(s)}]
        BY <2>6, <3>2
      <4> QED BY <3>2, <4>3, <4>4
    <3> QED BY <3>1, <3>2
  <2>8. Good(f, n)
    <3>1. f = [s \in Dom(n) |-> f[s]]
      OBVIOUS
    <3> HIDE DEF f, Eq, Dom
    <3> QED BY <2>7, <3>1
  <2> HIDE DEF f, Good
  <2> QED BY <2>3, <2>8
<1>4. PICK f : Good(f, N)
  <2> HIDE DEF Good
  <2> QED BY <1>1, <1>3
<1>5. Dom(N) = SUBSET S
  BY <1>2
<1>6. IsSum(f, b, S)
  BY <1>4, <1>5 DEF IsSum, Chosen, Leaves
<1> QED BY <1>6

\* What SumLeaves computes is a solution of its equation.
LEMMA SumSolves ==
    ASSUME NEW b, NEW S, IsFiniteSet(S)
    PROVE  \E f : /\ IsSum(f, b, S) /\ SumLeaves(b, S) = f[S]
<1>1. IsSum(CHOOSE f : IsSum(f, b, S), b, S)
  BY SumExists
<1> QED BY <1>1, SumIsFold

\* Two solutions agree on a set on whose elements the books agree.
LEMMA SumsAgree ==
    ASSUME NEW b, NEW c, NEW S, IsFiniteSet(S), NEW T, IsFiniteSet(T),
           NEW f, IsSum(f, b, S), NEW g, IsSum(g, c, T),
           NEW s \in SUBSET S, s \in SUBSET T, \A x \in s : Leaves(b, x) = Leaves(c, x)
    PROVE  f[s] = g[s]
<1> DEFINE Bad == {n \in 0 .. Cardinality(s) :
                      \E t \in SUBSET s : Cardinality(t) = n /\ f[t] # g[t]}
<1>1. IsFiniteSet(s) /\ \A t \in SUBSET s : IsFiniteSet(t) /\ Cardinality(t) \in 0 .. Cardinality(s)
  BY FS_Subset, FS_CardinalityType
<1>2. SUFFICES ASSUME Bad # {} PROVE FALSE
  BY <1>1
<1>3. PICK n \in Bad : \A m \in Bad : ~(m < n)
  <2>1. Bad \subseteq Nat
    BY <1>1, FS_CardinalityType
  <2> HIDE DEF Bad
  <2> QED BY <1>2, <2>1, NatMinimum
<1>4. PICK t \in SUBSET s : Cardinality(t) = n /\ f[t] # g[t]
  BY <1>3
<1>5. t \in SUBSET S /\ t \in SUBSET T
  BY <1>4
<1>6. t # {}
  BY <1>4, <1>5 DEF IsSum
<1>7. /\ Chosen(t) \in t /\ t \ {Chosen(t)} \in SUBSET s
      /\ Cardinality(t \ {Chosen(t)}) = n - 1 /\ n \in Nat
  BY <1>1, <1>4, <1>6, ChosenProperties
<1>8. f[t \ {Chosen(t)}] = g[t \ {Chosen(t)}]
  <2>1. Cardinality(t \ {Chosen(t)}) \in 0 .. Cardinality(s)
    BY <1>1, <1>7
  <2>2. n - 1 \in 0 .. Cardinality(s) /\ n - 1 < n
    BY <1>7, <2>1
  <2>3. n - 1 \notin Bad
    <3> HIDE DEF Bad
    <3> QED BY <1>3, <2>2
  <2> QED BY <1>7, <2>2, <2>3
<1>9. /\ f[t] = Leaves(b, Chosen(t)) + f[t \ {Chosen(t)}]
      /\ g[t] = Leaves(c, Chosen(t)) + g[t \ {Chosen(t)}]
  BY <1>5, <1>6 DEF IsSum, Leaves, Chosen
<1>10. Leaves(b, Chosen(t)) = Leaves(c, Chosen(t))
  BY <1>4, <1>7
<1> QED BY <1>4, <1>8, <1>9, <1>10

\* A sum does not depend on the order in which it is taken.
LEMMA SumTakesAny ==
    ASSUME NEW b, NEW S, IsFiniteSet(S), \A x \in S : Leaves(b, x) \in Int,
           NEW f, IsSum(f, b, S)
    PROVE  \A s \in SUBSET S :
               /\ f[s] \in Int
               /\ (\A x \in s : Leaves(b, x) >= 0) => f[s] >= 0
               /\ \A x \in s : f[s] = Leaves(b, x) + f[s \ {x}]
<1> DEFINE Fine(s) == /\ f[s] \in Int
                      /\ (\A x \in s : Leaves(b, x) >= 0) => f[s] >= 0
                      /\ \A x \in s : f[s] = Leaves(b, x) + f[s \ {x}]
           Bad == {n \in 0 .. Cardinality(S) : \E s \in SUBSET S : Cardinality(s) = n /\ ~Fine(s)}
<1>1. \A s \in SUBSET S : IsFiniteSet(s) /\ Cardinality(s) \in 0 .. Cardinality(S)
  BY FS_Subset, FS_CardinalityType
<1>2. SUFFICES ASSUME Bad # {} PROVE FALSE
  <2> HIDE DEF Fine
  <2>1. \A s \in SUBSET S : Fine(s)
    BY <1>1
  <2> QED BY <2>1 DEF Fine
<1>3. PICK n \in Bad : \A m \in Bad : ~(m < n)
  <2>1. Bad \subseteq Nat
    BY <1>1, FS_CardinalityType
  <2> HIDE DEF Bad
  <2> QED BY <1>2, <2>1, NatMinimum
<1>4. PICK s \in SUBSET S : Cardinality(s) = n /\ ~Fine(s)
  <2> HIDE DEF Fine
  <2> QED BY <1>3
<1>5. ASSUME NEW t \in SUBSET S, Cardinality(t) < n PROVE Fine(t)
  <2>1. Cardinality(t) \in 0 .. Cardinality(S)
    BY <1>1
  <2>2. Cardinality(t) \notin Bad
    <3> HIDE DEF Bad
    <3> QED BY <1>3, <1>5
  <2> HIDE DEF Fine
  <2> QED BY <2>1, <2>2
<1> HIDE DEF Bad
<1>6. s # {}
  <2>1. SUFFICES ASSUME s = {} PROVE FALSE
    OBVIOUS
  <2>2. f[s] = 0
    BY <2>1 DEF IsSum
  <2> QED BY <1>4, <2>1, <2>2
<1>7. PICK c : c = Chosen(s)
  OBVIOUS
<1>8. f[s] = Leaves(b, c) + f[s \ {c}]
  BY <1>6, <1>7 DEF IsSum, Leaves, Chosen
<1>9. \A x \in s : /\ s \ {x} \in SUBSET S
                   /\ IsFiniteSet(s \ {x})
                   /\ Cardinality(s \ {x}) \in Nat /\ n \in Nat
                   /\ Cardinality(s \ {x}) = n - 1
  BY <1>1, <1>4, FS_RemoveElement, FS_CardinalityType
<1>10. c \in s
  BY <1>6, <1>7 DEF Chosen
<1>11. ASSUME NEW x \in s PROVE Fine(s \ {x})
  <2> HIDE DEF Fine
  <2>1. PICK k : k = Cardinality(s \ {x})
    OBVIOUS
  <2>2. s \ {x} \in SUBSET S /\ k = n - 1 /\ n \in Nat
    BY <1>9, <2>1
  <2>3. k < n
    BY <2>2
  <2> QED BY <1>5, <2>1, <2>2, <2>3
<1>12. f[s] \in Int /\ ((\A x \in s : Leaves(b, x) >= 0) => f[s] >= 0)
  <2>1. Fine(s \ {c})
    BY <1>10, <1>11
  <2>2. PICK u, v : u = Leaves(b, c) /\ v = f[s \ {c}]
    OBVIOUS
  <2>3. u \in Int /\ v \in Int /\ f[s] = u + v
    BY <1>8, <1>10, <2>1, <2>2
  <2>4. (\A x \in s : Leaves(b, x) >= 0) => u >= 0 /\ v >= 0
    BY <1>10, <2>1, <2>2
  <2> QED BY <2>3, <2>4
<1>14. ASSUME NEW x \in s PROVE f[s] = Leaves(b, x) + f[s \ {x}]
  <2>1. CASE x = c
    BY <1>8, <2>1
  <2>2. CASE x # c
    <3>1. x \in s \ {c} /\ c \in s \ {x}
      BY <1>10, <2>2
    <3>2. f[s \ {c}] = Leaves(b, x) + f[(s \ {c}) \ {x}]
      BY <1>10, <1>11, <3>1
    <3>3. f[s \ {x}] = Leaves(b, c) + f[(s \ {x}) \ {c}]
      BY <1>11, <3>1
    <3>4. (s \ {c}) \ {x} = (s \ {x}) \ {c}
      OBVIOUS
    <3>5. PICK v : v = f[(s \ {x}) \ {c}]
      OBVIOUS
    <3>6. f[s \ {x}] \in Int /\ Leaves(b, x) \in Int /\ Leaves(b, c) \in Int /\ v \in Int
      <4>1. f[s \ {x}] \in Int /\ Leaves(b, x) \in Int /\ Leaves(b, c) \in Int
        BY <1>10, <1>11
      <4>2. PICK t : t = s \ {x}
        OBVIOUS
      <4>3. /\ t \in SUBSET S /\ IsFiniteSet(t) /\ Cardinality(t) \in Nat /\ n \in Nat
            /\ Cardinality(t) = n - 1 /\ c \in t
        BY <1>9, <3>1, <4>2
      <4>5. (s \ {x}) \ {c} \in SUBSET S /\ Cardinality((s \ {x}) \ {c}) < n
        <5>1. Cardinality(t \ {c}) = Cardinality(t) - 1
          BY <4>3, FS_RemoveElement
        <5> QED BY <4>2, <4>3, <5>1
      <4>4. Fine((s \ {x}) \ {c})
        BY <1>5, <4>5
      <4> QED BY <3>5, <4>1, <4>4
    <3>7. PICK p, q : p = Leaves(b, x) /\ q = Leaves(b, c)
      OBVIOUS
    <3>8. f[s] = q + (p + v) /\ f[s \ {x}] = q + v
      BY <1>8, <3>2, <3>3, <3>4, <3>5, <3>7
    <3>9. q + (p + v) = p + (q + v)
      BY <3>6, <3>7
    <3> QED BY <3>7, <3>8, <3>9
  <2> QED BY <2>1, <2>2
<1> QED BY <1>4, <1>12, <1>14

\* ... for one subset and one element.
LEMMA SumTakes ==
    ASSUME NEW b, NEW S, IsFiniteSet(S), \A y \in S : Leaves(b, y) \in Int,
           NEW f, IsSum(f, b, S), NEW s \in SUBSET S, NEW x \in s
    PROVE  f[s] = Leaves(b, x) + f[s \ {x}]
  BY SumTakesAny

---------------------------------------------------------------------------
(* Sums of resting quantities                                              *)

\* The sum is an integer, and not negative when no quantity is.
LEMMA SumRange ==
    ASSUME NEW b, NEW S, IsFiniteSet(S), \A x \in S : Leaves(b, x) \in Int
    PROVE  /\ SumLeaves(b, S) \in Int
           /\ (\A x \in S : Leaves(b, x) >= 0) => SumLeaves(b, S) >= 0
<1>1. PICK f : IsSum(f, b, S) /\ SumLeaves(b, S) = f[S]
  BY SumSolves
<1>2. S \in SUBSET S
  OBVIOUS
<1> QED BY <1>1, <1>2, SumTakesAny

\* Nothing adds up to nothing.
LEMMA SumOfNone == ASSUME NEW b PROVE SumLeaves(b, {}) = 0
<1>1. IsFiniteSet({})
  BY FS_EmptySet
<1>2. PICK f : IsSum(f, b, {}) /\ SumLeaves(b, {}) = f[{}]
  BY <1>1, SumSolves
<1> QED BY <1>2 DEF IsSum

\* Two books that agree on the quantities of the ids have the same sum.
LEMMA SumDepends ==
    ASSUME NEW b, NEW c, NEW S, IsFiniteSet(S), \A x \in S : Leaves(b, x) = Leaves(c, x)
    PROVE  SumLeaves(b, S) = SumLeaves(c, S)
<1>1. PICK f : IsSum(f, b, S) /\ SumLeaves(b, S) = f[S]
  BY SumSolves
<1>2. PICK g : IsSum(g, c, S) /\ SumLeaves(c, S) = g[S]
  BY SumSolves
<1>3. f[S] = g[S]
  <2>1. S \in SUBSET S
    OBVIOUS
  <2> QED BY <1>1, <1>2, <2>1, SumsAgree
<1> QED BY <1>1, <1>2, <1>3

\* Any one quantity can be taken out of a sum.
LEMMA SumWithout ==
    ASSUME NEW b, NEW S, IsFiniteSet(S), \A x \in S : Leaves(b, x) \in Int, NEW id \in S
    PROVE  SumLeaves(b, S) = Leaves(b, id) + SumLeaves(b, S \ {id})
<1>1. IsFiniteSet(S \ {id}) /\ S \in SUBSET S /\ S \ {id} \in SUBSET S
      /\ S \ {id} \in SUBSET (S \ {id})
  BY FS_Subset
<1>2. PICK f : IsSum(f, b, S) /\ SumLeaves(b, S) = f[S]
  BY SumSolves
<1>3. PICK g : IsSum(g, b, S \ {id}) /\ SumLeaves(b, S \ {id}) = g[S \ {id}]
  BY <1>1, SumSolves
<1>4. f[S] = Leaves(b, id) + f[S \ {id}]
  <2>1. \A s \in SUBSET S : \A x \in s : f[s] = Leaves(b, x) + f[s \ {x}]
    <3>1. SUFFICES ASSUME NEW s \in SUBSET S, NEW x \in s PROVE f[s] = Leaves(b, x) + f[s \ {x}]
      OBVIOUS
    <3> QED BY <1>2, SumTakes
  <2> QED BY <1>1, <2>1
<1>5. f[S \ {id}] = g[S \ {id}]
  BY <1>1, <1>2, <1>3, SumsAgree, SMTT(30)
<1> QED BY <1>2, <1>3, <1>4, <1>5

\* What an aggressor can reach, read off the index.
LEMMA ReachableIds ==
    ASSUME NEW book, BookOK(book), NEW o \in Order
    PROVE  Reachable(book, o) =
               {id \in DOMAIN book.order_index_ :
                   /\ book.order_index_[id].side = Opposite(o.side)
                   /\ Crosses(o, book.order_index_[id].price)}
<1> DEFINE side == Opposite(o.side)
<1>1. side \in Sides
  BY DEF Order, Opposite, Sides
<1> HIDE DEF side
<1>2. ASSUME NEW id \in Reachable(book, o)
      PROVE  /\ id \in DOMAIN book.order_index_ /\ book.order_index_[id].side = side
             /\ Crosses(o, book.order_index_[id].price)
  <2>1. PICK p \in DOMAIN book.levels[side] : Crosses(o, p) /\ id \in IdsAt(book, side, p)
    BY <1>2, Zenon DEF Reachable, side
  <2>2. PICK i \in DOMAIN book.levels[side][p] : id = book.levels[side][p][i]
    BY <2>1 DEF IdsAt
  <2>3. /\ id \in DOMAIN book.order_index_ /\ book.order_index_[id].side = side
        /\ book.order_index_[id].price = p
    BY <1>1, <2>1, <2>2 DEF BookOK, ListedIsIndexed
  <2> QED BY <2>1, <2>3
<1>3. ASSUME NEW id \in DOMAIN book.order_index_, book.order_index_[id].side = side,
             Crosses(o, book.order_index_[id].price)
      PROVE  id \in Reachable(book, o)
  <2>1. PICK p : p = book.order_index_[id].price
    OBVIOUS
  <2>2. p \in DOMAIN book.levels[side]
        /\ \E i \in DOMAIN book.levels[side][p] : book.levels[side][p][i] = id
    BY <1>3, <2>1 DEF BookOK, IndexedIsListed
  <2>3. id \in IdsAt(book, side, p)
    BY <2>2 DEF IdsAt
  <2>4. p \in {q \in DOMAIN book.levels[side] : Crosses(o, q)}
    BY <1>3, <2>1, <2>2
  <2> QED BY <2>3, <2>4, Zenon DEF Reachable, side
<1> QED BY <1>2, <1>3 DEF side

\* What an aggressor can reach does not depend on its quantities.
LEMMA ReachSame ==
    ASSUME NEW book, NEW o, NEW p, o.side = p.side, o.type = p.type, o.price = p.price
    PROVE  Reachable(book, o) = Reachable(book, p)
  BY DEF Reachable, Crosses

\* The quantities in reach are integers, of finitely many orders.
LEMMA ReachFinite ==
    ASSUME NEW book, BookOK(book), IsFiniteSet(DOMAIN book.order_index_), NEW o \in Order
    PROVE  /\ IsFiniteSet(Reachable(book, o))
           /\ Reachable(book, o) \subseteq DOMAIN book.order_index_
           /\ \A x \in Reachable(book, o) : Leaves(book, x) \in Int
<1>1. Reachable(book, o) \subseteq DOMAIN book.order_index_
  BY ReachableIds
<1>2. IsFiniteSet(Reachable(book, o))
  BY <1>1, FS_Subset
<1>3. ASSUME NEW x \in DOMAIN book.order_index_ PROVE Leaves(book, x) \in Int
  <2>1. book.order_index_[x] \in Order
    BY <1>3 DEF BookOK, BookType
  <2> QED BY <2>1 DEF Order, Leaves
<1> QED BY <1>1, <1>2, <1>3

\* One fill takes from the resting quantity in reach what it takes from the aggressor.
LEMMA FillTakesFromReach ==
    ASSUME NEW book, BookOK(book), IsFiniteSet(DOMAIN book.order_index_),
           NEW o \in Order, CanMatch(book, o)
    PROVE  LET b == AfterFill(book, o)
           IN  SumLeaves(b, Reachable(b, o))
                   = SumLeaves(book, Reachable(book, o)) - FillQty(book, o)
<1> DEFINE b == AfterFill(book, o)
           r == Resting(book, o)
           q == FillQty(book, o)
           R == Reachable(book, o)
           id == r.exchange_id
<1>1. /\ r \in Order /\ id \in DOMAIN book.order_index_
      /\ book.order_index_[id] = r
      /\ r.side = Opposite(o.side) /\ r.price = BestPrice(book, Opposite(o.side))
  BY RestingProperties
<1>2. BookOK(b) /\ q \in Int
  BY AfterFillOK
<1>3. r.leaves_qty \in Int
  BY <1>1 DEF Order
<1>4. b = IF r.leaves_qty - q = 0 THEN Unlink(book, id)
          ELSE [book EXCEPT !.order_index_ = Put(@, id, [r EXCEPT !.leaves_qty = r.leaves_qty - q])]
  BY DEF AfterFill
<1>5. Crosses(o, r.price)
  BY <1>1 DEF CanMatch
<1> HIDE DEF b, r, q, id
<1>6. id \in R
  BY <1>1, <1>5, ReachableIds
<1>7. IsFiniteSet(R) /\ R \subseteq DOMAIN book.order_index_
      /\ \A x \in R : Leaves(book, x) \in Int
  BY ReachFinite
<1>8. IsFiniteSet(R \ {id}) /\ \A x \in R \ {id} : Leaves(book, x) \in Int
  BY <1>7, FS_Subset
<1>9. /\ SumLeaves(book, R) = Leaves(book, id) + SumLeaves(book, R \ {id})
      /\ SumLeaves(book, R \ {id}) \in Int
  BY <1>6, <1>7, <1>8, SumWithout, SumRange
<1>10. Leaves(book, id) = r.leaves_qty
  BY <1>1 DEF Leaves
<1>11. Reachable(b, o) = {x \in DOMAIN b.order_index_ :
                             /\ b.order_index_[x].side = Opposite(o.side)
                             /\ Crosses(o, b.order_index_[x].price)}
  BY <1>2, ReachableIds
<1>12. R = {x \in DOMAIN book.order_index_ :
               /\ book.order_index_[x].side = Opposite(o.side)
               /\ Crosses(o, book.order_index_[x].price)}
  BY ReachableIds
<1> HIDE DEF R
<1>13. CASE r.leaves_qty - q = 0
  <2>1. b.order_index_ = Drop(book.order_index_, id)
    BY <1>1, <1>4, <1>13, UnlinkOK
  <2>2. /\ DOMAIN b.order_index_ = DOMAIN book.order_index_ \ {id}
        /\ \A x \in DOMAIN b.order_index_ : b.order_index_[x] = book.order_index_[x]
    BY <2>1 DEF Drop
  <2>3. Reachable(b, o) = R \ {id}
    BY <1>11, <1>12, <2>2
  <2>4. \A x \in R \ {id} : Leaves(b, x) = Leaves(book, x)
    BY <1>7, <2>2 DEF Leaves
  <2>5. SumLeaves(b, R \ {id}) = SumLeaves(book, R \ {id})
    BY <1>8, <2>4, SumDepends
  <2> QED BY <1>2, <1>3, <1>9, <1>10, <1>13, <2>3, <2>5 DEF b, R, q
<1>14. CASE r.leaves_qty - q # 0
  <2> DEFINE n == [r EXCEPT !.leaves_qty = r.leaves_qty - q]
  <2>1. n.side = r.side /\ n.price = r.price /\ n.leaves_qty = r.leaves_qty - q
    BY <1>1 DEF Order
  <2>2. book = [levels |-> book.levels, order_index_ |-> book.order_index_]
    BY DEF BookOK, BookType
  <2> HIDE DEF n
  <2>3. b.order_index_ = Put(book.order_index_, id, n)
    BY <1>4, <1>14, <2>2 DEF n
  <2>4. /\ DOMAIN b.order_index_ = DOMAIN book.order_index_
        /\ b.order_index_[id] = n
        /\ \A x \in DOMAIN b.order_index_ : x # id => b.order_index_[x] = book.order_index_[x]
    BY <1>1, <2>3 DEF Put
  <2>5. Reachable(b, o) = R
    BY <1>1, <1>11, <1>12, <2>1, <2>4
  <2>6. \A x \in R \ {id} : Leaves(b, x) = Leaves(book, x)
    BY <1>7, <2>4 DEF Leaves
  <2>7. SumLeaves(b, R \ {id}) = SumLeaves(book, R \ {id})
    BY <1>8, <2>6, SumDepends
  <2>8. Leaves(b, id) = r.leaves_qty - q
    BY <2>1, <2>4 DEF Leaves
  <2>9. \A x \in R : Leaves(b, x) \in Int
    BY <1>2, <1>3, <1>7, <2>6, <2>8
  <2>10. SumLeaves(b, R) = Leaves(b, id) + SumLeaves(b, R \ {id})
    BY <1>6, <1>7, <2>9, SumWithout
  <2> QED BY <1>2, <1>3, <1>9, <1>10, <2>5, <2>7, <2>8, <2>10 DEF b, R, q
<1> QED BY <1>13, <1>14

\* When the match loop ends before the aggressor is filled, nothing is in its reach.
LEMMA LoopEndReach ==
    ASSUME NEW book, BookOK(book), NEW o \in Order, o.leaves_qty > 0, ~CanMatch(book, o)
    PROVE  Reachable(book, o) = {}
<1> DEFINE side == Opposite(o.side)
           D == DOMAIN book.levels[side]
           p == BestPrice(book, side)
<1>1. side \in Sides /\ o.price \in Int /\ o.side \in Sides
  BY DEF Order, Opposite, Sides
<1>2. D \subseteq Int
  BY <1>1, PriceAssumption DEF BookOK, BookType, Prices
<1>3. ASSUME NEW q \in D, Crosses(o, q) PROVE FALSE
  <2>1. p \in D /\ ~Better(side, q, p)
    BY <1>1, <1>3, BestPriceIsBest DEF BookOK
  <2>2. ~Crosses(o, p)
    BY <1>3 DEF CanMatch
  <2> HIDE DEF p
  <2> QED BY <1>1, <1>2, <1>3, <2>1, <2>2 DEF Crosses, Better, Opposite, Sides
<1> QED BY <1>3 DEF Reachable

---------------------------------------------------------------------------
(* The invariant                                                           *)

\* A node of a book has a quantity and is not of a FOK order.
EntryOK(o) == o.leaves_qty >= 0 /\ o.tif # "fok"

EntriesOK == \A s \in DOMAIN books_ : \A id \in DOMAIN books_[s].order_index_ :
                 EntryOK(books_[s].order_index_[id])

\* What still comes into the books.
ComingOK ==
    /\ \A i \in DOMAIN rows : EntryOK(rows[i])
    /\ \A i \in DOMAIN queue_ : queue_[i].tag = "REPLACE" => queue_[i].req.new_qty >= 0

\* A FOK order in add() has at least as much in its reach as it still wants.
Covered ==
    pc = "match" /\ cur.order.tif = "fok"
        => SumLeaves(books_[cur.order.symbol], Reachable(books_[cur.order.symbol], cur.order))
               >= cur.order.leaves_qty

FInv == EntriesOK /\ ComingOK /\ Covered

\* A killed FOK order, while the callback runs, is short.
Killed == call # NoCall /\ call.fn = "on_tif_cancel" /\ call.order.tif = "fok"
ShortInv ==
    /\ pc = "created" => call = NoCall
    /\ Killed => /\ call.order.symbol \in DOMAIN books_
                 /\ SumLeaves(books_[call.order.symbol],
                              Reachable(books_[call.order.symbol], call.order)) < call.order.qty

\* The ids in a book are among those handed out.
LEMMA BookFinite ==
    ASSUME IInv, NEW s \in DOMAIN books_
    PROVE  BookOK(books_[s]) /\ IsFiniteSet(DOMAIN books_[s].order_index_)
<1>1. DOMAIN books_[s].order_index_ \subseteq 0 .. order_seq_
  BY DEF IInv, Fresh, LiveIds, ListedIds
<1>2. order_seq_ \in Int
  BY DEF IInv, TypeOK
<1>3. IsFiniteSet(0 .. order_seq_)
  BY <1>2, FS_Interval
<1> QED BY <1>1, <1>3, FS_Subset DEF IInv, BooksOK

\* The int sum is never above the sum itself, as long as no quantity is negative.
LEMMA WrapBelow ==
    ASSUME NEW n \in Nat
    PROVE  WrapInt(n) <= n
<1>1. IntMax \in Nat \ {0}
  BY IntMaxAssumption
<1>2. CASE n <= IntMax
  <2>1. n + IntMax + 1 \in 0 .. 2 * (IntMax + 1) - 1 /\ 2 * (IntMax + 1) \in Nat \ {0}
    BY <1>1, <1>2
  <2>2. (n + IntMax + 1) % (2 * (IntMax + 1)) = n + IntMax + 1
    BY <2>1, ModSame
  <2> QED BY <1>1, <2>2 DEF WrapInt
<1>3. CASE n > IntMax
  <2>1. n + IntMax + 1 \in Nat /\ 2 * (IntMax + 1) \in Nat \ {0}
    BY <1>1
  <2>2. (n + IntMax + 1) % (2 * (IntMax + 1)) <= n + IntMax + 1
        /\ (n + IntMax + 1) % (2 * (IntMax + 1)) \in Int
    BY <2>1, ModSmall
  <2> QED BY <1>1, <2>1, <2>2 DEF WrapInt
<1> QED BY <1>1, <1>2, <1>3

\* A sum that fits an int is what it is.
LEMMA WrapFits ==
    ASSUME NEW n \in -(IntMax + 1) .. IntMax
    PROVE  WrapInt(n) = n
<1>1. IntMax \in Nat \ {0}
  BY IntMaxAssumption
<1>2. n \in Int /\ n + IntMax + 1 \in 0 .. 2 * (IntMax + 1) - 1 /\ 2 * (IntMax + 1) \in Nat \ {0}
  BY <1>1
<1>3. (n + IntMax + 1) % (2 * (IntMax + 1)) = n + IntMax + 1
  BY <1>2, ModSame
<1> QED BY <1>1, <1>2, <1>3 DEF WrapInt

\* A FOK order that passes available_to_fill is covered, even if the sum overflows.
LEMMA AvailableIsThere ==
    ASSUME IInv, EntriesOK, NEW o \in Order, o.symbol \in DOMAIN books_,
           AvailableToFill(books_[o.symbol], o) >= o.qty
    PROVE  SumLeaves(books_[o.symbol], Reachable(books_[o.symbol], o)) >= o.qty
<1> DEFINE book == books_[o.symbol]
           R == Reachable(book, o)
           n == SumLeaves(book, R)
<1>1. BookOK(book) /\ IsFiniteSet(DOMAIN book.order_index_)
  BY BookFinite
<1>2. \A id \in DOMAIN book.order_index_ : Leaves(book, id) >= 0
  BY DEF EntriesOK, EntryOK, Leaves
<1>3. WrapInt(n) >= o.qty /\ o.qty \in Int
  BY DEF AvailableToFill, Order
<1> HIDE DEF book
<1>4. IsFiniteSet(R) /\ R \subseteq DOMAIN book.order_index_
      /\ \A x \in R : Leaves(book, x) \in Int
  BY <1>1, ReachFinite
<1> HIDE DEF R
<1>5. n \in Nat
  BY <1>2, <1>4, SumRange
<1> HIDE DEF n
<1>6. WrapInt(n) <= n /\ WrapInt(n) \in Int
  <2>1. WrapInt(n) <= n
    BY <1>5, WrapBelow
  <2>2. IntMax \in Nat
    BY IntMaxAssumption
  <2> QED BY <1>5, <2>1, <2>2 DEF WrapInt
<1>7. n >= o.qty
  BY <1>3, <1>5, <1>6
<1> QED BY <1>7 DEF n, R, book

---------------------------------------------------------------------------
(* Fill or kill, step by step                                              *)

\* A step that moves no aggressor and touches no book.
LEMMA FokFrame ==
    ASSUME FInv, UNCHANGED << books_, cur >>, pc' = "match" <=> pc = "match"
    PROVE  EntriesOK' /\ Covered'
  BY DEF FInv, EntriesOK, Covered

\* A step that gives one book new entries.
LEMMA EntriesUpdate ==
    ASSUME FInv, NEW s \in DOMAIN books_, NEW b, books_' = [books_ EXCEPT ![s] = b],
           \A id \in DOMAIN b.order_index_ : EntryOK(b.order_index_[id])
    PROVE  EntriesOK'
<1>1. DOMAIN books_' = DOMAIN books_ /\ books_'[s] = b
      /\ \A t \in DOMAIN books_ : t # s => books_'[t] = books_[t]
  OBVIOUS
<1> QED BY <1>1 DEF FInv, EntriesOK

\* Taking an order out leaves entries that were there.
LEMMA UnlinkEntries ==
    ASSUME FInv, NEW s \in DOMAIN books_, NEW x
    PROVE  \A id \in DOMAIN Unlink(books_[s], x).order_index_ :
               EntryOK(Unlink(books_[s], x).order_index_[id])
<1>1. Unlink(books_[s], x).order_index_ = Drop(books_[s].order_index_, x)
  BY DEF Unlink
<1> QED BY <1>1 DEF Drop, FInv, EntriesOK

\* A pop: what is still queued was queued, and a popped replace asks for a quantity.
LEMMA PopComing ==
    ASSUME IInv, FInv, NEW tag, Pop(tag), UNCHANGED rows
    PROVE  /\ ComingOK'
           /\ Head(queue_) \in WorkItem /\ Head(queue_).tag = tag
           /\ tag = "REPLACE" => Head(queue_).req.new_qty >= 0
<1>1. /\ queue_ \in Seq(WorkItem) /\ queue_ # << >> /\ queue_' = Tail(queue_)
      /\ Head(queue_).tag = tag
  BY DEF IInv, TypeOK, Pop
<1>2. /\ 1 \in DOMAIN queue_ /\ Head(queue_) = queue_[1] /\ queue_[1] \in WorkItem
      /\ \A i \in DOMAIN queue_' : /\ i \in Nat /\ i + 1 # 1 /\ i + 1 \in DOMAIN queue_
                                   /\ queue_'[i] = queue_[i + 1]
  BY <1>1, PopProperties
<1>3. \A i \in DOMAIN queue_' : queue_'[i].tag = "REPLACE" => queue_'[i].req.new_qty >= 0
  BY <1>2 DEF FInv, ComingOK
<1> QED BY <1>1, <1>2, <1>3 DEF FInv, ComingOK

\* A push of an order, a cancel, a snapshot, or a replace that asks for a quantity.
LEMMA PushComing ==
    ASSUME IInv, FInv, NEW item \in WorkItem, Push(item),
           UNCHANGED << books_, rows, pc, cur >>,
           item.tag = "REPLACE" => item.req.new_qty >= 0
    PROVE  FInv'
<1>1. queue_ \in Seq(WorkItem) /\ queue_' = Append(queue_, item)
  BY DEF IInv, TypeOK, Push
<1>2. \A i \in DOMAIN queue_' : \/ i \in DOMAIN queue_ /\ queue_'[i] = queue_[i]
                               \/ queue_'[i] = item
  BY <1>1, PushProperties
<1>3. ComingOK'
  BY <1>2 DEF FInv, ComingOK
<1> QED BY <1>3, FokFrame DEF FInv

\* The QuickFIX thread.
LEMMA FokGateway ==
    ASSUME ReplaceQtys \subseteq Nat, IInv, FInv, GatewayNext
    PROVE  FInv'
<1>1. ASSUME NEW o \in NewOrders, Submit(o)
      PROVE  FInv'
  <2> DEFINE n == [o EXCEPT !.exchange_id = order_seq_ + 1]
             item == [tag |-> "ORDER", order |-> n]
  <2>1. o \in Order /\ order_seq_ \in Nat
    <3>0. Prices \cup {0} \subseteq Int /\ Qtys \subseteq Int /\ {0} \subseteq Nat
      BY PriceAssumption, QtyAssumption DEF Prices
    <3> QED BY <3>0 DEF NewOrders, Order, IInv, TypeOK
  <2>2. n \in Order
    BY <2>1 DEF Order
  <2>3. Push(item) /\ UNCHANGED << books_, rows, pc, cur >>
    BY <1>1 DEF Submit
  <2> HIDE DEF n
  <2>4. item \in WorkItem /\ item.tag # "REPLACE"
    BY <2>2 DEF WorkItem
  <2> HIDE DEF item
  <2> QED BY <2>3, <2>4, PushComing
<1>2. ASSUME NEW item \in WorkItem, item.tag = "REPLACE" => item.req.new_qty >= 0, Request(item)
      PROVE  FInv'
  BY <1>2, PushComing DEF Request
<1>3. ASSUME NEW id \in 1 .. order_seq_, NEW s \in MsgSymbols, NEW c \in Clients,
             Cancel([client_id |-> c, symbol |-> s, orig_order_id |-> id])
      PROVE  FInv'
  <2> DEFINE item == [tag |-> "CANCEL",
                      req |-> [client_id |-> c, symbol |-> s, orig_order_id |-> id]]
  <2>1. item \in WorkItem /\ item.tag # "REPLACE"
    BY SymbolAssumption DEF WorkItem, CancelRequest
  <2>2. Request(item)
    BY <1>3 DEF Cancel
  <2> HIDE DEF item
  <2> QED BY <1>2, <2>1, <2>2
<1>4. ASSUME NEW id \in 1 .. order_seq_, NEW s \in MsgSymbols, NEW c \in Clients,
             NEW p \in Prices, NEW q \in ReplaceQtys, NEW old \in ClOrdIds, NEW new \in ClOrdIds,
             Replace([new_clord_id |-> new, old_clord_id |-> old, client_id |-> c,
                      orig_order_id |-> id, symbol |-> s, new_price |-> p, new_qty |-> q])
      PROVE  FInv'
  <2> DEFINE item == [tag |-> "REPLACE",
                      req |-> [new_clord_id |-> new, old_clord_id |-> old, client_id |-> c,
                               orig_order_id |-> id, symbol |-> s,
                               new_price |-> p, new_qty |-> q]]
  <2>1. item \in WorkItem
    <3>1. id \in Nat /\ s \in Symbols /\ q \in Int
      BY <1>4, SymbolAssumption
    <3>2. item.req \in ReplaceRequest
      BY <3>1 DEF ReplaceRequest
    <3> QED BY <3>2 DEF WorkItem
  <2>2. q \in Nat /\ item.req.new_qty = q
    <3>1. q \in Nat
      BY <1>4
    <3>2. item.req.new_qty = q
      BY Zenon
    <3> QED BY <3>1, <3>2
  <2>3. Request(item)
    BY <1>4 DEF Replace
  <2> HIDE DEF item
  <2> QED BY <1>2, <2>1, <2>2, <2>3
<1>5. ASSUME RequestSnapshot PROVE FInv'
  <2> DEFINE item == [tag |-> "SNAPSHOT"]
  <2>1. item \in WorkItem /\ item.tag # "REPLACE"
    BY DEF WorkItem
  <2>2. Request(item)
    BY <1>5 DEF RequestSnapshot
  <2> HIDE DEF item
  <2> QED BY <1>2, <2>1, <2>2
<1>6. ASSUME Reject PROVE FInv'
  BY <1>6, FokFrame DEF Reject, FInv, ComingOK
<1> QED BY <1>1, <1>3, <1>4, <1>5, <1>6 DEF GatewayNext

\* A restored row is a GTC order.
LEMMA FokRestore ==
    ASSUME IInv, FInv, RestoreOrder
    PROVE  FInv'
<1> DEFINE o == Head(rows)
           s == o.symbol
<1>1. /\ main = "recovery" /\ rows # << >> /\ rows' = Tail(rows)
      /\ books_' = IF s \in DOMAIN books_ THEN [books_ EXCEPT ![s] = PushBack(books_[s], o)]
                   ELSE books_
      /\ UNCHANGED << queue_, order_seq_, requests, main, pc, cur, call >>
  BY DEF RestoreOrder, valid_symbols_
<1>2. rows \in Seq(Order)
  BY DEF IInv, TypeOK
<1>3. /\ 1 \in DOMAIN rows /\ o = rows[1]
      /\ \A i \in DOMAIN rows' : i + 1 \in DOMAIN rows /\ rows'[i] = rows[i + 1]
  BY <1>1, <1>2, PopProperties
<1>4. EntryOK(o)
  BY <1>3 DEF FInv, ComingOK
<1>5. ComingOK'
  BY <1>1, <1>3 DEF FInv, ComingOK
<1>6. pc # "match"
  BY <1>1 DEF IInv, RowsOK
<1>7. Covered'
  BY <1>1, <1>6 DEF Covered
<1> HIDE DEF o
<1>8. EntriesOK'
  <2>1. CASE s \in DOMAIN books_
    <3> DEFINE b == PushBack(books_[s], o)
    <3>1. b.order_index_ = Put(books_[s].order_index_, o.exchange_id, o)
      BY DEF PushBack
    <3>2. \A id \in DOMAIN b.order_index_ : EntryOK(b.order_index_[id])
      <4> HIDE DEF b
      <4> QED BY <1>4, <2>1, <3>1 DEF Put, FInv, EntriesOK
    <3>3. books_' = [books_ EXCEPT ![s] = b]
      BY <1>1, <2>1
    <3> HIDE DEF b, s
    <3> QED BY <2>1, <3>2, <3>3, EntriesUpdate
  <2>2. CASE s \notin DOMAIN books_
    <3>1. books_' = books_
      BY <1>1, <2>2
    <3> QED BY <3>1 DEF FInv, EntriesOK
  <2> QED BY <2>1, <2>2
<1> QED BY <1>5, <1>7, <1>8 DEF FInv

\* run()'s ORDER branch: a FOK order goes into add() only if it is covered.
LEMMA FokRunOrder ==
    ASSUME IInv, FInv, RunOrder
    PROVE  FInv'
<1> DEFINE o == Head(queue_).order
<1>1. Pop("ORDER") /\ UNCHANGED << books_, rows >>
  BY DEF RunOrder, NoBook
<1>2. ComingOK' /\ Head(queue_) \in WorkItem /\ Head(queue_).tag = "ORDER" /\ pc = "run"
  BY <1>1, PopComing DEF Pop
<1>3. o \in Order
  BY <1>2 DEF WorkItem
<1>4. EntriesOK'
  BY <1>1 DEF FInv, EntriesOK
<1>5. \/ pc' # "match"
      \/ /\ o.symbol \in DOMAIN books_
         /\ o.tif = "fok" => AvailableToFill(books_[o.symbol], o) >= o.qty
         /\ Add([tag |-> "ORDER", order |-> o])
  BY <1>2 DEF RunOrder, NoBook, valid_symbols_
<1>6. CASE pc' # "match"
  BY <1>2, <1>4, <1>6 DEF FInv, Covered
<1>7. CASE /\ o.symbol \in DOMAIN books_
           /\ o.tif = "fok" => AvailableToFill(books_[o.symbol], o) >= o.qty
           /\ Add([tag |-> "ORDER", order |-> o])
  <2> HIDE DEF o
  <2> DEFINE n == [o EXCEPT !.leaves_qty = o.qty]
  <2>1. /\ n.symbol = o.symbol /\ n.type = o.type /\ n.price = o.price /\ n.side = o.side
        /\ n.tif = o.tif /\ n.leaves_qty = o.qty
    BY <1>3 DEF Order
  <2>2. cur'.order = n
    BY <1>7 DEF Add
  <2> HIDE DEF n
  <2>3. SUFFICES ASSUME o.tif = "fok"
                 PROVE  SumLeaves(books_[o.symbol], Reachable(books_[o.symbol], n)) >= o.qty
    BY <1>1, <1>2, <1>4, <2>1, <2>2 DEF FInv, Covered
  <2>4. Reachable(books_[o.symbol], n) = Reachable(books_[o.symbol], o)
    BY <2>1, ReachSame
  <2> QED BY <1>3, <1>7, <2>3, <2>4, AvailableIsThere DEF FInv
<1> QED BY <1>5, <1>6, <1>7

\* run()'s CANCEL branch.
LEMMA FokRunCancel ==
    ASSUME IInv, FInv, RunCancel
    PROVE  FInv'
<1> DEFINE req == Head(queue_).req
           s == req.symbol
<1>1. Pop("CANCEL") /\ UNCHANGED rows
  BY DEF RunCancel
<1>2. ComingOK' /\ pc = "run"
  BY <1>1, PopComing DEF Pop
<1>3. /\ pc' # "match"
      /\ \/ UNCHANGED books_
         \/ /\ s \in DOMAIN books_
            /\ books_' = [books_ EXCEPT ![s] = Cancelled(books_[s], req.orig_order_id)]
  BY <1>2 DEF RunCancel, NoBook, valid_symbols_
<1>4. Covered'
  BY <1>3 DEF Covered
<1> HIDE DEF req
<1>5. EntriesOK'
  <2>1. CASE UNCHANGED books_
    BY <2>1 DEF FInv, EntriesOK
  <2>2. CASE /\ s \in DOMAIN books_
             /\ books_' = [books_ EXCEPT ![s] = Cancelled(books_[s], req.orig_order_id)]
    <3> DEFINE b == Cancelled(books_[s], req.orig_order_id)
    <3>1. \A id \in DOMAIN b.order_index_ : EntryOK(b.order_index_[id])
      <4>1. CASE Found(books_[s], req.orig_order_id)
        BY <2>2, <4>1, UnlinkEntries DEF Cancelled
      <4>2. CASE ~Found(books_[s], req.orig_order_id)
        BY <2>2, <4>2 DEF Cancelled, FInv, EntriesOK
      <4> QED BY <4>1, <4>2
    <3>2. books_' = [books_ EXCEPT ![s] = b]
      BY <2>2
    <3> HIDE DEF b, s
    <3> QED BY <2>2, <3>1, <3>2, EntriesUpdate
  <2> QED BY <1>3, <2>1, <2>2
<1> QED BY <1>2, <1>4, <1>5 DEF FInv

\* run()'s REPLACE branch: the order comes from a book, so it is not FOK.
LEMMA FokRunReplace ==
    ASSUME IInv, FInv, RunReplace
    PROVE  FInv'
<1> DEFINE req == Head(queue_).req
           s == req.symbol
           id == req.orig_order_id
           book == books_[s]
           r == book.order_index_[id]
           agg == [tag |-> "REPLACE", req |-> req,
                   order |-> [r EXCEPT !.price = req.new_price, !.qty = req.new_qty]]
<1>1. Pop("REPLACE") /\ UNCHANGED rows
  BY DEF RunReplace
<1>2. ComingOK' /\ pc = "run" /\ req.new_qty >= 0
  BY <1>1, PopComing, SMTT(30) DEF Pop
<1>3. \/ pc' # "match" /\ UNCHANGED books_
      \/ /\ s \in DOMAIN books_ /\ id \in DOMAIN book.order_index_
         /\ books_' = [books_ EXCEPT ![s] = Reduced(book, id, req.new_qty)]
         /\ pc' # "match"
      \/ /\ s \in DOMAIN books_ /\ id \in DOMAIN book.order_index_
         /\ books_' = [books_ EXCEPT ![s] = Unlink(book, id)]
         /\ Add(agg)
  BY <1>2 DEF RunReplace, NoBook, valid_symbols_, Found
<1> HIDE DEF req
<1>4. CASE pc' # "match" /\ UNCHANGED books_
  BY <1>2, <1>4 DEF FInv, EntriesOK, Covered
<1>5. ASSUME s \in DOMAIN books_, id \in DOMAIN book.order_index_
      PROVE  /\ r \in Order /\ EntryOK(r)
             /\ book = [levels |-> book.levels, order_index_ |-> book.order_index_]
  BY <1>5 DEF IInv, BooksOK, BookOK, BookType, FInv, EntriesOK
<1>6. CASE /\ s \in DOMAIN books_ /\ id \in DOMAIN book.order_index_
           /\ books_' = [books_ EXCEPT ![s] = Reduced(book, id, req.new_qty)]
           /\ pc' # "match"
  <2> DEFINE b == Reduced(book, id, req.new_qty)
             n == [r EXCEPT !.qty = req.new_qty, !.leaves_qty = req.new_qty]
  <2>1. EntryOK(n)
    <3> HIDE DEF r
    <3> QED BY <1>2, <1>5, <1>6 DEF EntryOK, Order
  <2>2. b.order_index_ = Put(book.order_index_, id, n)
    BY <1>5, <1>6 DEF Reduced
  <2> HIDE DEF n, b
  <2>3. \A x \in DOMAIN b.order_index_ : EntryOK(b.order_index_[x])
    BY <1>6, <2>1, <2>2 DEF Put, FInv, EntriesOK
  <2>4. EntriesOK'
    <3>1. books_' = [books_ EXCEPT ![s] = b]
      BY <1>6 DEF b
    <3> HIDE DEF s
    <3> QED BY <1>6, <2>3, <3>1, EntriesUpdate
  <2> QED BY <1>2, <1>6, <2>4 DEF FInv, Covered
<1>7. CASE /\ s \in DOMAIN books_ /\ id \in DOMAIN book.order_index_
           /\ books_' = [books_ EXCEPT ![s] = Unlink(book, id)]
           /\ Add(agg)
  <2> DEFINE b == Unlink(book, id)
  <2>1. \A x \in DOMAIN b.order_index_ : EntryOK(b.order_index_[x])
    BY <1>7, UnlinkEntries
  <2>2. EntriesOK'
    <3>1. books_' = [books_ EXCEPT ![s] = b]
      BY <1>7
    <3> HIDE DEF s, b
    <3> QED BY <1>7, <2>1, <3>1, EntriesUpdate
  <2>3. cur'.order.tif # "fok"
    <3> DEFINE m == [r EXCEPT !.price = req.new_price, !.qty = req.new_qty]
    <3>1. m.tif = r.tif /\ [m EXCEPT !.leaves_qty = m.qty].tif = r.tif
      <4> HIDE DEF r
      <4> QED BY <1>5, <1>7 DEF Order
    <3>2. cur'.order = [m EXCEPT !.leaves_qty = m.qty]
      <4>1. agg = [tag |-> "REPLACE", req |-> req, order |-> m]
        OBVIOUS
      <4>2. cur' = [agg EXCEPT !.order.leaves_qty = agg.order.qty]
        BY <1>7 DEF Add
      <4> HIDE DEF m, agg
      <4> QED BY <4>1, <4>2
    <3> HIDE DEF r, m
    <3> QED BY <1>5, <1>7, <3>1, <3>2 DEF EntryOK
  <2> QED BY <1>2, <2>2, <2>3 DEF FInv, Covered
<1> HIDE DEF agg, r, book, id, s
<1> QED BY <1>3, <1>4, <1>6, <1>7

\* One iteration of match_against keeps a FOK order covered.
LEMMA FokMatchFill ==
    ASSUME IInv, FInv, MatchFill
    PROVE  FInv'
<1> DEFINE o == cur.order
           s == o.symbol
           book == books_[s]
           b == AfterFill(book, o)
           q == FillQty(book, o)
           r == Resting(book, o)
<1>1. /\ pc = "match" /\ CanMatch(book, o)
      /\ books_' = [books_ EXCEPT ![s] = b]
      /\ cur' = [cur EXCEPT !.order.leaves_qty = o.leaves_qty - q]
      /\ UNCHANGED << queue_, rows, pc >>
  BY DEF MatchFill
<1>2. cur \in Aggressor /\ s \in DOMAIN books_
  BY <1>1 DEF IInv, TypeOK
<1>3. o \in Order
  BY <1>2 DEF Aggressor
<1>4. BookOK(book) /\ IsFiniteSet(DOMAIN book.order_index_)
  BY <1>2, BookFinite
<1>5. ComingOK'
  BY <1>1 DEF FInv, ComingOK
<1>6. \A id \in DOMAIN book.order_index_ : EntryOK(book.order_index_[id])
  BY <1>2 DEF FInv, EntriesOK
<1>7. /\ cur'.order = [o EXCEPT !.leaves_qty = o.leaves_qty - q]
  BY <1>1, <1>2 DEF Aggressor
<1>8. DOMAIN books_' = DOMAIN books_ /\ books_'[s] = b
  BY <1>1, <1>2
<1> HIDE DEF o, book
<1>9. r \in Order /\ r.exchange_id \in DOMAIN book.order_index_
      /\ book.order_index_[r.exchange_id] = r
  BY <1>1, <1>3, <1>4, RestingProperties
<1>10. q \in Int /\ q = Lesser(o.leaves_qty, r.leaves_qty)
  BY <1>1, <1>3, <1>4, AfterFillOK DEF FillQty
<1>11. \A id \in DOMAIN b.order_index_ : EntryOK(b.order_index_[id])
  <2> DEFINE left == r.leaves_qty - q
             n == [r EXCEPT !.leaves_qty = left]
  <2>1. b = IF left = 0 THEN Unlink(book, r.exchange_id)
            ELSE [book EXCEPT !.order_index_ = Put(@, r.exchange_id, n)]
    BY DEF AfterFill
  <2>2. book = [levels |-> book.levels, order_index_ |-> book.order_index_]
    BY <1>4 DEF BookOK, BookType
  <2> HIDE DEF b, r, q
  <2>3. r.leaves_qty \in Int /\ o.leaves_qty \in Int /\ r.tif # "fok"
    BY <1>3, <1>6, <1>9 DEF Order, EntryOK
  <2>4. left >= 0
    BY <1>10, <2>3 DEF Lesser
  <2>5. EntryOK(n)
    BY <1>9, <2>3, <2>4 DEF EntryOK, Order
  <2>6. CASE left = 0
    <3>1. b.order_index_ = Drop(book.order_index_, r.exchange_id)
      BY <2>1, <2>6 DEF Unlink
    <3> QED BY <1>6, <3>1 DEF Drop
  <2>7. CASE left # 0
    <3> HIDE DEF n, left
    <3>1. b.order_index_ = Put(book.order_index_, r.exchange_id, n)
      BY <2>1, <2>2, <2>7
    <3> QED BY <1>6, <2>5, <3>1 DEF Put
  <2> QED BY <2>6, <2>7
<1>12. EntriesOK'
  <2> HIDE DEF b, s
  <2> QED BY <1>1, <1>2, <1>11, EntriesUpdate
<1>13. Covered'
  <2> DEFINE n == [o EXCEPT !.leaves_qty = o.leaves_qty - q]
  <2> HIDE DEF q
  <2>1. /\ n.symbol = o.symbol /\ n.type = o.type /\ n.price = o.price /\ n.side = o.side
        /\ n.tif = o.tif /\ n.leaves_qty = o.leaves_qty - q
    BY <1>3 DEF Order
  <2> HIDE DEF n
  <2>2. SUFFICES ASSUME o.tif = "fok"
                 PROVE  SumLeaves(b, Reachable(b, n)) >= o.leaves_qty - q
    BY <1>7, <1>8, <2>1 DEF Covered, n
  <2>3. SumLeaves(book, Reachable(book, o)) >= o.leaves_qty
    BY <1>1, <2>2 DEF FInv, Covered, o, book
  <2>4. SumLeaves(b, Reachable(b, o)) = SumLeaves(book, Reachable(book, o)) - q
    BY <1>1, <1>3, <1>4, FillTakesFromReach DEF q
  <2>5. Reachable(b, n) = Reachable(b, o)
    BY <2>1, ReachSame
  <2>6. SumLeaves(book, Reachable(book, o)) \in Int /\ o.leaves_qty \in Int
    BY <1>3, <1>4, ReachFinite, SumRange DEF Order
  <2> QED BY <1>10, <2>3, <2>4, <2>5, <2>6
<1> QED BY <1>5, <1>12, <1>13 DEF FInv

\* The end of add(): a covered order with a remainder would still have something to match.
LEMMA FokMatchEnd ==
    ASSUME IInv, FInv, MatchEnd
    PROVE  FInv'
<1> DEFINE o == cur.order
           s == o.symbol
           book == books_[s]
           b == PushBack(book, o)
<1>1. /\ pc = "match" /\ ~CanMatch(book, o)
      /\ books_' = IF Rests(o) THEN [books_ EXCEPT ![s] = b] ELSE books_
      /\ pc' = "run" /\ UNCHANGED << queue_, rows >>
  BY DEF MatchEnd
<1>2. cur \in Aggressor /\ s \in DOMAIN books_
  BY <1>1 DEF IInv, TypeOK
<1>3. o \in Order
  BY <1>2 DEF Aggressor
<1>4. BookOK(book)
  BY <1>2, BookFinite
<1>5. ComingOK' /\ Covered'
  BY <1>1 DEF FInv, ComingOK, Covered
<1>6. CASE Rests(o)
  <2>1. o.leaves_qty > 0 /\ o.leaves_qty \in Int
    BY <1>3, <1>6 DEF Rests, Order
  <2>2. o.tif # "fok"
    <3>1. SUFFICES ASSUME o.tif = "fok" PROVE FALSE
      OBVIOUS
    <3>2. SumLeaves(book, Reachable(book, o)) >= o.leaves_qty
      BY <1>1, <3>1 DEF FInv, Covered
    <3> HIDE DEF o, book
    <3>3. Reachable(book, o) = {}
      BY <1>1, <1>3, <1>4, <2>1, LoopEndReach
    <3>4. SumLeaves(book, {}) = 0
      BY SumOfNone
    <3> QED BY <2>1, <3>2, <3>3, <3>4
  <2>3. EntryOK(o)
    BY <2>1, <2>2 DEF EntryOK
  <2>4. b.order_index_ = Put(book.order_index_, o.exchange_id, o)
    BY DEF PushBack
  <2> HIDE DEF b, o
  <2>5. \A id \in DOMAIN b.order_index_ : EntryOK(b.order_index_[id])
    BY <1>2, <2>3, <2>4 DEF Put, FInv, EntriesOK
  <2>6. EntriesOK'
    <3>1. books_' = [books_ EXCEPT ![s] = b]
      BY <1>1, <1>6
    <3> HIDE DEF s
    <3> QED BY <1>2, <2>5, <3>1, EntriesUpdate
  <2> QED BY <1>5, <2>6 DEF FInv
<1>7. CASE ~Rests(o)
  <2>1. books_' = books_
    BY <1>1, <1>7
  <2> QED BY <1>5, <2>1 DEF FInv, EntriesOK
<1> QED BY <1>6, <1>7

\* A registered symbol has an empty book.
LEMMA FokRegister ==
    ASSUME IInv, FInv, NEW s \in Symbols, RegisterSymbol(s)
    PROVE  FInv'
<1>1. /\ books_' = Put(books_, s, EmptyBook) /\ s \notin DOMAIN books_
      /\ UNCHANGED << queue_, rows, pc, cur >>
  BY DEF RegisterSymbol, valid_symbols_
<1>2. /\ DOMAIN books_' = DOMAIN books_ \cup {s} /\ books_'[s] = EmptyBook
      /\ \A t \in DOMAIN books_ : books_'[t] = books_[t]
  BY <1>1 DEF Put
<1>3. DOMAIN EmptyBook.order_index_ = {}
  BY DEF EmptyBook, NoEntry
<1>4. EntriesOK' /\ ComingOK'
  BY <1>1, <1>2, <1>3 DEF FInv, EntriesOK, ComingOK
<1>5. pc = "match" => cur.order.symbol \in DOMAIN books_
  BY DEF IInv, TypeOK
<1>6. Covered'
  BY <1>1, <1>2, <1>5 DEF FInv, Covered
<1> QED BY <1>4, <1>6 DEF FInv

\* Every step of every thread.
LEMMA FokNext ==
    ASSUME ReplaceQtys \subseteq Nat, IInv, FInv, [Next]_vars
    PROVE  FInv'
<1>1. CASE Start \/ StopAcceptor \/ Stop \/ CallbackReturn \/ Exit \/ Over \/ UNCHANGED vars
  <2>1. UNCHANGED << books_, queue_, rows, cur >> /\ (pc' = "match" <=> pc = "match")
    BY <1>1 DEF Start, StopAcceptor, Stop, CallbackReturn, Exit, Over, vars, IInv, RowsOK
  <2> QED BY <2>1, FokFrame DEF FInv, ComingOK
<1>2. CASE RunSnapshot
  <2>1. Pop("SNAPSHOT") /\ UNCHANGED << books_, rows, cur, pc >>
    BY <1>2 DEF RunSnapshot
  <2> QED BY <2>1, PopComing, FokFrame DEF FInv
<1> QED BY <1>1, <1>2, FokRestore, FokRegister, FokGateway, FokRunOrder, FokRunCancel,
           FokRunReplace, FokMatchFill, FokMatchEnd DEF Next, MainNext, AdminNext, EngineNext

\* The rows hold no FOK order.
LEMMA FokInit ==
    ASSUME \A r \in RestingRows : \A i \in DOMAIN r : r[i].leaves_qty >= 0, Init
    PROVE  FInv
<1>1. rows \in RestingRows /\ \A i \in DOMAIN rows : rows[i].tif = "gtc"
  BY RowsAssumption DEF Init
<1>2. ComingOK
  BY <1>1 DEF Init, ComingOK, EntryOK
<1>3. EntriesOK /\ Covered
  BY DEF Init, EntriesOK, Covered, EmptyBook, NoEntry
<1> QED BY <1>2, <1>3 DEF FInv

\* A FOK order that run() lets into add() is filled completely: at every step of the match
\* loop it has enough in its reach, and no FOK order ever rests.  This holds for any number
\* of orders, levels and requests, and even when the int sum of available_to_fill
\* overflows, as long as no replace and no row carries a negative quantity.
THEOREM FokIsAllOrNothing ==
    ASSUME ReplaceQtys \subseteq Nat,
           \A r \in RestingRows : \A i \in DOMAIN r : r[i].leaves_qty >= 0
    PROVE  Spec => []FokAllOrNothing
<1>1. Init => FInv
  BY FokInit
<1>2. IInv /\ FInv /\ [Next]_vars => FInv'
  BY FokNext
<1>3. FInv => FokAllOrNothing
  BY DEF FInv, EntriesOK, EntryOK, Covered, FokAllOrNothing
<1> QED BY <1>1, <1>2, <1>3, EngineInvariant, PTL DEF Spec

---------------------------------------------------------------------------
(* A killed order was short                                                *)

\* The resting quantity any order could reach fits an int.
SumsFit ==
    \A s \in DOMAIN books_ : \A o \in Order :
        SumLeaves(books_[s], Reachable(books_[s], o)) \in -(IntMax + 1) .. IntMax

\* A step that leaves the callback and its book alone.
LEMMA ShortFrame ==
    ASSUME ShortInv, UNCHANGED call, pc' # "created" \/ pc = "created",
           \A s \in DOMAIN books_ : s \in DOMAIN books_' /\ books_'[s] = books_[s]
    PROVE  ShortInv'
  BY DEF ShortInv, Killed

\* A step into another callback, or out of one.
LEMMA ShortOther ==
    ASSUME pc' # "created", ~Killed'
    PROVE  ShortInv'
  BY DEF ShortInv

\* run()'s ORDER branch: the order is killed because the sum, which fits an int, is short.
LEMMA ShortRunOrder ==
    ASSUME IInv, SumsFit, ShortInv, RunOrder
    PROVE  ShortInv'
<1> DEFINE o == Head(queue_).order
           book == books_[o.symbol]
<1>1. /\ Pop("ORDER") /\ UNCHANGED books_ /\ pc = "run" /\ call = NoCall /\ pc' # "created"
  BY DEF RunOrder, NoBook, Pop, Add
<1>2. Head(queue_) \in WorkItem /\ Head(queue_).tag = "ORDER"
  BY <1>1, PopStep
<1>3. o \in Order
  BY <1>2 DEF WorkItem
<1>4. \/ call' = call
      \/ /\ o.symbol \in DOMAIN books_ /\ AvailableToFill(book, o) < o.qty
         /\ call' = OnTifCancel([o EXCEPT !.leaves_qty = o.qty])
  BY DEF RunOrder, NoBook, valid_symbols_
<1>5. CASE call' = call
  BY <1>1, <1>5 DEF ShortInv, Killed, NoCall
<1>6. CASE /\ o.symbol \in DOMAIN books_ /\ AvailableToFill(book, o) < o.qty
           /\ call' = OnTifCancel([o EXCEPT !.leaves_qty = o.qty])
  <2> DEFINE n == [o EXCEPT !.leaves_qty = o.qty]
             R == Reachable(book, o)
  <2>1. SumLeaves(book, R) \in -(IntMax + 1) .. IntMax
    BY <1>3, <1>6 DEF SumsFit
  <2>2. WrapInt(SumLeaves(book, R)) < o.qty
    BY <1>6 DEF AvailableToFill
  <2>3. SumLeaves(book, R) < o.qty
    <3> DEFINE m == SumLeaves(book, R)
    <3> HIDE DEF m, o
    <3>1. WrapInt(m) = m
      BY <2>1, WrapFits DEF m
    <3> QED BY <2>2, <3>1 DEF m
  <2> HIDE DEF o, book
  <2>4. /\ n.symbol = o.symbol /\ n.type = o.type /\ n.price = o.price /\ n.side = o.side
        /\ n.qty = o.qty
    BY <1>3 DEF Order
  <2>5. call'.order = n
    BY <1>6 DEF OnTifCancel
  <2> HIDE DEF n
  <2>6. Reachable(book, n) = R
    BY <2>4, ReachSame
  <2> QED BY <1>1, <1>6, <2>3, <2>4, <2>5, <2>6 DEF ShortInv, book
<1> QED BY <1>4, <1>5, <1>6

\* Every step of every thread: the books do not change while the callback runs.
LEMMA ShortNext ==
    ASSUME IInv, SumsFit, ShortInv, [Next]_vars
    PROVE  ShortInv'
<1>1. CASE MainNext
  <2>1. CASE RestoreOrder
    <3>1. pc = "created" /\ pc' = pc /\ call' = call
      BY <2>1 DEF RestoreOrder, IInv, RowsOK
    <3> QED BY <3>1 DEF ShortInv, Killed
  <2>2. CASE Start \/ StopAcceptor \/ Stop
    <3>1. UNCHANGED << call, books_ >> /\ (pc' # "created" \/ pc = "created")
      BY <2>2 DEF Start, StopAcceptor, Stop
    <3> QED BY <3>1, ShortFrame
  <2> QED BY <1>1, <2>1, <2>2 DEF MainNext
<1>2. CASE AdminNext
  <2>1. PICK s \in Symbols : RegisterSymbol(s)
    BY <1>2 DEF AdminNext
  <2>2. UNCHANGED << call, pc >>
        /\ \A t \in DOMAIN books_ : t \in DOMAIN books_' /\ books_'[t] = books_[t]
    BY <2>1 DEF RegisterSymbol, Put, valid_symbols_
  <2> QED BY <2>2, ShortFrame
<1>3. CASE GatewayNext
  <2>1. UNCHANGED << call, books_, pc >>
    BY <1>3 DEF GatewayNext, Submit, Reject, Cancel, Replace, RequestSnapshot, Request
  <2> QED BY <2>1, ShortFrame
<1>4. CASE RunCancel \/ RunReplace \/ RunSnapshot
  <2> DEFINE Quiet == /\ pc' # "created"
                      /\ \/ call' = NoCall
                         \/ call'.fn \in {"on_cancel", "on_replace", "snapshot_cb"}
  <2>1. ASSUME RunCancel PROVE Quiet
    <3>1. pc = "run" /\ call = NoCall
      BY <2>1 DEF RunCancel, Pop
    <3>2. \/ pc' = "undefined" /\ call' = call
          \/ pc' = pc /\ call'.fn = "on_cancel"
      BY <2>1 DEF RunCancel, NoBook, OnCancel
    <3> QED BY <3>1, <3>2
  <2>2. ASSUME RunReplace PROVE Quiet
    <3>1. pc = "run" /\ call = NoCall
      BY <2>2 DEF RunReplace, Pop
    <3>2. \/ pc' \in {"undefined", "match"} /\ call' = call
          \/ pc' = pc /\ \E req, n : call' = OnReplace(req, n)
      BY <2>2, Zenon DEF RunReplace, NoBook, Add
    <3>3. \A req, n : OnReplace(req, n).fn = "on_replace"
      BY DEF OnReplace
    <3> QED BY <3>1, <3>2, <3>3
  <2>3. ASSUME RunSnapshot PROVE Quiet
    BY <2>3 DEF RunSnapshot, Pop, SnapshotCb
  <2>4. Quiet
    BY <1>4, <2>1, <2>2, <2>3
  <2> QED BY <2>4, ShortOther DEF Killed
<1>5. CASE MatchFill
  <2>1. pc' = "match" /\ call'.fn = "on_fill"
    BY <1>5 DEF MatchFill, OnFill
  <2> QED BY <2>1, ShortOther DEF Killed
<1>6. CASE MatchEnd
  <2>1. pc' = "run" /\ call' = AfterAdd(cur) /\ pc = "match"
    BY <1>6 DEF MatchEnd
  <2>2. cur \in Aggressor
    BY <2>1 DEF IInv, TypeOK
  <2>3. \/ AfterAdd(cur).fn # "on_tif_cancel"
        \/ AfterAdd(cur).order.tif = "ioc"
    BY <2>2 DEF AfterAdd, Aggressor, OnReplace, OnTifCancel, OnOrderRested, NoCall
  <2> QED BY <2>1, <2>3, ShortOther DEF Killed
<1>7. CASE Exit
  BY <1>7, ShortFrame DEF Exit
<1>8. CASE CallbackReturn
  <2>1. call' = NoCall
    BY <1>8 DEF CallbackReturn
  <2> QED BY <2>1 DEF ShortInv, Killed
<1>9. CASE Over \/ UNCHANGED vars
  BY <1>9, ShortFrame DEF Over, vars
<1> QED BY <1>1, <1>2, <1>3, <1>4, <1>5, <1>6, <1>7, <1>8, <1>9, ShortRunOrder DEF Next, EngineNext

\* A FOK order is killed (run: "cancel immediately if insufficient") only when the resting
\* quantity in its reach, over all levels up to its limit, is short of its own, as long as
\* those quantities add up to an int: with a sum that overflows it may be killed wrongly.
THEOREM FokKilledIsShort == Spec /\ []SumsFit => []FokKilledOnlyIfShort
<1>1. Init => ShortInv
  BY DEF Init, ShortInv, Killed
<1>2. IInv /\ SumsFit /\ ShortInv /\ [Next]_vars => ShortInv'
  BY ShortNext
<1>3. ShortInv => FokKilledOnlyIfShort
  BY DEF ShortInv, Killed, FokKilledOnlyIfShort
<1> QED BY <1>1, <1>2, <1>3, EngineInvariant, PTL DEF Spec
=============================================================================
