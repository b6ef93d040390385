----------------------------- MODULE OrderBook -----------------------------
(***************************************************************************)
(* The limit order book of one symbol: class OrderBook of                  *)
(* src/src/engine/OrderBook.{h,cpp}, as operators on a book value.         *)
(*                                                                         *)
(* A book is a record of                                                   *)
(*   levels       : levels["buy"] is bids_ and levels["sell"] is asks_,    *)
(*                  each a map from a price that has a level to the list   *)
(*                  of orders at that price, oldest first;                 *)
(*   order_index_ : the map from an exchange id to the list node it points *)
(*                  at, here the Order kept in that node.                  *)
(* A list holds exchange ids: the node of an id is order_index_[id].       *)
(*                                                                         *)
(* Prices are a grid of integers (the code uses double), quantities are    *)
(* int and wrap around at IntMax where the code adds them up.              *)
(***************************************************************************)
EXTENDS Integers, Sequences, FiniteSets, FiniteSetsExt

CONSTANTS
    MinPrice, MaxPrice,  \* the grid of limit prices
    IntMax,              \* the largest value of an int
    Symbols,             \* the symbols that pass registerSymbol's syntax checks
    Clients,             \* session owners (SenderCompID)
    ClOrdIds             \* client-assigned order ids (FIX tag 11)

ASSUME PriceAssumption == MinPrice \in Int /\ MaxPrice \in Int
ASSUME IntMaxAssumption == IntMax \in Nat \ {0}

Sides  == {"buy", "sell"}
Types  == {"market", "limit"}
Tifs   == {"gtc", "ioc", "fok"}
Prices == MinPrice .. MaxPrice

\* struct Order (arrival_ns and dequeue_ns only feed latency statistics).
Order == [exchange_id : Nat, clord_id : ClOrdIds, client_id : Clients,
          symbol : Symbols, side : Sides, type : Types, price : Int,
          qty : Int, leaves_qty : Int, tif : Tifs]

Opposite(side) == IF side = "buy" THEN "sell" ELSE "buy"

Lesser(m, n) == IF m <= n THEN m ELSE n     \* std::min

\* Two's complement wrap-around of a sum of ints.
WrapInt(n) == ((n + IntMax + 1) % (2 * (IntMax + 1))) - (IntMax + 1)

---------------------------------------------------------------------------
(* Maps                                                                    *)

Put(f, k, v) == [x \in DOMAIN f \cup {k} |-> IF x = k THEN v ELSE f[x]]
Drop(f, k) == [x \in DOMAIN f \ {k} |-> f[x]]
NoEntry == [x \in {} |-> x]

EmptyBook == [levels |-> [s \in Sides |-> NoEntry], order_index_ |-> NoEntry]

---------------------------------------------------------------------------
(* Levels                                                                  *)

\* bids_ is ordered by std::greater, asks_ by std::less.
Better(side, p, q) == IF side = "buy" THEN p > q ELSE p < q

\* begin() of a non-empty side.
BestPrice(book, side) ==
    CHOOSE p \in DOMAIN book.levels[side] :
        \A q \in DOMAIN book.levels[side] : ~Better(side, q, p)

\* lst.erase(list_it): the list without the node of id.
Position(lst, id) == CHOOSE i \in DOMAIN lst : lst[i] = id
EraseNode(lst, id) ==
    [i \in 1 .. (Len(lst) - 1) |-> IF i < Position(lst, id) THEN lst[i] ELSE lst[i + 1]]

\* push_back on the level of the order's price, which operator[] creates.
PushBack(book, o) ==
    LET side == book.levels[o.side]
        lst  == IF o.price \in DOMAIN side THEN side[o.price] ELSE << >>
    IN  [levels       |-> [book.levels EXCEPT
                              ![o.side] = Put(side, o.price, Append(lst, o.exchange_id))],
         order_index_ |-> Put(book.order_index_, o.exchange_id, o)]

\* Mutation of Unlink: the index entry is forgotten.
UnlinkKeepsIndex(book, id) ==
    LET o    == book.order_index_[id]
        side == book.levels[o.side]
        lst  == EraseNode(side[o.price], id)
    IN  [book EXCEPT !.levels[o.side] = IF lst = << >> THEN Drop(side, o.price)
                                        ELSE Put(side, o.price, lst)]

\* Erase a node, its index entry, and its level when that was the last node.
Unlink(book, id) ==
    LET o    == book.order_index_[id]
        side == book.levels[o.side]
        lst  == EraseNode(side[o.price], id)
    IN  [levels       |-> [book.levels EXCEPT
                              ![o.side] = IF lst = << >> THEN Drop(side, o.price)
                                          ELSE Put(side, o.price, lst)],
         order_index_ |-> Drop(book.order_index_, id)]

---------------------------------------------------------------------------
(* Matching                                                                *)

\* Mutation of Crosses: a strict comparison.
CrossesStrictly(o, p) ==
    \/ o.type = "market"
    \/ IF o.side = "buy" THEN o.price > p ELSE o.price < p

Crosses(o, p) ==
    \/ o.type = "market"
    \/ IF o.side = "buy" THEN o.price >= p ELSE o.price <= p

\* Mutation of CanMatch: the loop goes on when the aggressor has nothing left.
CanMatchWithoutLeaves(book, o) ==
    /\ DOMAIN book.levels[Opposite(o.side)] # {}
    /\ Crosses(o, BestPrice(book, Opposite(o.side)))

\* The condition of match_against's loop, its break included.
CanMatch(book, o) ==
    /\ o.leaves_qty > 0
    /\ DOMAIN book.levels[Opposite(o.side)] # {}
    /\ Crosses(o, BestPrice(book, Opposite(o.side)))

\* The resting order at the front of the best opposite level.
Resting(book, o) ==
    LET side == Opposite(o.side)
    IN  book.order_index_[Head(book.levels[side][BestPrice(book, side)])]

FillQty(book, o) == Lesser(o.leaves_qty, Resting(book, o).leaves_qty)

\* One iteration of match_against: what it leaves of the resting order ...
AfterFill(book, o) ==
    LET r    == Resting(book, o)
        left == r.leaves_qty - FillQty(book, o)
    IN  IF left = 0 THEN Unlink(book, r.exchange_id)
        ELSE [book EXCEPT !.order_index_ =
                 Put(@, r.exchange_id, [r EXCEPT !.leaves_qty = left])]

\* ... and make_fill, for the maker (filled = the resting order) or the taker.
MakeFill(o, price, qty, leaves) ==
    [exchange_id |-> o.exchange_id, clord_id |-> o.clord_id, client_id |-> o.client_id,
     symbol |-> o.symbol, side |-> o.side, price |-> price, qty |-> qty,
     leaves_qty |-> leaves, order_qty |-> o.qty]

\* add's condition for the remainder to rest.
Rests(o) == o.leaves_qty > 0 /\ o.type = "limit" /\ o.tif # "ioc"

---------------------------------------------------------------------------
(* Queries                                                                 *)

SumLeaves(book, ids) == MapThenSumSet(LAMBDA id : book.order_index_[id].leaves_qty, ids)

IdsAt(book, side, p) == {book.levels[side][p][i] : i \in DOMAIN book.levels[side][p]}

\* Ids of the resting orders an aggressor could reach: every level up to its limit.
Reachable(book, o) ==
    LET side == Opposite(o.side)
    IN  UNION {IdsAt(book, side, p) : p \in {p \in DOMAIN book.levels[side] : Crosses(o, p)}}

\* Mutation of AvailableToFill: the aggressor's limit is ignored.
AvailableOnSide(book, o) ==
    LET side == Opposite(o.side)
    IN  WrapInt(SumLeaves(book, UNION {IdsAt(book, side, p) : p \in DOMAIN book.levels[side]}))

\* Mutation of AvailableToFill: only the best level counts.
AvailableAtBest(book, o) ==
    LET side == Opposite(o.side)
    IN  IF DOMAIN book.levels[side] = {} THEN 0
        ELSE LET p == BestPrice(book, side)
             IN  IF Crosses(o, p) THEN WrapInt(SumLeaves(book, IdsAt(book, side, p))) ELSE 0

AvailableToFill(book, o) == WrapInt(SumLeaves(book, Reachable(book, o)))

\* getBids / getAsks: the levels whose total is positive.
GetLevels(book, side) ==
    LET total(p) == WrapInt(SumLeaves(book, IdsAt(book, side, p)))
    IN  [p \in {p \in DOMAIN book.levels[side] : total(p) > 0} |-> total(p)]

\* getOrders: every node of every list.
GetOrders(book) ==
    {book.order_index_[id] :
        id \in UNION {UNION {IdsAt(book, s, p) : p \in DOMAIN book.levels[s]} : s \in Sides}}

---------------------------------------------------------------------------
(* The requests that complete without matching                             *)

Found(book, id) == id \in DOMAIN book.order_index_

\* cancel: the book and whether the order was there.
Cancelled(book, id) == IF Found(book, id) THEN Unlink(book, id) ELSE book

\* Mutation of InPlace: a larger quantity keeps the place too.
InPlaceAnyQty(book, id, price, qty) == price = book.order_index_[id].price

\* replace keeps the node, and so its place in the list, in this case only.
InPlace(book, id, price, qty) ==
    /\ price = book.order_index_[id].price
    /\ qty < book.order_index_[id].leaves_qty

Reduced(book, id, qty) ==
    [book EXCEPT !.order_index_ =
        Put(@, id, [@[id] EXCEPT !.qty = qty, !.leaves_qty = qty])]

---------------------------------------------------------------------------
(* What every operation of the class relies on and re-establishes          *)

BookType(book) ==
    /\ DOMAIN book = {"levels", "order_index_"}
    /\ book = [levels |-> book.levels, order_index_ |-> book.order_index_]
    /\ DOMAIN book.levels = Sides
    /\ book.levels = [s \in Sides |-> book.levels[s]]
    /\ \A s \in Sides : /\ DOMAIN book.levels[s] \subseteq Prices
                        /\ \A p \in DOMAIN book.levels[s] : book.levels[s][p] \in Seq(Nat)
    /\ DOMAIN book.order_index_ \subseteq Nat
    /\ \A id \in DOMAIN book.order_index_ : book.order_index_[id] \in Order

\* The lists and the index hold the same orders: a listed id is indexed with the
\* side and price of its list, an indexed id is listed, and only once.
ListedIsIndexed(book) ==
    \A s \in Sides : \A p \in DOMAIN book.levels[s] :
        \A i \in DOMAIN book.levels[s][p] :
            LET id == book.levels[s][p][i]
            IN  /\ id \in DOMAIN book.order_index_
                /\ book.order_index_[id].side = s
                /\ book.order_index_[id].price = p

IndexedIsListed(book) ==
    \A id \in DOMAIN book.order_index_ :
        LET o == book.order_index_[id]
        IN  /\ o.exchange_id = id
            /\ o.type = "limit"
            /\ o.price \in DOMAIN book.levels[o.side]
            /\ \E i \in DOMAIN book.levels[o.side][o.price] :
                   book.levels[o.side][o.price][i] = id

ListedOnce(book) ==
    \A s \in Sides : \A p \in DOMAIN book.levels[s] :
        \A i, j \in DOMAIN book.levels[s][p] :
            book.levels[s][p][i] = book.levels[s][p][j] => i = j

\* No level is empty: front() of the best level is an order.
NoEmptyLevel(book) ==
    \A s \in Sides : \A p \in DOMAIN book.levels[s] : book.levels[s][p] # << >>

\* Every bid is below every ask.
NotCrossed(book) ==
    \A b \in DOMAIN book.levels["buy"] : \A a \in DOMAIN book.levels["sell"] : b < a
============================================================================
