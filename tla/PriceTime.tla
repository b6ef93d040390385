----------------------------- MODULE PriceTime -----------------------------
(***************************************************************************)
(* The matching engine implements PriceTimePriority: the orders of a side, *)
(* level by level, best price first, and in the order of each list, are    *)
(* its ranked queue.                                                       *)
(***************************************************************************)
EXTENDS MatchingEngine

IdsOn(book, side) == {id \in DOMAIN book.order_index_ : book.order_index_[id].side = side}

\* x is listed before y at a price of this side.
InFront(book, side, p, x, y) ==
    \E i, j \in DOMAIN book.levels[side][p] :
        i < j /\ book.levels[side][p][i] = x /\ book.levels[side][p][j] = y

\* Iterating over the levels of a side, x comes before y.
Precedes(book, side, x, y) ==
    LET p == book.order_index_[x].price
        q == book.order_index_[y].price
    IN  Better(side, p, q) \/ (p = q /\ InFront(book, side, p, x, y))

RankedIds(book, side) ==
    CHOOSE q \in [1 .. Cardinality(IdsOn(book, side)) -> IdsOn(book, side)] :
        \A i, j \in DOMAIN q : i < j => Precedes(book, side, q[i], q[j])

RankedSide(book, side) ==
    LET q == RankedIds(book, side) IN [i \in DOMAIN q |-> book.order_index_[q[i]]]

Ranking == [s \in DOMAIN books_ |-> [d \in Sides |-> RankedSide(books_[s], d)]]

Nothing == [kind |-> "none"]

\* The order inside add(), and whether a replace brought it there.
Aggression == IF pc = "match" THEN cur.order ELSE Nothing
Replaced == pc = "match" /\ cur.tag = "REPLACE"

Announcement(c) ==
    CASE c.fn = "on_fill" -> [kind |-> "trade", maker |-> c.maker.exchange_id,
                              taker |-> c.taker.exchange_id, price |-> c.maker.price,
                              qty |-> c.maker.qty]
      [] c.fn = "on_tif_cancel" -> [kind |-> "killed", order |-> c.order]
      [] c.fn = "on_order_rested" -> [kind |-> "rested", id |-> c.order.exchange_id,
                                      leaves |-> c.leaves_qty]
      [] c.fn = "on_cancel" -> [kind |-> "cancelled", symbol |-> c.req.symbol,
                                id |-> c.req.orig_order_id, found |-> c.found]
      [] c.fn = "on_replace" -> [kind |-> "amended", symbol |-> c.req.symbol,
                                 id |-> c.req.orig_order_id, leaves |-> c.leaves_qty]
      [] c.fn = "snapshot_cb" -> [kind |-> "snapshot"]
      [] OTHER -> Nothing

Promise == INSTANCE PriceTimePriority WITH
    None      <- Nothing,
    open      <- main # "recovery",
    ranked    <- Ranking,
    aggressor <- Aggression,
    amended   <- Replaced,
    report    <- Announcement(call)

\* The engine trades in price-time priority: every step of its threads is a step
\* that PriceTimePriority allows, or changes nothing it speaks of.  In particular
\* only a reduction in place keeps an order's rank (OrderBook::replace), a fill is
\* always with the oldest order at the best price (match_against), and a FOK order
\* is killed exactly when the book cannot fill it (available_to_fill).
ImplementsPriceTime == Promise!Spec
============================================================================
