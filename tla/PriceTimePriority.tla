------------------------- MODULE PriceTimePriority -------------------------
(***************************************************************************)
(* What a matching engine promises, without levels, lists and an index:    *)
(* each side of a symbol is one queue of orders, ranked by price and then  *)
(* by the time an order entered the queue; an incoming order trades with   *)
(* the head of the opposite queue, at the head's price, as long as their   *)
(* prices cross; what is left of it takes its rank, or is killed.          *)
(*                                                                         *)
(* Which request comes next is left open: `aggressor' and `report' show    *)
(* which one came, and the actions say when it may come and what it does.  *)
(***************************************************************************)
EXTENDS Integers, Sequences, FiniteSets, FiniteSetsExt, SequencesExt

CONSTANTS Symbols, Sides, Order, None

VARIABLES
    open,        \* FALSE while the orders of an earlier run are put back
    ranked,      \* listed symbol -> side -> ranked orders
    aggressor,   \* the order that is trading, or None
    amended,     \* the aggressor is an order whose price or quantity was changed
    report       \* the last announcement, or None

vars == << open, ranked, aggressor, amended, report >>

Counter(side) == CHOOSE s \in Sides : s # side

\* An order at price p goes before one at price q.
Ahead(side, p, q) == IF side = "buy" THEN p > q ELSE p < q

\* Behind every order that is at least as good.
Insert(queue, o) ==
    InsertAt(queue, 1 + Cardinality({i \in DOMAIN queue : ~Ahead(o.side, o.price, queue[i].price)}), o)

IndexOf(queue, id) == CHOOSE i \in DOMAIN queue : queue[i].exchange_id = id
Has(queue, id) == \E i \in DOMAIN queue : queue[i].exchange_id = id
Known(s, id) == \E d \in Sides : Has(ranked[s][d], id)
SideOf(s, id) == CHOOSE d \in Sides : Has(ranked[s][d], id)

Leave(queue, id) == RemoveAt(queue, IndexOf(queue, id))

\* May o trade with the resting order r?
Tradable(o, r) == o.type = "market" \/ ~Ahead(o.side, r.price, o.price)

Amended(s, id, n) == [kind |-> "amended", symbol |-> s, id |-> id, leaves |-> n]

Liquidity(o) ==
    LET queue == ranked[o.symbol][Counter(o.side)]
    IN  MapThenSumSet(LAMBDA i : queue[i].leaves_qty,
                      {i \in DOMAIN queue : Tradable(o, queue[i])})

---------------------------------------------------------------------------

Init ==
    /\ open = FALSE
    /\ \E S \in SUBSET Symbols : ranked = [s \in S |-> [d \in Sides |-> << >>]]
    /\ aggressor = None
    /\ amended = FALSE
    /\ report = None

\* An order of an earlier run takes its rank without trading.
PutBack ==
    /\ ~open
    /\ \E s \in DOMAIN ranked, d \in Sides : \E i \in DOMAIN ranked'[s][d] :
           ranked' = [ranked EXCEPT ![s][d] = Insert(@, ranked'[s][d][i])]
    /\ UNCHANGED << open, aggressor, amended, report >>

Open == ~open /\ open' /\ UNCHANGED << ranked, aggressor, amended, report >>

List ==
    /\ \E s \in Symbols \ DOMAIN ranked :
           ranked' = [t \in DOMAIN ranked \cup {s} |->
                         IF t = s THEN [d \in Sides |-> << >>] ELSE ranked[t]]
    /\ UNCHANGED << open, aggressor, amended, report >>

Idle == open /\ aggressor = None /\ report = None

\* A fill-or-kill order is let in only if it can be filled completely.
Enter ==
    /\ Idle
    /\ aggressor' \in Order
    /\ aggressor'.symbol \in DOMAIN ranked
    /\ aggressor'.leaves_qty = aggressor'.qty
    /\ aggressor'.tif = "fok" => Liquidity(aggressor') >= aggressor'.qty
    /\ amended' = FALSE
    /\ UNCHANGED << open, ranked, report >>

\* It is killed, untouched, only if it cannot.
Kill ==
    /\ Idle
    /\ report' # None
    /\ report'.kind = "killed"
    /\ report'.order \in Order
    /\ report'.order.tif = "fok"
    /\ report'.order.leaves_qty = report'.order.qty
    /\ Liquidity(report'.order) < report'.order.qty
    /\ UNCHANGED << open, ranked, aggressor, amended >>

CanTrade ==
    LET queue == ranked[aggressor.symbol][Counter(aggressor.side)]
    IN  aggressor.leaves_qty > 0 /\ queue # << >> /\ Tradable(aggressor, Head(queue))

Trade ==
    /\ aggressor # None
    /\ report = None
    /\ CanTrade
    /\ LET o     == aggressor
           queue == ranked[o.symbol][Counter(o.side)]
           r     == Head(queue)
           n     == Min({o.leaves_qty, r.leaves_qty})
       IN  /\ ranked' = [ranked EXCEPT ![o.symbol][Counter(o.side)] =
                            IF n = r.leaves_qty THEN Tail(queue)
                            ELSE ReplaceAt(queue, 1, [r EXCEPT !.leaves_qty = @ - n])]
           /\ aggressor' = [o EXCEPT !.leaves_qty = @ - n]
           /\ report' = [kind |-> "trade", maker |-> r.exchange_id, taker |-> o.exchange_id,
                         price |-> r.price, qty |-> n]
    /\ UNCHANGED << open, amended >>

\* Nothing left to trade: a limit order's remainder is ranked, the remainder of
\* an immediate-or-cancel order is killed, a market order's is dropped.
Settle ==
    /\ aggressor # None
    /\ report = None
    /\ ~CanTrade
    /\ LET o     == aggressor
           rests == o.leaves_qty > 0 /\ o.type = "limit" /\ o.tif = "gtc"
       IN  /\ ranked' = IF rests THEN [ranked EXCEPT ![o.symbol][o.side] = Insert(@, o)]
                                 ELSE ranked
           /\ report' = CASE amended -> Amended(o.symbol, o.exchange_id, o.leaves_qty)
                          [] ~amended /\ rests -> [kind |-> "rested", id |-> o.exchange_id,
                                                   leaves |-> o.leaves_qty]
                          [] ~amended /\ o.tif = "ioc" /\ o.leaves_qty > 0 ->
                                 [kind |-> "killed", order |-> o]
                          [] OTHER -> None
    /\ aggressor' = None
    /\ amended' = FALSE
    /\ UNCHANGED open

Cancel ==
    /\ Idle
    /\ report' # None
    /\ report'.kind = "cancelled"
    /\ LET s == report'.symbol
       IN  /\ report'.found = Known(s, report'.id)
           /\ ranked' = IF report'.found
                        THEN [ranked EXCEPT ![s][SideOf(s, report'.id)] = Leave(@, report'.id)]
                        ELSE ranked
    /\ UNCHANGED << open, aggressor, amended >>

\* A smaller quantity at the same price keeps the order's rank.
Reduce ==
    /\ Idle
    /\ report' # None
    /\ report'.kind = "amended"
    /\ \E s \in DOMAIN ranked, d \in Sides : \E i \in DOMAIN ranked[s][d] :
           LET o == ranked[s][d][i]
               n == report'.leaves
           IN  /\ n < o.leaves_qty
               /\ ranked' = [ranked EXCEPT ![s][d][i].qty = n, ![s][d][i].leaves_qty = n]
               /\ report' = Amended(s, o.exchange_id, n)
    /\ UNCHANGED << open, aggressor, amended >>

\* Any other change gives up the rank: the order trades again as if it were new.
Amend ==
    /\ Idle
    /\ aggressor' \in Order
    /\ \E s \in DOMAIN ranked, d \in Sides : \E i \in DOMAIN ranked[s][d] :
           LET o == ranked[s][d][i]
               p == aggressor'.price
               n == aggressor'.qty
           IN  /\ p # o.price \/ n >= o.leaves_qty
               /\ aggressor' = [o EXCEPT !.price = p, !.qty = n, !.leaves_qty = n]
               /\ ranked' = [ranked EXCEPT ![s][d] = Leave(@, o.exchange_id)]
    /\ amended' = TRUE
    /\ UNCHANGED << open, report >>

\* A change of an order that is not ranked, or a request for a snapshot.
Answer ==
    /\ Idle
    /\ report' # None
    /\ report'.kind \in {"amended", "snapshot"}
    /\ report'.kind = "amended" => report'.leaves < 0 /\ ~Known(report'.symbol, report'.id)
    /\ UNCHANGED << open, ranked, aggressor, amended >>

Announced == report # None /\ report' = None /\ UNCHANGED << open, ranked, aggressor, amended >>

Next == \/ PutBack \/ Open \/ List
        \/ Enter \/ Kill \/ Trade \/ Settle
        \/ Cancel \/ Reduce \/ Amend \/ Answer
        \/ Announced

Spec == Init /\ [][Next]_vars
============================================================================
