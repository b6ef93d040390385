---------------------------- MODULE Persistence ----------------------------
(***************************************************************************)
(* The tables of src/src/persistence/PersistenceLayer.cpp, as operators on *)
(* a database value: what applyEvent does to them and what the recovery    *)
(* reads.  A database is a record of                                       *)
(*   resting_orders : the rows in rowid order, which is the order a SELECT *)
(*                    without ORDER BY returns them in;                    *)
(*   events         : the rows loadHistoricalFills can return, oldest      *)
(*                    first (no query reads those of type rested and       *)
(*                    replace);                                            *)
(*   symbols        : the registered symbols.                              *)
(***************************************************************************)
EXTENDS Integers, Sequences, FiniteSets, SequencesExt

EmptyDb == [resting_orders |-> << >>, events |-> << >>, symbols |-> {}]

RowIds(db) == {db.resting_orders[i].exchange_id : i \in DOMAIN db.resting_orders}
RowOf(db, id) ==
    db.resting_orders[CHOOSE i \in DOMAIN db.resting_orders :
                          db.resting_orders[i].exchange_id = id]

\* DELETE ... WHERE exchange_id = id, and UPDATE ... SET ... WHERE exchange_id = id,
\* the new values of columns given as a record.  exchange_id is the primary key: at most
\* one row has the id.
Without(rs, id) == RemoveFirstMatch(rs, LAMBDA r : r.exchange_id = id)
UpdateRow(rs, id, set) ==
    [i \in DOMAIN rs |->
        [c \in DOMAIN rs[i] |->
            IF rs[i].exchange_id = id /\ c \in DOMAIN set THEN set[c] ELSE rs[i][c]]]

RowFor(o, leaves) ==
    [exchange_id |-> o.exchange_id, clord_id |-> o.clord_id, client_id |-> o.client_id,
     symbol |-> o.symbol, side |-> o.side, price |-> o.price, leaves_qty |-> leaves]

Event(type, x, leaves) ==
    [type |-> type, exchange_id |-> x.exchange_id, client_id |-> x.client_id,
     leaves_qty |-> leaves]

ApplyRested(db, evt) ==
    [db EXCEPT !.resting_orders =
        Append(Without(@, evt.order.exchange_id), RowFor(evt.order, evt.leaves_qty))]

\* Mutation of ApplyFill: the row of a filled order stays.
ApplyFillKeepsRow(db, evt) ==
    [db EXCEPT !.resting_orders =
                   UpdateRow(@, evt.fill.exchange_id,
                             [leaves_qty |-> evt.fill.leaves_qty]),
               !.events = Append(@, Event("fill", evt.fill, evt.fill.leaves_qty))]

ApplyFill(db, evt) ==
    [db EXCEPT !.resting_orders =
                   IF evt.fill.leaves_qty > 0
                   THEN UpdateRow(@, evt.fill.exchange_id,
                                  [leaves_qty |-> evt.fill.leaves_qty])
                   ELSE Without(@, evt.fill.exchange_id),
               !.events = Append(@, Event("fill", evt.fill, evt.fill.leaves_qty))]

ApplyTakerFill(db, evt) ==
    [db EXCEPT !.events = Append(@, Event("taker_fill", evt.fill, evt.fill.leaves_qty))]

\* Mutation of ApplyCancel: the row stays.
ApplyCancelKeepsRow(db, evt) == [db EXCEPT !.events = Append(@, Event("cancel", evt.order, 0))]

\* Mutation of ApplyCancel: the event is left out.
ApplyCancelNoEvent(db, evt) ==
    [db EXCEPT !.resting_orders = Without(@, evt.order.exchange_id)]

ApplyCancel(db, evt) ==
    [db EXCEPT !.resting_orders = Without(@, evt.order.exchange_id),
               !.events = Append(@, Event("cancel", evt.order, 0))]

\* Mutation of ApplyReplace: the price is not updated.
ApplyReplaceKeepsPrice(db, evt) ==
    [db EXCEPT !.resting_orders =
        IF evt.leaves_qty > 0
        THEN UpdateRow(@, evt.req.orig_order_id,
                       [clord_id |-> evt.req.new_clord_id,
                        leaves_qty |-> evt.leaves_qty])
        ELSE Without(@, evt.req.orig_order_id)]

ApplyReplace(db, evt) ==
    [db EXCEPT !.resting_orders =
        IF evt.leaves_qty > 0
        THEN UpdateRow(@, evt.req.orig_order_id,
                       [clord_id |-> evt.req.new_clord_id,
                        price |-> evt.req.new_price,
                        leaves_qty |-> evt.leaves_qty])
        ELSE Without(@, evt.req.orig_order_id)]

ApplySymbol(db, evt) == [db EXCEPT !.symbols = @ \cup {evt.symbol}]

ApplyEvent(db, evt) ==
    CASE evt.type = "RESTED"     -> ApplyRested(db, evt)
      [] evt.type = "FILL"       -> ApplyFill(db, evt)
      [] evt.type = "TAKER_FILL" -> ApplyTakerFill(db, evt)
      [] evt.type = "CANCEL"     -> ApplyCancel(db, evt)
      [] evt.type = "REPLACE"    -> ApplyReplace(db, evt)
      [] evt.type = "SYMBOL"     -> ApplySymbol(db, evt)

\* flush: one transaction for the whole batch.
ApplyBatch(db, batch) == FoldLeft(ApplyEvent, db, batch)

\* The recovery reads.
LoadRestingOrders(db) ==
    [i \in DOMAIN db.resting_orders |->
        LET r == db.resting_orders[i]
        IN  [exchange_id |-> r.exchange_id, clord_id |-> r.clord_id, client_id |-> r.client_id,
             symbol |-> r.symbol, side |-> r.side, type |-> "limit", price |-> r.price,
             qty |-> r.leaves_qty, leaves_qty |-> r.leaves_qty, tif |-> "gtc"]]

\* Mutation of LoadMaxOrderSeq: COUNT instead of MAX.
LoadMaxOrderSeqCount(db) == Len(db.resting_orders)

LoadMaxOrderSeq(db) ==
    IF db.resting_orders = << >> THEN 0
    ELSE CHOOSE n \in RowIds(db) : \A m \in RowIds(db) : m <= n

\* The orders onLogon replays to a client as filled or canceled.
LoadHistoricalFills(db, client) ==
    {db.events[i].exchange_id :
        i \in {j \in DOMAIN db.events :
                  db.events[j].client_id = client /\ db.events[j].leaves_qty = 0}}
============================================================================
