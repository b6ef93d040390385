----------------------------- MODULE MarketData -----------------------------
(***************************************************************************)
(* The market data feed: the packets of                                    *)
(* src/src/market_data/MarketDataPublisher.cpp, and what the UI server     *)
(* (src/ui/main.py) makes of them and of a snapshot.  A packet keeps the   *)
(* fields a subscriber reads; sides are buy and sell instead of the        *)
(* characters 0 and 1, a trade print has the side trade.  The sequence     *)
(* number is left out: the server passes it on and looks at nothing of it. *)
(*                                                                         *)
(* The server's view is a record of                                        *)
(*   order_state : exchange id -> price, qty, symbol and side;             *)
(*   order_book  : symbol -> side -> price -> quantity.                    *)
(***************************************************************************)
EXTENDS OrderBook

Packet(evt, side, symbol, price, qty, id) ==
    [evt |-> evt, side |-> side, symbol |-> symbol, price |-> price, qty |-> qty,
     exchange_id |-> id]

---------------------------------------------------------------------------
(* The publisher                                                           *)

NewOrderPackets(o, leaves) ==
    << Packet("NewOrder", o.side, o.symbol, o.price, leaves, o.exchange_id) >>

CancelPackets(o) == << Packet("Cancel", o.side, o.symbol, o.price, 0, o.exchange_id) >>

FillPackets(maker) ==
    << Packet("FillResting", maker.side, maker.symbol, maker.price, maker.leaves_qty,
              maker.exchange_id),
       Packet("Trade", "trade", maker.symbol, maker.price, maker.qty, maker.exchange_id) >>

\* Mutation of ReplacePackets: a new price is sent as a change of quantity.
ReplacePacketsInPlace(req, side, leaves, old_price) ==
    << Packet("ReplaceInPlace", side, req.symbol, req.new_price, leaves, req.orig_order_id) >>

ReplacePackets(req, side, leaves, old_price) ==
    IF old_price = req.new_price
    THEN << Packet("ReplaceInPlace", side, req.symbol, req.new_price, leaves, req.orig_order_id) >>
    ELSE << Packet("ReplaceDelete", side, req.symbol, old_price, 0, req.orig_order_id),
            Packet("ReplaceNew", side, req.symbol, req.new_price, leaves, req.orig_order_id) >>

---------------------------------------------------------------------------
(* The subscriber                                                          *)

NoLevels == [s \in Sides |-> NoEntry]

EmptyView(symbols) ==
    [order_state |-> NoEntry, order_book |-> [s \in symbols |-> NoLevels]]

\* _levels: a symbol that is not known yet gets an empty book.
Levels(view, symbol) ==
    IF symbol \in DOMAIN view.order_book THEN view.order_book[symbol] ELSE NoLevels

\* _set_level(lvls, price, lvls.get(price, 0) + delta).
SetLevel(lvls, price, delta) ==
    LET qty == (IF price \in DOMAIN lvls THEN lvls[price] ELSE 0) + delta
    IN  IF qty <= 0 THEN Drop(lvls, price) ELSE Put(lvls, price, qty)

\* A view with another level and other orders.
Changed(view, pkt, price, delta, orders) ==
    [order_state |-> orders,
     order_book  |-> Put(view.order_book, pkt.symbol,
                         [Levels(view, pkt.symbol) EXCEPT ![pkt.side] = SetLevel(@, price, delta)])]

\* NewOrder and ReplaceNew.
ApplyAdd(view, pkt) ==
    Changed(view, pkt, pkt.price, pkt.qty,
            Put(view.order_state, pkt.exchange_id,
                [price |-> pkt.price, qty |-> pkt.qty, symbol |-> pkt.symbol, side |-> pkt.side]))

\* Cancel and ReplaceDelete.
ApplyRemove(view, pkt) ==
    LET prev == view.order_state[pkt.exchange_id]
    IN  Changed(view, pkt, prev.price, -prev.qty, Drop(view.order_state, pkt.exchange_id))

\* Mutation of ApplyQty: the quantity kept for the order is not updated.
ApplyQtyKeepsOrder(view, pkt) ==
    LET prev == view.order_state[pkt.exchange_id]
    IN  Changed(view, pkt, prev.price, pkt.qty - prev.qty, view.order_state)

\* FillResting and ReplaceInPlace; a fill that leaves nothing removes the order.
ApplyQty(view, pkt) ==
    LET prev == view.order_state[pkt.exchange_id]
    IN  Changed(view, pkt, prev.price, pkt.qty - prev.qty,
                IF pkt.evt = "FillResting" /\ pkt.qty = 0
                THEN Drop(view.order_state, pkt.exchange_id)
                ELSE Put(view.order_state, pkt.exchange_id, [prev EXCEPT !.qty = pkt.qty]))

\* _apply_md: trade prints and packets about unknown orders change no level.
ApplyMd(view, pkt) ==
    LET adds == pkt.side # "trade" /\ pkt.evt \in {"NewOrder", "ReplaceNew"}
    IN  IF adds THEN ApplyAdd(view, pkt)
        ELSE IF pkt.side = "trade" \/ pkt.exchange_id \notin DOMAIN view.order_state
             THEN [view EXCEPT !.order_book = Put(@, pkt.symbol, Levels(view, pkt.symbol))]
        ELSE IF pkt.evt \in {"Cancel", "ReplaceDelete"} THEN ApplyRemove(view, pkt)
        ELSE ApplyQty(view, pkt)

\* make_md_snapshot: an entry for every order of the book; the server skips those
\* without a quantity.
SnapshotEntries(snap) == {o \in snap.orders : o.leaves_qty > 0}

\* The quantity of the orders of a side at a price.
EntriesAt(orders, side, price) ==
    MapThenSumSet(LAMBDA o : o.leaves_qty, {o \in orders : o.side = side /\ o.price = price})

\* _process_md_snapshot: the levels are replaced, the orders are added to those known.
ProcessMdSnapshot(view, symbol, snap) ==
    LET orders == SnapshotEntries(snap)
        ids    == {o.exchange_id : o \in orders}
        entry(id) == CHOOSE o \in orders : o.exchange_id = id
        prices(side) == {o.price : o \in {x \in orders : x.side = side}}
    IN  IF symbol \notin DOMAIN view.order_book THEN view
        ELSE [order_state |->
                  [id \in DOMAIN view.order_state \cup ids |->
                      IF id \in ids
                      THEN [price |-> entry(id).price, qty |-> entry(id).leaves_qty,
                            symbol |-> symbol, side |-> entry(id).side]
                      ELSE view.order_state[id]],
              order_book |->
                  [view.order_book EXCEPT ![symbol] =
                      [side \in Sides |->
                          [p \in prices(side) |-> EntriesAt(orders, side, p)]]]]
============================================================================
