-------------------------- MODULE MCMatchingEngine --------------------------
EXTENDS MatchingEngine

Row(id, sym, side, price, qty) ==
    [exchange_id |-> id, clord_id |-> CHOOSE c \in ClOrdIds : TRUE,
     client_id |-> CHOOSE c \in Clients : TRUE, symbol |-> sym, side |-> side,
     type |-> "limit", price |-> price, qty |-> qty, leaves_qty |-> qty, tif |-> "gtc"]

\* Two sells queued at one price, a third above them, and a bid.
MCDeepRows ==
    LET sym == CHOOSE s \in InitSymbols : TRUE
    IN  {<< Row(1, sym, "sell", MaxPrice - 1, 2), Row(2, sym, "buy", MinPrice, 1),
            Row(3, sym, "sell", MaxPrice - 1, 1), Row(4, sym, "sell", MaxPrice, 1) >>}

\* A sell below a bid: the row that a replace has left behind.
MCCrossedRows ==
    LET sym == CHOOSE s \in InitSymbols : TRUE
    IN  {<< Row(2, sym, "buy", MaxPrice - 1, 2), Row(4, sym, "sell", MinPrice, 1) >>}
MCRows == MCDeepRows \cup MCCrossedRows
============================================================================
