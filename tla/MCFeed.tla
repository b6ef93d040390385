------------------------------- MODULE MCFeed -------------------------------
EXTENDS Feed, TLC

CONSTANTS S1, c1, c2, c3   \* model values

ClOrdSymmetry == Permutations(ClOrdIds)

Msg(side, type, price, qty, tif) ==
    [symbol |-> CHOOSE s \in InitSymbols : TRUE, side |-> side, type |-> type,
     price |-> price, raw_qty |-> 2 * qty, tif |-> tif]

NoRows == {<< >>}

\* A sell, a bid below it, and a buy that fills a part of the sell.
MCNewOrders ==
    {Msg("sell", "limit", 2, 2, "gtc"), Msg("buy", "limit", 1, 2, "gtc"),
     Msg("buy", "limit", 2, 1, "gtc")}
============================================================================
