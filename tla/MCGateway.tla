----------------------------- MODULE MCGateway -----------------------------
EXTENDS Gateway, TLC

CONSTANTS S1, S2, c1, c2, c3   \* model values

ClientSymmetry == Permutations(Clients) \cup Permutations(ClOrdIds)

Msg(side, type, price, raw_qty, tif) ==
    [symbol |-> CHOOSE s \in InitSymbols : TRUE, side |-> side, type |-> type,
     price |-> price, raw_qty |-> raw_qty, tif |-> tif]

NoRows == {<< >>}

\* A sell and a bid below it, which a replace can bring together, an IOC that takes the
\* sell and leaves a remainder, a market order that takes part of it (or all of it, once a
\* replace has cut it to one share), one that the gateway rejects, and one of half a share,
\* which it accepts.
MCNewOrders ==
    {Msg("sell", "limit", 2, 6, "gtc"), Msg("buy", "limit", 1, 4, "gtc"),
     Msg("buy", "limit", 2, 8, "ioc"), Msg("buy", "market", 0, 4, "gtc"),
     Msg("buy", "limit", 0, 2, "gtc"), Msg("buy", "limit", 2, 1, "gtc")}
============================================================================
