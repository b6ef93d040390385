----------------------------- MODULE MCExchange -----------------------------
EXTENDS Exchange, TLC

CONSTANTS S1, c1, c2, c3   \* model values

ClOrdSymmetry == Permutations(ClOrdIds)

Msg(symbol, side, type, price, qty, tif) ==
    [symbol |-> symbol, side |-> side, type |-> type, price |-> price, raw_qty |-> 2 * qty, tif |-> tif]

NoRows == {<< >>}

\* A sell and a bid below it: a replace can bring them together.
MCApart ==
    LET sym == CHOOSE s \in Symbols : TRUE
    IN  {Msg(sym, "sell", "limit", 2, 1, "gtc"), Msg(sym, "buy", "limit", 1, 2, "gtc")}

\* A sell, a bid below it, and a buy that fills a part of the sell.  A replace can bring
\* the first two together.
MCTogether ==
    {Msg("AAPL", "sell", "limit", 2, 2, "gtc"), Msg("AAPL", "buy", "limit", 1, 2, "gtc"),
     Msg("AAPL", "buy", "limit", 2, 1, "gtc")}
============================================================================
