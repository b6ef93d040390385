----------------------------- MODULE RiskEngine -----------------------------
(***************************************************************************)
(* The pre-trade checks of src/src/risk/RiskEngine.cpp, as predicates on   *)
(* an order and the last trade prices.  A limit of 0 is disabled.  The     *)
(* collar is a whole percentage and prices are integers, so the comparison *)
(* of doubles becomes an exact one.                                        *)
(***************************************************************************)
EXTENDS Integers

CONSTANTS
    MaxOrderQty,     \* [RISK] MaxOrderQty
    PriceCollarPct   \* [RISK] PriceCollarPct

ASSUME RiskAssumption == MaxOrderQty \in Nat /\ PriceCollarPct \in Nat

CheckQty(qty) == MaxOrderQty > 0 => qty <= MaxOrderQty

\* last maps a symbol that has traded to its last trade price.
CheckPrice(last, symbol, side, price) ==
    price # 0 /\ PriceCollarPct > 0 /\ symbol \in DOMAIN last =>
        IF side = "buy"
        THEN 100 * price <= last[symbol] * (100 + PriceCollarPct)
        ELSE 100 * price >= last[symbol] * (100 - PriceCollarPct)

\* check: an order passes.
Check(last, symbol, type, side, qty, price) ==
    /\ CheckQty(qty)
    /\ CheckPrice(last, symbol, side, IF type = "limit" THEN price ELSE 0)
============================================================================
