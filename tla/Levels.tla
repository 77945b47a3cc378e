-------------------------------- MODULE Levels --------------------------------
(***************************************************************************)
(* What a set of live orders shows: for each side, the price levels best   *)
(* first, each with the total volume of its orders.  orders is a function  *)
(* from ids to records with a side, a price and a volume.                  *)
(***************************************************************************)
EXTENDS Integers, Sequences, FiniteSetsExt

Sides == {"Bid", "Ask"}

\* BidBetter and AskBetter: the order in which a side is shown.
Better(side, a, b) == IF side = "Bid" THEN a > b ELSE a < b

Level(p, v) == [price |-> p, volume |-> v]

OrdersOf(orders, side) == {id \in DOMAIN orders : orders[id].side = side}

PricesOf(orders, side) == {orders[id].price : id \in OrdersOf(orders, side)}

Total(orders, side, p) ==
    MapThenSumSet(LAMBDA id : orders[id].volume,
                  {id \in OrdersOf(orders, side) : orders[id].price = p})

DepthOf(orders) ==
    [side \in Sides |->
        LET qs == PricesOf(orders, side)
            ps == CHOOSE s \in [1..Cardinality(qs) -> qs] :
                    \A m, n \in DOMAIN s : m < n => Better(side, s[m], s[n])
        IN  [n \in DOMAIN ps |-> Level(ps[n], Total(orders, side, ps[n]))]]
=============================================================================
