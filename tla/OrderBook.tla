------------------------------ MODULE OrderBook ------------------------------
(***************************************************************************)
(* What every order book of src/ob promises: it holds the live orders of a *)
(* feed and shows, for each side, the price levels best first, each with   *)
(* the total volume of its orders.  The levels are a function of the live  *)
(* orders and nothing else.  ReferenceBook, VectorBook and MapBook         *)
(* implement it.                                                           *)
(***************************************************************************)
EXTENDS Levels

CONSTANTS
    Ids,        \* order ids
    Prices,     \* prices in ticks
    MaxVolume   \* bound on the volume of an update

VARIABLES
    orders,     \* the live orders: id -> side, price, volume
    depth       \* what Snapshot shows of each side, best level first

vars == <<orders, depth>>

Order(side, p, v) == [side |-> side, price |-> p, volume |-> v]

Live == DOMAIN orders

Init == orders = [id \in {} |-> Order("Bid", 0, 0)] /\ depth = DepthOf(orders)

\* A known id is ignored.
Add(id, side, p, v) ==
    /\ id \notin Live
    /\ orders' = [k \in Live \cup {id} |-> IF k = id THEN Order(side, p, v) ELSE orders[k]]

Delete(id) ==
    /\ id \in Live
    /\ orders' = [k \in Live \ {id} |-> orders[k]]

\* The side and price of an order never change.
Modify(id, v) ==
    /\ id \in Live
    /\ IF v > 0 THEN orders' = [orders EXCEPT ![id].volume = v] ELSE Delete(id)

Next ==
    /\ \E id \in Ids :
         \/ \E side \in Sides, p \in Prices, v \in 1..MaxVolume : Add(id, side, p, v)
         \/ \E v \in 0..MaxVolume : Modify(id, v)
         \/ Delete(id)
    /\ depth' = DepthOf(orders')

Spec == Init /\ [][Next]_vars
=============================================================================
