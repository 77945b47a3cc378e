------------------------------- MODULE MapBook -------------------------------
(***************************************************************************)
(* The book over std::map (src/ob/MapBook.hpp).  Each order's record keeps *)
(* the iterator of its level, so that a modify or a delete does not search *)
(* the map.  An iterator is the node it points at; the heap holds the      *)
(* nodes of both maps.  A node that is erased is never reused while some   *)
(* record still points at it, so a dangling iterator shows as one.  The    *)
(* order table is the dictionary of OrderTable; an update is one step.     *)
(***************************************************************************)
EXTENDS Integers, FiniteSets

CONSTANTS
    Ids,        \* order ids
    Prices,     \* prices in ticks
    MaxVolume,  \* bound on the volume of an update
    Nodes       \* the addresses of map nodes, more than there are ids

VARIABLES
    recs,       \* orders_: id -> side, price, volume and iterator
    heap        \* bids_ and asks_: node -> side, price (the key), volume

vars == <<recs, heap>>

Sides == {"Bid", "Ask"}

Better(side, a, b) == IF side = "Bid" THEN a > b ELSE a < b

Node(side, p, v) == [side |-> side, price |-> p, volume |-> v]

Live == DOMAIN recs

\* The node of a price, if the side's map has one.
NodesOf(side, p) == {n \in DOMAIN heap : heap[n].side = side /\ heap[n].price = p}

FreshNode == CHOOSE n \in Nodes : n \notin DOMAIN heap \cup {recs[id].it : id \in Live}

Init ==
    /\ recs = [id \in {} |-> 0]
    /\ heap = [n \in {} |-> 0]

\* try_emplace finds the node of the price or makes one with volume 0.
Emplaced(side, p) ==
    IF NodesOf(side, p) # {} THEN CHOOSE n \in NodesOf(side, p) : TRUE ELSE FreshNode

OnAdd(id, side, p, v) ==
    /\ id \notin Live
    /\ LET it == Emplaced(side, p)
           before == IF it \in DOMAIN heap THEN heap[it].volume ELSE 0
       IN  /\ heap' = [n \in DOMAIN heap \cup {it} |->
                         IF n = it THEN Node(side, p, before + v) ELSE heap[n]]
           /\ recs' = [k \in Live \cup {id} |->
                         IF k = id
                         THEN [side |-> side, price |-> p, volume |-> v, it |-> it]
                         ELSE recs[k]]

\* A mutant: a level goes with the first delete.
OnDeleteErasesLevel(id) ==
    /\ id \in Live
    /\ heap' = [n \in DOMAIN heap \ {recs[id].it} |-> heap[n]]
    /\ recs' = [k \in Live \ {id} |-> recs[k]]

\* A mutant: a level stays in the map when its volume is gone.
OnDeleteKeepsLevel(id) ==
    /\ id \in Live
    /\ heap' = [heap EXCEPT ![recs[id].it].volume = @ - recs[id].volume]
    /\ recs' = [k \in Live \ {id} |-> recs[k]]

\* The level goes when its volume does.
OnDelete(id) ==
    /\ id \in Live
    /\ LET it == recs[id].it
           left == heap[it].volume - recs[id].volume
       IN  heap' = IF left <= 0 THEN [n \in DOMAIN heap \ {it} |-> heap[n]]
                   ELSE [heap EXCEPT ![it].volume = left]
    /\ recs' = [k \in Live \ {id} |-> recs[k]]

OnModify(id, v) ==
    \/ v <= 0 /\ OnDelete(id)
    \/ /\ v > 0 /\ id \in Live
       /\ heap' = [heap EXCEPT ![recs[id].it].volume = @ + (v - recs[id].volume)]
       /\ recs' = [recs EXCEPT ![id].volume = v]

Next ==
    \E id \in Ids :
        \/ \E side \in Sides, p \in Prices, v \in 1..MaxVolume : OnAdd(id, side, p, v)
        \/ \E v \in 0..MaxVolume : OnModify(id, v)
        \/ OnDelete(id)

Spec == Init /\ [][Next]_vars

\* The iteration order of a side's map.
Snapshot(side) ==
    LET ns == {n \in DOMAIN heap : heap[n].side = side}
        in == CHOOSE s \in [1..Cardinality(ns) -> ns] :
                \A j, k \in DOMAIN s : j < k => Better(side, heap[s[j]].price, heap[s[k]].price)
    IN  [k \in DOMAIN in |-> [price |-> heap[in[k]].price, volume |-> heap[in[k]].volume]]

\* The orders without their iterators.
Orders ==
    [id \in Live |-> [side |-> recs[id].side, price |-> recs[id].price,
                      volume |-> recs[id].volume]]

-----------------------------------------------------------------------------
(* No iterator dangles: as long as an order is live, its iterator points   *)
(* at the node of its own side and price, though orders of the same level  *)
(* come and go and the level may be erased and made again.                 *)
IteratorsValid ==
    \A id \in Live :
        /\ recs[id].it \in DOMAIN heap
        /\ heap[recs[id].it].side = recs[id].side
        /\ heap[recs[id].it].price = recs[id].price
=============================================================================
