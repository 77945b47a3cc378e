---------------------------- MODULE ReferenceBook ----------------------------
(***************************************************************************)
(* The book the others are compared with (src/ob/ReferenceBook.hpp): per   *)
(* side a map from prices to levels, per level the orders in it and their  *)
(* total, and an index from order ids to their side and price.  The levels *)
(* own the volumes; the index only locates.  An update is one step.        *)
(***************************************************************************)
EXTENDS Integers, FiniteSetsExt

CONSTANTS
    Ids,        \* order ids
    Prices,     \* prices in ticks
    MaxVolume   \* bound on the volume of an update

ASSUME IdsAssumption == IsFiniteSet(Ids)
ASSUME PricesAssumption == Prices \subseteq Int
ASSUME VolumeAssumption == MaxVolume \in Nat

VARIABLES
    sides,      \* bids_ and asks_: side -> price -> LevelOrders
    index       \* orders_: id -> Locator

vars == <<sides, index>>

Sides == {"Bid", "Ask"}

Volume == 1..MaxVolume

LevelOrders(total, orders) == [total |-> total, orders |-> orders]

EmptyMap == [k \in {} |-> 0]

\* m[k] = v and m.erase(k) of a std::map
Put(m, k, v) == [x \in DOMAIN m \cup {k} |-> IF x = k THEN v ELSE m[x]]

Drop(m, k) == [x \in DOMAIN m \ {k} |-> m[x]]

Init ==
    /\ sides = [side \in Sides |-> EmptyMap]
    /\ index = EmptyMap

\* operator[] creates an empty level at a price that has none.
LevelFor(book, p) ==
    IF p \in DOMAIN book THEN book[p] ELSE LevelOrders(0, EmptyMap)

\* A mutant: a level's total forgets the orders that were there.
InsertResets(book, p, id, v) ==
    Put(book, p, LevelOrders(v, Put(LevelFor(book, p).orders, id, v)))

Insert(book, p, id, v) ==
    LET lvl == LevelFor(book, p)
    IN  Put(book, p, LevelOrders(lvl.total + v, Put(lvl.orders, id, v)))

\* A mutant: the level's total keeps the old volume.
ChangeOrderOnly(book, p, id, v) ==
    Put(book, p, LevelOrders(book[p].total, Put(book[p].orders, id, v)))

\* book.at and orders.at throw where the key is absent.
Change(book, p, id, v) ==
    LET lvl == book[p]
    IN  Put(book, p, LevelOrders(lvl.total + (v - lvl.orders[id]), Put(lvl.orders, id, v)))

\* A mutant: the level stays when its last order goes.
EraseKeepsLevel(book, p, id) ==
    IF p \notin DOMAIN book THEN book
    ELSE LET lvl == book[p]
         IN  IF id \notin DOMAIN lvl.orders THEN book
             ELSE Put(book, p, LevelOrders(lvl.total - lvl.orders[id], Drop(lvl.orders, id)))

\* Tolerates a level or an order that is not there.
Erase(book, p, id) ==
    IF p \notin DOMAIN book THEN book
    ELSE LET lvl == book[p]
             left == IF id \in DOMAIN lvl.orders
                     THEN LevelOrders(lvl.total - lvl.orders[id], Drop(lvl.orders, id))
                     ELSE lvl
         IN  IF DOMAIN left.orders = {} THEN Drop(book, p) ELSE Put(book, p, left)

OnAdd(id, side, p, v) ==
    /\ id \notin DOMAIN index
    /\ sides' = [sides EXCEPT ![side] = Insert(@, p, id, v)]
    /\ index' = Put(index, id, [side |-> side, price |-> p])

\* A mutant: the index keeps the order.
OnDeleteKeepsIndex(id) ==
    /\ id \in DOMAIN index
    /\ sides' = [sides EXCEPT ![index[id].side] = Erase(@, index[id].price, id)]
    /\ UNCHANGED index

OnDelete(id) ==
    /\ id \in DOMAIN index
    /\ sides' = [sides EXCEPT ![index[id].side] = Erase(@, index[id].price, id)]
    /\ index' = Drop(index, id)

OnModify(id, v) ==
    \/ v <= 0 /\ OnDelete(id)
    \/ /\ v > 0 /\ id \in DOMAIN index
       /\ sides' = [sides EXCEPT ![index[id].side] = Change(@, index[id].price, id, v)]
       /\ UNCHANGED index

Next ==
    \E id \in Ids :
        \/ \E side \in Sides, p \in Prices, v \in Volume : OnAdd(id, side, p, v)
        \/ \E v \in 0..MaxVolume : OnModify(id, v)
        \/ OnDelete(id)

Spec == Init /\ [][Next]_vars

-----------------------------------------------------------------------------
(* The queries.                                                            *)

\* std::greater for bids, std::less for asks
Better(side, a, b) == IF side = "Bid" THEN a > b ELSE a < b

\* The iteration order of a side's map.
PricesInOrder(side) ==
    LET ps == DOMAIN sides[side]
    IN  CHOOSE s \in [1..Cardinality(ps) -> ps] :
          \A m, n \in DOMAIN s : m < n => Better(side, s[m], s[n])

Snapshot(side) ==
    LET ps == PricesInOrder(side)
    IN  [n \in DOMAIN ps |-> [price |-> ps[n], volume |-> sides[side][ps[n]].total]]

DebugLookup(id) ==
    LET loc == index[id]
    IN  [side |-> loc.side, price |-> loc.price,
         volume |-> sides[loc.side][loc.price].orders[id]]

OrderCount(side) ==
    MapThenSumSet(LAMBDA p : Cardinality(DOMAIN sides[side][p].orders), DOMAIN sides[side])

VolumeOf(lvl) == MapThenSumSet(LAMBDA id : lvl.orders[id], DOMAIN lvl.orders)

TotalVolume(side) == MapThenSumSet(LAMBDA p : VolumeOf(sides[side][p]), DOMAIN sides[side])

-----------------------------------------------------------------------------
IsMap(m, K, V) == DOMAIN m \subseteq K /\ m \in [DOMAIN m -> V]

IsLevel(lvl) ==
    /\ lvl = LevelOrders(lvl.total, lvl.orders)
    /\ lvl.total \in Int
    /\ IsMap(lvl.orders, Ids, Volume)

IsBook(book) ==
    /\ book = [p \in DOMAIN book |-> book[p]]
    /\ DOMAIN book \subseteq Prices
    /\ \A p \in DOMAIN book : IsLevel(book[p])

(* Every map has keys and values of its type; totals may be any integer.   *)
TypeOK ==
    /\ sides = [side \in Sides |-> sides[side]]
    /\ \A side \in Sides : IsBook(sides[side])
    /\ IsMap(index, Ids, [side : Sides, price : Prices])

\* Order id is in the level of price p on this side.
InLevel(id, side, p) ==
    p \in DOMAIN sides[side] /\ id \in DOMAIN sides[side][p].orders

(* The .at calls of modify and DebugLookup never throw, and an erase never *)
(* misses: what the index says of an order is where the order is, and no   *)
(* level holds an order that the index places elsewhere or has forgotten.  *)
IndexLocates ==
    \A id \in Ids, side \in Sides, p \in Prices :
        InLevel(id, side, p) <=>
            /\ id \in DOMAIN index
            /\ index[id].side = side /\ index[id].price = p

(* A level disappears with its last order: the best price and the number   *)
(* of levels never show a level that nobody is in.                         *)
NoEmptyLevel ==
    \A side \in Sides : \A p \in DOMAIN sides[side] :
        DOMAIN sides[side][p].orders # {}

(* The three ways to count agree: the index, the orders in the levels, and *)
(* the levels' cached totals, which the validator compares.                *)
CountsAgree ==
    /\ OrderCount("Bid") + OrderCount("Ask") = Cardinality(DOMAIN index)
    /\ \A side \in Sides :
         TotalVolume(side) = MapThenSumSet(LAMBDA p : sides[side][p].total, DOMAIN sides[side])

Book == INSTANCE OrderBook
          WITH orders <- [id \in DOMAIN index |-> DebugLookup(id)],
               depth <- [side \in Sides |-> Snapshot(side)]

(* The reference book shows what the live orders add up to, after every    *)
(* sequence of updates.                                                    *)
ImplementsBook == Book!Spec

(* The inductive invariant.                                                *)
Consistent == TypeOK /\ IndexLocates /\ NoEmptyLevel
=============================================================================
