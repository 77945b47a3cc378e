-------------------------------- MODULE Books --------------------------------
(***************************************************************************)
(* A vector book and the map book on the same feed, as ob_bench and        *)
(* ob_diff run any two books: each update goes to both.                    *)
(***************************************************************************)
EXTENDS VectorBook

CONSTANT Nodes      \* as in MapBook

ASSUME NodesAssumption == IsFiniteSet(Ids) /\ Cardinality(Nodes) > Cardinality(Ids)

VARIABLES kept, heap    \* the map book's orders_ and its maps

bothVars == <<vars, kept, heap>>

Map == INSTANCE MapBook WITH recs <- kept

Init2 == Init /\ Map!Init

Next2 ==
    /\ UNCHANGED layout
    /\ \E id \in Ids :
        \/ \E side \in Sides, p \in Prices, v \in 1..MaxVolume :
              OnAdd(id, side, p, v) /\ Map!OnAdd(id, side, p, v)
        \/ \E v \in 0..MaxVolume : OnModify(id, v) /\ Map!OnModify(id, v)
        \/ OnDelete(id) /\ Map!OnDelete(id)

Spec2 == Init2 /\ [][Next2]_bothVars

-----------------------------------------------------------------------------
(* No iterator into the std::map dangles while levels go and come back.    *)
IteratorsValid == Map!IteratorsValid

(* The two books cannot be told apart from outside: they hold the same     *)
(* orders and show the same levels, and the shallow queries, Best and      *)
(* VolumeAtLevel, show the top of these.  With ImplementsBook, the map     *)
(* book implements OrderBook too.                                          *)
BooksAgree ==
    /\ recs = Map!Orders
    /\ \A side \in Sides :
        LET all == Map!Snapshot(side)
        IN  /\ Snapshot(side, LevelCount(side)) = all
            /\ Best(side) = IF all = <<>> THEN 0 ELSE Head(all).price
            /\ \A n \in 0..Len(all) :
                 VolumeAtLevel(side, n) = IF n = Len(all) THEN 0 ELSE all[n + 1].volume

MapShows == INSTANCE OrderBook
              WITH orders <- Map!Orders, depth <- [side \in Sides |-> Map!Snapshot(side)]

(* The map book implements OrderBook as well.                              *)
MapImplementsBook == MapShows!Spec
=============================================================================
