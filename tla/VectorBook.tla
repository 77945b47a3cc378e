----------------------------- MODULE VectorBook -----------------------------
(***************************************************************************)
(* The vector books: a table of orders and, for each side, a vector of     *)
(* levels sorted by price.  layout tells which book it is: "forward" is    *)
(* VectorBookT (src/ob/VectorBook.hpp, best level first); the others are   *)
(* ReverseVectorBook (src/ob/ReverseVectorBook.hpp, best level last) with  *)
(* its three searches.  The order table is the dictionary that OrderTable  *)
(* specifies, below its limit; an update is one step.                      *)
(***************************************************************************)
EXTENDS LevelSearch

CONSTANTS
    Ids,        \* order ids
    Prices,     \* prices in ticks
    MaxVolume   \* bound on the volume of an update

ASSUME PricesAssumption == Prices \subseteq Int
ASSUME VolumeAssumption == MaxVolume \in Nat

VARIABLES
    layout,     \* the book's type, which never changes
    recs,       \* orders_: id -> side, price, volume
    levels      \* bids_ and asks_: side -> levels in memory order

vars == <<layout, recs, levels>>

Layouts == {"forward", "lower_bound", "branchless", "linear"}

Sides == {"Bid", "Ask"}

Level(p, v) == [price |-> p, volume |-> v]

Live == DOMAIN recs

Find(ls, side, p) ==
    CASE layout = "forward"     -> ForwardFind(ls, side, p)
      [] layout = "lower_bound" -> ReverseFind(ls, side, p)
      [] layout = "branchless"  -> BranchlessFind(ls, side, p)
      [] layout = "linear"      -> LinearFind(ls, side, p)

\* Whether position n of ls holds the level of price p.
Holds(ls, n, p) == n \in DOMAIN ls /\ ls[n].price = p

\* A mutant: the volume of a level replaces, rather than joins, what it had.
AddToOver(ls, side, p, v) ==
    LET n == Find(ls, side, p)
    IN  IF Holds(ls, n, p) THEN [ls EXCEPT ![n].volume = v]
        ELSE InsertAt(ls, n, Level(p, v))

\* Side::Add
AddTo(ls, side, p, v) ==
    LET n == Find(ls, side, p)
    IN  IF Holds(ls, n, p) THEN [ls EXCEPT ![n].volume = @ + v]
        ELSE InsertAt(ls, n, Level(p, v))

\* Side::Adjust takes the level that Find returns without looking at its price.
Adjusted(ls, side, p, delta) ==
    LET n == Find(ls, side, p)
        v == ls[n].volume + delta
    IN  IF v <= 0 THEN RemoveAt(ls, n) ELSE [ls EXCEPT ![n].volume = v]

Init ==
    /\ layout \in Layouts
    /\ recs = [id \in {} |-> 0]
    /\ levels = [side \in Sides |-> <<>>]

\* A known id is ignored.
OnAdd(id, side, p, v) ==
    /\ id \notin Live
    /\ recs' = [k \in Live \cup {id} |->
                  IF k = id THEN [side |-> side, price |-> p, volume |-> v]
                  ELSE recs[k]]
    /\ levels' = [levels EXCEPT ![side] = AddTo(@, side, p, v)]

OnDelete(id) ==
    /\ id \in Live
    /\ LET r == recs[id]
       IN  levels' = [levels EXCEPT ![r.side] = Adjusted(@, r.side, r.price, - r.volume)]
    /\ recs' = [k \in Live \ {id} |-> recs[k]]

\* A mutant: the difference is taken the wrong way round.
OnModifySwapped(id, v) ==
    \/ v <= 0 /\ OnDelete(id)
    \/ /\ v > 0 /\ id \in Live
       /\ LET r == recs[id]
          IN  levels' = [levels EXCEPT ![r.side] =
                           Adjusted(@, r.side, r.price, r.volume - v)]
       /\ recs' = [recs EXCEPT ![id].volume = v]

OnModify(id, v) ==
    \/ v <= 0 /\ OnDelete(id)
    \/ /\ v > 0 /\ id \in Live
       /\ LET r == recs[id]
          IN  levels' = [levels EXCEPT ![r.side] =
                           Adjusted(@, r.side, r.price, v - r.volume)]
       /\ recs' = [recs EXCEPT ![id].volume = v]

Next ==
    /\ UNCHANGED layout
    /\ \E id \in Ids :
        \/ \E side \in Sides, p \in Prices, v \in 1..MaxVolume : OnAdd(id, side, p, v)
        \/ \E v \in 0..MaxVolume : OnModify(id, v)
        \/ OnDelete(id)

Spec == Init /\ [][Next]_vars

-----------------------------------------------------------------------------
(* What the books show.                                                    *)

BestFirst(ls) == IF layout = "forward" THEN ls ELSE Reverse(ls)

Snapshot(side, depth) ==
    LET ls == BestFirst(levels[side])
    IN  SubSeq(ls, 1, Min({Len(ls), depth}))

LevelCount(side) == Len(levels[side])

\* levels count from 0, the best
VolumeAtLevel(side, n) ==
    LET ls == levels[side]
    IN  IF n >= Len(ls) THEN 0
        ELSE IF layout = "forward" THEN ls[n + 1].volume ELSE ls[Len(ls) - n].volume

Best(side) ==
    LET ls == levels[side]
    IN  IF ls = <<>> THEN 0
        ELSE IF layout = "forward" THEN ls[1].price ELSE ls[Len(ls)].price

-----------------------------------------------------------------------------
(* Adjust may trust Find: for every live order there is a level with its   *)
(* price, and Find returns that level, so that no delete or modify changes *)
(* another level or reads past the end.                                    *)
OrderHasLevel ==
    \A id \in Live :
        LET r == recs[id]
        IN  Holds(levels[r.side], Find(levels[r.side], r.side, r.price), r.price)

(* The four searches agree on every vector of levels the book builds, for  *)
(* prices that are there and for prices that are not.                      *)
SearchesAgree ==
    \A side \in Sides, p \in Prices :
        LET ls == levels[side]
            back == Reverse(ls)
            f == IF layout = "forward" THEN ls ELSE back
            r == IF layout = "forward" THEN back ELSE ls
            n == ForwardFind(f, side, p)
            here == Holds(f, n, p)
        IN  \A m \in {ReverseFind(r, side, p), BranchlessFind(r, side, p),
                      LinearFind(r, side, p)} :
              m = Len(ls) + (IF here THEN 1 ELSE 2) - n

Book == INSTANCE OrderBook
          WITH orders <- recs,
               depth <- [side \in Sides |-> Snapshot(side, LevelCount(side))]

(* The book shows what the orders it holds add up to, level by level, best *)
(* first, after every sequence of updates.                                 *)
ImplementsBook == Book!Spec
=============================================================================
