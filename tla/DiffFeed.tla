------------------------------ MODULE DiffFeed ------------------------------
(***************************************************************************)
(* DiffFeed (src/ob/Diff.hpp): replay a feed into the reference book and   *)
(* into a fast book and compare the two, the top after every update, the   *)
(* whole now and then.  Both books are given by the orders they show, in   *)
(* the way Levels says; that ReferenceBook shows its orders is checked     *)
(* there.  The fast book is a parameter of the template: Faults says how   *)
(* it may be wrong.  One step is one iteration of the loop.                *)
(***************************************************************************)
EXTENDS Levels

CONSTANTS
    Ids, Prices, MaxVolume,     \* as in OrderBook
    Every,                      \* how often to compare everything; 0 is 1
    TopDepth,                   \* how many levels to compare every time
    MaxUpdates,                 \* bound on the length of the feed
    Faults                      \* what the fast book may get wrong

ASSUME DiffAssumption == {Every, TopDepth, MaxUpdates} \subseteq Nat
ASSUME FaultsAssumption == Faults \subseteq {"lost delete", "wrong price", "stale volume"}

VARIABLES
    ref,        \* the orders of the reference book
    fast,       \* the orders that the fast book shows
    updates,    \* r.updates, the number of iterations
    report,     \* "running", "ok", or what differs
    whole       \* r.full_compares

vars == <<ref, fast, updates, report, whole>>

Init ==
    /\ ref = [id \in {} |-> 0]
    /\ fast = [id \in {} |-> 0]
    /\ updates = 0
    /\ report = "running"
    /\ whole = 0

-----------------------------------------------------------------------------
(* The two books.                                                          *)

\* A feed the validator accepts: adds of new ids, the rest for live ones.
Feed ==
    [type : {"Add"}, id : Ids \ DOMAIN ref, side : Sides, price : Prices, volume : 1..MaxVolume]
    \cup {u \in [type : {"Modify", "Delete"}, id : DOMAIN ref, side : Sides,
                 price : Prices, volume : 1..MaxVolume] :
            u.side = ref[u.id].side /\ u.price = ref[u.id].price}

Without(orders, id) == [k \in DOMAIN orders \ {id} |-> orders[k]]

With(orders, id, side, p, v) ==
    [k \in DOMAIN orders \cup {id} |->
       IF k = id THEN [side |-> side, price |-> p, volume |-> v] ELSE orders[k]]

\* ApplyUpdate: a known add and an unknown modify or delete are ignored.
Applied(orders, u) ==
    IF (u.type = "Add") = (u.id \in DOMAIN orders) THEN orders
    ELSE CASE u.type = "Add" -> With(orders, u.id, u.side, u.price, u.volume)
           [] u.type = "Modify" ->
                With(orders, u.id, orders[u.id].side, orders[u.id].price, u.volume)
           [] u.type = "Delete" -> Without(orders, u.id)

\* What the fast book may make of the update (external).
Misses(u) ==
    \/ u.type = "Delete" /\ "lost delete" \in Faults
    \/ u.type = "Modify" /\ "stale volume" \in Faults

Misplaces(u) == u.type = "Add" /\ "wrong price" \in Faults

Outcomes(u) ==
    {Applied(fast, u)}
    \cup {orders \in {fast} : Misses(u)}
    \cup {Applied(fast, [u EXCEPT !.price = p]) : p \in {q \in Prices : Misplaces(u)}}

-----------------------------------------------------------------------------
(* The comparisons.                                                        *)

Best(levels) == IF levels = <<>> THEN 0 ELSE levels[1].price

\* A mutant: the best price is compared with that of the other side.
SameTopMixed(a, b) ==
    \A side, other \in Sides :
        /\ Len(a[side]) = Len(b[side])
        /\ side # other => Best(a[side]) = Best(b[other])

\* CompareTop: counts, the volumes of the first levels, and the best prices.
SameTop(a, b) ==
    \A side \in Sides :
        /\ Len(a[side]) = Len(b[side])
        /\ \A n \in 1..Min({TopDepth, Len(a[side])}) : a[side][n].volume = b[side][n].volume
        /\ Best(a[side]) = Best(b[side])

\* CompareFull: every level, and the number of orders.
SameWhole(a, b) == a = b /\ Cardinality(DOMAIN ref') = Cardinality(DOMAIN fast')

Period == IF Every = 0 THEN 1 ELSE Every

\* Whether the iteration ends with the full comparison.
ComparesAll(n, last) == n % Period = 0 \/ last

Compare(u, last) ==
    LET a == DepthOf(ref')
        b == DepthOf(fast')
        all == ComparesAll(updates', last)
    IN  IF ~ SameTop(a, b)
        THEN report' = "top differs" /\ UNCHANGED whole
        ELSE IF (u.id \in DOMAIN ref') # (u.id \in DOMAIN fast')
        THEN report' = "presence differs" /\ UNCHANGED whole
        ELSE /\ whole' = IF all THEN whole + 1 ELSE whole
             /\ report' = IF all /\ ~ SameWhole(a, b) THEN "whole differs"
                          ELSE IF last THEN "ok" ELSE "running"

Iterate(u, last) ==
    /\ report = "running"
    /\ updates < MaxUpdates
    /\ ref' = Applied(ref, u)
    /\ fast' \in Outcomes(u)
    /\ updates' = updates + 1
    /\ Compare(u, last)

Next == \E u \in Feed, last \in BOOLEAN : Iterate(u, last)

Spec == Init /\ [][Next]_vars

-----------------------------------------------------------------------------
Verdict == {"running", "ok", "top differs", "presence differs", "whole differs"}

Alike == DepthOf(ref) = DepthOf(fast) /\ Cardinality(DOMAIN ref) = Cardinality(DOMAIN fast)

(* A feed is reported OK only if both books show the same levels and hold  *)
(* as many orders at its end, whatever the fast book did on the way; and a *)
(* difference is reported only of books that show different levels, or of  *)
(* which one knows an id that the other does not.                          *)
ReportRight ==
    /\ report = "ok" => Alike
    /\ report \in Verdict \ {"running", "ok"} => ~ Alike \/ DOMAIN ref # DOMAIN fast

(* What src/README.md says of ob_diff: it "feeds the same data feed into   *)
(* the ReferenceBook and a fast book at the same time, compares the two    *)
(* after every message, and stops at a difference".  The loop goes on only *)
(* while the books are alike.                                              *)
StopsAtDifference == report = "running" => Alike
=============================================================================
