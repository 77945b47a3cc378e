---------------------------- MODULE FeedGenerator ----------------------------
(***************************************************************************)
(* The generator of synthetic feeds (class Generator of src/ob/Feed.cpp).  *)
(* It keeps its own picture of the book, for each side the levels best     *)
(* first and the ids at each level, and a table of the orders in which an  *)
(* order knows its slot in its level's vector of ids.  A random draw is a  *)
(* nondeterministic choice from the range it may come from.  Each step     *)
(* emits one update, which the validator checks as it is pushed (see       *)
(* ItchConverter).  Prices are signed: a bid may fall below 1.             *)
(***************************************************************************)
EXTENDS Integers, FiniteSetsExt, SequencesExt

CONSTANTS
    Configs,        \* the FeedConfigs that a run may be given, see IsConfig
    MaxGap,         \* the gap between two seeded levels is 1..3 in the code
    MaxU32          \* 0 - 1 in 32 bits

\* levels_per_side, orders_per_level_seed, max_depth, max_volume, mid_price,
\* update_count, and the types of update with a share of the 100 percent: what
\* Run lets through.  It does not look at max_depth, max_volume and mid_price.
IsConfig(c) ==
    /\ {c.levels, c.perLevel} \subseteq Nat \ {0}
    /\ {c.depth, c.volume} \subseteq Nat
    /\ c.mid \in Int
    /\ c.types \subseteq {"Add", "Modify", "Delete"} /\ c.types # {}
    /\ c.updates \in Nat /\ c.updates >= 2 * c.levels * c.perLevel

ASSUME ConfigsAssumption == \A c \in Configs : IsConfig(c)
ASSUME DrawsAssumption == {MaxGap, MaxU32} \subseteq Nat \ {0}

VARIABLES
    cfg,        \* cfg_
    levels,     \* ShadowSide::levels: side -> prices, best first
    queue,      \* ShadowSide::orders: side -> price -> ids
    table,      \* table_: id -> side, price, volume, slot (slots from 1)
    count,      \* out_.size()
    nextId,     \* next_id_
    pc,         \* "seed", "run", "undefined" after a draw from an empty range
    book, verdict   \* the validator

vars == <<cfg, levels, queue, table, count, nextId, pc, book, verdict>>

Validator == INSTANCE Validate

SeedCount == 2 * cfg.levels * cfg.perLevel

Sides == {"Bid", "Ask"}

Opposite(side) == IF side = "Bid" THEN "Ask" ELSE "Bid"

Better(side, a, b) == IF side = "Bid" THEN a > b ELSE a < b

TowardTail(side, p, n) == IF side = "Bid" THEN p - n ELSE p + n

TowardTop(side, p) == TowardTail(side, p, -1)

Record(side, p, v, slot) == [side |-> side, price |-> p, volume |-> v, slot |-> slot]

Update(type, id, side, p, v) ==
    [type |-> type, id |-> id, side |-> side, price |-> p, volume |-> v]

Size(side) == Len(levels[side])

\* m[k] = v of a std::unordered_map, and erase
Put(m, k, v) == [x \in DOMAIN m \cup {k} |-> IF x = k THEN v ELSE m[x]]

Drop(m, k) == [x \in DOMAIN m \ {k} |-> m[x]]

Init ==
    /\ cfg \in Configs
    /\ levels = [side \in Sides |-> <<>>]
    /\ queue = [side \in Sides |-> [p \in {} |-> <<>>]]
    /\ table = [id \in {} |-> Record("Bid", 0, 0, 1)]
    /\ count = 0 /\ nextId = 1
    /\ pc = "seed"
    /\ Validator!Init

Emit(u) == count' = count + 1 /\ Validator!Check(u)

\* InsertLevel: where std::lower_bound puts p.
WithLevel(side, p) ==
    InsertAt(levels[side],
             Min({n \in 1..Size(side) : ~ Better(side, levels[side][n], p)}
                   \cup {Size(side) + 1}), p)

IdsAt(side, p) == IF p \in DOMAIN queue[side] THEN queue[side][p] ELSE <<>>

\* What RandomVolume draws from.
Volumes == 1..cfg.volume

\* table_.emplace does nothing for an id that the table has.
EmitAdd(side, p) ==
    \E v \in Volumes :
        /\ queue' = [queue EXCEPT ![side] = Put(@, p, Append(IdsAt(side, p), nextId))]
        /\ table' = IF nextId \in DOMAIN table THEN table
                    ELSE Put(table, nextId, Record(side, p, v, Len(IdsAt(side, p)) + 1))
        /\ nextId' = nextId + 1
        /\ Emit(Update("Add", nextId, side, p, v))

-----------------------------------------------------------------------------
(* SeedBook.                                                               *)

\* The level that the next seed order belongs to, from 0.
SeedLevel == count \div (2 * cfg.perLevel)

SeedPrice(side, gap) ==
    IF levels[side] = <<>> THEN TowardTail(side, cfg.mid, 1)
    ELSE TowardTail(side, Last(levels[side]), gap)

SeedLevels ==
    /\ pc = "seed" /\ count < SeedCount
    /\ Size("Bid") = SeedLevel
    /\ \E gap \in [Sides -> 1..MaxGap] :
        LET p == [side \in Sides |-> SeedPrice(side, gap[side])]
        IN  /\ levels' = [side \in Sides |-> WithLevel(side, p[side])]
            /\ queue' = [side \in Sides |-> Put(queue[side], p[side], <<>>)]
    /\ UNCHANGED <<table, count, nextId, pc, book, verdict>>

SeedsOrder == pc = "seed" /\ count < SeedCount /\ Size("Bid") > SeedLevel

SeedOrder ==
    /\ SeedsOrder
    /\ LET side == IF count % 2 = 0 THEN "Bid" ELSE "Ask"
       IN  EmitAdd(side, Last(levels[side]))
    /\ UNCHANGED <<levels, pc>>

SeedDone ==
    /\ pc = "seed" /\ count = SeedCount
    /\ pc' = "run"
    /\ UNCHANGED <<levels, queue, table, count, nextId, book, verdict>>

-----------------------------------------------------------------------------
(* DoAdd.                                                                  *)

\* SampleDepth finds a depth in the table, or the table's last one; without
\* any that is max_depth - 1 all the same.
SampledDepth == IF cfg.depth = 0 THEN {MaxU32} ELSE 0..cfg.depth - 1

\* The loop over taken prices ends at the first free one toward the tail.
FirstFree(side, p) ==
    TowardTail(side, p,
        Min({n \in 0..Size(side) : TowardTail(side, p, n) \notin DOMAIN queue[side]}))

\* One tick better than the best, unless that crosses the other side.
TopCandidate(side) == TowardTop(side, Head(levels[side]))

\* A mutant: meeting the other side's best price is not crossing it.
TopCrossesStrictly(side) ==
    Better(side, TopCandidate(side), Head(levels[Opposite(side)]))

TopCrosses(side) ==
    ~ Better(side, Head(levels[Opposite(side)]), TopCandidate(side))

\* TryCreateLevel gives up on a side of one level that cannot improve.
CanCreate(side, k) == ~ (k = 0 /\ TopCrosses(side) /\ Size(side) < 2)

Candidate(side, k) ==
    IF k = 0 /\ ~ TopCrosses(side) THEN TopCandidate(side)
    ELSE LET base == Min({Max({k, 1}), Size(side)})
         IN  FirstFree(side, TowardTail(side, levels[side][base], 1))

CreateLevel(side, k) ==
    /\ CanCreate(side, k)
    /\ levels' = [levels EXCEPT ![side] = WithLevel(side, Candidate(side, k))]
    /\ EmitAdd(side, Candidate(side, k))

AddToLevel(side, k) ==
    /\ EmitAdd(side, levels[side][Min({k, Size(side) - 1}) + 1])
    /\ UNCHANGED levels

\* A draw below new_level_rate, or not.
DoAdd ==
    \E side \in Sides, k \in SampledDepth :
        CreateLevel(side, k) \/ AddToLevel(side, k)

-----------------------------------------------------------------------------
(* DoModify and DoDelete.                                                  *)

Prunes(side) == Size(side) > cfg.levels

\* A mutant: one level short.
PickRangeShort(side, prune) ==
    IF prune /\ Prunes(side)
    THEN (Size(side) - Size(side) \div 4)..(Size(side) - 2)
    ELSE {Min({k, Size(side) - 1}) : k \in SampledDepth}

\* The levels PickOrder draws from, counted from 0.
PickRange(side, prune) ==
    IF prune /\ Prunes(side)
    THEN (Size(side) - Size(side) \div 4)..(Size(side) - 1)
    ELSE {Min({k, Size(side) - 1}) : k \in SampledDepth}

\* The ids that PickOrder may return for a level.
Picks(side, idx) == ToSet(queue[side][levels[side][idx + 1]])

\* The new volumes that DoModify draws from.
NewVolumes(o) == 1..Min({2 * o.volume, 4 * cfg.volume})

\* A mutant: the record keeps the old volume.
DoModifyUnrecorded ==
    /\ \E side \in Sides : \E idx \in PickRange(side, FALSE) : \E id \in Picks(side, idx) :
        LET o == table[id]
        IN  \E v \in NewVolumes(o) :
              Emit(Update("Modify", id, o.side, o.price, v))
    /\ UNCHANGED <<levels, queue, table, nextId>>

DoModify ==
    /\ \E side \in Sides : \E idx \in PickRange(side, FALSE) : \E id \in Picks(side, idx) :
        LET o == table[id]
        IN  \E v \in NewVolumes(o) :
              /\ table' = [table EXCEPT ![id].volume = v]
              /\ Emit(Update("Modify", id, o.side, o.price, v))
    /\ UNCHANGED <<levels, queue, nextId>>

\* A mutant: the moved order keeps the slot it had.
TableWithoutMove(id, moved) == Drop(table, id)

\* The last id of the level takes the slot of the one that goes.  When that
\* is the same id, table_[moved] makes a new, zero record for it.
TableWithout(id, moved) ==
    LET rest == Drop(table, id)
        m == IF moved \in DOMAIN rest THEN rest[moved] ELSE Record("Bid", 0, 0, 1)
    IN  Put(rest, moved, [m EXCEPT !.slot = table[id].slot])

\* A mutant: nothing stops a side from losing its last order.
LastOrderNever(side) == FALSE

\* The last order of a side is not deleted.
LastOrder(side) == Size(side) = 1 /\ Len(queue[side][Head(levels[side])]) = 1

Delete(side, p, id) ==
    LET o == table[id]
        ids == queue[side][p]
        left == Front([ids EXCEPT ![o.slot] = Last(ids)])
    IN  /\ table' = TableWithout(id, Last(ids))
        /\ IF left = <<>>
           THEN /\ levels' = [levels EXCEPT ![side] = RemoveFirst(@, p)]
                /\ queue' = [queue EXCEPT ![side] = Drop(@, p)]
           ELSE /\ queue' = [queue EXCEPT ![side][p] = left]
                /\ UNCHANGED levels
        /\ UNCHANGED nextId
        /\ Emit(Update("Delete", id, o.side, o.price, o.volume))

DoDelete ==
    \E side \in Sides : \E idx \in PickRange(side, TRUE) : \E id \in Picks(side, idx) :
        \/ LastOrder(side) /\ DoAdd
        \/ ~ LastOrder(side) /\ Delete(side, levels[side][idx + 1], id)

-----------------------------------------------------------------------------
(* uniform_int_distribution(a, b) with a > b has no defined result.  These *)
(* are the draws whose range depends on the state, for each type of update *)
(* (gap, roll and timestamp are drawn from constant ranges).               *)

NothingToPick(side, prune) ==
    \/ PickRange(side, prune) = {}
    \/ \E idx \in PickRange(side, prune) : Picks(side, idx) = {}

NothingToDraw(type) ==
    CASE type = "Add" -> Volumes = {}
      [] type = "Modify" -> \E side \in Sides :
            \/ NothingToPick(side, FALSE)
            \/ \E idx \in PickRange(side, FALSE) : \E id \in Picks(side, idx) :
                  NewVolumes(table[id]) = {}
      [] type = "Delete" -> \E side \in Sides :
            NothingToPick(side, TRUE) \/ (LastOrder(side) /\ Volumes = {})

-----------------------------------------------------------------------------
Running == pc = "run" /\ count < cfg.updates

DrawFromNothing ==
    /\ \/ SeedsOrder /\ Volumes = {}
       \/ Running /\ \E type \in cfg.types : NothingToDraw(type)
    /\ pc' = "undefined"
    /\ UNCHANGED <<levels, queue, table, count, nextId, book, verdict>>

\* Step takes one of the types that have a share.
Step ==
    \/ "Add" \in cfg.types /\ DoAdd
    \/ "Modify" \in cfg.types /\ DoModify
    \/ "Delete" \in cfg.types /\ DoDelete

Run == Running /\ Step /\ UNCHANGED pc

Next ==
    /\ \/ SeedLevels \/ SeedOrder \/ SeedDone
       \/ Run \/ DrawFromNothing
    /\ UNCHANGED cfg

Spec == Init /\ [][Next]_vars

-----------------------------------------------------------------------------
\* No bid can fall below 1: not by the seed's gaps, nor a tick an update.
RoomBelow == cfg.mid > 1 + MaxGap * cfg.levels + cfg.updates

(* The validator accepts every synthetic feed whose mid price leaves room  *)
(* below it, which nothing checks: levels created and erased on both sides *)
(* never cross, and no update names an order that is gone.                 *)
Accepted == RoomBelow => verdict = "ok"

(* Swapping the last id of a level into the slot of a deleted one keeps    *)
(* every order at the slot that its record names, so that the next delete  *)
(* removes that order and no other.                                        *)
SlotsAgree ==
    \A side \in Sides : \A p \in DOMAIN queue[side] : \A n \in DOMAIN queue[side][p] :
        LET id == queue[side][p][n]
        IN  /\ id \in DOMAIN table
            /\ table[id].side = side /\ table[id].price = p /\ table[id].slot = n

(* What PickOrder and TryCreateLevel index is there: once seeded, no side  *)
(* is ever without a level and no level without an order.                  *)
NothingEmpty ==
    pc = "run" => \A side \in Sides :
        /\ levels[side] # <<>>
        /\ ToSet(levels[side]) = DOMAIN queue[side]
        /\ \A p \in DOMAIN queue[side] : queue[side][p] # <<>>

Queued(side) == UNION {ToSet(queue[side][p]) : p \in DOMAIN queue[side]}

(* The generator's picture is the book that its feed makes: the same       *)
(* orders, at the same prices, with the same volumes.                      *)
PictureMatchesFeed == RoomBelow =>
    /\ DOMAIN book = Queued("Bid") \cup Queued("Ask")
    /\ \A side \in Sides, id \in DOMAIN book :
         id \in Queued(side) =>
            /\ book[id].side = side
            /\ id \in ToSet(queue[side][book[id].price])
            /\ table[id].volume = book[id].volume

(* No random draw is from an empty range.  Run checks that the levels per  *)
(* side are positive, and says so; with one level a side that is not       *)
(* enough.                                                                 *)
DrawsDefined == pc # "undefined"

(* It holds from three levels a side on, where a quarter of four or more   *)
(* is not empty, for a greatest volume of 1 or more, which Run does not    *)
(* check: of the volumes, levels, orders and new volumes that are drawn    *)
(* none is from an empty range.                                            *)
DeepDrawsDefined == cfg.levels >= 3 /\ cfg.volume > 0 => DrawsDefined
=============================================================================
