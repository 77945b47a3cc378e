-------------------------------- MODULE Bench --------------------------------
(***************************************************************************)
(* RunBook of ob_bench (src/ob/RunBench.cpp, src/ob/Bench.hpp): find the   *)
(* peak of live orders, size the books by it, and replay the feed into a   *)
(* fresh book for the pilot, for each pass, for the statistics of the      *)
(* table at the peak and for those at half the feed.  A book is its order  *)
(* table, which is all that can refuse an update; see FlatOrderTable.      *)
(* Times, their statistics and the printing are left out: of the clock the *)
(* model keeps which updates a sample timed.                               *)
(***************************************************************************)
EXTENDS Integers, FiniteSets, Sequences

CONSTANTS
    Feeds,          \* see IsFeed
    Options,        \* command lines, see IsOptions
    Word,           \* 2^64 in the code
    MinCapacity,    \* 16 in the code
    PilotBlock,     \* 1024 in the code
    PilotMax,       \* 1000000 in the code
    WarmupEvery     \* one sample of so many is warmup, 100 in the code

\* A feed that the validator accepts: f.live[n] is live after n updates.
IsFeed(f) ==
    /\ f.count \in Nat
    /\ f.updates \in [1..f.count -> [type : {"Add", "Modify", "Delete"},
                                     id : Nat \ {0}, volume : Nat \ {0}]]
    /\ DOMAIN f.live = 0..f.count
    /\ f.live[0] = {}
    /\ \A n \in 1..f.count :
         LET u == f.updates[n]
         IN  /\ (u.type = "Add") = (u.id \notin f.live[n - 1])
             /\ f.live[n] = CASE u.type = "Add" -> f.live[n - 1] \cup {u.id}
                              [] u.type = "Modify" -> f.live[n - 1]
                              [] u.type = "Delete" -> f.live[n - 1] \ {u.id}
             /\ IsFiniteSet(f.live[n])

IsOptions(o) ==
    /\ {o.limit, o.reserve, o.stride, o.repeat} \subseteq Nat
    /\ o.block \in Nat              \* "auto" chooses a power of two
    /\ o.table \in {"flat", "std", "none"}  \* the book's order table; none in "ref"
    \* Allocations of the book: by its constructor, and by an add at most.
    /\ {o.building, o.adding} \subseteq Nat

ASSUME FeedsAssumption == \A f \in Feeds : IsFeed(f)
ASSUME OptionsAssumption == \A o \in Options : IsOptions(o)
ASSUME SizesAssumption == {Word, MinCapacity, PilotBlock, PilotMax, WarmupEvery} \subseteq Nat \ {0}

VARIABLES
    feed, opt,
    pc,         \* "scan", "build", "warmup", "replay", and then "done",
                \* "failed" or "exhausted"
    at, live, peak, index,  \* FindLivePeak
    task,       \* 0 the pilot, 1..Passes, then the peak, then the midpoint
    cap,        \* of Reserve, then the book's slots_.size()
    table,      \* the ids in the book
    next,       \* how many updates it has been given
    allocs,     \* AllocationCount()
    before,     \* before_book
    result,     \* the counts of RunResult
    timed,      \* history: the allocations in samples after warmup
    ticks,      \* history: sample -> the updates timed, and what the book held
    probed      \* t.size at the peak

scanVars == <<at, live, peak, index>>

bookVars == <<cap, table, next>>

countVars == <<allocs, before, result, timed>>

vars == <<feed, opt, pc, scanVars, task, bookVars, countVars, ticks, probed>>

\* A FlatOrderTable: ids are inserted up to half the capacity, id 0 never.
Flat == opt.table = "flat"

Count == IF opt.limit > 0 /\ opt.limit < feed.count THEN opt.limit ELSE feed.count

Reserve == IF opt.reserve > 0 THEN opt.reserve ELSE peak

Passes == IF opt.repeat = 0 THEN 1 ELSE opt.repeat

Block == IF opt.block = 0 THEN 1 ELSE opt.block

PerPass == Count \div Block

Smaller(a, b) == IF a < b THEN a ELSE b

Warmup == Smaller((PerPass * Passes) \div WarmupEvery, PerPass)

\* ids multiplied at load
Strided(id) == IF opt.stride > 1 THEN (id * opt.stride) % Word ELSE id

PilotCount == Smaller(Count, PilotMax)

\* A mutant: the update at the peak is left out.
EndShort(t) ==
    CASE t = 0 -> PilotCount - (PilotCount % PilotBlock)
      [] t \in 1..Passes -> Count - (Count % Block)
      [] t = Passes + 1 -> Smaller(index, Count)
      [] OTHER -> Count \div 2

\* How many updates the book of a task is given.
End(t) ==
    CASE t = 0 -> PilotCount - (PilotCount % PilotBlock)
      [] t \in 1..Passes -> Count - (Count % Block)
      [] t = Passes + 1 -> Smaller(index + 1, Count)
      [] OTHER -> Count \div 2

IsPass == task \in 1..Passes

Init ==
    /\ feed \in Feeds /\ opt \in Options
    /\ pc = "scan"
    /\ at = 0 /\ live = 0 /\ peak = 0 /\ index = 0
    /\ task = 0
    /\ cap = 0 /\ table = {} /\ next = 0
    /\ allocs = 0 /\ before = 0 /\ timed = 0
    /\ result = [start |-> 0, after |-> 0, end |-> 0, constructing |-> 0]
    /\ ticks = <<>> /\ probed = 0

-----------------------------------------------------------------------------
(* FindLivePeak.                                                           *)

LiveAfter(u) ==
    CASE u.type = "Add" -> live + 1
      [] u.type = "Delete" \/ (u.type = "Modify" /\ u.volume <= 0) -> live - 1
      [] OTHER -> live

Scan ==
    /\ pc = "scan" /\ at < Count
    /\ live' = LiveAfter(feed.updates[at + 1])
    /\ IF live' > peak THEN peak' = live' /\ index' = at ELSE UNCHANGED <<peak, index>>
    /\ at' = at + 1
    /\ UNCHANGED <<pc, task, bookVars, countVars, ticks, probed>>

\* Begin the next task: its book is constructed first.
Enter(t) ==
    /\ task' = t /\ pc' = "build"
    /\ cap' = MinCapacity
    /\ before' = allocs

Scanned ==
    /\ pc = "scan" /\ at = Count
    /\ Enter(0)
    /\ UNCHANGED <<scanVars, table, next, allocs, result, timed, ticks, probed>>

-----------------------------------------------------------------------------
(* FlatOrderTable::Reserve, in u64 arithmetic.                             *)

\* A mutant: as many slots as orders.
WantedOnce == Reserve % Word

Wanted == (2 * Reserve) % Word

\* A mutant: arithmetic of one bit less.
DoubledNarrow(c) == (2 * c) % (Word \div 2)

\* cap <<= 1
Doubled(c) == (2 * c) % Word

Grow ==
    /\ pc = "build" /\ Flat /\ cap < Wanted
    /\ cap' = Doubled(cap)
    /\ UNCHANGED <<pc, scanVars, task, table, next, countVars, ticks, probed>>

\* The counter after n more calls of operator new.
Allocated(n) == allocs + n

\* A mutant: the book of the pass before is used again.
BuildOnce ==
    /\ pc = "build" /\ (Flat => cap >= Wanted)
    /\ table' = IF task \in 2..Passes THEN table ELSE {}
    /\ next' = 0 /\ allocs' = Allocated(opt.building)
    /\ result' = IF task \in 2..Passes
                 THEN [result EXCEPT !.constructing = @ + (allocs' - before)]
                 ELSE result
    /\ pc' = IF task = 1 THEN "warmup" ELSE "replay"
    /\ UNCHANGED <<scanVars, task, cap, before, timed, ticks, probed>>

\* The book is constructed; those between the passes are accounted for.
Build ==
    /\ pc = "build" /\ (Flat => cap >= Wanted)
    /\ table' = {} /\ next' = 0 /\ allocs' = Allocated(opt.building)
    /\ result' = IF task \in 2..Passes
                 THEN [result EXCEPT !.constructing = @ + (allocs' - before)]
                 ELSE result
    /\ pc' = IF task = 1 THEN "warmup" ELSE "replay"
    /\ UNCHANGED <<scanVars, task, cap, before, timed, ticks, probed>>

-----------------------------------------------------------------------------
(* ReplayRange, and the loops over the updates for the table's statistics. *)

Until == IF pc = "warmup" THEN Warmup * Block ELSE End(task)

Replaying == pc \in {"warmup", "replay"} /\ next < Until

Current == feed.updates[next + 1]

\* A known id is ignored, and id 0 by the flat tables.
Inserts(u) ==
    /\ u.type = "Add"
    /\ Flat => Strided(u.id) # 0
    /\ Strided(u.id) \notin table

\* limit_ is half the capacity.
Full == Flat /\ Cardinality(table) = cap \div 2

\* TryInsert throws length_error, which ends the program with code 1.
Refuse ==
    /\ Replaying /\ Inserts(Current) /\ Full
    /\ pc' = "failed"
    /\ UNCHANGED <<scanVars, task, bookVars, countVars, ticks, probed>>

Held(u) ==
    IF Inserts(u) THEN table \cup {Strided(u.id)}
    ELSE IF u.type = "Delete" THEN table \ {Strided(u.id)}
    ELSE table

\* What an update may allocate: nodes of maps, room in a vector of levels.
Cost(u) == IF u.type = "Add" THEN 0..opt.adding ELSE {0}

\* operator new throws bad_alloc, or slots_.assign length_error, which ends the
\* program with code 1.
OutOfMemory ==
    /\ \/ pc = "build" /\ (Flat => cap >= Wanted) /\ opt.building > 0
       \/ Replaying /\ Cost(Current) # {0}
    /\ pc' = "exhausted"
    /\ UNCHANGED <<scanVars, task, bookVars, countVars, ticks, probed>>

Sample == (task - 1) * PerPass + next \div Block

Timing(s) ==
    [n \in DOMAIN ticks \cup {s} |->
       (IF n \in DOMAIN ticks THEN ticks[n] ELSE <<>>)
       \o (IF n = s THEN <<[update |-> next + 1, held |-> table]>> ELSE <<>>)]

Apply ==
    /\ Replaying /\ ~ (Inserts(Current) /\ Full)
    /\ table' = Held(Current)
    /\ next' = next + 1
    /\ \E cost \in Cost(Current) :
        /\ allocs' = Allocated(cost)
        /\ timed' = IF IsPass /\ pc = "replay" THEN timed + cost ELSE timed
    /\ ticks' = IF IsPass THEN Timing(Sample) ELSE ticks
    /\ UNCHANGED <<pc, scanVars, task, cap, before, result, probed>>

WarmedUp ==
    /\ pc = "warmup" /\ next = Until
    /\ pc' = "replay"
    /\ result' = [result EXCEPT !.after = allocs]
    /\ UNCHANGED <<scanVars, task, bookVars, allocs, before, timed, ticks, probed>>

-----------------------------------------------------------------------------
Finished(t) == pc = "replay" /\ task = t /\ next = End(t)

PilotDone ==
    /\ Finished(0)
    /\ Enter(1)
    /\ result' = [result EXCEPT !.start = allocs]
    /\ UNCHANGED <<scanVars, table, next, allocs, timed, ticks, probed>>

PassDone ==
    /\ \E p \in 1..Passes - 1 : Finished(p) /\ Enter(p + 1)
    /\ UNCHANGED <<scanVars, table, next, allocs, result, timed, ticks, probed>>

\* A book without an order table has no OrderTableStats.
HasStats == opt.table # "none"

\* A mutant: the books made between the passes are not taken off.
PassesDoneCounting ==
    /\ Finished(Passes)
    /\ result' = [result EXCEPT !.end = allocs]
    /\ IF HasStats THEN Enter(Passes + 1)
       ELSE pc' = "done" /\ UNCHANGED <<task, cap, before>>
    /\ UNCHANGED <<scanVars, table, next, allocs, timed, ticks, probed>>

PassesDone ==
    /\ Finished(Passes)
    /\ result' = [result EXCEPT !.end = allocs - result.constructing]
    /\ IF HasStats THEN Enter(Passes + 1)
       ELSE pc' = "done" /\ UNCHANGED <<task, cap, before>>
    /\ UNCHANGED <<scanVars, table, next, allocs, timed, ticks, probed>>

PeakDone ==
    /\ Finished(Passes + 1)
    /\ probed' = Cardinality(table)
    /\ Enter(Passes + 2)
    /\ UNCHANGED <<scanVars, table, next, allocs, result, timed, ticks>>

HalfDone ==
    /\ Finished(Passes + 2)
    /\ pc' = "done"
    /\ UNCHANGED <<scanVars, task, bookVars, countVars, ticks, probed>>

Next ==
    /\ \/ Scan \/ Scanned \/ Grow \/ Build \/ OutOfMemory \/ Apply \/ Refuse \/ WarmedUp
       \/ PilotDone \/ PassDone \/ PassesDone \/ PeakDone \/ HalfDone
    /\ UNCHANGED <<feed, opt>>

Spec == Init /\ [][Next]_vars

FairSpec == Spec /\ WF_vars(Next)

-----------------------------------------------------------------------------
\* Twice the reserve is a number, and the reserve is not set too small.
Sized == 2 * Reserve < Word /\ Reserve >= peak

(* A book sized by the peak never throws at half load, in any pass, though *)
(* strided ids wrap, collide and become 0: the table never holds more ids  *)
(* than there are orders live in the feed.                                 *)
NeverFull == pc = "failed" => ~ Sized

Ids == UNION {feed.live[n] : n \in 0..feed.count}

\* The stride keeps the ids apart and away from 0.
Injective ==
    /\ \A id \in Ids : Strided(id) # 0
    /\ \A a, b \in Ids : Strided(a) = Strided(b) => a = b

LiveIds(n) == {Strided(id) : id \in feed.live[n]}

(* Each sample of each pass times the updates of its own block, once and   *)
(* in order, on a book that holds the orders live before each: warmup      *)
(* replays nothing twice and no pass begins with the orders of the last.   *)
SamplesRight ==
    pc = "done" /\ Injective => \A p \in 1..Passes : \A s \in 0..PerPass - 1 :
        ticks[(p - 1) * PerPass + s] =
            [k \in 1..Block |->
               [update |-> s * Block + k, held |-> LiveIds(s * Block + k - 1)]]

(* Whatever a book's constructor and its updates allocate, the allocations *)
(* that the report counts, and that fail the run of a book which promises  *)
(* none, are those of the samples it measures: not those of warmup, and    *)
(* not those of the books made between the passes.                         *)
TimedAllocations == pc = "done" => result.end - result.after = timed

(* The table statistics are those of the largest table: as many orders as  *)
(* the peak that sized it.                                                 *)
ProbeAtPeak == pc = "done" /\ HasStats /\ Injective => probed = peak

(* The run ends, unless the table is asked for more slots than the largest *)
(* power of two: then Reserve shifts the capacity's one bit out and        *)
(* doubles 0 for ever.                                                     *)
Ends ==
    <>[](pc \in IF Flat /\ Wanted > Word \div 2 THEN {"build"}
               ELSE {"done", "failed", "exhausted"})
=============================================================================
