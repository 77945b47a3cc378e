# TLA+ models and proofs for fill-or-kill

fill-or-kill (`src/`) compares implementations of a limit order book on feeds
of order updates.  This directory holds TLA+ models of it: the order table, the
books, the searches in them, the tool that makes feeds of ITCH files and the
files it writes, the generator of synthetic feeds, the validator, the differ,
the benchmark's replay and its launcher.  TLC checks them on small instances
(every `*.cfg`), and TLAPS proves theorems about all of these but the launcher;
every safety property that a passing run checks is stated by a theorem.

    tlc -config MCBooks.cfg MCBooks             # one run
    tlapm FlatOrderTableProofs.tla              # one module of proofs

`PROJECT.json` lists the components, the runs, the source lines each definition
stands for, the hazards and the theorems.


## 1. Inventory

The program is a set of command line tools around one in-memory data
structure.  Everything is single-threaded: there are no locks, threads, sockets
or signals, and the tools meet only through files.

    ob_itch  --- ItchConvert.cpp, Itch.hpp ---+
                                              +--> feed file --> ob_validate (Validate.hpp)
    ob_genfeed - GenFeed.cpp, Feed.cpp -------+              --> ob_diff     (Diff.hpp)
                                                             --> ob_bench    (RunBench.cpp, Bench.hpp)

A feed is a vector of `Update`s: Add, Modify, Delete, each with id, side,
price, volume and a timestamp.  `ApplyUpdate` hands them to a book as `OnAdd`,
`OnModify`, `OnDelete`.

| part | state | operations | what makes it correct |
|---|---|---|---|
| Flat order table (`OrderTable.hpp`) | slots, `size_`, `limit_`, `mask_` | `Find`, `TryInsert`, `Erase`, `Reserve` | every live order can be found after any history of erases; probes end; at half load an insert fails and nothing else does |
| Standard order table | a `std::unordered_map` | the same | the dictionary itself |
| Table-only book (`TableBook.hpp`) | an order table | `OnAdd`, `OnModify`, `OnDelete`, `DebugLookup` | the calling client of the table; unknown and known ids are ignored |
| Reference book (`ReferenceBook.hpp`) | per side a map price -> (orders, total); an index id -> (side, price) | updates, `Snapshot`, counts, totals | index and levels agree, so that no `at()` throws; totals and counts are right |
| Vector books (`VectorBook.hpp`, `ReverseVectorBook.hpp`) | order table; per side a sorted vector of levels | updates, `Snapshot`, `Best*`, `VolumeAtLevel` | an order's level exists when `Adjust` looks for it; the searches agree |
| Map book (`MapBook.hpp`) | order table whose records keep map iterators; two maps | the same | no iterator dangles |
| ITCH converter (`Itch.hpp`) | locate codes; per symbol shadow orders, the feed, `window_seeded` | `OnMessage` and seven handlers | its feed is valid and replays to the orders at the exchange |
| ITCH reader (`ItchConvert.cpp`) | 4 MiB buffer, bytes in it, eof | the refill loop | no message lost or cut at a buffer's end; truncation reported; it ends |
| Feed generator (`Feed.cpp`) | per side levels and ids; table of orders with slots | seeding, add, modify, delete | its picture is the book its feed makes; feeds are valid; draws are defined |
| Feed files (`Feed.cpp`) | a header and records | `WriteFeed`, `MappedFeed` | a file that is taken is whole, whatever killed its writer; code 0 means all are written |
| Validator (`Validate.hpp`) | a reference book | `ValidateFeed` | refuses what the fast books cannot take |
| Differ (`Diff.hpp`) | a reference and a fast book | `DiffFeed` | never OK for a book that ends different |
| Benchmark (`Bench.hpp`, `RunBench.cpp`) | live peak, passes, ticks, counts of allocations | `FindLivePeak`, `Replay`, `ReplayPasses`, statistics | the table reserved is large enough that no insert throws; each sample times its own updates on the right book; allocations are counted where the report says |
| Launcher (`RunBench.cpp`) | an environment variable, a child | `ReexecWithoutAslr` | the report tells whether addresses were random |
| Allocation counter | three counters | `operator new`, `AllocationCount` | counts each allocation once |
| Stub book, dispatch | a counter | | |

**Calls and callbacks.**  A book calls the order table and its own vectors or
maps; the table calls nobody.  The converter and the generator only append to a
vector.  The differ and the validator call two or one books in lockstep.  State
crosses a process boundary in the feed file and, from the launcher to the
program it starts again, in the environment.

**What is hard here.**  With nothing concurrent inside a tool, the risk lies in
long histories of legal calls: backward shifting over the wrap of an
open-addressing table, iterators kept over erasures, two copies of one fact
(index and levels, level totals and orders, slot numbers and vectors), a window
that opens in the middle of orders' lives, boundary cases of index arithmetic;
and, between tools, in partial failure: a writer killed half way, a start that
fails after it was announced, a read that returns less than was asked for.
`PROJECT.json` lists each as a hazard with its line and the properties against
it.


## 2. Modules

**Order table.**
- `OrderTable`: the abstract dictionary.  A call is made in one step (`Begin`) and
  takes effect and is answered in one other; an add of a new id when `Limit` ids
  are live answers `length_error` and adds nothing.
- `FlatOrderTable`: `FlatOrderTable` of `OrderTable.hpp` under the calls of
  `TableOnlyBook`.  `key`/`val` are `slots_`, `size` is `size_`; `i`, `hole`,
  `j` are the locals of the loops and `pc` names the loop that runs.  One step is
  one iteration of a probe (`ProbeOn`) or of the shift (`ShiftKeep`,
  `ShiftMove`).  `Mix` is any function on the ids, `Cap` any capacity; a probe
  from slot `a` reaches `b` after `Dist(a, b)` steps.  An `OnDelete` is a `Find`
  followed by an `Erase` that probes again, and so is a modify to nothing.
- `MCFlatOrderTable`: instances for TLC (`Mix` is the identity hash).

**Books.**
- `Levels`: the levels that a set of live orders shows.  `OrderBook`: what each
  book promises: live orders, and as `depth` their levels, best first.
- `ReferenceBook`, `VectorBook`, `MapBook`: one action per handler.
  `VectorBook` is all four vector books: `layout`, chosen by `Init`, selects the
  memory order and the search.  `MapBook` has a `heap` of map nodes and records
  that keep a node, so that a dangling iterator is a visible state; a node is not
  reused while a record points at it, so that reuse cannot hide one.
  The order tables inside are the dictionary that `FlatOrderTable` implements.
  `ReferenceBook` has the queries as operators too.  Reference and vector books
  have `ImplementsBook == Book!Spec` as refinement.
- `Books`: a vector book and the map book on one feed.  `BooksAgree` says that
  they show the same through every query, so that the map book implements
  `OrderBook` (`MapImplementsBook`) because the vector book does.
- `LevelSearch`: the four searches as operators.
- `BranchlessSearch`: the loop of the branchless one, an iteration per step.
  Levels before which the price does not belong form a prefix; the model keeps
  its length instead of the prices.

**Feeds.**
- `Validate`: the checks of `ValidateFeed` on one update.  Used, by `INSTANCE`,
  in the next two: each update that they push is checked at once.  Neither of
  them reads its feed back, so checking at once and checking the finished file
  give one verdict.
- `ItchConverter`: `OnMessage` for one symbol, with the window, seeding and all
  handlers.  A step pushes at most one update; `pc = "seed"` is the loop of
  `seed_window`, and `"resume"` the rest of a handler that has pushed once.
  The exchange is the environment.  It keeps a book of its own (`market`,
  changed by `After` as the messages mean it, whatever the converter does), from
  which it makes messages: fresh ids for new orders, no resting order that
  crosses its book and, unless `unordered`, timestamps that do not go back.
  Prices of 0 and above INT32_MAX (`MaxPrice`) and shares of 0 do arrive; orders
  that an update cannot carry, and what replaces them, are left out of `market`.
- `FeedGenerator`: `Generator::Run`.  A configuration is what Run's checks let
  through (`IsConfig`): no depths, no volume and any mid price included, and of
  the percentages which types of update have a share.  Each random draw is a
  choice from its range; when the range of one that a step may make is empty, the
  model may stop there (`DrawFromNothing`).  `table` keeps the zero records that `table_[moved]` leaves in the code
  when an order that is last in its level is deleted.
- `DiffFeed`: the loop of `DiffFeed` over two books given by their orders; what
  they show is `Levels!DepthOf`.  `Faults` says how the fast book may be wrong.

**Files.**
- `ItchReader`: `ReadItchFile`.  A file is where its messages end, its size, and
  the length that an incomplete last message announces; its bytes are left out,
  but a parser off the start of a message would read any length
  (`LengthsAt`), so that alignment is a result and not an assumption.  `gzread`
  returns any piece, or an error, at any time.  `Fill`, `Deliver` and `Compact`
  are the three parts of the loop's body; `FillError` is a `gzopen` or a `gzread`
  that fails.
- `FeedFile`: `WriteFeed` and `MappedFeed`.  A unit of a file reaches it in a
  step of its own, so that a short write or a kill can come between any two.
- `ItchTool`: `main` of `ob_itch` around the two: read everything, then write a
  file per state of the converter, over whatever an earlier run left.  `Kill`
  and `Rerun` are the user's.  A feed here is a number of updates of a run and
  a symbol; what they are is the converter's subject.

**Benchmark.**
- `Bench`: `RunBook`.  `pc` is the phase; `task` says whose book it is, the
  pilot's, a pass's, or that of the statistics at the peak or at half the feed.
  One step is one update of the scan or of a replay, or one doubling of
  `Reserve`.  u64 arithmetic is modulo `Word`.  A book is the set of ids in its
  order table, bounded by `cap \div 2` if the table is flat.  Each allocation may
  fail and end the run (`OutOfMemory`).  What a book allocates is a parameter,
  `building` by its constructor and up to `adding` by an add, because it depends on
  the containers: a map book allocates nodes, a vector book when a side outgrows
  its reserve.  `timed`, `ticks` and `probed` are history that the properties read.
- `Launcher`: `ReexecWithoutAslr` on Linux (`personality`, `execv`) and macOS
  (`posix_spawn`, `waitpid`), where each system call may fail.

**Proofs**, described in section 5: `FlatOrderTableProofs`,
`ReferenceBookProofs`, `BooksProofs` (vector books, map book and the loop of the
branchless search), `ItchConverterProofs`, `ItchToolProofs` (with the reader and
the feed files), `FeedGeneratorProofs`, `DiffFeedProofs`, `BenchProofs`.

Definitions called `X...` that a comment introduces as *mutants* are used by no
specification: each is a definition of the code with a plausible bug, kept to
show that a property would find it (`mutants` in `PROJECT.json`).  Modules
called `MC...` give the constants their values for TLC.


## 3. Runs

All runs are exhaustive over the stated instance.

| run | bounds | question | states |
|---|---|---|---|
| `table` | 8 slots, limit 4, 5 ids with homes 7 7 7 6 0, volumes up to 2 | is the layout good after every history, each shift step included; does the table answer as the dictionary does; does each call return | 511 878 |
| `reference_book` | 3 ids, 3 prices, volumes up to 2 | do index, levels and totals agree | 2 197 |
| `books` | 3 ids (symmetric), 4 prices, volumes up to 2, 4 layouts, 4 nodes | are the vector books, their searches and the map book right, and alike | 22 372 |
| `branchless_search` | up to 33 levels | lower bound found, inside, in finite time | 3 977 |
| `converter` | 2 shares, 2 prices, times 0..3, window 1..2; 3 ids in order, 2 ids in any order | is the feed valid and does it replay to the exchange's book; what survives disorder | 122 307 |
| `generator` | 3 levels a side and 3 steps after seeding; 1 level with 2 orders and 6 steps; 1 level, no depths, volumes up to 2 and 4 steps; 3 levels and no volume | is each feed valid, each draw defined; does the picture match | 712 938 |
| `generator_few_levels` | 1 level a side, 1 order | *violation*: section 4 | |
| `diff` | 2 ids, 3 prices, period 2, 5 updates, all faults | is the differ's report right | 6 169 |
| `diff_every_update` | the same | *violation*: section 4 | |
| `itch_tool` | up to 2 messages of up to 2 bytes and every incomplete end, buffer of 5; feeds of up to 2 records; one symbol given twice; 2 runs | are messages, files and exit codes right | 257 418 |
| `bench` | every feed of up to 4 updates on 3 ids; Word 16; 21 command lines and books | sizes, samples, counts | 1 062 115 |
| `launcher_report` | Linux and macOS | *violation*: section 4 | |

**Why the bounds are enough to matter.**  Eight slots with three ids of home 7
and one of home 6 and 0 each give runs of occupied slots on both sides of the
wrap, holes at each place in them, and the half load of four.  The code's
capacity is at least 16; nothing depends on it but the limit, and the proofs
hold for every capacity.  Two volumes tell a record that was moved whole from one
whose value stayed behind.  Three orders over three
prices let orders share a level, let a level die while another lives, and let it
come back.  Thirty-three levels exercise the halving at 2^5 and one level to each
side.  Time 0 lies before the window, 1 and 2 in it, 3 behind; three ids
are a replaced, a replacing and a bystanding order.  In `generator` a side grows
past `levels_per_side` and is pruned, and in its second configuration falls back
to its last order; in its third the depth is always 2^32 - 1, which puts every
draw at the last level, and volumes differ; the mid prices 17 and 14 are the
lowest that leave room for the bids of the first two (`RoomBelow`; without it a
price may reach 0, which the validator refuses).  A period of 2 within five updates ends feeds at,
before and after a period.  A buffer of 5 holds one message of the longest kind
and part of the next, so that messages are cut at its end; the code's 4 MiB
against 64 KiB is the same case, and the proofs hold for every buffer that one
message fits in.  In `bench`, with numbers modulo 16, a stride of 8 makes ids
collide and one of them 0; a block of 0 is taken as 1; a reserve of 1 is too
small, 5 asks for more than the largest power of two, and 9 wraps; the pilot's block, the sample's block and the
limit each cut the feed short; half of all samples are warmup, so that of three
passes it would be more than the first has and is capped; books allocate from
nothing up to two at a time.

**Fairness.**  `FlatOrderTable` assumes `WF_vars(Step)` and `BranchlessSearch`
`WF_searchVars(SearchNext)`: a loop that has begun goes on, as sequential code does.
Nothing makes the next call come.  `ItchTool` assumes `WF_toolVars(Step)`: the
program goes on until it ends, and nobody need kill it or start it again.  That
is enough for the refill loop although a read may be short, because a read that
is not at the end of the file returns at least a byte.  `Bench` assumes
`WF_vars(Next)`, as it is one thread and no step of it waits.  No other
specification has fairness or a liveness property.

**Deadlock** is checked except where the modelled loop ends: a search that
returned, a feed that is complete, a comparison that has reported, a program
that has ended, a draw that has no result.

**What the properties say.**
- *Table.*  `Reachable`: no slot between a live record's home and its place is
  empty, in the midst of an erase as well.  `NoTombstones`: between calls, the occupied
  slots are those of a table into which only the live keys were inserted, whatever
  was erased before.  `ImplementsTable`: values, answers and the limit.
  `CallsReturn`: no probe runs round for ever.
- *Books.*  `OrderHasLevel` is the unwritten precondition of `Adjust`, which uses
  what `Find` returns without comparing its price.  `SearchesAgree` compares the
  searches on each vector that arises, for prices that are there and that are not.
  `IteratorsValid`, `IndexLocates`, `CountsAgree` relate the two copies each book
  keeps.  Types are parts of the inductive invariants (section 5) and not
  checked for themselves.
- *Converter.*  `Accepted`: the validator takes every feed.  `ReplayGivesBook`:
  within the window the feed read so far gives the book of the exchange, orders
  from before the window with what is left of them included; orders that an update
  cannot carry are not part of it, and until the first message in the window about
  an order the feed is empty (`touched`).  The shadow orders of the converter do
  not occur in it.  `TimeInOrder`: seeding back-dates to the window's
  start and yet time does not go back.  `EmittedIsKnown`: with timestamps in any
  order an order is marked emitted if and only if the feed holds it, so that the
  feed still names only orders it has added; its volumes may be wrong then, because
  messages outside the window change shadows silently, and from the first
  such complaint of the validator on the property says only that there is no
  complaint of another kind.
- *Generator.*  `Accepted`, for mid prices that leave room: nothing in the code
  checks them.  `DeepDrawsDefined`: from three levels and a greatest volume of 1 on
  no draw of a volume, level, order or new volume is from an empty range.
  `SlotsAgree`: swapping the last id into the place of a deleted one keeps the table's slots right.  `NothingEmpty`: what the code indexes without
  checking exists.  `PictureMatchesFeed` ties picture and feed.
- *Differ.*  `ReportRight`: OK only for books that end alike, a difference only
  for books that differ.  `StopsAtDifference` is what the repository's `README.md`
  says, and is refuted.
- *Reader and files.*  `InOrder`: the converter gets the messages, whole and in
  order, however `gzread` cuts them.  `VerdictRight`: what "ok" and "truncated"
  say of the file's end; one stray byte is not an error.  `ReadBeforeWrite`: a
  damaged input changes no file.  `AcceptedIsComplete`: a file that
  `MappedFeed` takes is one whole feed of one run, whatever was there before and
  whoever was killed.  `ExitMeansWritten`: code 0 means that every file is of
  this run, also for a symbol named twice, of whose two states the directory
  feeds the last.  `Ends`.
- *Benchmark.*  `NeverFull`: `length_error` only with a `--reserve` that is too
  small or overflows.  `SamplesRight`: sample s of pass p times updates
  `s * block + 1 ..` on a book that holds the orders live before each, in every
  pass.  `TimedAllocations`: the number that fails a run of a book without
  allocations counts the measured samples and nothing else.  `ProbeAtPeak`.
  `Ends`: the run ends unless `Reserve` is asked for more than the largest power
  of two, in which case it never does.


## 4. Findings

`generator_few_levels`: `PickOrder` prunes by drawing a level from
`size - size / 4 .. size - 1` as soon as a side has more than
`levels_per_side` levels (`src/ob/Feed.cpp:220`).  For two or three levels
`size / 4` is 0 and the range is empty, which
`std::uniform_int_distribution` leaves undefined.  `Generator::Run` accepts
`levels_per_side` of 1 and 2: its check refuses only what is not positive.
`generator` shows that with three levels, and a volume to draw, every draw has a
range.

`launcher_report`: `ReexecWithoutAslr` sets `OB_ASLR_DISABLED`
(`src/ob/RunBench.cpp:62`) before it tries to start without ASLR, and nothing
takes it back when `posix_spawn`, `personality` or `execv` fails.  The program
goes on with ASLR, on macOS after saying so, and the report prints
`aslr: disabled`, because it asks the variable (line 254).

`diff_every_update`: `src/README.md:33` says that `ob_diff` feeds both books,
"compares the two after every message, and stops at a difference".  The loop
compares after every message only the counts of levels, the volumes of the first
levels, the best prices and the id it touched; everything else every `every`
updates (`src/ob/Diff.hpp:122`), by default 1000, and at the end.  A lower level
at a wrong price survives until then, and by then the books may be alike again.

Also seen, and no property's subject:
- `Converter`: a symbol whose orders all rest before the window and that gets no
  message inside it is never seeded; its feed is empty although its book is not.
- `ob_genfeed --max-volume 0` passes Run's checks (`Feed.cpp:75-85`) and draws
  every volume from 1 .. 0 (`Feed.cpp:126`), which is as undefined.  The model of
  `generator` stops at that draw, and `DeepDrawsDefined` excludes it by its
  premise.
- `table_[moved]` puts back the zero record of a deleted order (`Feed.cpp:253`).
  It is harmless, as `SlotsAgree` and `PictureMatchesFeed` show: ids are not
  used twice, so nothing finds it again.
- `--reserve` between 2^62 and 2^63 makes `FlatOrderTable::Reserve` loop for
  ever (`Ends`), and from 2^63 on it makes a table of 16 slots.
- A gzip file cut off between two messages may look complete: zlib answers 0 at
  an unexpected end, and the loop takes that for the end of the file.


## 5. Proofs

Each theorem holds for every value of the constants that meets the named
assumptions of its module.  These say what the code itself is given: `Cap` is a
power of two in the code and here any number from 2 on; a day file has a length
before each message and its buffer holds one message; a feed for the benchmark
is one that the validator accepts; a configuration of the generator is one
that `Generator::Run` accepts; ids are finitely many wherever orders are
counted or volumes added (`IdsAssumption`, `NodesAssumption`).  The other
assumptions give the types of constants, and which of them are positive.

**Flat order table** (`FlatOrderTableProofs`).  `TypeOK` and `Reachable` are not
inductive: that a shift may stop depends on what its scan has passed, and that an
insert may write depends on what its probe has passed.  `IInv` adds
- `UniqueKeys`: an id is in one slot, the one being overwritten aside;
- `SizeCounts`: `size_` is the number of occupied slots and at most half the
  capacity, which is why each probe meets an empty slot;
- `CallShape`: which loop serves which operation;
- `ProbeInv`: a probe has passed only slots that hold other keys;
- `ShiftInv`: the records between hole and scan do not need the hole.

The key step is `ShiftEnd`: the scan meets an empty slot, so by `Reachable` no
record beyond it can have its home before the hole, and by `ShiftInv` no record
within needs the hole; the hole may be emptied.  Lemmas on `Dist` and `Before`
replace modular arithmetic by cyclic order.  Theorems: `Invariance` (of
`IInv`), `TypeCorrect`, `AlwaysReachable`.

`Implementation`: `Spec => ImplementsTable`.  `Contents` maps live slots to a
dictionary; a call takes effect at the step that answers it, an erase at the step
that finds its slot, because from then on that slot counts as dead, and `CallNow`
and `AnswerNow` say that the call has returned.  Probe and shift steps are
stutters; as no call waits during a shift, a shift may change no record.

`LeavesNoTombstones` needs no history: any two tables in which the same ids are
reachable and each once occupy the same slots.  For if one had a slot free that
the other fills, the other's run of occupied slots that ends there would hold
more ids than the first has room for between the run's start and that slot
(pigeonhole).  `InsertOnly`, the table into which the live ids were only
inserted, is such a table.

**Reference book** (`ReferenceBookProofs`).  `Consistent` is `TypeOK`,
`IndexLocates` and `NoEmptyLevel` together.  They need each other: that the level
found by `at()` is there follows from `IndexLocates`, and it is by `NoEmptyLevel`
that an erased level takes no order with it.  Theorems: `Consistency`,
`AtNeverThrows`, `LevelsHaveOrders`.

For the sums, `BookInv` adds `TotalsAdd`: each level's total is the sum of its
orders' volumes.  A sum is the number of *shares*, pairs of an order and a number
up to its volume, so that adding and removing orders is arithmetic of
cardinalities; that the folds of the model compute this number is shown by a
smallest subset at which they would not.  Theorems: `TheCountsAgree`;
`ReferenceBookImplementsBook`, which besides the sums needs that every finite
set of integers has one sorted listing, since `OrderBook` shows its levels as a
sequence and the code keeps them in a map.

**Vector books and map book** (`BooksProofs`), for all four layouts.  `BooksInv`:
- `BookInv` (`Mirrors`): the levels of a side are sorted in the layout's memory
  order, and each level's volume is the number of shares of the orders there.  So
  it is positive while an order is left, and `Adjust` removes a level only with
  its last order;
- `IsHeap`: the map book's nodes that are in use stand for the same levels;
- `IsKept`: a record's node is in use and of the record's side and price.

`EveryOrderHasItsLevel` and `NoIteratorDangles` follow.  For
`AllSearchesAgree` each search is characterised as the number of levels before
the price, which is unique; of the branchless loop a closed form is proved, the
clamp of that number into the window that is left, for the window sizes that
`LevelSearch` computes.  `TheBooksAgree`: both books show the one sorted listing
of the same set of levels.  `VectorBookImplementsBook` needs in addition that the
abstract book's fold over orders counts shares; `MapBookImplementsBook` follows
from both and is listed without a run, because `BooksAgree` and `ImplementsBook`,
which imply it, are checked.

Of the loop as steps, for vectors of every length, `SearchInv` says that the
window is inside the vector and the lower bound is in it or right behind it.
Theorems: `BranchlessIsLowerBound`, `ReadsInside`.

**Converter** (`ItchConverterProofs`), for any ids, shares, prices, window and
messages.  Two facts carry the proofs: what is marked emitted is what the feed
holds, and an id is new to both when an Add names it.  `Inv` is
- `OrdersInv`: the shadow orders are orders of the exchange and do not cross;
- `FeedInv`: the marks;
- `ControlInv`: what the rest of a handler, or of `seed_window`, may rely on: the
  id it brings into use is new, and its order does not cross;
- `OrderInv`, when timestamps do not go back: time in the feed does not go back
  either, and within the window, once seeded, no resting order is unannounced and
  the feed's book is the shadow orders announced so far.

`MarketInv` ties this to the exchange: between messages the shadow orders are, with
side, price and shares, the orders of `market`; during one, `market` is already
what the message makes of them; and `touched` and `window_seeded` agree.  By it
what the exchange does not do, cross its own book, is a fact about the shadow
orders, and what the feed holds is the exchange's book.

Theorems: `Invariance`, `FeedsAreAccepted`, `FeedsReplay`, `MarksAreRight`,
`TimesAreRight`.

**ITCH tool** (`ItchToolProofs`).  The reader, for all files, buffers and
piecings: `Aligned` is the strengthening, the first byte not yet parsed is the
end of the last message delivered, and the end of the file is only seen when the
file was taken whole.  From it `LengthThere` follows, that `BE16` reads the
length of the next message and not two bytes of a payload.  Theorems:
`DeliversInOrder`, `VerdictIsRight`, and for each run of the whole program
`EveryRunReadsRight`.

The files, for all lists of symbols and any number of runs: by `StoreInv` each
file is the beginning of one feed of one run, and the file being written is
written up to the writer's position; by the size in its header a beginning that
is taken is the whole.  `ToolInv`: writing starts after reading has ended well,
and of the names whose last state lies behind the writer each file is this
run's.  Theorems: `FilesAreWhole`, `ExitIsHonest`, `ReadsBeforeItWrites`.

**Generator** (`FeedGeneratorProofs`), for every configuration and outcome of the
draws.  `IInv` is
- `LevelsInv`: the levels of a side are sorted and the sides do not meet;
- `OrdersInv`: each id in a level's vector has its record, which says where;
- `BookInv`: while there is room below the mid price, the validator's book is the
  picture and the verdict is "ok";
- `SeedInv`, `RunInv`: how far seeding has come and which levels have no order
  yet; how far the bids can have sunk, at most a tick with each update;
- `ControlInv`: draws become undefined only below three levels or without a volume.

The loop over taken prices ends because it has more candidates than the side has
levels.  The order moved into a deleted one's slot gets its record's slot
with it, also when both are the same.  Theorems: `Invariance`,
`FeedsAreAccepted`, `DrawsAreDefined`, `SlotsAreRight`, `NothingIsEmpty`,
`PictureIsTheBook`.

**Benchmark** (`BenchProofs`), for all feeds that the validator accepts, all
command lines and all widths of integers.  `ScanInv`: the scan's peak bounds the
number of orders live at every place it has been, and it is over before a book is
made.  `BookInv`: what a book holds is the image, under the stride, of the orders
live at its place in the feed, and its capacity is at least what was wanted.
A set has no more images than members (`ImagesAreFew`); so before an insert the
table has less than `peak` ids, and half the capacity is at least `peak`.
Colliding ids and the id 0 only make the table smaller.  Theorem:
`NeverThrows`.

Further invariants stand on this one: `TaskInv`, warmup belongs to the first
pass and the passes come before the statistics; `PeakInv`, the index kept with
the peak is where it was reached, and a book holds exactly the orders live at its
place if the stride keeps ids apart (`Injective`); `AllocInv`, what was allocated
since warmup is what samples did, whatever each add cost, and what making books
between passes did;
`TicksInv`, the samples taken are those of the passes and blocks behind the
replay.  Theorems: `ProbedAtPeak`, `AllocationsAreTimed`, `SamplesAreRight`.

**Differ** (`DiffFeedProofs`), for all periods, depths, feeds and faults.
Theorem: `ReportIsRight`.  That books which show the
same pass the comparison of the top is all they need of `SameTop`.

**Only model-checked.**  Liveness (`CallsReturn`, `Terminates`, both `Ends`): TLAPS
has no support for fairness and `ENABLED`.  The properties that the two runs of
section 4 refute.


## 6. Not modelled

- Adds of volume zero handed straight to a fast book.  A level goes when its
  volume does, so such an order would be left without a level; the validator
  refuses such feeds and neither tool writes them (`Accepted`).
- 64-bit overflow of level totals, counters and prices, and of the number of
  samples of all passes.  (`Bench` does model it for `Reserve` and the stride.)
- The capacity of the vectors of levels: a side of more than 8192 levels makes one
  grow, in a book that promises no allocations.  `RunBook` reports that; in
  `Bench` it is one of the allocations that an add may make.
- Field decoding, reasons and statistics in the converter; symbols share no state
  beyond the locate table, whose one rule that matters is in `ItchTool`.
- Loss of power: what `fclose` has passed on may not be on disk, since nothing
  calls `fsync`.  `FeedFile` ends with the process.
- An empty feed in the differ, which reports OK at once.
- Clocks, calibration, the choice of the block, histograms, CSV, `Dither`,
  `PrefaultHeap`, `ScrambleHeap`, command lines, printing; the counts of frees
  and bytes; the stub book; template dispatch; scripts and results.


## 7. Plan

Modelled, checked and proved is what sections 2, 3 and 5 list.  What would add
most:

1. The validator as a specification of its own, with the sums it compares every
   so many updates, and that it accepts the feeds `Validate` accepts.
2. Levels with the capacity of `LEVEL_RESERVE`, as the cause of the allocations
   that `Bench` counts.
3. What holds of the launcher's report where no system call fails.
