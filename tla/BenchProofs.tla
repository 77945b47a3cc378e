----------------------------- MODULE BenchProofs -----------------------------
(***************************************************************************)
(* What ob_bench measures, for every feed that the validator accepts and   *)
(* every stride, block, limit, number of passes and allocations of a book. *)
(*                                                                         *)
(* A book that is sized by the peak of live orders never throws at half    *)
(* load: the scan's peak bounds every set of live orders, the table holds  *)
(* at most the images of the live orders under the stride, and a set has   *)
(* no more images than members.  If the stride keeps ids apart, the table  *)
(* holds exactly these images; with that, the statistics at the peak are   *)
(* those of as many orders as the peak, and each sample times its block on *)
(* the right book.  The allocations reported are those of the samples.     *)
(***************************************************************************)
EXTENDS Bench, FiniteSetTheorems, TLAPS

Given == feed \in Feeds /\ opt \in Options

(* The peak is at least the number of live orders wherever the scan has    *)
(* been, and the scan is over before a book is made.                       *)
ScanInv ==
    /\ at \in 0..Count
    /\ live = Cardinality(feed.live[at])
    /\ peak \in Nat /\ index \in Nat
    /\ \A n \in 0..at : Cardinality(feed.live[n]) <= peak
    /\ pc # "scan" => at = Count

(* A book that is used is large enough, and what it holds is live.         *)
BookInv ==
    /\ cap \in Nat
    /\ pc \in {"warmup", "replay"} =>
         /\ Flat => cap >= Wanted
         /\ next \in 0..Count
         /\ table \subseteq LiveIds(next)

Inv == Given /\ ScanInv /\ BookInv /\ NeverFull

-----------------------------------------------------------------------------
(* The arithmetic of blocks.                                               *)
LEMMA WholeBlocks ==
    ASSUME NEW n \in Nat, NEW b \in Nat \ {0}, NEW w \in Nat, w <= n \div b
    PROVE  w * b <= n
<1>1. (n \div b) * b <= n
    BY SMT
<1>2. n \div b \in Nat
    BY SMT
<1>3. w * b <= (n \div b) * b
    BY <1>2, SMT
<1> QED
    BY <1>1, <1>2, <1>3, SMT

LEMMA Remainder ==
    ASSUME NEW n \in Nat, NEW b \in Nat \ {0}
    PROVE  n - (n % b) \in 0..n
BY SMT

LEMMA Half ==
    ASSUME NEW n \in Nat
    PROVE  n \div 2 \in Nat /\ n \div 2 <= n
BY SMT

LEMMA SmallerIs ==
    ASSUME NEW a \in Nat, NEW b \in Nat
    PROVE  Smaller(a, b) \in Nat /\ Smaller(a, b) <= a /\ Smaller(a, b) <= b
BY DEF Smaller

(* What feeds and options are, in the form in which the steps use it.      *)
LEMMA GivenShape ==
    ASSUME Given
    PROVE  /\ IsFeed(feed) /\ IsOptions(opt)
           /\ Count \in Nat /\ Count <= feed.count
           /\ feed.count \in Nat
<1>1. IsFeed(feed) /\ IsOptions(opt)
    BY FeedsAssumption, OptionsAssumption, Zenon DEF Given
<1>2. feed.count \in Nat /\ opt.limit \in Nat
    BY <1>1 DEF IsFeed, IsOptions
<1> QED
    BY <1>1, <1>2, SMT DEF Count

LEMMA BlockIs ==
    ASSUME Given
    PROVE  Block \in Nat \ {0}
BY GivenShape DEF IsOptions, Block

LEMMA LiveFinite ==
    ASSUME Given, NEW n \in 0..Count
    PROVE  /\ IsFiniteSet(feed.live[n])
           /\ Cardinality(feed.live[n]) \in Nat
<1>1. n = 0 \/ n \in 1..feed.count
    BY GivenShape, SMT
<1>2. IsFiniteSet(feed.live[n])
    BY <1>1, GivenShape, FS_EmptySet DEF IsFeed
<1> QED
    BY <1>2, FS_CardinalityType

(* No book is given more updates than the run replays.                     *)
LEMMA UntilInside ==
    ASSUME Given, index \in Nat, pc \in {"warmup", "replay"}
    PROVE  Until <= Count /\ Until \in Int
<1>0. Count \in Nat /\ Block \in Nat \ {0}
    BY GivenShape, BlockIs
<1>p. Passes \in Nat /\ 0 \notin 1..Passes /\ 0 # Passes + 1
    BY GivenShape DEF IsOptions, Passes
<1>s. {PilotMax, PilotBlock, WarmupEvery} \subseteq Nat \ {0}
    BY SizesAssumption
<1>1. PilotCount \in Nat /\ PilotCount <= Count
    BY <1>0, <1>s, SmallerIs DEF PilotCount
<1>2. PilotCount - (PilotCount % PilotBlock) \in 0..PilotCount
    BY <1>1, <1>s, Remainder
<1>3. Count - (Count % Block) \in 0..Count
    BY <1>0, Remainder
<1>4. Smaller(index + 1, Count) \in Nat /\ Smaller(index + 1, Count) <= Count
    BY <1>0, SmallerIs, SMT
<1>5. Count \div 2 \in Nat /\ Count \div 2 <= Count
    BY <1>0, Half
<1>6. End(task) \in Nat /\ End(task) <= Count
    <2>1. CASE task = 0
        <3>1. End(task) = PilotCount - (PilotCount % PilotBlock)
            BY <2>1, <1>p DEF End
        <3> QED
            BY <3>1, <1>0, <1>1, <1>2
    <2>2. CASE task # 0 /\ task \in 1..Passes
        <3>1. End(task) = Count - (Count % Block)
            BY <2>2, <1>p DEF End
        <3> QED
            BY <3>1, <1>0, <1>3
    <2>3. CASE task # 0 /\ task \notin 1..Passes /\ task = Passes + 1
        BY <2>3, <1>4 DEF End
    <2>4. CASE task # 0 /\ task \notin 1..Passes /\ task # Passes + 1
        BY <2>4, <1>5 DEF End
    <2> QED
        BY <2>1, <2>2, <2>3, <2>4
<1>7. Warmup * Block <= Count /\ Warmup * Block \in Nat
    <2>2. PerPass \in Nat
        BY <1>0, SMT DEF PerPass
    <2>3. (PerPass * Passes) \in Nat
        BY <1>p, <2>2, SMT
    <2>4. (PerPass * Passes) \div WarmupEvery \in Nat
        BY <2>3, <1>s, SMT
    <2>5. Warmup \in Nat /\ Warmup <= Count \div Block
        BY <2>2, <2>4, SmallerIs DEF Warmup, PerPass
    <2>6. Warmup * Block <= Count
        BY <2>5, <1>0, WholeBlocks
    <2>7. Warmup * Block \in Nat
        BY <2>5, <1>0, SMT
    <2> QED
        BY <2>6, <2>7
<1> QED
    BY <1>0, <1>6, <1>7 DEF Until

(* The table holds no more ids than there are live orders.                 *)
LEMMA ImagesAreFew ==
    ASSUME Given, NEW n \in 0..Count
    PROVE  /\ IsFiniteSet(LiveIds(n))
           /\ Cardinality(LiveIds(n)) <= Cardinality(feed.live[n])
<1> DEFINE S == feed.live[n]
           f == [id \in S |-> Strided(id)]
<1>1. f \in Surjection(S, LiveIds(n))
    BY DEF Surjection, LiveIds
<1>2. IsFiniteSet(S)
    BY LiveFinite
<1> QED
    BY <1>1, <1>2, FS_Surjection

(* What the next update does to the live orders.                           *)
LEMMA LiveNext ==
    ASSUME Given, NEW n \in 0..Count, n < Count
    PROVE  LET u == feed.updates[n + 1]
           IN  /\ u.type \in {"Add", "Modify", "Delete"}
               /\ u.volume \in Nat \ {0}
               /\ n + 1 \in 0..Count
               /\ u.type = "Add" => /\ u.id \notin feed.live[n]
                                    /\ feed.live[n + 1] = feed.live[n] \cup {u.id}
               /\ u.type = "Modify" => feed.live[n + 1] = feed.live[n]
               /\ u.type = "Delete" => /\ u.id \in feed.live[n]
                                       /\ feed.live[n + 1] = feed.live[n] \ {u.id}
<1>1. n + 1 \in 1..feed.count /\ n + 1 \in 0..Count /\ (n + 1) - 1 = n
    BY GivenShape, SMT
<1>2. IsFeed(feed)
    BY GivenShape
<1> QED
    BY <1>1, <1>2 DEF IsFeed

-----------------------------------------------------------------------------
(* Given what a replaying book holds, the next update throws only if the   *)
(* book is too small, and leaves live orders in it otherwise.              *)
LEMMA HoldsLive ==
    ASSUME Given, NEW n \in 0..Count, n < Count, next = n,
           table \subseteq LiveIds(n)
    PROVE  Held(Current) \subseteq LiveIds(n + 1)
<1> DEFINE u == feed.updates[n + 1]
<1>1. Current = u
    BY DEF Current
<1>2. /\ u.type \in {"Add", "Modify", "Delete"}
      /\ u.type = "Add" => feed.live[n + 1] = feed.live[n] \cup {u.id}
      /\ u.type = "Modify" => feed.live[n + 1] = feed.live[n]
      /\ u.type = "Delete" => feed.live[n + 1] = feed.live[n] \ {u.id}
    BY LiveNext
<1>3. CASE u.type = "Add"
    <2>1. table \cup {Strided(u.id)} \subseteq LiveIds(n + 1)
        BY <1>2, <1>3 DEF LiveIds
    <2> QED
        BY <2>1, <1>1, <1>3 DEF Held
<1>4. CASE u.type = "Modify"
    <2>1. LiveIds(n + 1) = LiveIds(n)
        BY <1>2, <1>4 DEF LiveIds
    <2> QED
        BY <2>1, <1>1, <1>4 DEF Held, Inserts
<1>5. CASE u.type = "Delete"
    <2>1. table \ {Strided(u.id)} \subseteq LiveIds(n + 1)
        BY <1>2, <1>5 DEF LiveIds
    <2> QED
        BY <2>1, <1>1, <1>5 DEF Held, Inserts
<1> QED
    BY <1>2, <1>3, <1>4, <1>5

LEMMA FullMeansSmall ==
    ASSUME Inv, pc \in {"warmup", "replay"}, next < Count, Inserts(Current), Full
    PROVE  ~ Sized
<1> DEFINE n == next + 1
<1> SUFFICES ASSUME Sized PROVE FALSE
    OBVIOUS
<1>1. /\ Given /\ next \in 0..Count /\ table \subseteq LiveIds(next)
      /\ cap \in Nat /\ cap >= Wanted /\ at = Count
      /\ peak \in Nat
    BY DEF Inv, ScanInv, BookInv, Full
<1>2. n \in 0..Count
    BY <1>1, GivenShape
<1>3. /\ table \cup {Strided(Current.id)} \subseteq LiveIds(n)
      /\ Strided(Current.id) \notin table
    BY <1>1, HoldsLive DEF Held, Inserts
<1>4. IsFiniteSet(LiveIds(n)) /\ Cardinality(LiveIds(n)) <= Cardinality(feed.live[n])
    BY <1>1, <1>2, ImagesAreFew
<1>5. Cardinality(feed.live[n]) \in Nat /\ Cardinality(feed.live[n]) <= peak
    BY <1>1, <1>2, LiveFinite DEF Inv, ScanInv
<1>6. IsFiniteSet(table) /\ Cardinality(table) \in Nat
    BY <1>3, <1>4, FS_Subset, FS_CardinalityType
<1>7. Cardinality(table) + 1 <= Cardinality(LiveIds(n))
    <2>1. /\ IsFiniteSet(table \cup {Strided(Current.id)})
          /\ Cardinality(table \cup {Strided(Current.id)}) = Cardinality(table) + 1
        BY <1>3, <1>6, FS_AddElement
    <2>2. Cardinality(table \cup {Strided(Current.id)}) <= Cardinality(LiveIds(n))
        BY <1>3, <1>4, FS_Subset
    <2> QED
        BY <2>1, <2>2
<1>8. Cardinality(LiveIds(n)) \in Nat
    BY <1>4, FS_CardinalityType
<1>9. Reserve \in Nat /\ Reserve >= peak /\ 2 * Reserve < Word
    BY <1>1, GivenShape DEF Sized, Reserve, IsOptions
<1>10. Wanted = 2 * Reserve
    BY <1>9, SizesAssumption, SMT DEF Wanted
<1>11. Cardinality(table) = cap \div 2
    BY DEF Full
<1> QED
    BY <1>1, <1>4, <1>5, <1>6, <1>7, <1>8, <1>9, <1>10, <1>11, SMT

-----------------------------------------------------------------------------
LEMMA InitInv == Init => Inv
<1> SUFFICES ASSUME Init PROVE Inv
    OBVIOUS
<1>1. Given
    BY DEF Init, Given
<1>2. IsFeed(feed) /\ Count \in Nat
    BY <1>1, GivenShape
<1>3. feed.live[0] = {} /\ Cardinality({}) = 0
    BY <1>2, FS_EmptySet DEF IsFeed
<1>4. ScanInv
    <2>1. at = 0 /\ live = 0 /\ peak = 0 /\ index = 0 /\ pc = "scan"
        BY DEF Init
    <2>2. \A n \in 0..0 : n = 0
        BY SMT
    <2>3. \A n \in 0..at : Cardinality(feed.live[n]) <= peak
        BY <1>3, <2>1, <2>2
    <2> QED
        BY <1>2, <1>3, <2>1, <2>3 DEF ScanInv
<1> QED
    BY <1>1, <1>4 DEF Init, Inv, BookInv, NeverFull

(* What all steps but those of the scan leave alone.                       *)
LEMMA KeptScan ==
    ASSUME Inv, UNCHANGED <<feed, opt, scanVars>>, pc # "scan" \/ at = Count
    PROVE  Given' /\ ScanInv' /\ (Sized' = Sized) /\ (Flat' = Flat) /\ Count' = Count /\ Wanted' = Wanted
BY DEF Inv, Given, ScanInv, scanVars, Sized, Reserve, Flat, Count, Wanted

LEMMA RemoveOne ==
    ASSUME NEW S, NEW x \in S, IsFiniteSet(S)
    PROVE  Cardinality(S \ {x}) = Cardinality(S) - 1
BY FS_RemoveElement

LEMMA ScanStep ==
    ASSUME Inv, Scan, UNCHANGED <<feed, opt>>
    PROVE  Inv'
<1> DEFINE u == feed.updates[at + 1]
<1>1. /\ Given /\ at \in 0..Count /\ at < Count /\ pc = "scan"
      /\ live = Cardinality(feed.live[at]) /\ peak \in Nat /\ index \in Nat
      /\ Count \in Nat
    BY GivenShape DEF Inv, ScanInv, Scan
<1>2. Given' /\ Count' = Count /\ feed' = feed
    BY <1>1 DEF Given, Count
<1>3. IsFiniteSet(feed.live[at]) /\ live \in Nat
    BY <1>1, LiveFinite
<1>4. at + 1 \in 0..Count
    BY <1>1, LiveNext
<1>5. live' = Cardinality(feed.live[at + 1])
    <2>1. live' = LiveAfter(u)
        BY DEF Scan
    <2>2. u.volume \in Nat \ {0} /\ u.type \in {"Add", "Modify", "Delete"}
        BY <1>1, LiveNext
    <2>3. CASE u.type = "Add"
        <3>1. u.id \notin feed.live[at] /\ feed.live[at + 1] = feed.live[at] \cup {u.id}
            BY <1>1, <2>3, LiveNext
        <3>2. LiveAfter(u) = live + 1
            BY <2>3 DEF LiveAfter
        <3> QED
            BY <3>1, <3>2, <2>1, <1>1, <1>3, FS_AddElement
    <2>4. CASE u.type = "Modify"
        <3>1. feed.live[at + 1] = feed.live[at]
            BY <1>1, <2>4, LiveNext
        <3>2. LiveAfter(u) = live
            BY <2>2, <2>4 DEF LiveAfter
        <3> QED
            BY <3>1, <3>2, <2>1, <1>1
    <2>5. CASE u.type = "Delete"
        <3>1. u.id \in feed.live[at] /\ feed.live[at + 1] = feed.live[at] \ {u.id}
            BY <1>1, <2>5, LiveNext
        <3>2. LiveAfter(u) = live - 1
            BY <2>5 DEF LiveAfter
        <3> QED
            <4> HIDE DEF u
            <4>1. Cardinality(feed.live[at] \ {u.id}) = Cardinality(feed.live[at]) - 1
                BY <3>1, <1>3, RemoveOne, Zenon
            <4> QED
                BY <4>1, <3>1, <3>2, <2>1, <1>1 DEF u
    <2> QED
        BY <2>2, <2>3, <2>4, <2>5
<1>6. live' \in Nat
    BY <1>2, <1>4, <1>5, <1>1, LiveFinite
<1>7. /\ peak' \in Nat /\ index' \in Nat
      /\ live' <= peak' /\ peak <= peak'
      /\ at' = at + 1 /\ pc' = "scan"
    BY <1>1, <1>6 DEF Scan
<1>8. \A n \in 0..at' : Cardinality(feed.live[n]) <= peak'
    <2> SUFFICES ASSUME NEW n \in 0..at' PROVE Cardinality(feed.live[n]) <= peak'
        OBVIOUS
    <2>1. CASE n = at + 1
        BY <2>1, <1>5, <1>7
    <2>2. CASE n # at + 1
        <3>1. n \in 0..at /\ n \in 0..Count
            BY <2>2, <1>1, <1>7
        <3>2. Cardinality(feed.live[n]) <= peak /\ Cardinality(feed.live[n]) \in Nat
            BY <3>1, <1>1, LiveFinite DEF Inv, ScanInv
        <3> QED
            BY <3>2, <1>1, <1>7, SMT
    <2> QED
        BY <2>1, <2>2
<1>9. ScanInv'
    BY <1>1, <1>2, <1>4, <1>5, <1>7, <1>8 DEF ScanInv
<1> QED
    BY <1>2, <1>7, <1>9 DEF Inv, BookInv, NeverFull, Scan, bookVars

(* A step that leaves the book aside, or begins another one.               *)
LEMMA OtherStep ==
    ASSUME Inv, UNCHANGED <<feed, opt, scanVars>>, pc # "scan" \/ at = Count,
           cap' \in Nat, pc' \notin {"warmup", "replay", "failed"}
    PROVE  Inv'
BY KeptScan DEF Inv, BookInv, NeverFull

LEMMA EnterStep ==
    ASSUME Inv, UNCHANGED <<feed, opt, scanVars>>, pc # "scan" \/ at = Count,
           NEW t, Enter(t)
    PROVE  Inv'
BY OtherStep, SizesAssumption DEF Enter

LEMMA BookStep ==
    ASSUME Inv, UNCHANGED <<feed, opt>>,
           Grow \/ Build \/ Apply \/ Refuse \/ WarmedUp
    PROVE  Inv'
<1>0. Given /\ cap \in Nat /\ Count \in Nat /\ index \in Nat
    BY GivenShape DEF Inv, BookInv, ScanInv
<1>k. ASSUME UNCHANGED scanVars, pc # "scan"
      PROVE  Given' /\ ScanInv' /\ (Sized' = Sized) /\ (Flat' = Flat) /\ Count' = Count /\ Wanted' = Wanted
    BY <1>k, KeptScan
<1>1. CASE Grow
    <2>1. cap' = (2 * cap) % Word
        BY <1>1 DEF Grow, Doubled
    <2>2. cap' \in Nat
        BY <2>1, <1>0, SizesAssumption, SMT
    <2> QED
        BY <1>1, <2>2, OtherStep DEF Grow
<1>2. CASE Build
    <2>1. pc' \in {"warmup", "replay"} /\ cap' = cap /\ (Flat => cap >= Wanted) /\ next' = 0 /\ table' = {}
        BY <1>2 DEF Build
    <2>2. Given' /\ ScanInv' /\ (Flat' = Flat) /\ Count' = Count /\ Wanted' = Wanted
        BY <1>2, <1>k DEF Build
    <2> QED
        BY <1>0, <2>1, <2>2 DEF Inv, BookInv, NeverFull
<1>3. CASE Apply
    <2>1. pc \in {"warmup", "replay"} /\ pc' = pc /\ cap' = cap /\ next < Until
        BY <1>3 DEF Apply, Replaying
    <2>2. Given' /\ ScanInv' /\ (Flat' = Flat) /\ Count' = Count /\ Wanted' = Wanted
        BY <1>3, <2>1, <1>k DEF Apply
    <2>3. next \in 0..Count /\ table \subseteq LiveIds(next) /\ (Flat => cap >= Wanted)
        BY <2>1 DEF Inv, BookInv
    <2>4. next < Count
        BY <1>0, <2>1, <2>3, UntilInside
    <2>5. table' \subseteq LiveIds(next + 1) /\ next' = next + 1
        BY <1>0, <1>3, <2>3, <2>4, HoldsLive DEF Apply
    <2>6. next' \in 0..Count'
        BY <1>0, <2>2, <2>3, <2>4, <2>5, SMT
    <2>7. table' \subseteq LiveIds(next)'
        BY <2>5 DEF LiveIds, Strided
    <2> QED
        BY <1>0, <2>1, <2>2, <2>3, <2>6, <2>7 DEF Inv, BookInv, NeverFull
<1>4. CASE Refuse
    <2>1. /\ pc \in {"warmup", "replay"} /\ pc' = "failed" /\ cap' = cap /\ next < Until
          /\ Inserts(Current) /\ Full
        BY <1>4 DEF Refuse, Replaying, bookVars
    <2>2. Given' /\ ScanInv' /\ Sized' = Sized
        BY <1>4, <2>1, <1>k DEF Refuse
    <2>3. next \in 0..Count
        BY <2>1 DEF Inv, BookInv
    <2>4. ~ Sized
        BY <1>0, <2>1, <2>3, UntilInside, FullMeansSmall
    <2> QED
        BY <1>0, <2>1, <2>2, <2>4 DEF Inv, BookInv, NeverFull
<1>5. CASE WarmedUp
    <2>1. pc = "warmup" /\ pc' = "replay" /\ UNCHANGED <<cap, next, table, scanVars>>
        BY <1>5 DEF WarmedUp, bookVars
    <2>2. Given' /\ ScanInv' /\ (Flat' = Flat) /\ Count' = Count /\ Wanted' = Wanted
        BY <2>1, <1>k
    <2> QED
        BY <2>1, <2>2 DEF Inv, BookInv, NeverFull, LiveIds, Strided
<1> QED
    BY <1>1, <1>2, <1>3, <1>4, <1>5

LEMMA NextInv == Inv /\ [Next]_vars => Inv'
<1> SUFFICES ASSUME Inv, [Next]_vars PROVE Inv'
    OBVIOUS
<1>1. CASE Scan /\ UNCHANGED <<feed, opt>>
    BY <1>1, ScanStep
<1>2. CASE Scanned /\ UNCHANGED <<feed, opt>>
    BY <1>2, EnterStep DEF Scanned
<1>3. CASE (Grow \/ Build \/ Apply \/ Refuse \/ WarmedUp) /\ UNCHANGED <<feed, opt>>
    BY <1>3, BookStep
<1>4. CASE PilotDone /\ UNCHANGED <<feed, opt>>
    BY <1>4, EnterStep DEF PilotDone, Finished
<1>5. CASE PassDone /\ UNCHANGED <<feed, opt>>
    <2>1. PICK p \in 1..Passes - 1 : Finished(p) /\ Enter(p + 1)
        BY <1>5 DEF PassDone
    <2> QED
        BY <1>5, <2>1, EnterStep DEF PassDone, Finished
<1>6. CASE PassesDone /\ UNCHANGED <<feed, opt>>
    <2>1. pc # "scan" /\ UNCHANGED scanVars
        BY <1>6 DEF PassesDone, Finished
    <2>2. CASE HasStats
        BY <1>6, <2>1, <2>2, EnterStep DEF PassesDone
    <2>3. CASE ~ HasStats
        <3>1. pc' = "done" /\ cap' = cap
            BY <1>6, <2>3 DEF PassesDone
        <3>2. cap \in Nat
            BY DEF Inv, BookInv
        <3> QED
            BY <1>6, <2>1, <3>1, <3>2, OtherStep
    <2> QED
        BY <2>2, <2>3
<1>7. CASE PeakDone /\ UNCHANGED <<feed, opt>>
    BY <1>7, EnterStep DEF PeakDone, Finished
<1>8. CASE HalfDone /\ UNCHANGED <<feed, opt>>
    <2>1. cap \in Nat
        BY DEF Inv, BookInv
    <2> QED
        BY <1>8, <2>1, OtherStep DEF HalfDone, Finished, bookVars
<1>9. CASE OutOfMemory /\ UNCHANGED <<feed, opt>>
    <2>1. cap \in Nat
        BY DEF Inv, BookInv
    <2> QED
        BY <1>9, <2>1, OtherStep DEF OutOfMemory, Replaying, bookVars
<1>10. CASE UNCHANGED vars
    BY <1>10 DEF vars, scanVars, bookVars, Inv, Given, ScanInv, BookInv, NeverFull, Sized,
                Reserve, Flat, Count, Wanted, LiveIds, Strided
<1> QED
    BY <1>1, <1>2, <1>3, <1>4, <1>5, <1>6, <1>7, <1>8, <1>9, <1>10 DEF Next

(* The inductive invariant.                                                *)
THEOREM Invariance == Spec => []Inv
<1> QED
    BY InitInv, NextInv, PTL DEF Spec

(* No book that is sized by the peak throws at half load (FlatOrderTable's *)
(* length_error, OrderTable.hpp), for every feed and command line.         *)
THEOREM NeverThrows == Spec => []NeverFull
<1>1. Inv => NeverFull
    BY DEF Inv
<1> QED
    BY Invariance, <1>1, PTL


-----------------------------------------------------------------------------
(* The tasks come in order, and warmup belongs to the first pass.          *)
TaskInv ==
    /\ pc \in {"scan", "build", "warmup", "replay", "done", "failed", "exhausted"}
    /\ task \in 0..Passes + 2
    /\ pc = "scan" => task = 0
    /\ pc = "warmup" => task = 1
    /\ pc = "done" => task >= Passes

LEMMA PassesIs ==
    ASSUME Given
    PROVE  Passes \in Nat \ {0}
BY GivenShape DEF IsOptions, Passes

LEMMA TaskStep == Inv /\ TaskInv /\ [Next]_vars => TaskInv'
<1> SUFFICES ASSUME Inv, TaskInv, [Next]_vars PROVE TaskInv'
    OBVIOUS
<1>1. Passes \in Nat \ {0}
    BY PassesIs DEF Inv
<1>2. Passes' = Passes
    BY DEF Next, vars, Passes
<1>3. CASE UNCHANGED <<pc, task>>
    BY <1>2, <1>3 DEF TaskInv
<1>4. ASSUME NEW t \in 0..Passes + 2, Enter(t) PROVE TaskInv'
    BY <1>1, <1>2, <1>4 DEF TaskInv, Enter
<1>5. CASE Scan \/ Grow \/ Apply
    BY <1>3, <1>5 DEF Scan, Grow, Apply
<1>6. CASE Scanned \/ PilotDone \/ PeakDone
    BY <1>1, <1>4, <1>6 DEF Scanned, PilotDone, PeakDone
<1>7. CASE Build
    <2>1. pc' = (IF task = 1 THEN "warmup" ELSE "replay") /\ task' = task
        BY <1>7 DEF Build
    <2> QED
        BY <1>1, <1>2, <2>1 DEF TaskInv
<1>10. CASE WarmedUp \/ Refuse \/ OutOfMemory
    <2>1. pc' \in {"replay", "failed", "exhausted"} /\ task' = task
        BY <1>10 DEF WarmedUp, Refuse, OutOfMemory
    <2> QED
        BY <1>2, <2>1 DEF TaskInv
<1>11. CASE HalfDone
    <2>1. pc' = "done" /\ task' = task /\ task = Passes + 2
        BY <1>11 DEF HalfDone, Finished
    <2> QED
        BY <1>1, <1>2, <2>1 DEF TaskInv
<1>8. CASE PassDone
    BY <1>1, <1>4, <1>8 DEF PassDone
<1>9. CASE PassesDone
    <2>1. task = Passes /\ (Enter(Passes + 1) \/ (pc' = "done" /\ task' = task))
        BY <1>9 DEF PassesDone, Finished
    <2>2. CASE Enter(Passes + 1)
        BY <1>1, <1>4, <2>2
    <2>3. CASE pc' = "done" /\ task' = task
        BY <1>1, <1>2, <2>1, <2>3 DEF TaskInv
    <2> QED
        BY <2>1, <2>2, <2>3
<1> QED
    BY <1>3, <1>5, <1>6, <1>7, <1>8, <1>9, <1>10, <1>11 DEF Next, vars

-----------------------------------------------------------------------------
(* The table statistics: the index is that of an update which reaches the  *)
(* peak, and while the stride keeps ids apart a book holds all that lives. *)
PeakInv ==
    /\ peak = 0 \/ (index \in 0..at - 1 /\ Cardinality(feed.live[index + 1]) = peak)
    /\ Injective /\ pc \in {"warmup", "replay"} => table = LiveIds(next)
    /\ Injective /\ HasStats /\ (task = Passes + 2 \/ pc = "done") => probed = peak

LEMMA HoldsAll ==
    ASSUME Given, Injective, NEW n \in 0..Count, n < Count, next = n, table = LiveIds(n)
    PROVE  Held(Current) = LiveIds(n + 1)
<1> DEFINE u == feed.updates[n + 1]
<1>1. Current = u
    BY DEF Current
<1>2. /\ u.type \in {"Add", "Modify", "Delete"}
      /\ u.type = "Add" => /\ u.id \notin feed.live[n]
                           /\ feed.live[n + 1] = feed.live[n] \cup {u.id}
      /\ u.type = "Modify" => feed.live[n + 1] = feed.live[n]
      /\ u.type = "Delete" => /\ u.id \in feed.live[n]
                              /\ feed.live[n + 1] = feed.live[n] \ {u.id}
    BY LiveNext
<1>3. feed.live[n] \subseteq Ids /\ feed.live[n + 1] \subseteq Ids
    <2>1. n \in 0..feed.count /\ n + 1 \in 0..feed.count
        BY GivenShape
    <2> QED
        BY <2>1 DEF Ids
<1>4. CASE u.type = "Add"
    <2>1. u.id \in Ids /\ Strided(u.id) # 0 /\ Strided(u.id) \notin LiveIds(n)
        BY <1>2, <1>3, <1>4 DEF Injective, LiveIds
    <2>2. Held(u) = table \cup {Strided(u.id)}
        BY <1>4, <2>1 DEF Held, Inserts
    <2>3. LiveIds(n + 1) = LiveIds(n) \cup {Strided(u.id)}
        BY <1>2, <1>4 DEF LiveIds
    <2> QED
        BY <1>1, <2>2, <2>3
<1>5. CASE u.type = "Modify"
    BY <1>1, <1>2, <1>5 DEF Held, Inserts, LiveIds
<1>6. CASE u.type = "Delete"
    <2>1. LiveIds(n + 1) = LiveIds(n) \ {Strided(u.id)}
        BY <1>2, <1>3, <1>6 DEF Injective, LiveIds
    <2> QED
        BY <1>1, <1>6, <2>1 DEF Held, Inserts
<1> QED
    BY <1>2, <1>4, <1>5, <1>6

LEMMA ImagesAreAsMany ==
    ASSUME Given, Injective, NEW n \in 0..Count
    PROVE  Cardinality(LiveIds(n)) = Cardinality(feed.live[n])
<1> DEFINE S == feed.live[n]
           f == [id \in S |-> Strided(id)]
<1>1. S \subseteq Ids
    BY GivenShape DEF Ids
<1>2. f \in Bijection(S, LiveIds(n))
    BY <1>1 DEF Bijection, Injection, IsInjective, Surjection, Injective, LiveIds
<1> QED
    BY <1>2, LiveFinite, FS_Bijection DEF ExistsBijection

(* What a step of the passes or the statistics leaves alone.               *)
LEMMA Unmoved ==
    ASSUME UNCHANGED <<feed, opt>>
    PROVE  /\ Injective' = Injective /\ HasStats' = HasStats /\ Passes' = Passes
           /\ Count' = Count /\ PerPass' = PerPass /\ Block' = Block
           /\ \A n : LiveIds(n)' = LiveIds(n)
BY DEF Injective, HasStats, Passes, Count, PerPass, Block, Ids, LiveIds, Strided

LEMMA ScanReachesPeak ==
    ASSUME Inv, TaskInv, PeakInv, Scan, UNCHANGED <<feed, opt>>
    PROVE  PeakInv'
<1>0. UNCHANGED <<feed, opt>>
    OBVIOUS
<1>1. /\ Given /\ at \in Nat /\ at < Count /\ peak \in Nat /\ index \in Nat
      /\ pc = "scan" /\ pc' = "scan" /\ at' = at + 1 /\ task' = task /\ task = 0
      /\ Passes \in Nat \ {0}
    BY GivenShape, PassesIs DEF Inv, ScanInv, TaskInv, Scan
<1>2. live' = Cardinality(feed.live[at + 1])
    <2>1. Inv'
        BY ScanStep
    <2> QED
        BY <1>0, <1>1, <2>1 DEF Inv, ScanInv
<1>3. peak' = 0 \/ (index' \in 0..at' - 1 /\ Cardinality(feed.live[index' + 1]) = peak')
    <2>1. CASE live' > peak
        BY <1>1, <1>2, <2>1 DEF Scan
    <2>2. CASE ~ (live' > peak)
        <3>1. peak' = peak /\ index' = index
            BY <2>2 DEF Scan
        <3> QED
            BY <1>1, <3>1 DEF PeakInv
    <2> QED
        BY <2>1, <2>2
<1>4. (PeakInv)' <=>
        /\ peak' = 0 \/ (index' \in 0..at' - 1 /\ Cardinality(feed'.live[index' + 1]) = peak')
        /\ Injective' /\ pc' \in {"warmup", "replay"} => table' = LiveIds(next)'
        /\ Injective' /\ HasStats' /\ (task' = Passes' + 2 \/ pc' = "done") => probed' = peak'
    BY DEF PeakInv
<1>5. Passes' = Passes /\ ~ (task' = Passes + 2)
    BY <1>0, <1>1, Unmoved
<1> QED
    BY <1>0, <1>1, <1>3, <1>4, <1>5

LEMMA PeakStep == Inv /\ TaskInv /\ PeakInv /\ [Next]_vars => PeakInv'
<1> SUFFICES ASSUME Inv, TaskInv, PeakInv, [Next]_vars PROVE PeakInv'
    OBVIOUS
<1>0. UNCHANGED <<feed, opt>>
    BY DEF Next, vars
<1>1. Given /\ Passes \in Nat \ {0} /\ Count \in Nat
    BY PassesIs, GivenShape DEF Inv
<1>2. /\ Injective' = Injective /\ HasStats' = HasStats /\ Passes' = Passes
      /\ \A n : LiveIds(n)' = LiveIds(n)
    BY <1>0, Unmoved
<1>3. CASE Scan
    BY <1>0, <1>3, ScanReachesPeak
<1>4. ASSUME UNCHANGED scanVars,
             pc' \in {"warmup", "replay"} => (Injective => table' = LiveIds(next')),
             Injective /\ HasStats /\ (task' = Passes + 2 \/ pc' = "done") => probed' = peak
      PROVE  PeakInv'
    <2>1. LiveIds(next)' = LiveIds(next')
        BY <1>0 DEF LiveIds, Strided
    <2> QED
        BY <1>0, <1>2, <1>4, <2>1 DEF PeakInv, scanVars
<1>5. CASE UNCHANGED <<scanVars, pc, task, table, next, probed>>
    BY <1>4, <1>5 DEF PeakInv
<1>6. CASE Scanned \/ Grow \/ PilotDone
    BY <1>1, <1>4, <1>6 DEF PeakInv, Scanned, Grow, PilotDone, Enter, scanVars
<1>7. CASE Build
    <2>1. table' = {} /\ next' = 0 /\ pc = "build" /\ pc' # "done" /\ UNCHANGED <<scanVars, task, probed>>
        BY <1>7 DEF Build
    <2>2. LiveIds(0) = {}
        BY <1>1, GivenShape DEF IsFeed, LiveIds
    <2> QED
        BY <1>4, <2>1, <2>2 DEF PeakInv
<1>8. CASE Apply
    <2>1. /\ pc \in {"warmup", "replay"} /\ pc' = pc /\ next < Until
          /\ table' = Held(Current) /\ next' = next + 1 /\ UNCHANGED <<scanVars, task, probed>>
        BY <1>8 DEF Apply, Replaying
    <2>2. next \in 0..Count /\ index \in Nat
        BY <2>1 DEF Inv, BookInv, ScanInv
    <2>3. next < Count
        BY <1>1, <2>1, <2>2, UntilInside
    <2>4. Injective => table' = LiveIds(next')
        BY <1>1, <2>1, <2>2, <2>3, HoldsAll DEF PeakInv
    <2> QED
        BY <1>4, <2>1, <2>4 DEF PeakInv
<1>9. CASE Refuse \/ OutOfMemory
    BY <1>4, <1>9 DEF PeakInv, Refuse, OutOfMemory
<1>10. CASE WarmedUp
    BY <1>4, <1>10 DEF PeakInv, WarmedUp, bookVars
<1>11. CASE PassDone
    BY <1>1, <1>4, <1>11 DEF PassDone, Enter
<1>12. CASE PassesDone
    <2>1. CASE HasStats
        BY <1>1, <1>4, <1>12, <2>1 DEF PassesDone, Enter
    <2>2. CASE ~ HasStats
        BY <1>4, <1>12, <2>2 DEF PassesDone, PeakInv
    <2> QED
        BY <2>1, <2>2
<1>13. CASE PeakDone
    <2>1. /\ pc = "replay" /\ task = Passes + 1 /\ next = End(task)
          /\ probed' = Cardinality(table) /\ pc' = "build" /\ UNCHANGED scanVars
        BY <1>13 DEF PeakDone, Finished, Enter
    <2>2. /\ next \in 0..Count /\ at = Count /\ peak \in Nat /\ index \in Nat
          /\ Cardinality(feed.live[next]) <= peak
        BY <2>1 DEF Inv, BookInv, ScanInv
    <2>3. next = Smaller(index + 1, Count)
        BY <1>1, <2>1 DEF End
    <2>4. Cardinality(feed.live[next]) = peak
        <3>1. CASE peak = 0
            BY <1>1, <2>2, <3>1, LiveFinite
        <3>2. CASE peak # 0
            <4>1. next = index + 1 /\ Cardinality(feed.live[index + 1]) = peak
                BY <1>1, <2>2, <2>3, <3>2 DEF PeakInv, Smaller
            <4> QED
                BY <4>1
        <3> QED
            BY <3>1, <3>2
    <2>5. Injective => probed' = peak
        BY <1>1, <2>1, <2>2, <2>4, ImagesAreAsMany DEF PeakInv
    <2> QED
        BY <1>4, <2>1, <2>5
<1>14. CASE HalfDone
    BY <1>2, <1>4, <1>14 DEF HalfDone, Finished, PeakInv
<1> QED
    BY <1>3, <1>5, <1>6, <1>7, <1>8, <1>9, <1>10, <1>11, <1>12, <1>13, <1>14
    DEF Next, vars, bookVars


LEMMA PeakInit == Init => TaskInv /\ PeakInv
<1> SUFFICES ASSUME Init PROVE TaskInv /\ PeakInv
    OBVIOUS
<1>1. Passes \in Nat \ {0}
    BY PassesIs DEF Init, Given
<1> QED
    BY <1>1 DEF Init, TaskInv, PeakInv

(* The table statistics are those of as many orders as the peak, for every *)
(* feed that the validator accepts and every stride that keeps ids apart.  *)
THEOREM ProbedAtPeak == Spec => []ProbeAtPeak
<1>1. TaskInv /\ PeakInv => ProbeAtPeak
    BY DEF PeakInv, ProbeAtPeak
<1>2. Spec => [](TaskInv /\ PeakInv)
    BY Invariance, PeakInit, TaskStep, PeakStep, PTL DEF Spec
<1> QED
    BY <1>1, <1>2, PTL

-----------------------------------------------------------------------------
(* The accounting of allocations: once warmup is over, what was allocated  *)
(* is what samples did and what the constructors between passes did.       *)
AllocInv ==
    /\ {allocs, timed, result.after, result.constructing} \subseteq Nat
    /\ result = [start |-> result.start, after |-> result.after, end |-> result.end,
                 constructing |-> result.constructing]
    /\ pc = "build" => before = allocs
    /\ task = 0 \/ (task = 1 /\ pc \in {"build", "warmup"}) =>
         timed = 0 /\ result.constructing = 0
    /\ (task \in 1..Passes /\ pc = "replay") \/ (task \in 2..Passes /\ pc = "build") =>
         allocs - result.after - result.constructing = timed
    /\ task > Passes \/ pc = "done" => result.end - result.after = timed

LEMMA AllocStep == Inv /\ TaskInv /\ AllocInv /\ [Next]_vars => AllocInv'
<1> SUFFICES ASSUME Inv, TaskInv, AllocInv, [Next]_vars PROVE AllocInv'
    OBVIOUS
<1>1. /\ Passes \in Nat \ {0} /\ Passes' = Passes
      /\ task \in 0..Passes + 2
      /\ allocs \in Nat /\ timed \in Nat /\ result.after \in Nat /\ result.constructing \in Nat
      /\ opt.building \in Nat /\ opt.adding \in Nat
    BY PassesIs, GivenShape DEF Inv, TaskInv, AllocInv, Next, vars, Passes, IsOptions
<1>2. CASE UNCHANGED <<pc, task, countVars>>
    BY <1>1, <1>2 DEF AllocInv, countVars
<1>3. CASE Scan \/ Grow
    BY <1>2, <1>3 DEF Scan, Grow
<1>4. CASE Scanned
    BY <1>1, <1>4 DEF AllocInv, TaskInv, Scanned, Enter
<1>5. CASE Build
    <2>1. PICK cost \in Nat : allocs' = allocs + cost
        BY <1>1, <1>5 DEF Build, Allocated
    <2>2. pc = "build" /\ before = allocs /\ UNCHANGED <<task, timed>>
        BY <1>5 DEF Build, AllocInv
    <2>3. pc' = IF task = 1 THEN "warmup" ELSE "replay"
        BY <1>5 DEF Build
    <2>4. CASE task \in 2..Passes
        <3>1. /\ result' = [result EXCEPT !.constructing = @ + (allocs' - before)]
              /\ pc' = "replay" /\ task # 0 /\ task # 1
            BY <1>1, <1>5, <2>3, <2>4 DEF Build
        <3>2. /\ result'.after = result.after /\ result'.start = result.start
              /\ result'.end = result.end
              /\ result'.constructing = result.constructing + cost
            BY <1>1, <2>1, <2>2, <3>1 DEF AllocInv
        <3>3. allocs - result.after - result.constructing = timed
            BY <2>2, <2>4 DEF AllocInv
        <3> QED
            BY <1>1, <2>1, <2>2, <2>4, <3>1, <3>2, <3>3 DEF AllocInv
    <2>5. CASE task \notin 2..Passes
        <3>1. result' = result
            BY <1>5, <2>5 DEF Build
        <3> QED
            BY <1>1, <2>1, <2>2, <2>3, <2>5, <3>1 DEF AllocInv
    <2> QED
        BY <2>4, <2>5
<1>6. CASE Apply
    <2>1. PICK cost \in Cost(Current) :
             /\ allocs' = allocs + cost
             /\ timed' = IF IsPass /\ pc = "replay" THEN timed + cost ELSE timed
        BY <1>6 DEF Apply, Allocated
    <2>2. cost \in Nat /\ pc \in {"warmup", "replay"} /\ UNCHANGED <<pc, task, before, result>>
        BY <1>1, <1>6 DEF Apply, Replaying, Cost
    <2>3. pc = "warmup" => task = 1
        BY DEF TaskInv
    <2>4. CASE IsPass /\ pc = "replay"
        BY <1>1, <2>1, <2>2, <2>4 DEF AllocInv, IsPass
    <2>5. CASE ~ (IsPass /\ pc = "replay")
        BY <1>1, <2>1, <2>2, <2>3, <2>5 DEF AllocInv, IsPass
    <2> QED
        BY <2>4, <2>5
<1>7. CASE Refuse \/ OutOfMemory
    BY <1>1, <1>7 DEF AllocInv, Refuse, OutOfMemory, countVars
<1>8. CASE WarmedUp
    <2>1. pc = "warmup" /\ task = 1 /\ pc' = "replay" /\ UNCHANGED <<task, allocs, before, timed>>
        BY <1>8 DEF WarmedUp, TaskInv
    <2>2. /\ result'.after = allocs /\ result'.start = result.start
          /\ result'.end = result.end /\ result'.constructing = result.constructing
          /\ result' = [result EXCEPT !.after = allocs]
        BY <1>8 DEF WarmedUp, AllocInv
    <2>3. timed = 0 /\ result.constructing = 0
        BY <2>1 DEF AllocInv
    <2> QED
        BY <1>1, <2>1, <2>2, <2>3 DEF AllocInv
<1>9. CASE PilotDone
    <2>1. /\ task = 0 /\ task' = 1 /\ pc' = "build" /\ before' = allocs
          /\ UNCHANGED <<allocs, timed>> /\ result' = [result EXCEPT !.start = allocs]
        BY <1>9 DEF PilotDone, Finished, Enter
    <2>2. /\ result'.after = result.after /\ result'.start = allocs
          /\ result'.end = result.end /\ result'.constructing = result.constructing
        BY <2>1 DEF AllocInv
    <2> QED
        BY <1>1, <2>1, <2>2 DEF AllocInv
<1>10. CASE PassDone
    <2>1. PICK p \in 1..Passes - 1 : Finished(p) /\ Enter(p + 1)
        BY <1>10 DEF PassDone
    <2>2. /\ pc = "replay" /\ task = p /\ task' = p + 1 /\ pc' = "build" /\ before' = allocs
          /\ UNCHANGED <<allocs, timed, result>>
        BY <1>10, <2>1 DEF PassDone, Finished, Enter
    <2> QED
        BY <1>1, <2>1, <2>2 DEF AllocInv
<1>11. CASE PassesDone
    <2>1. /\ pc = "replay" /\ task = Passes /\ UNCHANGED <<allocs, timed>>
          /\ result' = [result EXCEPT !.end = allocs - result.constructing]
          /\ \/ task' = Passes + 1 /\ pc' = "build" /\ before' = allocs
             \/ pc' = "done" /\ task' = task
        BY <1>11 DEF PassesDone, Finished, Enter
    <2>2. allocs - result.after - result.constructing = timed
        BY <1>1, <2>1 DEF AllocInv
    <2>3. /\ result'.after = result.after /\ result'.start = result.start
          /\ result'.end = allocs - result.constructing
          /\ result'.constructing = result.constructing
        BY <2>1 DEF AllocInv
    <2> QED
        BY <1>1, <2>1, <2>2, <2>3 DEF AllocInv
<1>12. CASE PeakDone
    BY <1>1, <1>12 DEF AllocInv, PeakDone, Finished, Enter
<1>13. CASE HalfDone
    BY <1>1, <1>13 DEF AllocInv, HalfDone, Finished, countVars
<1> QED
    BY <1>2, <1>3, <1>4, <1>5, <1>6, <1>7, <1>8, <1>9, <1>10, <1>11, <1>12, <1>13
    DEF Next, vars

(* Whatever a book's constructor allocates, and up to any number that an   *)
(* add may allocate, the allocations that the report counts, and that fail *)
(* the run of a book which promises none, are those of the samples it      *)
(* measures.                                                               *)
THEOREM AllocationsAreTimed == Spec => []TimedAllocations
<1>1. AllocInv => TimedAllocations
    BY DEF AllocInv, TimedAllocations
<1>2. Init => TaskInv /\ AllocInv
    <2>1. Init => Given
        BY DEF Init, Given
    <2> QED
        BY <2>1, PassesIs, PeakInit DEF Init, AllocInv
<1>3. Spec => [](TaskInv /\ AllocInv)
    BY <1>2, Invariance, TaskStep, AllocStep, PTL DEF Spec
<1> QED
    BY <1>1, <1>3, PTL


-----------------------------------------------------------------------------
(* What samples time.  The invariant is stated of the control state it     *)
(* depends on, so that a step need only say how that changes: the samples  *)
(* of the passes before are whole, and of this pass those of the blocks    *)
(* replayed, with a last one that has only begun.                          *)
SampleOf(p, s) == (p - 1) * PerPass + s

Timed(s, m) ==
    [k \in 1..m |->
       [update |-> s * Block + k, held |-> LiveIds(s * Block + k - 1)]]

Has(t, p, s, m) == SampleOf(p, s) \in DOMAIN t /\ t[SampleOf(p, s)] = Timed(s, m)

Past(c, q, t) ==
    \A p \in 1..Passes : p < q \/ c = "done" =>
        \A s \in 0..PerPass - 1 : Has(t, p, s, Block)

Present(q, n, t) ==
    /\ \A s \in 0..(n \div Block) - 1 : Has(t, q, s, Block)
    /\ n % Block # 0 => Has(t, q, n \div Block, n % Block)
    /\ \A i \in DOMAIN t :
          \/ i < SampleOf(q, n \div Block)
          \/ i = SampleOf(q, n \div Block) /\ n % Block # 0

SamplesAre(c, q, n, t) ==
    /\ DOMAIN t \subseteq Nat
    /\ Past(c, q, t)
    /\ q \in 1..Passes /\ c \in {"warmup", "replay"} => Present(q, n, t)
    /\ q \in 1..Passes /\ c = "build" => \A i \in DOMAIN t : i < SampleOf(q, 0)
    /\ q = 0 => t = <<>>

TicksInv == Injective /\ pc # "failed" /\ pc # "exhausted" => SamplesAre(pc, task, next, ticks)

LEMMA TicksNext ==
    ASSUME UNCHANGED <<feed, opt>>,
           Injective /\ pc' # "failed" /\ pc' # "exhausted" => SamplesAre(pc', task', next', ticks')
    PROVE  TicksInv'
<1>1. /\ Injective' = Injective /\ Passes' = Passes /\ PerPass' = PerPass /\ Block' = Block
      /\ \A n : LiveIds(n)' = LiveIds(n)
    BY Unmoved
<1>2. \A s, m : Timed(s, m)' = Timed(s, m)
    BY <1>1 DEF Timed
<1>3. \A p, s : SampleOf(p, s)' = SampleOf(p, s)
    BY <1>1 DEF SampleOf
<1> QED
    BY <1>1, <1>2, <1>3 DEF TicksInv, SamplesAre, Past, Present, Has

LEMMA NextBlock ==
    ASSUME NEW n \in Nat, NEW b \in Nat \ {0}
    PROVE  /\ n \div b \in Nat /\ n % b \in 0..b - 1 /\ n = (n \div b) * b + (n % b)
           /\ (n % b) + 1 < b => (n + 1) \div b = n \div b /\ (n + 1) % b = (n % b) + 1
           /\ (n % b) + 1 = b => (n + 1) \div b = n \div b + 1 /\ (n + 1) % b = 0
<1>1. n \div b \in Nat /\ n % b \in 0..b - 1 /\ n = (n \div b) * b + (n % b)
    BY SMT
<1>2. (n + 1) \div b \in Nat /\ (n + 1) % b \in 0..b - 1
      /\ n + 1 = ((n + 1) \div b) * b + ((n + 1) % b)
    BY SMT
<1> DEFINE q == n \div b
           r == n % b
           x == (n + 1) \div b
           y == (n + 1) % b
<1>3. q \in Nat /\ r \in 0..b - 1 /\ x \in Nat /\ y \in 0..b - 1 /\ q * b + r + 1 = x * b + y
    BY <1>1, <1>2
<1> HIDE DEF q, r, x, y
<1>4. ASSUME NEW j \in Nat, NEW k \in Nat, j < k
      PROVE  j * b + b <= k * b
    <2>1. k = j + 1 + (k - j - 1) /\ k - j - 1 \in Nat
        BY <1>4
    <2>2. (k - j - 1) * b \in Nat
        BY <2>1, SMT
    <2>3. k * b = j * b + b + (k - j - 1) * b
        BY <2>1, SMT
    <2> QED
        BY <2>2, <2>3, SMT
<1>5. r + 1 < b => x = q /\ y = r + 1
    <2>1. SUFFICES ASSUME r + 1 < b PROVE x = q
        BY <1>3, SMT
    <2>2. ~ (x < q)
        <3>1. x < q => x * b + b <= q * b
            BY <1>3, <1>4
        <3> QED
            BY <1>3, <3>1, SMT
    <2>3. ~ (q < x)
        <3>1. q < x => q * b + b <= x * b
            BY <1>3, <1>4
        <3> QED
            BY <1>3, <2>1, <3>1, SMT
    <2> QED
        BY <1>3, <2>2, <2>3, SMT
<1>6. r + 1 = b => x = q + 1 /\ y = 0
    <2>1. SUFFICES ASSUME r + 1 = b PROVE x = q + 1 /\ y = 0
        OBVIOUS
    <2>2. (q + 1) * b = q * b + b /\ q + 1 \in Nat
        BY <1>3, SMT
    <2>3. (q + 1) * b = x * b + y
        BY <1>3, <2>1, <2>2, SMT
    <2>4. ~ (x < q + 1)
        <3>1. x < q + 1 => x * b + b <= (q + 1) * b
            BY <1>3, <2>2, <1>4
        <3> QED
            BY <1>3, <2>3, <3>1, SMT
    <2>5. ~ (q + 1 < x)
        <3>1. q + 1 < x => (q + 1) * b + b <= x * b
            BY <1>3, <2>2, <1>4
        <3> QED
            BY <1>3, <2>3, <3>1, SMT
    <2>6. x = q + 1
        BY <1>3, <2>2, <2>4, <2>5, SMT
    <2> QED
        BY <1>3, <2>3, <2>6, SMT
<1> QED
    BY <1>1, <1>5, <1>6 DEF q, r, x, y

(* One more tick of a sample.                                              *)
LEMMA TickNext ==
    ASSUME Given, NEW s \in Nat, NEW m \in Nat
    PROVE  Timed(s, m) \o <<[update |-> s * Block + m + 1,
                             held |-> LiveIds(s * Block + m)]>> = Timed(s, m + 1)
<1> DEFINE e == [update |-> s * Block + m + 1, held |-> LiveIds(s * Block + m)]
           h(k) == [update |-> s * Block + k, held |-> LiveIds(s * Block + k - 1)]
<1>1. s * Block \in Nat
    BY BlockIs, SMT
<1>2. h(m + 1) = e
    BY <1>1
<1>3. Timed(s, m) = [k \in 1..m |-> h(k)] /\ Timed(s, m + 1) = [k \in 1..m + 1 |-> h(k)]
    BY DEF Timed
<1> HIDE DEF e, h
<1>4. [k \in 1..m |-> h(k)] \o <<e>> = [k \in 1..m + 1 |-> h(k)]
    <2> DEFINE f == [k \in 1..m |-> h(k)]
    <2>1. f \in Seq({h(k) : k \in 1..m}) /\ Len(f) = m /\ \A k \in 1..m : f[k] = h(k)
        OBVIOUS
    <2> HIDE DEF f
    <2>2. /\ DOMAIN (f \o <<e>>) = 1..m + 1
          /\ \A k \in 1..m + 1 : (f \o <<e>>)[k] = IF k <= m THEN f[k] ELSE e
        BY <2>1
    <2> QED
        BY <1>2, <2>1, <2>2 DEF f
<1> QED
    BY <1>3, <1>4 DEF e


(* The samples of a pass do not meet those of another, nor each other.     *)
LEMMA SamplesApart ==
    ASSUME Given, NEW p \in Nat \ {0}, NEW q \in Nat \ {0}, p < q,
           NEW s \in 0..PerPass - 1
    PROVE  SampleOf(p, s) \in Nat /\ SampleOf(q, 0) \in Nat /\ SampleOf(p, s) < SampleOf(q, 0)
<1>1. PerPass \in Nat
    BY GivenShape, BlockIs, SMT DEF PerPass
<1> DEFINE w == PerPass
<1>2. w \in Nat /\ s \in 0..w - 1
    BY <1>1
<1>3. SampleOf(p, s) = (p - 1) * w + s /\ SampleOf(q, 0) = (q - 1) * w + 0
    BY DEF SampleOf
<1> HIDE DEF w
<1>4. q - p - 1 \in Nat /\ (q - p - 1) * w \in Nat /\ (p - 1) * w \in Nat
    BY <1>2, SMT
<1>5. (q - 1) * w = (p - 1) * w + w + (q - p - 1) * w
    BY <1>2, SMT
<1> QED
    BY <1>2, <1>3, <1>4, <1>5, SMT

LEMMA TickStep ==
    ASSUME Inv, PeakInv, TicksInv, Injective, Passes \in Nat \ {0}, Apply, IsPass
    PROVE  SamplesAre(pc, task, next + 1, ticks')
<1> DEFINE b == Block
           s == next \div b
           r == next % b
           i == SampleOf(task, s)
<1>1. Given /\ b \in Nat \ {0} /\ Count \in Nat /\ task \in 1..Passes /\ PerPass \in Nat
    BY GivenShape, BlockIs, SMT DEF Inv, IsPass, PerPass
<1>2. /\ pc \in {"warmup", "replay"} /\ next \in Nat
      /\ table = LiveIds(next)
      /\ SamplesAre(pc, task, next, ticks)
    BY GivenShape DEF Inv, BookInv, PeakInv, TicksInv, Apply, Replaying
<1>3. /\ s \in Nat /\ r \in 0..b - 1 /\ next = s * b + r
      /\ r + 1 < b => (next + 1) \div b = s /\ (next + 1) % b = r + 1
      /\ r + 1 = b => (next + 1) \div b = s + 1 /\ (next + 1) % b = 0
    BY <1>1, <1>2, NextBlock
<1>4. DOMAIN ticks \subseteq Nat /\ Past(pc, task, ticks) /\ Present(task, next, ticks)
    BY <1>1, <1>2 DEF SamplesAre
<1>5. /\ \A k \in 0..s - 1 : Has(ticks, task, k, b)
      /\ r # 0 => Has(ticks, task, s, r)
      /\ \A n \in DOMAIN ticks : n < i \/ (n = i /\ r # 0)
    BY <1>4 DEF Present
<1>6. (task - 1) * PerPass \in Nat /\ i = (task - 1) * PerPass + s /\ i \in Nat
    BY <1>1, <1>3, SMT DEF SampleOf
<1>7. ticks' = Timing(i)
    BY <1>1, <1>6 DEF Apply, IsPass, Sample
<1>8. /\ DOMAIN ticks' = DOMAIN ticks \cup {i}
      /\ \A n \in DOMAIN ticks : n # i => ticks'[n] = ticks[n] \o <<>>
      /\ ticks'[i] = (IF i \in DOMAIN ticks THEN ticks[i] ELSE <<>>)
                     \o <<[update |-> next + 1, held |-> table]>>
    BY <1>7 DEF Timing
<1>9. (IF i \in DOMAIN ticks THEN ticks[i] ELSE <<>>) = Timed(s, r)
    <2>1. CASE r # 0
        BY <1>5, <2>1 DEF Has
    <2>2. CASE r = 0
        <3>1. i \notin DOMAIN ticks
            BY <1>5, <1>6, <2>2
        <3>2. Timed(s, 0) = <<>>
            BY DEF Timed
        <3> QED
            BY <2>2, <3>1, <3>2
    <2> QED
        BY <2>1, <2>2
<1>10. ticks'[i] = Timed(s, r + 1)
    <2>1. r \in Nat /\ s * b + r + 1 = next + 1
        BY <1>1, <1>3
    <2>2. Timed(s, r) \o <<[update |-> s * b + r + 1, held |-> LiveIds(s * b + r)]>>
            = Timed(s, r + 1)
        BY <1>1, <1>3, <2>1, TickNext
    <2> QED
        BY <1>2, <1>3, <1>8, <1>9, <2>1, <2>2
<1>11. ASSUME NEW p, NEW k, NEW m \in Nat, Has(ticks, p, k, m), SampleOf(p, k) # i
       PROVE  Has(ticks', p, k, m)
    <2>1. ticks'[SampleOf(p, k)] = Timed(k, m) \o <<>>
        BY <1>8, <1>11 DEF Has
    <2>2. Timed(k, m) \o <<>> = Timed(k, m)
        <3> DEFINE h(j) == [update |-> k * Block + j, held |-> LiveIds(k * Block + j - 1)]
        <3>1. Timed(k, m) = [j \in 1..m |-> h(j)]
            BY DEF Timed
        <3> HIDE DEF h
        <3>2. [j \in 1..m |-> h(j)] \in Seq({h(j) : j \in 1..m})
            BY <1>11
        <3> QED
            BY <3>1, <3>2
    <2> QED
        BY <1>8, <1>11, <2>1, <2>2 DEF Has
<1> HIDE DEF b, s, r, i
<1>12. DOMAIN ticks' \subseteq Nat
    BY <1>4, <1>6, <1>8
<1>13. Past(pc, task, ticks')
    <2> SUFFICES ASSUME NEW p \in 1..Passes, p < task, NEW k \in 0..PerPass - 1
                 PROVE  Has(ticks', p, k, Block)
        BY <1>2 DEF Past
    <2>1. Has(ticks, p, k, b) /\ b = Block
        BY <1>4 DEF Past, b
    <2>2. SampleOf(p, k) \in Nat /\ SampleOf(p, k) < SampleOf(task, 0)
        BY <1>1, SamplesApart
    <2>3. SampleOf(p, k) # i
        BY <1>1, <1>3, <1>6, <2>2 DEF SampleOf
    <2> QED
        BY <1>1, <1>11, <2>1, <2>3
<1>14. Has(ticks', task, s, r + 1)
    BY <1>8, <1>10 DEF Has, i
<1>15. \A k \in 0..s - 1 : Has(ticks', task, k, b)
    <2> SUFFICES ASSUME NEW k \in 0..s - 1 PROVE Has(ticks', task, k, b)
        OBVIOUS
    <2>1. SampleOf(task, k) # i
        BY <1>1, <1>3, <1>6 DEF SampleOf
    <2> QED
        BY <1>1, <1>5, <1>11, <2>1
<1>16. Present(task, next + 1, ticks')
    <2>1. \A n \in DOMAIN ticks' : n <= i
        BY <1>4, <1>5, <1>6, <1>8
    <2>2. CASE r + 1 < b
        <3>1. (next + 1) \div b = s /\ (next + 1) % b = r + 1 /\ r + 1 # 0
            BY <1>1, <1>3, <2>2
        <3>2. \A n \in DOMAIN ticks' : n < i \/ n = i
            BY <1>6, <1>12, <2>1
        <3> QED
            BY <1>14, <1>15, <3>1, <3>2 DEF Present, b, i
    <2>3. CASE r + 1 = b
        <3>1. (next + 1) \div b = s + 1 /\ (next + 1) % b = 0
            BY <1>3, <2>3
        <3>2. SampleOf(task, s + 1) = i + 1
            BY <1>1, <1>3, <1>6 DEF SampleOf
        <3>3. \A n \in DOMAIN ticks' : n < i + 1
            BY <1>6, <1>12, <2>1
        <3>4. \A k \in 0..(s + 1) - 1 : Has(ticks', task, k, b)
            <4> SUFFICES ASSUME NEW k \in 0..(s + 1) - 1 PROVE Has(ticks', task, k, b)
                OBVIOUS
            <4>1. k = s \/ k \in 0..s - 1
                BY <1>3
            <4> QED
                BY <1>14, <1>15, <2>3, <4>1
        <3> QED
            BY <3>1, <3>2, <3>3, <3>4 DEF Present, b
    <2> QED
        BY <1>1, <1>3, <2>2, <2>3
<1> QED
    BY <1>1, <1>2, <1>12, <1>13, <1>16 DEF SamplesAre


(* A pass that has come to its end has timed all its samples.              *)
LEMMA PassIsWhole ==
    ASSUME Given, Passes \in Nat \ {0}, NEW q \in 1..Passes, Finished(q),
           SamplesAre(pc, task, next, ticks)
    PROVE  /\ \A p \in 1..Passes : p <= q =>
                \A s \in 0..PerPass - 1 : Has(ticks, p, s, Block)
           /\ \A i \in DOMAIN ticks : i < SampleOf(q + 1, 0)
           /\ DOMAIN ticks \subseteq Nat
<1>1. Count \in Nat /\ Block \in Nat \ {0} /\ q # 0
    BY GivenShape, BlockIs
<1>2. pc = "replay" /\ task = q /\ next = Count - (Count % Block)
    BY <1>1 DEF Finished, End
<1>3. next \div Block = PerPass /\ next % Block = 0 /\ PerPass \in Nat
    <2> DEFINE b == Block
               c == Count
    <2>1. c \div b \in Nat /\ c % b \in 0..b - 1 /\ c = (c \div b) * b + (c % b)
        BY <1>1, NextBlock
    <2>2. next = (c \div b) * b
        BY <1>1, <1>2, <2>1
    <2>3. next \in Nat
        BY <1>1, <1>2, Remainder
    <2>4. next \div b \in Nat /\ next % b \in 0..b - 1 /\ next = (next \div b) * b + (next % b)
        BY <1>1, <2>3, NextBlock
    <2>5. b \in Nat \ {0}
        BY <1>1
    <2>6. ASSUME NEW m \in Nat, NEW k \in Nat, NEW y \in 0..b - 1, m * b = k * b + y
          PROVE  k = m /\ y = 0
        <3> HIDE DEF b
        <3>1. ASSUME NEW j \in Nat, NEW l \in Nat, j < l
              PROVE  j * b + b <= l * b
            <4>1. l - j - 1 \in Nat /\ (l - j - 1) * b \in Nat
                BY <2>5, <3>1, SMT
            <4>2. l * b = j * b + b + (l - j - 1) * b
                BY <2>5, SMT
            <4>3. j * b \in Nat
                BY <2>5, SMT
            <4> QED
                BY <2>5, <4>1, <4>2, <4>3, SMT
        <3>2. m * b \in Nat /\ k * b \in Nat
            BY <2>5, SMT
        <3>3. ~ (k < m)
            <4>1. k < m => k * b + b <= m * b
                BY <3>1
            <4> QED
                BY <2>5, <2>6, <3>2, <4>1, SMT
        <3>4. ~ (m < k)
            <4>1. m < k => m * b + b <= k * b
                BY <3>1
            <4> QED
                BY <2>5, <2>6, <3>2, <4>1, SMT
        <3>5. k = m
            BY <3>3, <3>4, SMT
        <3> QED
            BY <2>5, <2>6, <3>2, <3>5, SMT
    <2>7. next \div b = c \div b /\ next % b = 0
        BY <2>1, <2>2, <2>4, <2>6
    <2> QED
        BY <2>1, <2>7 DEF PerPass
<1>4. Past(pc, q, ticks) /\ Present(q, next, ticks) /\ DOMAIN ticks \subseteq Nat
    BY <1>2 DEF SamplesAre
<1>5. \A s \in 0..PerPass - 1 : Has(ticks, q, s, Block)
    BY <1>3, <1>4 DEF Present
<1>6. SampleOf(q + 1, 0) = SampleOf(q, PerPass)
    <2>1. ((q + 1) - 1) * PerPass = (q - 1) * PerPass + PerPass
        BY <1>3, SMT
    <2>2. (q - 1) * PerPass \in Nat
        BY <1>3, SMT
    <2> QED
        BY <1>3, <2>1, <2>2 DEF SampleOf
<1>7. \A i \in DOMAIN ticks : i < SampleOf(q + 1, 0)
    BY <1>3, <1>4, <1>6 DEF Present
<1> QED
    BY <1>4, <1>5, <1>7 DEF Past

LEMMA TicksStep == Inv /\ TaskInv /\ PeakInv /\ TicksInv /\ [Next]_vars => TicksInv'
<1> SUFFICES ASSUME Inv, TaskInv, PeakInv, TicksInv, [Next]_vars PROVE TicksInv'
    OBVIOUS
<1>0. UNCHANGED <<feed, opt>>
    BY DEF Next, vars
<1> SUFFICES ASSUME Injective, pc' # "failed" /\ pc' # "exhausted"
             PROVE  SamplesAre(pc', task', next', ticks')
    BY <1>0, TicksNext
<1>1. Given /\ Passes \in Nat \ {0} /\ task \in 0..Passes + 2 /\ (pc = "warmup" => task = 1)
    BY PassesIs DEF Inv, TaskInv
<1>2. pc # "failed" /\ pc # "exhausted" => SamplesAre(pc, task, next, ticks)
    BY DEF TicksInv
<1>3. CASE UNCHANGED <<pc, task, next, ticks>>
    BY <1>2, <1>3
<1>4. CASE Scan \/ Grow
    BY <1>3, <1>4 DEF Scan, Grow, bookVars
<1>5. CASE Scanned
    BY <1>1, <1>2, <1>5 DEF Scanned, Enter, TaskInv, SamplesAre, Past
<1>6. CASE Build
    <2>1. /\ pc = "build" /\ next' = 0 /\ pc' \in {"warmup", "replay"} /\ UNCHANGED <<task, ticks>>
          /\ SamplesAre("build", task, next, ticks)
        BY <1>2, <1>6 DEF Build
    <2>2. Block \in Nat \ {0}
        BY <1>1, BlockIs
    <2>3. 0 \div Block = 0 /\ 0 % Block = 0
        BY <2>2, SMT
    <2> QED
        BY <2>1, <2>3 DEF SamplesAre, Past, Present
<1>7. CASE Apply
    <2>1. pc' = pc /\ task' = task /\ next' = next + 1 /\ pc \in {"warmup", "replay"}
        BY <1>7 DEF Apply, Replaying
    <2>2. CASE IsPass
        BY <1>1, <1>7, <2>1, <2>2, TickStep
    <2>3. CASE ~ IsPass
        <3>1. ticks' = ticks
            BY <1>7, <2>3 DEF Apply
        <3> QED
            BY <1>2, <2>1, <2>3, <3>1 DEF SamplesAre, Past, IsPass
    <2> QED
        BY <2>2, <2>3
<1>8. CASE Refuse \/ OutOfMemory
    BY <1>8 DEF Refuse, OutOfMemory
<1>9. CASE WarmedUp
    BY <1>2, <1>9 DEF WarmedUp, bookVars, SamplesAre, Past
<1>10. CASE PilotDone
    <2>1. SamplesAre("replay", 0, next, ticks) /\ pc' = "build" /\ task' = 1 /\ ticks' = ticks
        BY <1>2, <1>10 DEF PilotDone, Finished, Enter
    <2> QED
        BY <2>1 DEF SamplesAre, Past
<1>11. CASE PassDone
    <2>1. PICK p \in 1..Passes - 1 : Finished(p) /\ Enter(p + 1)
        BY <1>11 DEF PassDone
    <2>2. pc' = "build" /\ task' = p + 1 /\ ticks' = ticks /\ p \in 1..Passes /\ pc = "replay"
        BY <1>1, <1>11, <2>1 DEF PassDone, Finished, Enter
    <2>3. \A k \in 1..Passes : k < p + 1 => k <= p
        BY <2>1
    <2> QED
        BY <1>1, <1>2, <2>1, <2>2, <2>3, PassIsWhole DEF SamplesAre, Past
<1>12. CASE PassesDone
    <2>1. /\ Finished(Passes) /\ pc # "failed" /\ pc # "exhausted" /\ ticks' = ticks
          /\ \/ task' = Passes + 1 /\ pc' = "build"
             \/ task' = task /\ pc' = "done"
        BY <1>12 DEF PassesDone, Finished, Enter
    <2>2. task = Passes /\ Passes \in 1..Passes
        BY <1>1, <2>1 DEF Finished
    <2>3. /\ \A p \in 1..Passes : p <= Passes
          /\ Passes + 1 \notin 1..Passes /\ Passes # 0 /\ Passes + 1 # 0
        BY <1>1
    <2> QED
        BY <1>1, <1>2, <2>1, <2>2, <2>3, PassIsWhole DEF SamplesAre, Past
<1>13. CASE PeakDone \/ HalfDone
    <2>1. /\ task' \in {Passes + 1, Passes + 2} /\ task \in {Passes + 1, Passes + 2}
          /\ pc # "failed" /\ pc # "exhausted" /\ pc' \in {"build", "done"} /\ ticks' = ticks
        BY <1>1, <1>13 DEF PeakDone, HalfDone, Finished, Enter
    <2>2. /\ \A p \in 1..Passes : p < task
          /\ task' \notin 1..Passes /\ task' # 0
        BY <1>1, <2>1
    <2> QED
        BY <1>2, <2>1, <2>2 DEF SamplesAre, Past
<1> QED
    BY <1>3, <1>4, <1>5, <1>6, <1>7, <1>8, <1>9, <1>10, <1>11, <1>12, <1>13
    DEF Next, vars, bookVars

(* Each sample of each pass times the updates of its own block, once and   *)
(* in order, on a book that holds the orders live before each: for every   *)
(* feed, block, number of passes and length of warmup.                     *)
THEOREM SamplesAreRight == Spec => []SamplesRight
<1>1. TaskInv /\ TicksInv => SamplesRight
    BY DEF TicksInv, SamplesAre, Past, Has, SampleOf, Timed, SamplesRight
<1>2. Init => TicksInv
    <2>1. Init => Passes \in Nat \ {0}
        BY PassesIs DEF Init, Given
    <2> QED
        BY <2>1 DEF Init, TicksInv, SamplesAre, Past
<1>3. Spec => [](TaskInv /\ PeakInv /\ TicksInv)
    BY <1>2, Invariance, PeakInit, TaskStep, PeakStep, TicksStep, PTL DEF Spec
<1> QED
    BY <1>1, <1>3, PTL
=============================================================================
