------------------------- MODULE FeedGeneratorProofs -------------------------
(***************************************************************************)
(* Proofs about the generator of synthetic feeds, for every configuration  *)
(* and every outcome of its draws.  The levels of a side are sorted and    *)
(* those of the two sides do not meet; each order's record says where the  *)
(* order is; and while there is room below the mid price the validator's   *)
(* book is the generator's picture.  A level that TryCreateLevel makes is  *)
(* one tick from an existing one: the loop over taken prices ends because  *)
(* there are more candidates than levels.                                  *)
(***************************************************************************)
EXTENDS FeedGenerator, FiniteSetTheorems, SequenceTheorems, WellFoundedInduction, TLAPS

Prices(side) == ToSet(levels[side])

(* Levels are sorted, best first, and the best ones do not meet.           *)
Sorted(side, s) == \A i, j \in DOMAIN s : i < j => Better(side, s[i], s[j])

LevelsInv ==
    /\ levels \in [Sides -> Seq(Int)]
    /\ \A side \in Sides : Sorted(side, levels[side])
    /\ \A bid \in Prices("Bid"), ask \in Prices("Ask") : bid < ask

(* Each level has its vector of ids, and each id there its record, which   *)
(* says where it is.  Records of ids that are in no vector may be left.    *)
Placed(side, p, n) ==
    LET id == queue[side][p][n]
    IN  /\ id \in DOMAIN table
        /\ table[id].volume \in Nat \ {0}
        /\ table[id] = Record(side, p, table[id].volume, n)

OrdersInv ==
    /\ queue = [side \in Sides |-> queue[side]]
    /\ \A side \in Sides : queue[side] \in [Prices(side) -> Seq(Nat \ {0})]
    /\ nextId \in Nat \ {0}
    /\ table = [id \in DOMAIN table |-> table[id]]
    /\ DOMAIN table \subseteq 1..nextId - 1
    /\ \A side \in Sides : \A p \in Prices(side) : \A n \in DOMAIN queue[side][p] :
         Placed(side, p, n)

(* While the room below lasts, the validator's book is the picture.        *)
Live == Queued("Bid") \cup Queued("Ask")

Shown(id) == [side |-> table[id].side, price |-> table[id].price, volume |-> table[id].volume]

ShowsPicture == book = [id \in Live |-> Shown(id)]

Uncrossing == ~ Validator!Crossed(book)

BookInv == RoomBelow => verdict = "ok" /\ ShowsPicture

(* The seed: levels away from the mid, all but the last ones with orders.  *)
Filled == count % (2 * cfg.perLevel)

SeedInv == pc = "seed" =>
    /\ Size("Ask") = Size("Bid")
    /\ count <= SeedCount
    /\ \/ Size("Bid") = SeedLevel /\ Filled = 0
       \/ Size("Bid") = SeedLevel + 1 /\ count < SeedCount
    /\ \A p \in Prices("Bid") : p < cfg.mid /\ p >= cfg.mid - 1 - MaxGap * Size("Bid")
    /\ \A p \in Prices("Ask") : p > cfg.mid
    /\ \A side \in Sides : \A p \in Prices(side) : queue[side][p] = <<>> =>
         /\ Size("Bid") = SeedLevel + 1
         /\ p = Last(levels[side])
         /\ Filled < (IF side = "Bid" THEN 1 ELSE 2)

(* Thereafter no side is empty and no level, and bids sink by at most one  *)
(* tick an update.                                                         *)
RunInv == pc = "run" =>
    /\ \A side \in Sides : levels[side] # <<>>
    /\ \A side \in Sides : \A p \in Prices(side) : queue[side][p] # <<>>
    /\ \A p \in Prices("Bid") : p >= cfg.mid - 1 - MaxGap * cfg.levels - count

ControlInv ==
    /\ cfg \in Configs
    /\ pc \in {"seed", "run", "undefined"}
    /\ count \in Nat
    /\ pc = "undefined" => cfg.levels < 3 \/ cfg.volume = 0

IInv == LevelsInv /\ OrdersInv /\ BookInv /\ SeedInv /\ RunInv /\ ControlInv

-----------------------------------------------------------------------------
(* Minima, and sequences in order.                                         *)
LEMMA MinIsLeast ==
    ASSUME NEW S \in SUBSET Nat, S # {}
    PROVE  Min(S) \in S /\ \A x \in S : Min(S) <= x
  <1>1. PICK x \in S : \A y \in S : ~ (<<y, x>> \in OpToRel(<, Nat))
    BY NatLessThanWellFounded, WFMin
  <1>2. OpToRel(<, Nat) = {ss \in Nat \X Nat : ss[1] < ss[2]}
    BY Zenon DEF OpToRel
  <1>3. \A y \in S : x <= y
    <2>1. TAKE y \in S
    <2>2. <<y, x>> \notin {ss \in Nat \X Nat : ss[1] < ss[2]}
      BY <1>1, <1>2, Zenon
    <2> QED
      BY <2>2
  <1> QED
    BY <1>3 DEF Min

LEMMA BetterIsOrder ==
    ASSUME NEW side \in Sides, NEW a \in Int, NEW b \in Int, NEW c \in Int
    PROVE  /\ ~ Better(side, a, a)
           /\ Better(side, a, b) \/ a = b \/ Better(side, b, a)
           /\ Better(side, a, b) /\ Better(side, b, c) => Better(side, a, c)
           /\ Better(side, a, b) => ~ Better(side, b, a)
           /\ Better(side, a, TowardTail(side, a, 1)) /\ TowardTail(side, a, 1) \in Int
           /\ Better(side, TowardTop(side, a), a) /\ TowardTop(side, a) \in Int
  BY DEF Sides, Better, TowardTail, TowardTop

\* t is s, of length n, with p put at i, or without the element at i.
Inserted(t, s, n, i, p) ==
    /\ t \in [1..n + 1 -> Int]
    /\ \A j \in 1..n + 1 : t[j] = IF j < i THEN s[j] ELSE IF j = i THEN p ELSE s[j - 1]

Removed(t, s, n, i) ==
    /\ t \in [1..n - 1 -> Int]
    /\ \A j \in 1..n - 1 : t[j] = IF j < i THEN s[j] ELSE s[j + 1]

\* p comes between the elements before i and the others.
Fits(side, s, n, i, p) ==
    \A j \in 1..n : IF j < i THEN Better(side, s[j], p) ELSE Better(side, p, s[j])

LEMMA InsertIsAt ==
    ASSUME NEW n \in Nat, NEW s \in Seq(Int), Len(s) = n, NEW p \in Int, NEW i \in 1..n + 1
    PROVE  /\ InsertAt(s, i, p) \in Seq(Int) /\ Len(InsertAt(s, i, p)) = n + 1
           /\ Inserted(InsertAt(s, i, p), s, n, i, p)
  <1>1. PICK k : k = i - 1
    OBVIOUS
  <1>2. PICK m : m = n - i + 1
    OBVIOUS
  <1>3. k \in Nat /\ i = k + 1 /\ i \in Nat /\ m \in Nat /\ i + m = n + 1
    BY <1>1, <1>2
  <1>4. PICK a : a = SubSeq(s, 1, i - 1)
    OBVIOUS
  <1>5. PICK c : c = SubSeq(s, i, Len(s))
    OBVIOUS
  <1>a. a \in Seq(Int) /\ Len(a) = k /\ \A j \in 1..k : a[j] = s[j]
    BY <1>1, <1>3, <1>4
  <1>c. c \in Seq(Int) /\ Len(c) = m /\ \A j \in 1..m : c[j] = s[i + j - 1]
    <2>1. /\ c \in Seq(Int) /\ Len(c) = n - i + 1
          /\ \A j \in 1..n - i + 1 : c[j] = s[i + j - 1]
      BY <1>5
    <2> QED
      BY <1>2, <2>1
  <1>6. PICK b : b = a \o <<p>>
    OBVIOUS
  <1>7. PICK r : r = b \o c
    OBVIOUS
  <1>8. InsertAt(s, i, p) = r
    BY <1>4, <1>5, <1>6, <1>7 DEF InsertAt
  <1>9. b \in Seq(Int) /\ Len(b) = i /\ \A j \in 1..i : b[j] = IF j < i THEN s[j] ELSE p
    <2>1. <<p>> \in Seq(Int) /\ Len(<<p>>) = 1 /\ <<p>>[1] = p
      OBVIOUS
    <2>2. /\ b \in Seq(Int) /\ Len(b) = k + 1
          /\ \A j \in 1..k + 1 : b[j] = IF j <= k THEN a[j] ELSE <<p>>[j - k]
      BY <1>3, <1>a, <1>6, <2>1, ConcatProperties
    <2> QED
      BY <1>3, <1>a, <2>1, <2>2
  <1>10. /\ r \in Seq(Int) /\ Len(r) = i + m
         /\ \A j \in 1..i + m : r[j] = IF j <= i THEN b[j] ELSE c[j - i]
    <2>1. b \in Seq(Int) /\ c \in Seq(Int) /\ Len(b) = i /\ Len(c) = m /\ i \in Nat /\ m \in Nat
      BY <1>3, <1>9, <1>c
    <2> QED
      BY <1>7, <2>1, ConcatProperties
  <1>11. ASSUME NEW j \in 1..i + m
         PROVE  r[j] = IF j < i THEN s[j] ELSE IF j = i THEN p ELSE s[j - 1]
    <2>1. CASE j <= i
      BY <1>3, <1>9, <1>10, <2>1
    <2>2. CASE j > i
      <3>1. j - i \in 1..m /\ i + (j - i) - 1 = j - 1
        BY <1>3, <2>2
      <3> QED
        <4>1. r[j] = c[j - i]
          BY <1>3, <1>10, <2>2
        <4>2. c[j - i] = s[i + (j - i) - 1]
          BY <1>c, <3>1
        <4> QED
          BY <1>3, <2>2, <3>1, <4>1, <4>2
    <2> QED
      BY <1>3, <2>1, <2>2
  <1>12. r \in [1..n + 1 -> Int]
    BY <1>3, <1>10
  <1>13. Inserted(r, s, n, i, p)
    BY <1>3, <1>11, <1>12 DEF Inserted
  <1> QED
    BY <1>3, <1>8, <1>10, <1>13

LEMMA RemoveIsAt ==
    ASSUME NEW n \in Nat, NEW s \in Seq(Int), Len(s) = n, NEW i \in 1..n
    PROVE  /\ RemoveAt(s, i) \in Seq(Int) /\ Len(RemoveAt(s, i)) = n - 1
           /\ Removed(RemoveAt(s, i), s, n, i)
  <1>1. PICK k : k = i - 1
    OBVIOUS
  <1>2. PICK m : m = n - i
    OBVIOUS
  <1>3. k \in Nat /\ i = k + 1 /\ m \in Nat /\ k + m = n - 1
    BY <1>1, <1>2
  <1>4. PICK a : a = SubSeq(s, 1, i - 1)
    OBVIOUS
  <1>5. PICK c : c = SubSeq(s, i + 1, Len(s))
    OBVIOUS
  <1>a. a \in Seq(Int) /\ Len(a) = k /\ \A j \in 1..k : a[j] = s[j]
    BY <1>1, <1>3, <1>4
  <1>c. c \in Seq(Int) /\ Len(c) = m /\ \A j \in 1..m : c[j] = s[i + j]
    BY <1>2, <1>3, <1>5
  <1>6. PICK r : r = a \o c
    OBVIOUS
  <1>7. RemoveAt(s, i) = r
    BY <1>4, <1>5, <1>6 DEF RemoveAt
  <1>8. /\ r \in Seq(Int) /\ Len(r) = k + m
        /\ \A j \in 1..k + m : r[j] = IF j <= k THEN a[j] ELSE c[j - k]
    <2>1. a \in Seq(Int) /\ c \in Seq(Int) /\ Len(a) = k /\ Len(c) = m /\ k \in Nat /\ m \in Nat
      BY <1>3, <1>a, <1>c
    <2> QED
      BY <1>6, <2>1, ConcatProperties
  <1>9. ASSUME NEW j \in 1..k + m
        PROVE  r[j] = IF j < i THEN s[j] ELSE s[j + 1]
    <2>1. CASE j <= k
      BY <1>3, <1>a, <1>8, <2>1
    <2>2. CASE j > k
      <3>1. j - k \in 1..m /\ i + (j - k) = j + 1
        BY <1>3, <2>2
      <3> QED
        BY <1>3, <1>c, <1>8, <2>2, <3>1
    <2> QED
      BY <1>3, <2>1, <2>2
  <1>10. r \in [1..n - 1 -> Int]
    BY <1>3, <1>8
  <1>11. Removed(r, s, n, i)
    BY <1>3, <1>9, <1>10 DEF Removed
  <1> QED
    BY <1>3, <1>7, <1>8, <1>11

LEMMA MinOfTwo ==
    ASSUME NEW a \in Int, NEW b \in Int
    PROVE  Min({a, b}) = IF a <= b THEN a ELSE b
  BY DEF Min

LEMMA MaxOfTwo ==
    ASSUME NEW a \in Int, NEW b \in Int
    PROVE  Max({a, b}) = IF a >= b THEN a ELSE b
  BY DEF Max

(* What InsertAt and RemoveAt make of levels in order, as functions.       *)
LEMMA OrderWithNew ==
    ASSUME NEW side \in Sides, NEW n \in Nat, NEW s \in [1..n -> Int], Sorted(side, s),
           NEW p \in Int, NEW i \in 1..n + 1, Fits(side, s, n, i, p),
           NEW t, Inserted(t, s, n, i, p)
    PROVE  Sorted(side, t) /\ ToSet(t) = ToSet(s) \cup {p}
  <1>a. /\ t \in [1..n + 1 -> Int]
        /\ \A j \in 1..n + 1 : t[j] = IF j < i THEN s[j] ELSE IF j = i THEN p ELSE s[j - 1]
    BY DEF Inserted
  <1>b. /\ \A j \in 1..n : j < i => Better(side, s[j], p)
        /\ \A j \in 1..n : j >= i => Better(side, p, s[j])
    BY DEF Fits
  <1>1. Sorted(side, t)
    <2> SUFFICES ASSUME NEW j \in 1..n + 1, NEW k \in 1..n + 1, j < k
                 PROVE  Better(side, t[j], t[k])
      BY <1>a DEF Sorted
    <2>1. CASE k < i
      <3>1. j \in 1..n /\ k \in 1..n /\ t[j] = s[j] /\ t[k] = s[k]
        BY <1>a, <2>1
      <3> QED
        BY <3>1 DEF Sorted
    <2>2. CASE k = i
      <3>1. j \in 1..n /\ t[j] = s[j] /\ t[k] = p
        BY <1>a, <2>2
      <3> QED
        BY <1>b, <2>2, <3>1
    <2>3. CASE k > i /\ j = i
      <3>1. k - 1 \in 1..n /\ k - 1 >= i /\ t[j] = p /\ t[k] = s[k - 1]
        BY <1>a, <2>3
      <3> QED
        BY <1>b, <3>1
    <2>4. CASE k > i /\ j < i
      <3>1. k - 1 \in 1..n /\ j \in 1..n /\ j < k - 1 /\ t[j] = s[j] /\ t[k] = s[k - 1]
        BY <1>a, <2>4
      <3> QED
        BY <3>1 DEF Sorted
    <2>5. CASE k > i /\ j > i
      <3>1. /\ k - 1 \in 1..n /\ j - 1 \in 1..n /\ j - 1 < k - 1
            /\ t[j] = s[j - 1] /\ t[k] = s[k - 1]
        BY <1>a, <2>5
      <3> QED
        BY <3>1 DEF Sorted
    <2> QED
      BY <2>1, <2>2, <2>3, <2>4, <2>5
  <1>2. ASSUME NEW j \in 1..n + 1
        PROVE  t[j] \in ToSet(s) \cup {p}
    <2>1. j < i => j \in 1..n /\ t[j] = s[j]
      BY <1>a
    <2>2. j > i => j - 1 \in 1..n /\ t[j] = s[j - 1]
      BY <1>a
    <2>3. j = i => t[j] = p
      BY <1>a
    <2> QED
      BY <2>1, <2>2, <2>3 DEF ToSet
  <1>3. p \in ToSet(t)
    <2>1. t[i] = p
      BY <1>a
    <2> QED
      BY <1>a, <2>1 DEF ToSet
  <1>4. ASSUME NEW j \in 1..n
        PROVE  s[j] \in ToSet(t)
    <2>1. CASE j < i
      <3>1. j \in 1..n + 1 /\ t[j] = s[j]
        BY <1>a, <2>1
      <3> QED
        BY <1>a, <3>1 DEF ToSet
    <2>2. CASE j >= i
      <3>1. PICK k \in 1..n + 1 : k = j + 1 /\ k - 1 = j /\ k > i
        BY <2>2
      <3>2. t[k] = s[j]
        BY <1>a, <3>1
      <3> QED
        BY <1>a, <3>2 DEF ToSet
    <2> QED
      BY <2>1, <2>2
  <1> QED
    BY <1>a, <1>1, <1>2, <1>3, <1>4 DEF ToSet

LEMMA OrderWithout ==
    ASSUME NEW side \in Sides, NEW n \in Nat, NEW s \in [1..n -> Int], Sorted(side, s),
           NEW i \in 1..n, NEW t, Removed(t, s, n, i)
    PROVE  Sorted(side, t) /\ ToSet(t) = ToSet(s) \ {s[i]}
  <1>a. /\ t \in [1..n - 1 -> Int]
        /\ \A j \in 1..n - 1 : t[j] = IF j < i THEN s[j] ELSE s[j + 1]
    BY DEF Removed
  <1>1. Sorted(side, t)
    <2> SUFFICES ASSUME NEW j \in 1..n - 1, NEW k \in 1..n - 1, j < k
                 PROVE  Better(side, t[j], t[k])
      BY <1>a DEF Sorted
    <2>1. PICK x \in 1..n : x = IF j < i THEN j ELSE j + 1
      OBVIOUS
    <2>2. PICK y \in 1..n : y = IF k < i THEN k ELSE k + 1
      OBVIOUS
    <2>3. x < y /\ t[j] = s[x] /\ t[k] = s[y]
      BY <1>a, <2>1, <2>2
    <2> QED
      BY <2>3 DEF Sorted
  <1>2. \A j, k \in 1..n : s[j] = s[k] => j = k
    <2> SUFFICES ASSUME NEW j \in 1..n, NEW k \in 1..n, j < k
                 PROVE  s[j] # s[k]
      OBVIOUS
    <2>1. Better(side, s[j], s[k]) /\ s[j] \in Int /\ s[k] \in Int
      BY DEF Sorted
    <2> QED
      BY <2>1, BetterIsOrder
  <1>3. ASSUME NEW j \in 1..n - 1
        PROVE  t[j] \in ToSet(s) \ {s[i]}
    <2>1. PICK x \in 1..n : x = IF j < i THEN j ELSE j + 1
      OBVIOUS
    <2>2. x # i /\ t[j] = s[x]
      BY <1>a, <2>1
    <2> QED
      BY <1>2, <2>2 DEF ToSet
  <1>4. ASSUME NEW j \in 1..n, s[j] # s[i]
        PROVE  s[j] \in ToSet(t)
    <2>1. j # i
      BY <1>4
    <2>2. CASE j < i
      <3>1. j \in 1..n - 1 /\ t[j] = s[j]
        BY <1>a, <2>2
      <3> QED
        BY <1>a, <3>1 DEF ToSet
    <2>3. CASE j > i
      <3>1. PICK k \in 1..n - 1 : k = j - 1 /\ k + 1 = j /\ ~ (k < i)
        BY <2>3
      <3>2. t[k] = s[j]
        BY <1>a, <3>1
      <3> QED
        BY <1>a, <3>2 DEF ToSet
    <2> QED
      BY <2>1, <2>2, <2>3
  <1> QED
    BY <1>a, <1>1, <1>3, <1>4 DEF ToSet


\* Where std::lower_bound puts p.
LowerBound(side, s, n, p) == Min({k \in 1..n : ~ Better(side, s[k], p)} \cup {n + 1})

Worst(side, s, n, p) == \A k \in 1..n : Better(side, s[k], p)

LEMMA InsertKeepsOrder ==
    ASSUME NEW side \in Sides, NEW s \in Seq(Int), Sorted(side, s),
           NEW p \in Int, p \notin ToSet(s),
           NEW n \in Nat, Len(s) = n
    PROVE  LET t == InsertAt(s, LowerBound(side, s, n, p), p) IN
           /\ t \in Seq(Int) /\ Len(t) = n + 1
           /\ Sorted(side, t)
           /\ ToSet(t) = ToSet(s) \cup {p}
           /\ Worst(side, s, n, p) => Last(t) = p
  <1>2. s \in [1..n -> Int] /\ DOMAIN s = 1..n
    OBVIOUS
  <1>3. PICK F : F = {k \in 1..n : ~ Better(side, s[k], p)} \cup {n + 1}
    OBVIOUS
  <1>4. PICK i : i = Min(F)
    OBVIOUS
  <1>5. PICK t : t = InsertAt(s, i, p)
    OBVIOUS
  <1>6. i \in F /\ \A k \in F : i <= k
    <2>1. F \in SUBSET Nat /\ F # {}
      BY <1>3
    <2> QED
      BY <1>4, <2>1, MinIsLeast
  <1>7. i \in 1..n + 1
    BY <1>3, <1>6
  <1>8. \A k \in 1..n : k < i => Better(side, s[k], p)
    <2> SUFFICES ASSUME NEW k \in 1..n, k < i, ~ Better(side, s[k], p)
                 PROVE  FALSE
      OBVIOUS
    <2>1. k \in F
      BY <1>3
    <2> QED
      BY <1>6, <1>7, <2>1
  <1>9. i \in 1..n => ~ Better(side, s[i], p)
    BY <1>3, <1>6
  <1>10. ASSUME NEW k \in 1..n, k >= i
         PROVE  Better(side, p, s[k])
    <2>1. i \in 1..n
      BY <1>7, <1>10
    <2>2. s[i] \in Int /\ s[k] \in Int /\ s[i] # p
      BY <1>2, <2>1 DEF ToSet
    <2>3. Better(side, p, s[i])
      BY <1>9, <2>1, <2>2, BetterIsOrder
    <2>4. k > i => Better(side, s[i], s[k])
      BY <1>2, <2>1 DEF Sorted
    <2>5. k > i \/ k = i
      BY <1>7, <1>10
    <2> QED
      BY <2>2, <2>3, <2>4, <2>5, BetterIsOrder
  <1>11. t \in Seq(Int) /\ Len(t) = n + 1 /\ Inserted(t, s, n, i, p)
    BY <1>5, <1>7, InsertIsAt
  <1>12. Fits(side, s, n, i, p)
    BY <1>7, <1>8, <1>10 DEF Fits
  <1>13. Sorted(side, t) /\ ToSet(t) = ToSet(s) \cup {p}
    BY <1>2, <1>7, <1>11, <1>12, OrderWithNew
  <1>14. ASSUME Worst(side, s, n, p)
         PROVE  Last(t) = p
    <2>1. i = n + 1
      BY <1>3, <1>6, <1>14 DEF Worst
    <2>2. t[n + 1] = p
      BY <1>11, <2>1 DEF Inserted
    <2> QED
      BY <1>11, <2>2 DEF Last
  <1> QED
    BY <1>3, <1>4, <1>5, <1>11, <1>13, <1>14 DEF LowerBound

LEMMA RemoveKeepsOrder ==
    ASSUME NEW side \in Sides, NEW s \in Seq(Int), Sorted(side, s), NEW p \in ToSet(s),
           NEW n \in Nat, Len(s) = n
    PROVE  LET t == RemoveFirst(s, p) IN
           /\ t \in Seq(Int) /\ Len(t) = n - 1
           /\ Sorted(side, t)
           /\ ToSet(t) = ToSet(s) \ {p}
  <1>2. s \in [1..n -> Int] /\ DOMAIN s = 1..n
    OBVIOUS
  <1>3. PICK F : F = {k \in 1..n : s[k] = p}
    OBVIOUS
  <1>4. PICK i : i = Min(F)
    OBVIOUS
  <1>5. F \in SUBSET Nat /\ F # {}
    BY <1>2, <1>3 DEF ToSet
  <1>6. i \in 1..n /\ s[i] = p
    BY <1>3, <1>4, <1>5, MinIsLeast
  <1>7. PICK t : t = RemoveFirst(s, p)
    OBVIOUS
  <1>a. t = RemoveAt(s, i)
    BY <1>3, <1>4, <1>5, <1>7 DEF RemoveFirst, SelectInSeq
  <1>8. t \in Seq(Int) /\ Len(t) = n - 1 /\ Removed(t, s, n, i)
    BY <1>6, <1>a, RemoveIsAt
  <1>10. Sorted(side, t) /\ ToSet(t) = ToSet(s) \ {s[i]}
    BY <1>2, <1>6, <1>8, OrderWithout
  <1> QED
    BY <1>6, <1>7, <1>8, <1>10

\* The last id takes the place of the one at i.
Moved(t, s, n, i) == \A j \in 1..n - 1 : t[j] = IF j = i THEN s[n] ELSE s[j]

LEMMA FrontIsMoved ==
    ASSUME NEW S, NEW s \in Seq(S), NEW n \in Nat, Len(s) = n, NEW i \in 1..n
    PROVE  LET t == Front([s EXCEPT ![i] = Last(s)]) IN
           t \in Seq(S) /\ Len(t) = n - 1 /\ Moved(t, s, n, i)
  <1>1. s \in [1..n -> S] /\ n \in 1..n /\ Last(s) = s[n]
    BY DEF Last
  <1>2. PICK r : r = [s EXCEPT ![i] = Last(s)]
    OBVIOUS
  <1>3. r \in Seq(S) /\ Len(r) = n /\ r \in [1..n -> S]
    <2>1. s[n] \in S
      BY <1>1
    <2> QED
      BY <1>1, <1>2, <2>1, ExceptSeq
  <1>4. \A j \in 1..n : r[j] = IF j = i THEN s[n] ELSE s[j]
    BY <1>1, <1>2
  <1>5. PICK t : t = SubSeq(r, 1, n - 1)
    OBVIOUS
  <1>6. /\ t \in Seq(S) /\ Len(t) = n - 1
        /\ \A j \in 1..n - 1 : t[j] = r[j]
    <2>1. r \in Seq(S) /\ Len(r) = n
      BY <1>3
    <2>2. n - 1 + 1 = n
      OBVIOUS
    <2> QED
      BY <1>5, <2>1
  <1>7. Front([s EXCEPT ![i] = Last(s)]) = t
    BY <1>2, <1>3, <1>5 DEF Front
  <1> QED
    <2>1. Moved(t, s, n, i)
      BY <1>4, <1>6 DEF Moved
    <2> QED
      BY <1>6, <1>7, <2>1


-----------------------------------------------------------------------------
(* The levels of a side, and the ones that TryCreateLevel makes.           *)

\* A price at which an order of the side does not cross the other side.
Uncrossed(side, p) ==
    IF side = "Bid" THEN \A ask \in Prices("Ask") : p < ask
    ELSE \A bid \in Prices("Bid") : bid < p

LEMMA LevelsAre ==
    ASSUME LevelsInv, NEW side \in Sides
    PROVE  /\ levels[side] \in Seq(Int) /\ Size(side) \in Nat
           /\ Sorted(side, levels[side])
           /\ DOMAIN levels[side] = 1..Size(side)
           /\ Prices(side) \subseteq Int
           /\ \A n \in 1..Size(side) : levels[side][n] \in Prices(side)
           /\ levels[side] # <<>> => /\ Size(side) > 0
                                     /\ Head(levels[side]) = levels[side][1]
                                     /\ Head(levels[side]) \in Prices(side)
  <1>1. levels[side] \in Seq(Int) /\ Sorted(side, levels[side])
    BY DEF LevelsInv
  <1>2. PICK s \in Seq(Int) : s = levels[side]
    BY <1>1
  <1>3. Len(s) \in Nat /\ DOMAIN s = 1..Len(s)
    OBVIOUS
  <1>4. ToSet(s) \subseteq Int /\ \A n \in 1..Len(s) : s[n] \in ToSet(s)
    BY <1>3 DEF ToSet
  <1>5. s # <<>> => Len(s) > 0 /\ Head(s) = s[1] /\ Head(s) \in ToSet(s)
    BY <1>3, <1>4
  <1> QED
    BY <1>1, <1>2, <1>3, <1>4, <1>5 DEF Size, Prices

LEMMA BestFirst ==
    ASSUME LevelsInv, NEW side \in Sides, NEW p \in Prices(side)
    PROVE  p = Head(levels[side]) \/ Better(side, Head(levels[side]), p)
  <1>1. PICK n \in 1..Size(side) : p = levels[side][n]
    BY LevelsAre DEF Prices, ToSet
  <1>2. levels[side] # <<>>
    BY <1>1, LevelsAre DEF Size
  <1>3. 1 \in 1..Size(side) /\ Head(levels[side]) = levels[side][1]
    BY <1>1, <1>2, LevelsAre
  <1>4. n > 1 => Better(side, levels[side][1], levels[side][n])
    BY <1>1, <1>3, LevelsAre DEF Sorted
  <1> QED
    BY <1>1, <1>3, <1>4

LEMMA LastIsWorst ==
    ASSUME LevelsInv, NEW side \in Sides, levels[side] # <<>>
    PROVE  /\ Last(levels[side]) \in Prices(side)
           /\ \A n \in 1..Size(side) : levels[side][n] = Last(levels[side])
                                         \/ Better(side, levels[side][n], Last(levels[side]))
  <1>1. Size(side) \in 1..Size(side) /\ Last(levels[side]) = levels[side][Size(side)]
    BY LevelsAre DEF Last, Size
  <1>2. ASSUME NEW n \in 1..Size(side), n # Size(side)
        PROVE  Better(side, levels[side][n], levels[side][Size(side)])
    <2>1. n < Size(side)
      BY <1>1, <1>2, LevelsAre
    <2> QED
      BY <1>1, <2>1, LevelsAre DEF Sorted
  <1> QED
    BY <1>1, <1>2, LevelsAre

(* The loop over taken prices ends: the prices it may try are more than    *)
(* the levels of the side, and different from each other.                  *)
LEMMA FreeBelow ==
    ASSUME LevelsInv, NEW side \in Sides, DOMAIN queue[side] = Prices(side),
           NEW l \in Prices(side)
    PROVE  LET p == FirstFree(side, TowardTail(side, l, 1)) IN
           /\ p \in Int \ Prices(side)
           /\ \E m \in Prices(side) : p = TowardTail(side, m, 1)
  <1>1. PICK b \in Int : b = TowardTail(side, l, 1)
    BY LevelsAre DEF TowardTail, Sides
  <1>2. PICK n \in Nat : n = Size(side)
    BY LevelsAre
  <1>3. PICK F : F = {k \in 0..n : TowardTail(side, b, k) \notin Prices(side)}
    OBVIOUS
  <1>4. \A j, k \in 0..n : TowardTail(side, b, j) = TowardTail(side, b, k) => j = k
    BY DEF TowardTail
  <1>5. F # {}
    <2> SUFFICES ASSUME \A k \in 0..n : TowardTail(side, b, k) \in Prices(side)
                 PROVE  FALSE
      BY <1>3
    <2>1. \A k \in 0..n : \E i \in 1..n : TowardTail(side, b, k) = levels[side][i]
      BY <1>2, LevelsAre DEF Prices, ToSet
    <2>2. PICK f : f = [k \in 0..n |-> CHOOSE i \in 1..n : TowardTail(side, b, k) = levels[side][i]]
      OBVIOUS
    <2>3. \A k \in 0..n : f[k] \in 1..n /\ TowardTail(side, b, k) = levels[side][f[k]]
      BY <2>1, <2>2
    <2>4. f \in [0..n -> 1..n]
      BY <2>2, <2>3
    <2>5. /\ IsFiniteSet(0..n) /\ IsFiniteSet(1..n)
          /\ Cardinality(1..n) < Cardinality(0..n)
      <3>1. IsFiniteSet(0..n) /\ Cardinality(0..n) = n + 1
        BY FS_Interval
      <3>2. IsFiniteSet(1..n) /\ Cardinality(1..n) = n
        BY FS_Interval
      <3> QED
        BY <3>1, <3>2
    <2>6. PICK x, y \in 0..n : x # y /\ f[x] = f[y]
      BY <2>4, <2>5, FS_PigeonHole
    <2> QED
      BY <1>4, <2>3, <2>6
  <1>6. PICK i : i = Min(F)
    OBVIOUS
  <1>7. i \in F /\ \A k \in F : i <= k
    <2>1. F \in SUBSET Nat
      BY <1>3
    <2> QED
      BY <1>5, <1>6, <2>1, MinIsLeast
  <1>8. FirstFree(side, TowardTail(side, l, 1)) = TowardTail(side, b, i)
    BY <1>1, <1>2, <1>3, <1>6, Zenon DEF FirstFree
  <1>9. i \in 0..n /\ TowardTail(side, b, i) \notin Prices(side)
    BY <1>3, <1>7
  <1>10. TowardTail(side, b, i) \in Int
    BY <1>9 DEF TowardTail
  <1>11. \E m \in Prices(side) : TowardTail(side, b, i) = TowardTail(side, m, 1)
    <2>1. CASE i = 0
      <3>1. TowardTail(side, b, i) = b
        BY <2>1 DEF TowardTail
      <3> QED
        BY <1>1, <3>1
    <2>2. CASE i # 0
      <3>1. i - 1 \in 0..n /\ i - 1 < i
        BY <1>9, <2>2
      <3>2. i - 1 \notin F
        BY <1>3, <1>7, <3>1
      <3>3. TowardTail(side, b, i - 1) \in Prices(side)
        BY <1>3, <3>1, <3>2
      <3>4. TowardTail(side, b, i) = TowardTail(side, TowardTail(side, b, i - 1), 1)
        BY <1>9 DEF TowardTail
      <3> QED
        BY <3>3, <3>4
    <2> QED
      BY <2>1, <2>2
  <1> QED
    BY <1>8, <1>9, <1>10, <1>11


LEMMA CandidateFits ==
    ASSUME LevelsInv, NEW side \in Sides, DOMAIN queue[side] = Prices(side),
           levels["Bid"] # <<>>, levels["Ask"] # <<>>,
           NEW k \in Nat, CanCreate(side, k), NEW p, p = Candidate(side, k)
    PROVE  /\ p \in Int \ Prices(side)
           /\ Uncrossed(side, p)
           /\ side = "Bid" => \E bid \in Prices("Bid") : p >= bid - 1
  <1>1. PICK o \in Sides : o = Opposite(side) /\ levels[o] # <<>> /\ levels[side] # <<>>
    BY DEF Opposite, Sides
  <1>2. /\ Head(levels[side]) \in Prices(side) /\ Head(levels[side]) \in Int
        /\ Head(levels[o]) \in Prices(o) /\ Head(levels[o]) \in Int
    BY <1>1, LevelsAre
  <1>3. Prices(side) \subseteq Int /\ Prices(o) \subseteq Int
    BY LevelsAre
  <1>4. CASE k = 0 /\ ~ TopCrosses(side)
    <2>1. p = TopCandidate(side) /\ p = TowardTop(side, Head(levels[side]))
      BY <1>4 DEF Candidate, TopCandidate
    <2>2. p \in Int /\ Better(side, p, Head(levels[side]))
      BY <1>2, <2>1, BetterIsOrder
    <2>3. p \notin Prices(side)
      <3> SUFFICES ASSUME p \in Prices(side)
                   PROVE  FALSE
        OBVIOUS
      <3>1. p = Head(levels[side]) \/ Better(side, Head(levels[side]), p)
        BY BestFirst
      <3> QED
        BY <1>2, <2>2, <3>1, BetterIsOrder
    <2>4. Better(side, Head(levels[o]), p) = FALSE => FALSE
      BY <1>1, <1>4, <2>1 DEF TopCrosses
    <2>5. ASSUME NEW q \in Prices(o)
          PROVE  IF side = "Bid" THEN p < q ELSE q < p
      <3>1. q = Head(levels[o]) \/ Better(o, Head(levels[o]), q)
        BY BestFirst
      <3> QED
        BY <1>1, <1>2, <1>3, <2>2, <2>4, <3>1 DEF Better, Opposite, Sides
    <2>6. Uncrossed(side, p)
      BY <1>1, <2>5 DEF Uncrossed, Opposite, Sides
    <2>7. side = "Bid" => p >= Head(levels["Bid"]) - 1
      BY <1>2, <2>1 DEF TowardTop, TowardTail
    <2> QED
      BY <1>2, <2>2, <2>3, <2>6, <2>7
  <1>5. CASE ~ (k = 0 /\ ~ TopCrosses(side))
    <2>1. PICK base : base = Min({Max({k, 1}), Size(side)})
      OBVIOUS
    <2>2. PICK n \in Nat \ {0} : n = Size(side)
      BY <1>1, LevelsAre
    <2>3. base \in 1..n
      <3>1. PICK m \in Nat \ {0} : m = Max({k, 1})
        BY MaxOfTwo
      <3>2. base = IF m <= n THEN m ELSE n
        <4>1. base = Min({m, n})
          BY <2>1, <2>2, <3>1
        <4> QED
          BY <4>1, MinOfTwo
      <3> QED
        BY <3>2
    <2>4. PICK l \in Prices(side) : l = levels[side][base]
      BY <2>2, <2>3, LevelsAre
    <2>5. p = FirstFree(side, TowardTail(side, l, 1))
      BY <1>5, <2>1, <2>4 DEF Candidate
    <2>6. p \in Int \ Prices(side) /\ \E m \in Prices(side) : p = TowardTail(side, m, 1)
      BY <2>5, FreeBelow
    <2>7. PICK m \in Prices(side) : p = TowardTail(side, m, 1)
      BY <2>6
    <2>8. Uncrossed(side, p)
      BY <1>3, <2>7, LevelsAre DEF Uncrossed, TowardTail, LevelsInv, Sides
    <2>9. side = "Bid" => p = m - 1
      BY <2>7 DEF TowardTail
    <2> QED
      BY <1>3, <2>6, <2>8, <2>9
  <1> QED
    BY <1>4, <1>5

LEMMA WithLevelIs ==
    ASSUME LevelsInv, NEW side \in Sides, NEW p \in Int \ Prices(side),
           NEW t, t = WithLevel(side, p)
    PROVE  /\ t \in Seq(Int) /\ Sorted(side, t)
           /\ ToSet(t) = Prices(side) \cup {p}
           /\ Len(t) = Size(side) + 1
           /\ Worst(side, levels[side], Size(side), p) => Last(t) = p
  <1>1. PICK s \in Seq(Int) : s = levels[side]
    BY LevelsAre
  <1>2. PICK n \in Nat : n = Len(s)
    OBVIOUS
  <1>3. t = InsertAt(s, LowerBound(side, s, n, p), p)
    BY <1>1, <1>2, Zenon DEF WithLevel, Size, LowerBound
  <1>4. Sorted(side, s) /\ p \notin ToSet(s) /\ p \in Int
    BY <1>1, LevelsAre DEF Prices
  <1>5. /\ t \in Seq(Int) /\ Len(t) = n + 1 /\ Sorted(side, t) /\ ToSet(t) = ToSet(s) \cup {p}
        /\ Worst(side, s, n, p) => Last(t) = p
    BY <1>2, <1>3, <1>4, InsertKeepsOrder
  <1> QED
    BY <1>1, <1>2, <1>5 DEF Prices, Size

LEMMA LevelsWith ==
    ASSUME LevelsInv, NEW side \in Sides, NEW p \in Int \ Prices(side), Uncrossed(side, p),
           levels' = [levels EXCEPT ![side] = WithLevel(side, p)]
    PROVE  /\ LevelsInv'
           /\ Prices(side)' = Prices(side) \cup {p}
           /\ \A other \in Sides \ {side} : Prices(other)' = Prices(other)
           /\ \A s \in Sides : levels[s] # <<>> => levels'[s] # <<>>
  <1>1. PICK t : t = WithLevel(side, p)
    OBVIOUS
  <1>2. t \in Seq(Int) /\ Sorted(side, t) /\ ToSet(t) = Prices(side) \cup {p}
    BY <1>1, WithLevelIs
  <1>3. levels \in [Sides -> Seq(Int)]
    BY DEF LevelsInv
  <1>4. /\ levels' \in [Sides -> Seq(Int)]
        /\ levels'[side] = t
        /\ \A other \in Sides \ {side} : levels'[other] = levels[other]
    BY <1>1, <1>2, <1>3
  <1>5. /\ Prices(side)' = Prices(side) \cup {p}
        /\ \A other \in Sides \ {side} : Prices(other)' = Prices(other)
    BY <1>2, <1>4 DEF Prices
  <1>6. \A x \in Sides : Sorted(x, levels'[x])
    BY <1>2, <1>4, LevelsAre
  <1>7. ASSUME NEW bid \in Prices("Bid")', NEW ask \in Prices("Ask")'
        PROVE  bid < ask
    BY <1>5 DEF LevelsInv, Uncrossed, Sides
  <1>8. LevelsInv'
    BY <1>4, <1>6, <1>7 DEF LevelsInv
  <1>9. t # <<>>
    <2>1. ToSet(<<>>) = {}
      BY DEF ToSet
    <2> QED
      BY <1>2, <2>1
  <1> QED
    BY <1>4, <1>5, <1>8, <1>9

LEMMA LevelsWithout ==
    ASSUME LevelsInv, NEW side \in Sides, NEW p \in Prices(side),
           levels' = [levels EXCEPT ![side] = RemoveFirst(@, p)]
    PROVE  /\ LevelsInv'
           /\ Prices(side)' = Prices(side) \ {p}
           /\ \A other \in Sides \ {side} : levels'[other] = levels[other]
           /\ \A other \in Sides \ {side} : Prices(other)' = Prices(other)
           /\ Size(side)' = Size(side) - 1
  <1>1. PICK s \in Seq(Int) : s = levels[side]
    BY LevelsAre
  <1>2. PICK n \in Nat : n = Len(s)
    OBVIOUS
  <1>3. PICK t : t = RemoveFirst(s, p)
    OBVIOUS
  <1>4. Sorted(side, s) /\ p \in ToSet(s)
    BY <1>1, LevelsAre DEF Prices
  <1>5. t \in Seq(Int) /\ Len(t) = n - 1 /\ Sorted(side, t) /\ ToSet(t) = ToSet(s) \ {p}
    BY <1>2, <1>3, <1>4, RemoveKeepsOrder
  <1>6. levels \in [Sides -> Seq(Int)]
    BY DEF LevelsInv
  <1>7. /\ levels' \in [Sides -> Seq(Int)]
        /\ levels'[side] = t
        /\ \A other \in Sides \ {side} : levels'[other] = levels[other]
    BY <1>1, <1>3, <1>5, <1>6
  <1>8. /\ Prices(side)' = Prices(side) \ {p}
        /\ \A other \in Sides \ {side} : Prices(other)' = Prices(other)
    BY <1>1, <1>5, <1>7 DEF Prices
  <1>9. \A x \in Sides : Sorted(x, levels'[x])
    BY <1>5, <1>7, LevelsAre
  <1>10. ASSUME NEW bid \in Prices("Bid")', NEW ask \in Prices("Ask")'
         PROVE  bid < ask
    BY <1>8 DEF LevelsInv, Sides
  <1>11. LevelsInv'
    BY <1>7, <1>9, <1>10 DEF LevelsInv
  <1>12. Size(side)' = Size(side) - 1
    BY <1>1, <1>2, <1>5, <1>7 DEF Size
  <1> QED
    BY <1>7, <1>8, <1>11, <1>12

-----------------------------------------------------------------------------
(* Where orders are, and that they do not cross.                           *)
LEMMA OrdersApart ==
    ASSUME OrdersInv,
           NEW s \in Sides, NEW p \in Prices(s), NEW n \in DOMAIN queue[s][p],
           NEW s1 \in Sides, NEW p1 \in Prices(s1), NEW n1 \in DOMAIN queue[s1][p1],
           queue[s][p][n] = queue[s1][p1][n1]
    PROVE  s = s1 /\ p = p1 /\ n = n1
  <1>1. Placed(s, p, n) /\ Placed(s1, p1, n1)
    BY DEF OrdersInv
  <1> QED
    BY <1>1 DEF Placed, Record

LiveInLevels ==
    \A id : id \in Live <=>
      \E s \in Sides : \E p \in Prices(s) : \E n \in DOMAIN queue[s][p] : id = queue[s][p][n]

LEMMA LiveArePlaced ==
    OrdersInv => LiveInLevels
  <1> SUFFICES ASSUME OrdersInv
               PROVE  LiveInLevels
    OBVIOUS
  <1>1. ASSUME NEW s \in Sides, NEW id
        PROVE  id \in Queued(s) <=> \E p \in Prices(s) : \E n \in DOMAIN queue[s][p] : id = queue[s][p][n]
    <2>1. DOMAIN queue[s] = Prices(s)
      BY DEF OrdersInv
    <2> QED
      BY <2>1 DEF Queued, ToSet
  <1>2. \A id : id \in Live <=> \E s \in Sides : id \in Queued(s)
    BY DEF Live, Sides
  <1> QED
    BY <1>1, <1>2 DEF LiveInLevels

LEMMA PlacedOrder ==
    ASSUME OrdersInv, NEW s \in Sides, NEW p \in Prices(s), NEW n \in DOMAIN queue[s][p],
           NEW id, id = queue[s][p][n]
    PROVE  /\ id \in Live /\ id \in DOMAIN table
           /\ table[id].side = s /\ table[id].price = p /\ table[id].slot = n
           /\ table[id].volume \in Nat \ {0}
           /\ table[id] = Record(s, p, table[id].volume, n)
           /\ Shown(id) = [side |-> s, price |-> p, volume |-> table[id].volume]
  <1>1. Placed(s, p, n)
    BY DEF OrdersInv
  <1>2. id \in DOMAIN table /\ table[id].volume \in Nat \ {0}
        /\ table[id] = Record(s, p, table[id].volume, n)
    BY <1>1 DEF Placed
  <1>3. table[id].side = s /\ table[id].price = p /\ table[id].slot = n
    BY <1>2 DEF Record
  <1> QED
    BY <1>2, <1>3, LiveArePlaced DEF Shown, LiveInLevels

LEMMA NotCrossed ==
    LevelsInv /\ OrdersInv /\ ShowsPicture => Uncrossing
  <1> SUFFICES ASSUME LevelsInv, OrdersInv, ShowsPicture,
                      NEW bid \in Live, NEW ask \in Live,
                      book[bid].side = "Bid", book[ask].side = "Ask"
               PROVE  ~ (book[bid].price >= book[ask].price)
    BY DEF Validator!Crossed, Uncrossing, ShowsPicture
  <1>1. PICK s \in Sides : \E p \in Prices(s) : \E n \in DOMAIN queue[s][p] : bid = queue[s][p][n]
    BY LiveArePlaced DEF LiveInLevels
  <1>2. PICK p \in Prices(s) : \E n \in DOMAIN queue[s][p] : bid = queue[s][p][n]
    BY <1>1
  <1>3. s = "Bid" /\ book[bid].price = p
    BY <1>2, PlacedOrder DEF ShowsPicture
  <1>4. PICK s1 \in Sides : \E q \in Prices(s1) : \E n \in DOMAIN queue[s1][q] : ask = queue[s1][q][n]
    BY LiveArePlaced DEF LiveInLevels
  <1>5. PICK q \in Prices(s1) : \E n \in DOMAIN queue[s1][q] : ask = queue[s1][q][n]
    BY <1>4
  <1>6. s1 = "Ask" /\ book[ask].price = q
    BY <1>5, PlacedOrder DEF ShowsPicture
  <1>7. p < q /\ p \in Int /\ q \in Int
    BY <1>3, <1>6, LevelsAre DEF LevelsInv
  <1> QED
    BY <1>3, <1>6, <1>7


-----------------------------------------------------------------------------
LEMMA ConfigIs ==
    ASSUME ControlInv
    PROVE  /\ cfg.levels \in Nat \ {0} /\ cfg.perLevel \in Nat \ {0}
           /\ cfg.depth \in Nat /\ cfg.volume \in Nat
           /\ cfg.mid \in Int /\ cfg.updates \in Nat
           /\ SeedCount <= cfg.updates
           /\ MaxGap \in Nat \ {0}
  BY ConfigsAssumption, DrawsAssumption DEF ControlInv, IsConfig, SeedCount

\* There is a depth to sample, with or without a table of them.
LEMMA DepthsAre ==
    ASSUME ControlInv
    PROVE  SampledDepth \subseteq Nat /\ SampledDepth # {}
  <1>1. cfg.depth \in Nat /\ MaxU32 \in Nat
    BY ConfigIs, DrawsAssumption
  <1>2. CASE cfg.depth = 0
    BY <1>1, <1>2 DEF SampledDepth
  <1>3. CASE cfg.depth # 0
    <2>1. 0 \in 0..cfg.depth - 1
      BY <1>1, <1>3
    <2> QED
      BY <1>1, <1>3, <2>1 DEF SampledDepth
  <1> QED
    BY <1>2, <1>3

(* An add: to a level that is there or to a new one.                       *)
LEMMA AddStep ==
    ASSUME ControlInv, OrdersInv, BookInv, LevelsInv', cfg' = cfg,
           NEW side \in Sides, NEW p \in Int, RoomBelow => p > 0,
           Prices(side)' = Prices(side) \cup {p},
           \A other \in Sides \ {side} : Prices(other)' = Prices(other),
           EmitAdd(side, p)
    PROVE  /\ OrdersInv' /\ BookInv'
           /\ count' = count + 1
           /\ queue'[side][p] # <<>>
           /\ \A s \in Sides : \A q \in Prices(s)' :
                ~ (s = side /\ q = p) => queue'[s][q] = queue[s][q] /\ q \in Prices(s)
  <1>1. PICK v \in Nat \ {0} :
          /\ queue' = [queue EXCEPT ![side] = Put(@, p, Append(IdsAt(side, p), nextId))]
          /\ table' = IF nextId \in DOMAIN table THEN table
                      ELSE Put(table, nextId, Record(side, p, v, Len(IdsAt(side, p)) + 1))
          /\ nextId' = nextId + 1
          /\ Emit(Update("Add", nextId, side, p, v))
    <2>1. cfg.volume \in Nat
      BY ConfigIs
    <2> QED
      BY <2>1 DEF EmitAdd, Volumes
  <1>2. /\ nextId \in Nat \ {0} /\ nextId \notin DOMAIN table
        /\ DOMAIN table \subseteq 1..nextId - 1
        /\ \A s \in Sides : DOMAIN queue[s] = Prices(s) /\ queue[s] \in [Prices(s) -> Seq(Nat \ {0})]
    BY DEF OrdersInv
  <1>3. PICK ids \in Seq(Nat \ {0}) :
          ids = IdsAt(side, p) /\ (p \in Prices(side) => ids = queue[side][p])
    <2>1. CASE p \in Prices(side)
      <3>1. IdsAt(side, p) = queue[side][p] /\ queue[side][p] \in Seq(Nat \ {0})
        BY <1>2, <2>1 DEF IdsAt
      <3> QED
        BY <3>1
    <2>2. CASE p \notin Prices(side)
      <3>1. IdsAt(side, p) = <<>> /\ <<>> \in Seq(Nat \ {0})
        BY <1>2, <2>2 DEF IdsAt
      <3> QED
        BY <2>2, <3>1
    <2> QED
      BY <2>1, <2>2
  <1>4. PICK n \in Nat : n = Len(ids)
    OBVIOUS
  <1>5. PICK new : new = Append(ids, nextId)
    OBVIOUS
  <1>6. /\ new \in Seq(Nat \ {0}) /\ Len(new) = n + 1 /\ new # <<>>
        /\ \A j \in 1..n : new[j] = ids[j]
        /\ new[n + 1] = nextId
    BY <1>2, <1>4, <1>5, AppendProperties
  <1>7. table' = Put(table, nextId, Record(side, p, v, n + 1))
    BY <1>1, <1>2, <1>3, <1>4
  <1>8. /\ DOMAIN table' = DOMAIN table \cup {nextId}
        /\ table'[nextId] = Record(side, p, v, n + 1)
        /\ \A id \in DOMAIN table : table'[id] = table[id]
        /\ table' = [id \in DOMAIN table' |-> table'[id]]
    BY <1>2, <1>7 DEF Put
  <1>9. /\ queue'[side] = Put(queue[side], p, new)
        /\ \A s \in Sides \ {side} : queue'[s] = queue[s]
        /\ queue' = [s \in Sides |-> queue'[s]]
    <2>1. queue = [s \in Sides |-> queue[s]]
      BY DEF OrdersInv
    <2>2. queue' = [queue EXCEPT ![side] = Put(queue[side], p, new)]
      BY <1>1, <1>3, <1>5
    <2> QED
      BY <2>1, <2>2
  <1>10. /\ DOMAIN queue'[side] = Prices(side) \cup {p}
         /\ queue'[side][p] = new
         /\ \A q \in Prices(side) \ {p} : queue'[side][q] = queue[side][q]
    BY <1>2, <1>9 DEF Put
  <1>11. \A s \in Sides : \A q \in Prices(s)' :
           ~ (s = side /\ q = p) => queue'[s][q] = queue[s][q] /\ q \in Prices(s)
    BY <1>9, <1>10
  <1>12. \A s \in Sides : queue'[s] \in [Prices(s)' -> Seq(Nat \ {0})]
    <2>1. queue'[side] \in [Prices(side)' -> Seq(Nat \ {0})]
      BY <1>2, <1>6, <1>9, <1>10 DEF Put
    <2> QED
      BY <1>2, <1>9, <2>1
  <1>13. ASSUME NEW s \in Sides, NEW q \in Prices(s)', NEW m \in DOMAIN queue'[s][q]
         PROVE  Placed(s, q, m)'
    <2>1. CASE ~ (s = side /\ q = p)
      <3>1. q \in Prices(s) /\ queue'[s][q] = queue[s][q]
        BY <1>11, <2>1
      <3>2. Placed(s, q, m)
        BY <1>13, <3>1 DEF OrdersInv
      <3> QED
        BY <1>8, <3>1, <3>2 DEF Placed
    <2>2. CASE s = side /\ q = p
      <3>1. m \in 1..n + 1 /\ queue'[s][q] = new
        BY <1>6, <1>10, <1>13, <2>2
      <3>2. CASE m = n + 1
        <4>1. queue'[s][q][m] = nextId
          BY <1>6, <3>1, <3>2
        <4>2. table'[nextId] = Record(s, q, v, m) /\ table'[nextId].volume = v
          BY <1>8, <2>2, <3>2 DEF Record
        <4> QED
          BY <1>8, <4>1, <4>2 DEF Placed
      <3>3. CASE m # n + 1
        <4>1. m \in 1..n /\ new[m] = ids[m]
          BY <1>6, <3>1, <3>3
        <4>2. q \in Prices(s) /\ ids = queue[s][q]
          <5>1. ids # <<>>
            BY <1>4, <4>1
          <5> QED
            BY <1>2, <1>3, <2>2, <5>1 DEF IdsAt
        <4>3. Placed(s, q, m)
          BY <1>4, <4>1, <4>2 DEF OrdersInv
        <4> QED
          BY <1>8, <3>1, <4>1, <4>2, <4>3 DEF Placed
      <3> QED
        BY <3>2, <3>3
    <2> QED
      BY <2>1, <2>2
  <1>14. OrdersInv'
    <2>1. DOMAIN table' \subseteq 1..nextId' - 1 /\ nextId' \in Nat \ {0}
      BY <1>1, <1>2, <1>8
    <2> QED
      BY <1>8, <1>9, <1>12, <1>13, <2>1 DEF OrdersInv
  <1>15. LiveInLevels /\ LiveInLevels'
    BY <1>14, LiveArePlaced, PTL
  <1>16. \A id : id \in Live' <=> id \in Live \/ id = nextId
    <2>1. ASSUME NEW id, id \in Live'
          PROVE  id \in Live \/ id = nextId
      <3>1. PICK s \in Sides : \E q \in Prices(s)' : \E m \in DOMAIN queue'[s][q] : id = queue'[s][q][m]
        BY <1>15, <2>1 DEF LiveInLevels
      <3>2. PICK q \in Prices(s)' : \E m \in DOMAIN queue'[s][q] : id = queue'[s][q][m]
        BY <3>1
      <3>3. PICK m \in DOMAIN queue'[s][q] : id = queue'[s][q][m]
        BY <3>2
      <3>4. CASE ~ (s = side /\ q = p)
        BY <1>11, <1>15, <3>3, <3>4 DEF LiveInLevels
      <3>5. CASE s = side /\ q = p
        <4>1. m \in 1..n + 1 /\ id = new[m]
          BY <1>6, <1>10, <3>3, <3>5
        <4>2. m \in 1..n => id = ids[m] /\ p \in Prices(side) /\ m \in DOMAIN queue[side][p]
          BY <1>2, <1>3, <1>4, <1>6, <4>1 DEF IdsAt
        <4> QED
          BY <1>3, <1>6, <1>15, <4>1, <4>2 DEF LiveInLevels
      <3> QED
        BY <3>4, <3>5
    <2>2. nextId \in Live'
      <3>1. p \in Prices(side)' /\ n + 1 \in DOMAIN queue'[side][p] /\ queue'[side][p][n + 1] = nextId
        BY <1>6, <1>10
      <3> QED
        BY <1>15, <3>1 DEF LiveInLevels
    <2>3. ASSUME NEW id, id \in Live
          PROVE  id \in Live'
      <3>1. PICK s \in Sides : \E q \in Prices(s) : \E m \in DOMAIN queue[s][q] : id = queue[s][q][m]
        BY <1>15, <2>3 DEF LiveInLevels
      <3>2. PICK q \in Prices(s) : \E m \in DOMAIN queue[s][q] : id = queue[s][q][m]
        BY <3>1
      <3>3. PICK m \in DOMAIN queue[s][q] : id = queue[s][q][m]
        BY <3>2
      <3>4. q \in Prices(s)'
        BY <3>2
      <3>5. m \in DOMAIN queue'[s][q] /\ queue'[s][q][m] = queue[s][q][m]
        <4>1. CASE ~ (s = side /\ q = p)
          BY <1>11, <3>3, <3>4, <4>1
        <4>2. CASE s = side /\ q = p
          <5>1. m \in 1..n /\ queue[s][q][m] = ids[m]
            BY <1>3, <1>4, <3>2, <3>3, <4>2
          <5>2. m \in DOMAIN new /\ new[m] = ids[m]
            BY <1>6, <5>1
          <5> QED
            BY <1>10, <4>2, <5>1, <5>2
        <4> QED
          BY <4>1, <4>2
      <3> QED
        BY <1>15, <3>3, <3>4, <3>5 DEF LiveInLevels
    <2> QED
      BY <2>1, <2>2, <2>3
  <1>17. ASSUME RoomBelow
         PROVE  verdict' = "ok" /\ ShowsPicture'
    <2>1. verdict = "ok" /\ book = [id \in Live |-> Shown(id)]
      BY <1>17 DEF BookInv, ShowsPicture
    <2>2. Live \subseteq DOMAIN table
      <3>1. \A s \in Sides : \A q \in Prices(s) : \A m \in DOMAIN queue[s][q] :
              queue[s][q][m] \in DOMAIN table
        BY PlacedOrder
      <3> QED
        BY <1>15, <3>1 DEF LiveInLevels
    <2>3. PICK u : u = Update("Add", nextId, side, p, v)
      OBVIOUS
    <2>4. u.type = "Add" /\ u.id = nextId /\ u.side = side /\ u.price = p /\ u.volume = v
      BY <2>3 DEF Update
    <2>5. Validator!Complaint(u) = "ok"
      BY <1>2, <1>17, <2>1, <2>2, <2>4 DEF Validator!Complaint
    <2>6. book' = Validator!Applied(u) /\ verdict' = IF Validator!Crossed(book') THEN "crossed" ELSE "ok"
      BY <1>1, <2>1, <2>3, <2>5 DEF Emit, Validator!Check
    <2>7. book' = [id \in Live \cup {nextId} |->
                     IF id = nextId THEN [side |-> side, price |-> p, volume |-> v] ELSE Shown(id)]
      BY <1>2, <2>1, <2>2, <2>4, <2>6 DEF Validator!Applied, Validator!Order
    <2>8. \A id : id = nextId => Shown(id)' = [side |-> side, price |-> p, volume |-> v]
      BY <1>8 DEF Shown, Record
    <2>9. \A id \in Live : Shown(id)' = Shown(id) /\ id # nextId
      BY <1>2, <1>8, <2>2 DEF Shown
    <2>10. book' = [id \in Live' |-> Shown(id)']
      BY <1>16, <2>7, <2>8, <2>9
    <2>11. ShowsPicture'
      BY <2>10 DEF ShowsPicture
    <2>12. ~ Validator!Crossed(book')
      <3>1. Uncrossing'
        BY <1>14, <2>11, NotCrossed, PTL
      <3> QED
        BY <3>1 DEF Uncrossing
    <2> QED
      BY <2>6, <2>11, <2>12
  <1>18. BookInv'
    BY <1>17 DEF BookInv, RoomBelow
  <1> QED
    BY <1>1, <1>6, <1>10, <1>11, <1>14, <1>18 DEF Emit


(* A modify of an order that is there.                                     *)
LEMMA ModifyStep ==
    ASSUME LevelsInv, OrdersInv, BookInv, cfg' = cfg,
           NEW side \in Sides, NEW p \in Prices(side), NEW n \in DOMAIN queue[side][p],
           NEW id, id = queue[side][p][n], NEW v \in Nat \ {0},
           table' = [table EXCEPT ![id].volume = v],
           Emit(Update("Modify", id, table[id].side, table[id].price, v)),
           UNCHANGED <<levels, queue, nextId>>
    PROVE  LevelsInv' /\ OrdersInv' /\ BookInv' /\ count' = count + 1
  <1>1. LevelsInv'
    BY DEF LevelsInv, Prices, Sorted
  <1>2. /\ id \in Live /\ id \in DOMAIN table
        /\ table[id] = Record(side, p, table[id].volume, n)
        /\ table[id].side = side /\ table[id].price = p
        /\ Shown(id) = [side |-> side, price |-> p, volume |-> table[id].volume]
    BY PlacedOrder
  <1>3. \A s \in Sides : Prices(s)' = Prices(s)
    BY DEF Prices
  <1>4. table = [x \in DOMAIN table |-> table[x]]
    BY DEF OrdersInv
  <1>5. /\ DOMAIN table' = DOMAIN table
        /\ table' = [x \in DOMAIN table' |-> table'[x]]
        /\ \A x \in DOMAIN table \ {id} : table'[x] = table[x]
        /\ table'[id] = [table[id] EXCEPT !.volume = v]
    BY <1>2, <1>4
  <1>6. table'[id] = Record(side, p, v, n)
    BY <1>2, <1>5 DEF Record
  <1>7. ASSUME NEW s \in Sides, NEW q \in Prices(s), NEW m \in DOMAIN queue[s][q]
        PROVE  Placed(s, q, m)'
    <2>1. CASE queue[s][q][m] = id
      <3>1. s = side /\ q = p /\ m = n
        BY <2>1, OrdersApart
      <3>2. table'[id].volume = v
        BY <1>6 DEF Record
      <3> QED
        BY <1>2, <1>5, <1>6, <2>1, <3>1, <3>2 DEF Placed
    <2>2. CASE queue[s][q][m] # id
      <3>1. Placed(s, q, m)
        BY DEF OrdersInv
      <3> QED
        BY <1>5, <2>2, <3>1 DEF Placed
    <2> QED
      BY <2>1, <2>2
  <1>8. OrdersInv'
    BY <1>3, <1>5, <1>7 DEF OrdersInv
  <1>9. Live' = Live
    BY DEF Live, Queued
  <1>10. ASSUME RoomBelow
         PROVE  verdict' = "ok" /\ ShowsPicture'
    <2>1. verdict = "ok" /\ book = [x \in Live |-> Shown(x)]
      BY <1>10 DEF BookInv, ShowsPicture
    <2>2. PICK u : u = Update("Modify", id, side, p, v)
      OBVIOUS
    <2>3. u.type = "Modify" /\ u.id = id /\ u.side = side /\ u.price = p /\ u.volume = v
      BY <2>2 DEF Update
    <2>4. Validator!Complaint(u) = "ok"
      <3>1. book[u.id].side = u.side /\ book[u.id].price = u.price /\ u.id \in DOMAIN book
        BY <1>2, <2>1, <2>3
      <3> QED
        BY <2>3, <3>1 DEF Validator!Complaint
    <2>5. book' = Validator!Applied(u) /\ verdict' = IF Validator!Crossed(book') THEN "crossed" ELSE "ok"
      BY <1>2, <2>1, <2>2, <2>4 DEF Emit, Validator!Check
    <2>6. book' = [x \in Live |->
                     IF x = id THEN [side |-> side, price |-> p, volume |-> v] ELSE Shown(x)]
      BY <1>2, <2>1, <2>3, <2>5 DEF Validator!Applied, Validator!Order
    <2>7. Shown(id)' = [side |-> side, price |-> p, volume |-> v]
      BY <1>6 DEF Shown, Record
    <2>8. Live \subseteq DOMAIN table
      <3>1. \A s \in Sides : \A q \in Prices(s) : \A m \in DOMAIN queue[s][q] :
              queue[s][q][m] \in DOMAIN table
        BY PlacedOrder
      <3> QED
        BY <3>1, LiveArePlaced DEF LiveInLevels
    <2>9. \A x \in Live \ {id} : Shown(x)' = Shown(x)
      BY <1>5, <2>8 DEF Shown
    <2>10. ShowsPicture'
      BY <1>9, <2>6, <2>7, <2>9 DEF ShowsPicture
    <2>11. Uncrossing'
      BY <1>1, <1>8, <2>10, NotCrossed, PTL
    <2> QED
      BY <2>5, <2>10, <2>11 DEF Uncrossing
  <1>11. BookInv'
    BY <1>10 DEF BookInv, RoomBelow
  <1> QED
    BY <1>1, <1>8, <1>11 DEF Emit

(* A delete: the last id of the level takes the slot of the one that goes, *)
(* and a level that is then without ids goes too.                          *)
LEMMA DeleteStep ==
    ASSUME LevelsInv, OrdersInv, BookInv, cfg' = cfg,
           NEW side \in Sides, NEW p \in Prices(side), NEW n \in DOMAIN queue[side][p],
           NEW id, id = queue[side][p][n], Delete(side, p, id)
    PROVE  /\ LevelsInv' /\ OrdersInv' /\ BookInv' /\ count' = count + 1
           /\ \A s \in Sides : Prices(s)' \subseteq Prices(s)
           /\ \A s \in Sides : \A q \in Prices(s)' : queue[s][q] # <<>> => queue'[s][q] # <<>>
           /\ \A s \in Sides : levels[s] # <<>> /\ ~ LastOrder(side) => levels'[s] # <<>>
  <1>1. PICK ids \in Seq(Nat \ {0}) : ids = queue[side][p]
    BY DEF OrdersInv
  <1>2. PICK m \in Nat : m = Len(ids)
    OBVIOUS
  <1>3. n \in 1..m /\ m \in 1..m /\ id = ids[n] /\ DOMAIN ids = 1..m
    BY <1>1, <1>2
  <1>4. PICK moved : moved = ids[m]
    OBVIOUS
  <1>5. PICK left : left = Front([ids EXCEPT ![n] = Last(ids)])
    OBVIOUS
  <1>6. left \in Seq(Nat \ {0}) /\ Len(left) = m - 1 /\ Moved(left, ids, m, n)
    BY <1>2, <1>3, <1>5, FrontIsMoved
  <1>7. /\ id \in Live /\ id \in DOMAIN table
        /\ table[id] = Record(side, p, table[id].volume, n)
        /\ table[id].side = side /\ table[id].price = p /\ table[id].slot = n
        /\ Shown(id) = [side |-> side, price |-> p, volume |-> table[id].volume]
    BY PlacedOrder
  <1>8. /\ moved \in DOMAIN table
        /\ table[moved] = Record(side, p, table[moved].volume, m)
        /\ table[moved].volume \in Nat \ {0}
    BY <1>1, <1>3, <1>4, PlacedOrder
  <1>9. moved = id <=> n = m
    BY <1>1, <1>3, <1>4, OrdersApart
  <1>10. /\ table' = TableWithout(id, moved)
         /\ IF left = <<>>
            THEN /\ levels' = [levels EXCEPT ![side] = RemoveFirst(@, p)]
                 /\ queue' = [queue EXCEPT ![side] = Drop(@, p)]
            ELSE /\ queue' = [queue EXCEPT ![side][p] = left]
                 /\ UNCHANGED levels
         /\ UNCHANGED nextId
         /\ Emit(Update("Delete", id, side, p, table[id].volume))
    <2>1. Last(queue[side][p]) = moved
      BY <1>1, <1>2, <1>4 DEF Last
    <2> QED
      BY <1>1, <1>5, <1>7, <2>1 DEF Delete
  <1>11. /\ DOMAIN table' = (DOMAIN table \ {id}) \cup {moved}
         /\ table' = [x \in DOMAIN table' |-> table'[x]]
         /\ \A x \in DOMAIN table \ {id, moved} : table'[x] = table[x]
         /\ moved # id => table'[moved] = [table[moved] EXCEPT !.slot = n]
    BY <1>7, <1>8, <1>10 DEF TableWithout, Put, Drop
  <1>12. moved # id => table'[moved] = Record(side, p, table[moved].volume, n)
    BY <1>8, <1>11 DEF Record
  <1>13. /\ left = <<>> <=> m = 1
         /\ \A j \in 1..m - 1 : left[j] = IF j = n THEN moved ELSE ids[j]
    BY <1>3, <1>4, <1>6 DEF Moved
  <1>14. /\ LevelsInv'
         /\ m # 1 => levels' = levels
         /\ m = 1 => /\ Size(side)' = Size(side) - 1
                     /\ \A s \in Sides \ {side} : levels'[s] = levels[s]
         /\ \A s \in Sides : Prices(s)' = IF s = side /\ m = 1 THEN Prices(s) \ {p} ELSE Prices(s)
    <2>1. CASE m = 1
      <3>1. levels' = [levels EXCEPT ![side] = RemoveFirst(@, p)]
        BY <1>10, <1>13, <2>1
      <3> QED
        BY <2>1, <3>1, LevelsWithout
    <2>2. CASE m # 1
      <3>1. levels' = levels
        BY <1>10, <1>13, <2>2
      <3> QED
        BY <2>2, <3>1 DEF LevelsInv, Prices, Sorted
    <2> QED
      BY <2>1, <2>2
  <1>15. /\ queue' = [s \in Sides |-> queue'[s]]
         /\ \A s \in Sides : queue'[s] \in [Prices(s)' -> Seq(Nat \ {0})]
         /\ \A s \in Sides : \A q \in Prices(s)' :
              queue'[s][q] = IF s = side /\ q = p THEN left ELSE queue[s][q]
    <2>1. /\ queue = [s \in Sides |-> queue[s]]
          /\ \A s \in Sides : queue[s] \in [Prices(s) -> Seq(Nat \ {0})]
      BY DEF OrdersInv
    <2>2. CASE m = 1
      <3>1. queue' = [queue EXCEPT ![side] = Drop(@, p)]
        BY <1>10, <1>13, <2>2
      <3>2. /\ queue' = [s \in Sides |-> queue'[s]]
            /\ queue'[side] = Drop(queue[side], p)
            /\ \A s \in Sides \ {side} : queue'[s] = queue[s]
        BY <2>1, <3>1
      <3>3. /\ queue'[side] \in [Prices(side) \ {p} -> Seq(Nat \ {0})]
            /\ \A q \in Prices(side) \ {p} : queue'[side][q] = queue[side][q]
        BY <2>1, <3>2 DEF Drop
      <3> QED
        BY <1>14, <2>1, <2>2, <3>2, <3>3
    <2>3. CASE m # 1
      <3>1. queue' = [queue EXCEPT ![side][p] = left]
        BY <1>10, <1>13, <2>3
      <3>2. /\ queue' = [s \in Sides |-> queue'[s]]
            /\ queue'[side] = [queue[side] EXCEPT ![p] = left]
            /\ \A s \in Sides \ {side} : queue'[s] = queue[s]
        BY <2>1, <3>1
      <3>3. /\ queue'[side] \in [Prices(side) -> Seq(Nat \ {0})]
            /\ \A q \in Prices(side) : queue'[side][q] = IF q = p THEN left ELSE queue[side][q]
        BY <1>6, <2>1, <3>2
      <3> QED
        BY <1>14, <2>1, <2>3, <3>2, <3>3
    <2> QED
      BY <2>2, <2>3
  <1>16. \A s \in Sides : \A q \in Prices(s)' : q \in Prices(s)
    BY <1>14
  <1>17. \A s \in Sides : \A q \in Prices(s) : \A k \in DOMAIN queue[s][q] :
           ~ (s = side /\ q = p) => queue[s][q][k] # id /\ queue[s][q][k] # moved
    BY <1>1, <1>3, <1>4, OrdersApart
  <1>18. \A j \in 1..m : (j # n => ids[j] # id) /\ (j # m => ids[j] # moved)
    BY <1>1, <1>3, <1>4, OrdersApart
  <1>19. DOMAIN left = 1..m - 1
    BY <1>3, <1>6
  <1>20. ASSUME NEW s \in Sides, NEW q \in Prices(s)', NEW k \in DOMAIN queue'[s][q]
         PROVE  Placed(s, q, k)'
    <2>1. CASE ~ (s = side /\ q = p)
      <3>1. q \in Prices(s) /\ queue'[s][q] = queue[s][q]
        BY <1>15, <1>16, <2>1
      <3>2. PICK x : x = queue[s][q][k]
        OBVIOUS
      <3>3. x # id /\ x # moved
        BY <1>17, <1>20, <2>1, <3>1, <3>2
      <3>4. x \in DOMAIN table /\ table[x] = Record(s, q, table[x].volume, k)
            /\ table[x].volume \in Nat \ {0}
        BY <1>20, <3>1, <3>2, PlacedOrder
      <3>5. x \in DOMAIN table' /\ table'[x] = table[x]
        BY <1>11, <3>3, <3>4
      <3> QED
        BY <3>1, <3>2, <3>4, <3>5 DEF Placed
    <2>2. CASE s = side /\ q = p
      <3>1. k \in 1..m - 1 /\ queue'[s][q] = left
        BY <1>15, <1>19, <1>20, <2>2
      <3>2. CASE k = n
        <4>1. queue'[s][q][k] = moved /\ moved # id
          BY <1>3, <1>9, <1>13, <3>1, <3>2
        <4>2. table'[moved] = Record(s, q, table'[moved].volume, k)
              /\ table'[moved].volume \in Nat \ {0} /\ moved \in DOMAIN table'
          BY <1>8, <1>11, <1>12, <2>2, <3>2, <4>1 DEF Record
        <4> QED
          BY <4>1, <4>2 DEF Placed
      <3>3. CASE k # n
        <4>1. k \in 1..m /\ k # m
          BY <1>3, <3>1
        <4>2. PICK x : x = ids[k]
          OBVIOUS
        <4>3. queue'[s][q][k] = x /\ x # id /\ x # moved
          BY <1>13, <1>18, <3>1, <3>3, <4>1, <4>2
        <4>4. x \in DOMAIN table /\ table[x] = Record(s, q, table[x].volume, k)
              /\ table[x].volume \in Nat \ {0}
          BY <1>1, <1>3, <2>2, <4>1, <4>2, PlacedOrder
        <4>5. x \in DOMAIN table' /\ table'[x] = table[x]
          BY <1>11, <4>3, <4>4
        <4> QED
          BY <4>3, <4>4, <4>5 DEF Placed
      <3> QED
        BY <3>2, <3>3
    <2> QED
      BY <2>1, <2>2
  <1>21. OrdersInv'
    <2>1. DOMAIN table' \subseteq 1..nextId' - 1 /\ nextId' \in Nat \ {0}
      BY <1>8, <1>10, <1>11 DEF OrdersInv
    <2> QED
      BY <1>11, <1>15, <1>20, <2>1 DEF OrdersInv
  <1>22. LiveInLevels /\ LiveInLevels'
    BY <1>21, LiveArePlaced, PTL
  <1>23. \A x : x \in Live' <=> x \in Live \ {id}
    <2>1. ASSUME NEW x, x \in Live'
          PROVE  x \in Live \ {id}
      <3>1. PICK s \in Sides : \E q \in Prices(s)' : \E k \in DOMAIN queue'[s][q] : x = queue'[s][q][k]
        BY <1>22, <2>1 DEF LiveInLevels
      <3>2. PICK q \in Prices(s)' : \E k \in DOMAIN queue'[s][q] : x = queue'[s][q][k]
        BY <3>1
      <3>3. PICK k \in DOMAIN queue'[s][q] : x = queue'[s][q][k]
        BY <3>2
      <3>4. CASE ~ (s = side /\ q = p)
        <4>1. q \in Prices(s) /\ queue'[s][q] = queue[s][q]
          BY <1>15, <1>16, <3>4
        <4> QED
          BY <1>17, <1>22, <3>3, <3>4, <4>1 DEF LiveInLevels
      <3>5. CASE s = side /\ q = p
        <4>1. k \in 1..m - 1 /\ x = left[k]
          BY <1>15, <1>19, <3>3, <3>5
        <4>2. PICK j \in 1..m : x = ids[j] /\ j # n
          BY <1>3, <1>4, <1>13, <4>1
        <4> QED
          BY <1>1, <1>3, <1>18, <1>22, <4>2 DEF LiveInLevels
      <3> QED
        BY <3>4, <3>5
    <2>2. ASSUME NEW x, x \in Live, x # id
          PROVE  x \in Live'
      <3>1. PICK s \in Sides : \E q \in Prices(s) : \E k \in DOMAIN queue[s][q] : x = queue[s][q][k]
        BY <1>22, <2>2 DEF LiveInLevels
      <3>2. PICK q \in Prices(s) : \E k \in DOMAIN queue[s][q] : x = queue[s][q][k]
        BY <3>1
      <3>3. PICK k \in DOMAIN queue[s][q] : x = queue[s][q][k]
        BY <3>2
      <3>4. CASE ~ (s = side /\ q = p)
        <4>1. q \in Prices(s)' /\ queue'[s][q] = queue[s][q]
          BY <1>14, <1>15, <3>4
        <4> QED
          BY <1>22, <3>3, <4>1 DEF LiveInLevels
      <3>5. CASE s = side /\ q = p
        <4>1. k \in 1..m /\ x = ids[k] /\ k # n
          BY <1>1, <1>3, <2>2, <3>3, <3>5
        <4>2. PICK j \in 1..m - 1 : x = left[j]
          <5>1. CASE k = m
            BY <1>3, <1>4, <1>13, <4>1, <5>1
          <5>2. CASE k # m
            BY <1>3, <1>13, <4>1, <5>2
          <5> QED
            BY <5>1, <5>2
        <4>3. p \in Prices(side)' /\ queue'[side][p] = left
          BY <1>14, <1>15, <4>2
        <4> QED
          BY <1>19, <1>22, <4>2, <4>3 DEF LiveInLevels
      <3> QED
        BY <3>4, <3>5
    <2> QED
      BY <2>1, <2>2
  <1>24. ASSUME RoomBelow
         PROVE  verdict' = "ok" /\ ShowsPicture'
    <2>1. verdict = "ok" /\ book = [x \in Live |-> Shown(x)]
      BY <1>24 DEF BookInv, ShowsPicture
    <2>2. PICK u : u = Update("Delete", id, side, p, table[id].volume)
      OBVIOUS
    <2>3. u.type = "Delete" /\ u.id = id /\ u.side = side /\ u.price = p /\ u.volume = table[id].volume
      BY <2>2 DEF Update
    <2>4. Validator!Complaint(u) = "ok"
      <3>1. /\ book[u.id].side = u.side /\ book[u.id].price = u.price
            /\ book[u.id].volume = u.volume /\ u.id \in DOMAIN book
        BY <1>7, <2>1, <2>3
      <3> QED
        BY <2>3, <3>1 DEF Validator!Complaint
    <2>5. book' = Validator!Applied(u) /\ verdict' = IF Validator!Crossed(book') THEN "crossed" ELSE "ok"
      BY <1>10, <2>1, <2>2, <2>4 DEF Emit, Validator!Check
    <2>6. book' = [x \in Live \ {id} |-> Shown(x)]
      BY <2>1, <2>3, <2>5 DEF Validator!Applied
    <2>7. Live \subseteq DOMAIN table
      <3>1. \A s \in Sides : \A q \in Prices(s) : \A k \in DOMAIN queue[s][q] :
              queue[s][q][k] \in DOMAIN table
        BY PlacedOrder
      <3> QED
        BY <1>22, <3>1 DEF LiveInLevels
    <2>8. ASSUME NEW x \in Live \ {id}
          PROVE  Shown(x)' = Shown(x)
      <3>1. CASE x = moved
        BY <1>8, <1>12, <2>8, <3>1 DEF Shown, Record
      <3>2. CASE x # moved
        BY <1>11, <2>7, <3>2 DEF Shown
      <3> QED
        BY <3>1, <3>2
    <2>9. ShowsPicture'
      BY <1>23, <2>6, <2>8 DEF ShowsPicture
    <2>10. Uncrossing'
      BY <1>14, <1>21, <2>9, NotCrossed, PTL
    <2> QED
      BY <2>5, <2>9, <2>10 DEF Uncrossing
  <1>25. BookInv'
    BY <1>24 DEF BookInv, RoomBelow
  <1>26. ASSUME NEW s \in Sides, NEW q \in Prices(s)', queue[s][q] # <<>>
         PROVE  queue'[s][q] # <<>>
    <2>1. s = side /\ q = p => m # 1
      BY <1>14
    <2> QED
      BY <1>13, <1>15, <1>26, <2>1
  <1>27. ASSUME NEW s \in Sides, levels[s] # <<>>, ~ LastOrder(side)
         PROVE  levels'[s] # <<>>
    <2>1. CASE m # 1 \/ s # side
      BY <1>14, <1>27, <2>1
    <2>2. CASE m = 1 /\ s = side
      <3>1. Size(side) \in Nat /\ Size(side) > 0 /\ levels[side][1] = Head(levels[side])
        BY <1>27, <2>2, LevelsAre
      <3>2. Size(side) # 1
        <4> SUFFICES ASSUME Size(side) = 1
                     PROVE  FALSE
          OBVIOUS
        <4>1. p = Head(levels[side])
          <5>1. PICK k \in 1..Size(side) : p = levels[side][k]
            BY LevelsAre DEF Prices, ToSet
          <5> QED
            BY <3>1, <5>1
        <4> QED
          BY <1>1, <1>2, <1>27, <2>2, <4>1 DEF LastOrder
      <3>3. Size(side)' > 0
        BY <1>14, <2>2, <3>1, <3>2
      <3> QED
        BY <2>2, <3>3 DEF Size
    <2> QED
      BY <2>1, <2>2
  <1> QED
    BY <1>10, <1>14, <1>16, <1>21, <1>25, <1>26, <1>27 DEF Emit


-----------------------------------------------------------------------------
(* The seed: how many orders the levels have by now.                       *)
LEMMA MoreIsMore ==
    ASSUME NEW j \in Nat, NEW k \in Nat, j < k, NEW b \in Nat
    PROVE  j * b + b <= k * b
  <1>1. PICK i \in Nat : k = j + 1 + i
    <2>1. k - j - 1 \in Nat /\ k = j + 1 + (k - j - 1)
      OBVIOUS
    <2> QED
      BY <2>1
  <1>2. i * b \in Nat
    BY SMT
  <1>3. k * b = j * b + b + i * b
    BY <1>1, SMT
  <1>4. j * b \in Nat
    BY SMT
  <1> QED
    BY <1>2, <1>3, <1>4, SMT

LEMMA QuotientIs ==
    ASSUME NEW b \in Nat \ {0}, NEW q \in Nat, NEW r \in 0..b - 1, NEW n, n = q * b + r
    PROVE  n \in Nat /\ n \div b = q /\ n % b = r
  <1>1. PICK p \in Nat : p = q * b
    BY SMT
  <1>2. n \in Nat /\ n = p + r
    BY <1>1
  <1>3. PICK x \in Nat, y \in 0..b - 1 : x = n \div b /\ y = n % b /\ n = x * b + y
    BY <1>2, SMT
  <1>4. ~ (x < q)
    <2> SUFFICES ASSUME x < q
                 PROVE  FALSE
      OBVIOUS
    <2>1. x * b + b <= q * b
      BY MoreIsMore
    <2>2. PICK z \in Nat : z = x * b
      BY SMT
    <2> QED
      BY <1>1, <1>2, <1>3, <2>1, <2>2
  <1>5. ~ (q < x)
    <2> SUFFICES ASSUME q < x
                 PROVE  FALSE
      OBVIOUS
    <2>1. q * b + b <= x * b
      BY MoreIsMore
    <2>2. PICK z \in Nat : z = x * b
      BY SMT
    <2> QED
      BY <1>1, <1>2, <1>3, <2>1, <2>2
  <1>6. x = q
    BY <1>3, <1>4, <1>5
  <1>7. y = r
    BY <1>1, <1>2, <1>3, <1>6
  <1> QED
    BY <1>2, <1>3, <1>6, <1>7

LEMMA SeedCounts ==
    ASSUME ControlInv
    PROVE  \E d \in Nat :
             /\ d = 2 * cfg.perLevel /\ d >= 2
             /\ SeedCount = cfg.levels * d
             /\ SeedLevel \in Nat /\ Filled \in 0..d - 1
             /\ count = SeedLevel * d + Filled
  <1>1. PICK d \in Nat \ {0} : d = 2 * cfg.perLevel
    BY ConfigIs
  <1>2. d >= 2
    BY <1>1, ConfigIs
  <1>3. SeedCount = cfg.levels * d
    BY <1>1, ConfigIs, SMT DEF SeedCount
  <1>4. count \in Nat
    BY DEF ControlInv
  <1>5. count \div d \in Nat /\ count % d \in 0..d - 1 /\ count = (count \div d) * d + (count % d)
    BY <1>4, SMT
  <1> QED
    BY <1>1, <1>2, <1>3, <1>5 DEF SeedLevel, Filled

SeedGoesOn ==
    /\ SeedLevel \in Nat /\ Filled \in Nat
    /\ count < SeedCount => SeedLevel < cfg.levels
    /\ count = SeedCount => SeedLevel = cfg.levels /\ Filled = 0
    /\ Filled = 0 => count % 2 = 0
    /\ Filled = 1 => count % 2 = 1

LEMMA SeedGoingOn ==
    ControlInv => SeedGoesOn
  <1> SUFFICES ASSUME ControlInv
               PROVE  SeedGoesOn
    OBVIOUS
  <1>1. PICK d \in Nat :
          /\ d = 2 * cfg.perLevel /\ d >= 2
          /\ SeedCount = cfg.levels * d
          /\ SeedLevel \in Nat /\ Filled \in 0..d - 1
          /\ count = SeedLevel * d + Filled
    BY SeedCounts
  <1>2. PICK q \in Nat : q = SeedLevel
    BY <1>1
  <1>3. PICK p \in Nat : p = q * d
    BY <1>1, SMT
  <1>4. PICK t \in Nat : t = cfg.levels * d
    BY <1>1, ConfigIs, SMT
  <1>5. PICK l \in Nat : l = cfg.levels
    BY ConfigIs
  <1>6. count = p + Filled /\ SeedCount = t
    BY <1>1, <1>2, <1>3, <1>4
  <1>7. ASSUME count < SeedCount
        PROVE  SeedLevel < cfg.levels
    <2>1. l < q => l * d + d <= q * d
      BY <1>1, MoreIsMore
    <2>2. l = q => p = t
      BY <1>3, <1>4, <1>5
    <2> QED
      BY <1>1, <1>2, <1>3, <1>4, <1>5, <1>6, <1>7, <2>1, <2>2
  <1>8. ASSUME count = SeedCount
        PROVE  SeedLevel = cfg.levels /\ Filled = 0
    <2>1. 0 \in 0..d - 1 /\ d \in Nat \ {0} /\ count = l * d + 0
      BY <1>1, <1>4, <1>5, <1>6, <1>8
    <2>2. count \div d = l /\ count % d = 0
      BY <2>1, QuotientIs
    <2> QED
      BY <1>1, <1>5, <2>2 DEF SeedLevel, Filled
  <1>9. PICK h \in Nat : p = 2 * h
    <2>1. PICK c \in Nat : c = cfg.perLevel /\ d = 2 * c
      BY <1>1, ConfigIs
    <2>2. q * c \in Nat /\ q * (2 * c) = 2 * (q * c)
      BY SMT
    <2> QED
      BY <1>3, <2>1, <2>2
  <1>10. Filled = 0 => count % 2 = 0
    BY <1>6, <1>9
  <1>11. Filled = 1 => count % 2 = 1
    BY <1>6, <1>9
  <1>12. SeedLevel \in Nat /\ Filled \in Nat
    BY <1>1
  <1> QED
    BY <1>7, <1>8, <1>10, <1>11, <1>12 DEF SeedGoesOn

LEMMA NextSeed ==
    ASSUME ControlInv, cfg' = cfg, count' = count + 1
    PROVE  /\ SeedCount' = SeedCount
           /\ \/ SeedLevel' = SeedLevel /\ Filled' = Filled + 1
              \/ SeedLevel' = SeedLevel + 1 /\ Filled' = 0 /\ Filled >= 1
  <1>1. PICK d \in Nat :
          /\ d = 2 * cfg.perLevel /\ d >= 2
          /\ SeedLevel \in Nat /\ Filled \in 0..d - 1
          /\ count = SeedLevel * d + Filled
    BY SeedCounts
  <1>2. PICK q \in Nat, r \in 0..d - 1 : q = SeedLevel /\ r = Filled
    BY <1>1
  <1>3. PICK p \in Nat : p = q * d
    BY <1>1, SMT
  <1>4. SeedLevel' = (count + 1) \div d /\ Filled' = (count + 1) % d /\ d \in Nat \ {0}
    BY <1>1 DEF SeedLevel, Filled
  <1>a. PICK n : n = count + 1
    OBVIOUS
  <1>5. CASE r + 1 < d
    <2>1. PICK x \in 0..d - 1 : x = r + 1
      BY <1>1, <1>5
    <2>2. n = q * d + x
      BY <1>1, <1>2, <1>3, <1>a, <2>1
    <2>3. n \div d = q /\ n % d = x
      BY <1>4, <2>2, QuotientIs
    <2> QED
      BY <1>2, <1>4, <1>a, <2>1, <2>3 DEF SeedCount
  <1>6. CASE r + 1 = d
    <2>1. PICK x \in Nat : x = q + 1 /\ x * d = q * d + d
      BY <1>1, SMT
    <2>2. PICK z \in 0..d - 1 : z = 0
      BY <1>1
    <2>3. n = x * d + z
      BY <1>1, <1>2, <1>3, <1>6, <1>a, <2>1, <2>2
    <2>4. n \div d = x /\ n % d = z
      BY <1>4, <2>3, QuotientIs
    <2> QED
      BY <1>1, <1>2, <1>4, <1>6, <1>a, <2>1, <2>2, <2>4 DEF SeedCount
  <1> QED
    BY <1>5, <1>6


LEMMA SeedPriceFits ==
    ASSUME LevelsInv, SeedInv, ControlInv, pc = "seed",
           NEW side \in Sides, NEW gap \in 1..MaxGap, NEW p, p = SeedPrice(side, gap)
    PROVE  /\ p \in Int \ Prices(side)
           /\ Worst(side, levels[side], Size(side), p)
           /\ side = "Bid" => p < cfg.mid /\ p >= cfg.mid - 1 - MaxGap * Size("Bid") - MaxGap
           /\ side = "Ask" => p > cfg.mid
  <1>1. PICK mid \in Int : mid = cfg.mid
    BY ConfigIs
  <1>2. PICK b \in Int : b = mid - 1 - MaxGap * Size("Bid")
    BY <1>1, ConfigIs, LevelsAre DEF Sides
  <1>3. gap \in Nat \ {0} /\ MaxGap \in Nat \ {0} /\ gap <= MaxGap
    BY ConfigIs
  <1>4. Prices(side) \subseteq Int
    BY LevelsAre
  <1>5. CASE levels[side] = <<>>
    <2>1. Size(side) = 0 /\ p = TowardTail(side, mid, 1)
      BY <1>1, <1>5 DEF Size, SeedPrice
    <2>2. Prices(side) = {} /\ Worst(side, levels[side], Size(side), p)
      BY <1>5, <2>1 DEF Prices, ToSet, Worst
    <2>3. p = IF side = "Bid" THEN mid - 1 ELSE mid + 1
      BY <2>1 DEF TowardTail
    <2>4. side = "Bid" => b = mid - 1
      BY <1>2, <1>3, <2>1
    <2> QED
      BY <1>1, <1>2, <1>3, <2>2, <2>3, <2>4 DEF Sides
  <1>6. CASE levels[side] # <<>>
    <2>1. PICK l \in Prices(side) : l = Last(levels[side])
      BY <1>6, LastIsWorst
    <2>2. l \in Int /\ p = IF side = "Bid" THEN l - gap ELSE l + gap
      BY <1>4, <1>6, <2>1 DEF SeedPrice, TowardTail
    <2>3. p \in Int /\ Better(side, l, p)
      BY <1>3, <2>2 DEF Better, Sides
    <2>4. ASSUME NEW n \in 1..Size(side)
          PROVE  Better(side, levels[side][n], p)
      <3>1. levels[side][n] = l \/ Better(side, levels[side][n], l)
        BY <1>6, <2>1, LastIsWorst
      <3>2. levels[side][n] \in Int
        BY <1>4, LevelsAre
      <3> QED
        BY <2>2, <2>3, <3>1, <3>2, BetterIsOrder
    <2>5. p \notin Prices(side)
      <3> SUFFICES ASSUME p \in Prices(side)
                   PROVE  FALSE
        OBVIOUS
      <3>1. PICK n \in 1..Size(side) : p = levels[side][n]
        BY LevelsAre DEF Prices, ToSet
      <3> QED
        BY <2>3, <2>4, <3>1, BetterIsOrder
    <2>6. side = "Bid" => l < mid /\ l >= b
      BY <1>1, <1>2, <2>1 DEF SeedInv
    <2>7. side = "Ask" => l > mid
      BY <1>1, <2>1 DEF SeedInv
    <2>8. /\ side = "Bid" => p < mid /\ p >= b - MaxGap
          /\ side = "Ask" => p > mid
      BY <1>3, <2>2, <2>6, <2>7
    <2> QED
      BY <1>1, <1>2, <2>3, <2>4, <2>5, <2>8 DEF Worst
  <1> QED
    BY <1>5, <1>6

\* Until the seed is done, levels have orders but for the newest ones.
LEMMA SeedLevelsStep ==
    ASSUME IInv, SeedLevels, cfg' = cfg
    PROVE  IInv'
  <1> USE DEF IInv
  <1>1. /\ pc = "seed" /\ pc' = "seed" /\ count < SeedCount /\ Size("Bid") = SeedLevel
        /\ UNCHANGED <<table, count, nextId, book, verdict>>
    BY DEF SeedLevels
  <1>2. PICK gap \in [Sides -> 1..MaxGap] :
          /\ levels' = [side \in Sides |-> WithLevel(side, SeedPrice(side, gap[side]))]
          /\ queue' = [side \in Sides |-> Put(queue[side], SeedPrice(side, gap[side]), <<>>)]
    BY DEF SeedLevels
  <1>3. PICK p : p = [side \in Sides |-> SeedPrice(side, gap[side])]
    OBVIOUS
  <1>4. \A side \in Sides : /\ levels'[side] = WithLevel(side, p[side])
                            /\ queue'[side] = Put(queue[side], p[side], <<>>)
    BY <1>2, <1>3
  <1>5. \A side \in Sides : /\ p[side] \in Int \ Prices(side)
                            /\ Worst(side, levels[side], Size(side), p[side])
    BY <1>1, <1>3, SeedPriceFits
  <1>6. /\ p["Bid"] < cfg.mid /\ p["Bid"] >= cfg.mid - 1 - MaxGap * Size("Bid") - MaxGap
        /\ p["Ask"] > cfg.mid
    BY <1>1, <1>3, SeedPriceFits DEF Sides
  <1>7. \A side \in Sides :
          /\ levels'[side] \in Seq(Int) /\ Sorted(side, levels'[side])
          /\ Prices(side)' = Prices(side) \cup {p[side]}
          /\ Size(side)' = Size(side) + 1
          /\ Last(levels'[side]) = p[side]
    BY <1>4, <1>5, WithLevelIs DEF Prices, Size
  <1>8. SeedLevel \in Nat /\ Size("Ask") = Size("Bid") /\ Filled = 0
    <2>1. SeedLevel \in Nat
      BY SeedGoingOn DEF SeedGoesOn
    <2> QED
      BY <1>1, <2>1 DEF SeedInv
  <1>9. LevelsInv'
    <2>1. levels' \in [Sides -> Seq(Int)]
      BY <1>2, <1>7
    <2>2. ASSUME NEW bid \in Prices("Bid")', NEW ask \in Prices("Ask")'
          PROVE  bid < ask
      <3>1. cfg.mid \in Int /\ Prices("Bid") \subseteq Int /\ Prices("Ask") \subseteq Int
        BY ConfigIs, LevelsAre DEF Sides
      <3>2. bid \in Int /\ bid < cfg.mid
        BY <1>1, <1>5, <1>6, <1>7, <3>1 DEF SeedInv, Sides
      <3>3. ask \in Int /\ ask > cfg.mid
        BY <1>1, <1>5, <1>6, <1>7, <3>1 DEF SeedInv, Sides
      <3> QED
        BY <3>1, <3>2, <3>3
    <2> QED
      BY <1>7, <2>1, <2>2 DEF LevelsInv
  <1>10. ASSUME NEW side \in Sides
         PROVE  /\ queue'[side] \in [Prices(side)' -> Seq(Nat \ {0})]
                /\ queue'[side][p[side]] = <<>>
                /\ \A q \in Prices(side) : queue'[side][q] = queue[side][q]
    <2>1. queue[side] \in [Prices(side) -> Seq(Nat \ {0})]
      BY DEF OrdersInv
    <2>2. PICK x \in Int \ Prices(side) : x = p[side]
      BY <1>5
    <2>3. PICK f : f = Put(queue[side], x, <<>>)
      OBVIOUS
    <2>4. queue'[side] = f /\ Prices(side)' = Prices(side) \cup {x}
      BY <1>4, <1>7, <2>2, <2>3
    <2>5. /\ DOMAIN f = Prices(side) \cup {x} /\ f = [q \in DOMAIN f |-> f[q]]
          /\ f[x] = <<>>
          /\ \A q \in Prices(side) : f[q] = queue[side][q]
      BY <2>1, <2>2, <2>3 DEF Put
    <2>6. <<>> \in Seq(Nat \ {0})
      OBVIOUS
    <2>7. \A q \in DOMAIN f : f[q] \in Seq(Nat \ {0})
      BY <2>1, <2>5, <2>6
    <2>8. f \in [Prices(side) \cup {x} -> Seq(Nat \ {0})]
      BY <2>5, <2>7
    <2> QED
      BY <2>2, <2>4, <2>5, <2>8
  <1>11. OrdersInv'
    <2>1. ASSUME NEW side \in Sides, NEW q \in Prices(side)', NEW n \in DOMAIN queue'[side][q]
          PROVE  Placed(side, q, n)'
      <3>1. q \in Prices(side) /\ queue'[side][q] = queue[side][q]
        BY <1>7, <1>10, <2>1
      <3>2. Placed(side, q, n)
        BY <2>1, <3>1 DEF OrdersInv
      <3> QED
        BY <1>1, <3>1, <3>2 DEF Placed
    <2>2. queue' = [side \in Sides |-> queue'[side]]
      BY <1>2
    <2> QED
      BY <1>1, <1>10, <2>1, <2>2 DEF OrdersInv
  <1>12. BookInv'
    <2>1. ASSUME NEW side \in Sides
          PROVE  Queued(side)' = Queued(side)
      <3>1. DOMAIN queue[side] = Prices(side) /\ DOMAIN queue'[side] = Prices(side) \cup {p[side]}
        BY <1>7, <1>10 DEF OrdersInv
      <3>2. ToSet(<<>>) = {}
        BY DEF ToSet
      <3> QED
        BY <1>10, <3>1, <3>2 DEF Queued
    <2>2. Live' = Live
      BY <2>1 DEF Live, Sides
    <2> QED
      BY <1>1, <2>2 DEF BookInv, ShowsPicture, Shown, RoomBelow
  <1>13. SeedInv'
    <2>1. SeedLevel' = SeedLevel /\ Filled' = Filled /\ SeedCount' = SeedCount
      BY <1>1 DEF SeedLevel, Filled, SeedCount
    <2>2. Size("Bid")' = Size("Bid") + 1 /\ Size("Ask")' = Size("Bid")'
      BY <1>7, <1>8 DEF Sides
    <2>3. \A side \in Sides : \A q \in Prices(side) : queue[side][q] # <<>>
      BY <1>1, <1>8 DEF SeedInv
    <2>4. ASSUME NEW side \in Sides, NEW q \in Prices(side)', queue'[side][q] = <<>>
          PROVE  q = Last(levels'[side])
      <3>1. q \notin Prices(side)
        BY <1>10, <2>3, <2>4
      <3>2. q = p[side]
        BY <1>7, <2>4, <3>1
      <3> QED
        BY <1>7, <3>2
    <2>5. ASSUME NEW q \in Prices("Bid")'
          PROVE  q < cfg.mid /\ q >= cfg.mid - 1 - MaxGap * (Size("Bid") + 1)
      <3>1. PICK s \in Nat : s = Size("Bid")
        BY LevelsAre DEF Sides
      <3>2. PICK g \in Nat : g = MaxGap * s /\ MaxGap * (s + 1) = g + MaxGap
        BY ConfigIs, SMT
      <3>3. Prices("Bid") \subseteq Int /\ cfg.mid \in Int /\ MaxGap \in Nat
        BY ConfigIs, LevelsAre DEF Sides
      <3>4. q \in Prices("Bid") \/ q = p["Bid"]
        BY <1>7 DEF Sides
      <3>5. q \in Prices("Bid") => q < cfg.mid /\ q >= cfg.mid - 1 - g
        BY <1>1, <3>1, <3>2 DEF SeedInv
      <3>6. q = p["Bid"] => q \in Int /\ q < cfg.mid /\ q >= cfg.mid - 1 - g - MaxGap
        BY <1>5, <1>6, <3>1, <3>2 DEF Sides
      <3> QED
        BY <3>1, <3>2, <3>3, <3>4, <3>5, <3>6
    <2>6. ASSUME NEW q \in Prices("Ask")'
          PROVE  q > cfg.mid
      BY <1>1, <1>6, <1>7 DEF SeedInv, Sides
    <2> QED
      BY <1>1, <1>8, <2>1, <2>2, <2>4, <2>5, <2>6 DEF SeedInv
  <1>14. RunInv' /\ ControlInv'
    BY <1>1 DEF RunInv, ControlInv
  <1> QED
    BY <1>9, <1>11, <1>12, <1>13, <1>14

LEMMA InitInv ==
    Init => IInv
  <1> SUFFICES ASSUME Init
               PROVE  IInv
    OBVIOUS
  <1>1. /\ cfg \in Configs /\ count = 0 /\ nextId = 1 /\ pc = "seed" /\ verdict = "ok"
        /\ levels = [side \in Sides |-> <<>>]
        /\ queue = [side \in Sides |-> [p \in {} |-> <<>>]]
        /\ DOMAIN table = {} /\ table = [id \in DOMAIN table |-> table[id]]
        /\ DOMAIN book = {} /\ book = [id \in {} |-> book[id]]
    BY DEF Init, Validator!Init
  <1>2. \A side \in Sides : /\ levels[side] = <<>> /\ DOMAIN levels[side] = {} /\ Size(side) = 0
                            /\ Prices(side) = {}
    BY <1>1 DEF Size, Prices, ToSet
  <1>3. ControlInv
    BY <1>1 DEF ControlInv
  <1>4. LevelsInv
    BY <1>1, <1>2 DEF LevelsInv, Sorted, Sides
  <1>5. OrdersInv
    <2>1. \A side \in Sides : queue[side] \in [Prices(side) -> Seq(Nat \ {0})]
      BY <1>1, <1>2
    <2> QED
      BY <1>1, <1>2, <2>1 DEF OrdersInv
  <1>6. BookInv
    <2>1. Live = {}
      BY <1>1 DEF Live, Queued, Sides
    <2> QED
      BY <1>1, <2>1 DEF BookInv, ShowsPicture
  <1>7. SeedInv
    <2>1. count \div (2 * cfg.perLevel) = 0 /\ count % (2 * cfg.perLevel) = 0
      <3>1. PICK d \in Nat \ {0} : d = 2 * cfg.perLevel
        BY <1>3, ConfigIs
      <3>2. PICK x \in Nat : x = 0
        OBVIOUS
      <3>3. PICK y \in 0..d - 1 : y = 0
        OBVIOUS
      <3>4. count = x * d + y
        BY <1>1, <3>1, <3>2, <3>3
      <3>5. count \div d = x /\ count % d = y
        BY <3>4, QuotientIs
      <3> QED
        BY <3>1, <3>2, <3>3, <3>5
    <2>2. SeedLevel = 0 /\ Filled = 0
      BY <2>1 DEF SeedLevel, Filled
    <2>3. SeedCount >= 0
      <3>1. PICK x \in Nat, y \in Nat : x = 2 * cfg.levels /\ y = cfg.perLevel
        BY <1>3, ConfigIs
      <3> QED
        BY <3>1, SMT DEF SeedCount
    <2> QED
      BY <1>1, <1>2, <2>2, <2>3 DEF SeedInv, Sides
  <1> QED
    BY <1>1, <1>3, <1>4, <1>5, <1>6, <1>7 DEF IInv, RunInv

\* A seed order goes to the newest level of its side, which exists.
LEMMA SeedOrderStep ==
    ASSUME IInv, SeedOrder, cfg' = cfg
    PROVE  IInv'
  <1> USE DEF IInv
  <1>1. PICK side \in Sides :
          /\ side = IF count % 2 = 0 THEN "Bid" ELSE "Ask"
          /\ EmitAdd(side, Last(levels[side]))
    BY DEF SeedOrder, Sides
  <1>2. /\ pc = "seed" /\ pc' = "seed" /\ count < SeedCount /\ levels' = levels
        /\ Size("Bid") > SeedLevel
    BY DEF SeedOrder, SeedsOrder
  <1>3. PICK l \in Nat : l = SeedLevel /\ l < cfg.levels /\ Filled \in Nat
    BY <1>2, SeedGoingOn DEF SeedGoesOn
  <1>4. Size("Bid") = l + 1 /\ Size("Ask") = l + 1
    BY <1>2, <1>3 DEF SeedInv
  <1>5. \A s \in Sides : levels[s] # <<>>
    BY <1>3, <1>4 DEF Size, Sides
  <1>6. PICK p \in Prices(side) : p = Last(levels[side])
    BY <1>5, LastIsWorst
  <1>7. LevelsInv' /\ \A s \in Sides : Prices(s)' = Prices(s)
    BY <1>2 DEF LevelsInv, Prices, Sorted
  <1>8. p \in Int
    BY LevelsAre
  <1>9. RoomBelow => p > 0
    <2>1. PICK g \in Nat, t \in Nat : g = MaxGap * (l + 1) /\ t = MaxGap * cfg.levels /\ g <= t
      <3>1. PICK i \in Nat : cfg.levels = (l + 1) + i
        <4>1. cfg.levels - (l + 1) \in Nat /\ cfg.levels = (l + 1) + (cfg.levels - (l + 1))
          BY <1>3, ConfigIs
        <4> QED
          BY <4>1
      <3>2. /\ MaxGap * (l + 1) \in Nat /\ MaxGap * i \in Nat
            /\ MaxGap * cfg.levels = MaxGap * (l + 1) + MaxGap * i
        BY <3>1, ConfigIs, SMT
      <3> QED
        BY <3>2
    <2>2. cfg.mid \in Int /\ cfg.updates \in Nat
      BY ConfigIs
    <2>3. side = "Bid" => p >= cfg.mid - 1 - g
      BY <1>2, <1>4, <2>1 DEF SeedInv
    <2>4. side = "Ask" => p > cfg.mid
      BY <1>2 DEF SeedInv
    <2> QED
      BY <1>8, <2>1, <2>2, <2>3, <2>4 DEF RoomBelow, Sides
  <1>10. /\ OrdersInv' /\ BookInv' /\ count' = count + 1
         /\ queue'[side][p] # <<>>
         /\ \A s \in Sides : \A q \in Prices(s)' :
              ~ (s = side /\ q = p) => queue'[s][q] = queue[s][q] /\ q \in Prices(s)
    <2>1. Prices(side)' = Prices(side) \cup {p}
      BY <1>7
    <2>2. EmitAdd(side, p)
      BY <1>1, <1>6
    <2> QED
      BY <1>7, <1>8, <1>9, <2>1, <2>2, AddStep
  <1>11. ControlInv' /\ RunInv'
    BY <1>2, <1>10 DEF ControlInv, RunInv
  <1>12. SeedGoesOn /\ SeedGoesOn'
    BY <1>11, SeedGoingOn, PTL
  <1>13. /\ SeedCount' = SeedCount
         /\ \/ SeedLevel' = SeedLevel /\ Filled' = Filled + 1
            \/ SeedLevel' = SeedLevel + 1 /\ Filled' = 0 /\ Filled >= 1
    BY <1>10, NextSeed
  <1>14. ASSUME NEW s \in Sides, NEW q \in Prices(s), queue'[s][q] = <<>>
         PROVE  /\ q = Last(levels[s])
                /\ Filled < (IF s = "Bid" THEN 1 ELSE 2)
                /\ s # side
    <2>1. ~ (s = side /\ q = p)
      BY <1>10, <1>14
    <2>2. queue[s][q] = <<>>
      BY <1>7, <1>10, <1>14, <2>1
    <2>3. q = Last(levels[s]) /\ Filled < (IF s = "Bid" THEN 1 ELSE 2)
      BY <1>2, <2>2 DEF SeedInv
    <2> QED
      BY <1>6, <2>1, <2>3
  \* So it is an ask that waits for the bid before it.
  <1>15. ASSUME NEW s \in Sides, NEW q \in Prices(s), queue'[s][q] = <<>>
         PROVE  s = "Ask" /\ Filled = 0
    <2>1. CASE Filled = 0
      BY <1>1, <1>12, <1>14, <1>15, <2>1 DEF SeedGoesOn, Sides
    <2>2. CASE Filled = 1
      BY <1>1, <1>12, <1>14, <1>15, <2>2 DEF SeedGoesOn, Sides
    <2> QED
      BY <1>3, <1>14, <1>15, <2>1, <2>2
  <1>16. SeedInv'
    <2>1. \A s \in Sides : Size(s)' = Size(s)
      BY <1>2 DEF Size
    <2>2. count' <= SeedCount' /\ (SeedLevel' = SeedLevel => count' < SeedCount')
      <3>1. count \in Nat /\ SeedCount \in Nat
        <4>1. PICK d \in Nat : SeedCount = cfg.levels * d
          BY SeedCounts
        <4>2. cfg.levels * d \in Nat
          BY ConfigIs, SMT
        <4> QED
          BY <4>1, <4>2 DEF ControlInv
      <3>2. SeedLevel' = SeedLevel => count' # SeedCount'
        BY <1>3, <1>12 DEF SeedGoesOn
      <3> QED
        BY <1>2, <1>10, <1>13, <3>1, <3>2
    <2>3. ASSUME NEW s \in Sides, NEW q \in Prices(s)', queue'[s][q] = <<>>
          PROVE  /\ Size("Bid") = SeedLevel' + 1
                 /\ q = Last(levels'[s])
                 /\ Filled' < (IF s = "Bid" THEN 1 ELSE 2)
      <3>1. q \in Prices(s)
        BY <1>7, <2>3
      <3>2. s = "Ask" /\ Filled = 0 /\ q = Last(levels[s])
        BY <1>14, <1>15, <2>3, <3>1
      <3> QED
        BY <1>2, <1>3, <1>4, <1>13, <3>2
    <2> QED
      BY <1>2, <1>3, <1>4, <1>7, <1>13, <2>1, <2>2, <2>3 DEF SeedInv, Sides
  <1> QED
    BY <1>7, <1>10, <1>11, <1>16

LEMMA PictureStays ==
    ASSUME LevelsInv, OrdersInv, BookInv, cfg' = cfg,
           UNCHANGED <<levels, queue, table, nextId, book, verdict>>
    PROVE  /\ LevelsInv' /\ OrdersInv' /\ BookInv'
           /\ \A side \in Sides : Prices(side)' = Prices(side) /\ Size(side)' = Size(side)
  <1>1. \A side \in Sides : Prices(side)' = Prices(side) /\ Size(side)' = Size(side)
    BY DEF Prices, Size
  <1>2. LevelsInv' /\ OrdersInv'
    BY <1>1 DEF LevelsInv, OrdersInv, Placed, Sorted, Sides
  <1>3. BookInv'
    BY DEF BookInv, RoomBelow, ShowsPicture, Live, Queued, Shown
  <1> QED
    BY <1>1, <1>2, <1>3

LEMMA SeedDoneStep ==
    ASSUME IInv, SeedDone, cfg' = cfg
    PROVE  IInv'
  <1> USE DEF IInv
  <1>1. /\ pc = "seed" /\ pc' = "run" /\ count = SeedCount
        /\ UNCHANGED <<levels, queue, table, count, nextId, book, verdict>>
    BY DEF SeedDone
  <1>2. SeedLevel = cfg.levels /\ SeedLevel \in Nat
    BY <1>1, SeedGoingOn DEF SeedGoesOn
  <1>3. Size("Bid") = SeedLevel /\ Size("Ask") = SeedLevel
    <2>1. SeedCount \in Int
      BY <1>1 DEF ControlInv
    <2> QED
      BY <1>1, <2>1 DEF SeedInv
  <1>4. \A side \in Sides : levels[side] # <<>>
    <2>1. \A side \in Sides : Len(levels[side]) # 0
      BY <1>2, <1>3, ConfigIs DEF Size, Sides
    <2> QED
      BY <2>1
  <1>5. \A side \in Sides : \A p \in Prices(side) : queue[side][p] # <<>>
    BY <1>1, <1>2, <1>3 DEF SeedInv
  <1>6. \A p \in Prices("Bid") : p >= cfg.mid - 1 - MaxGap * cfg.levels - count
    <2>1. ASSUME NEW p \in Prices("Bid")
          PROVE  p >= cfg.mid - 1 - MaxGap * cfg.levels - count
      <3>1. p >= cfg.mid - 1 - MaxGap * Size("Bid")
        BY <1>1 DEF SeedInv
      <3>2. p \in Int /\ count \in Nat /\ cfg.mid \in Int /\ MaxGap * cfg.levels \in Nat
        BY LevelsAre, ConfigIs, SMT DEF ControlInv, Sides
      <3> QED
        BY <1>2, <1>3, <3>1, <3>2
    <2> QED
      BY <2>1
  <1>7. /\ LevelsInv' /\ OrdersInv' /\ BookInv'
        /\ \A side \in Sides : Prices(side)' = Prices(side)
    BY <1>1, PictureStays
  <1>8. RunInv'
    BY <1>1, <1>4, <1>5, <1>6, <1>7 DEF RunInv, Sides
  <1> QED
    BY <1>1, <1>7, <1>8 DEF SeedInv, ControlInv

-----------------------------------------------------------------------------
(* The run: what is picked and added is there, above the least price.      *)
LEMMA RoomInRun ==
    ASSUME IInv, Running, RoomBelow, NEW side \in Sides, NEW p \in Prices(side)
    PROVE  p \in Int /\ p > 1
  <1> USE DEF IInv
  <1>1. PICK g \in Nat : g = MaxGap * cfg.levels
    BY ConfigIs, SMT
  <1>2. cfg.mid \in Int /\ cfg.updates \in Nat /\ count \in Nat /\ count < cfg.updates
    BY ConfigIs DEF ControlInv, Running
  <1>3. \A bid \in Prices("Bid") : bid \in Int /\ bid > 1
    <2>1. ASSUME NEW bid \in Prices("Bid")
          PROVE  bid \in Int /\ bid > 1
      <3>1. bid \in Int
        BY LevelsAre DEF Sides
      <3>2. bid >= cfg.mid - 1 - g - count
        BY <1>1 DEF RunInv, Running
      <3>3. cfg.mid > 1 + g + cfg.updates
        BY <1>1 DEF RoomBelow
      <3> QED
        BY <1>2, <3>1, <3>2, <3>3
    <2> QED
      BY <2>1
  <1>4. PICK bid \in Prices("Bid") : TRUE
    BY LevelsAre DEF RunInv, Running, Sides
  <1>5. side = "Ask" => bid < p
    BY <1>4 DEF LevelsInv
  <1>6. p \in Int
    BY LevelsAre
  <1> QED
    BY <1>3, <1>4, <1>5, <1>6 DEF Sides

\* No bid more than a tick below another one.
NotBelow(side, p) == side = "Bid" => \E bid \in Prices("Bid") : p >= bid - 1

LEMMA AddedInRun ==
    ASSUME IInv, Running, pc' = pc, cfg' = cfg, LevelsInv',
           NEW side \in Sides, NEW p \in Int, Uncrossed(side, p), NotBelow(side, p),
           Prices(side)' = Prices(side) \cup {p},
           \A other \in Sides \ {side} : Prices(other)' = Prices(other),
           \A s \in Sides : levels[s] # <<>> => levels'[s] # <<>>,
           EmitAdd(side, p)
    PROVE  IInv'
  <1> USE DEF IInv
  <1>1. pc = "run"
    BY DEF Running
  <1>2. RoomBelow => p > 0
    <2> SUFFICES ASSUME RoomBelow
                 PROVE  p > 0
      OBVIOUS
    <2>1. \A bid \in Prices("Bid") : bid \in Int /\ bid > 1
      BY RoomInRun DEF Sides
    <2>2. side = "Bid" => p > 0
      BY <2>1 DEF NotBelow
    <2>3. PICK bid \in Prices("Bid") : TRUE
      BY <1>1, LevelsAre DEF RunInv, Sides
    <2>4. side = "Ask" => bid < p
      BY <2>3 DEF Uncrossed
    <2> QED
      BY <2>1, <2>2, <2>3, <2>4 DEF Sides
  <1>3. /\ OrdersInv' /\ BookInv' /\ count' = count + 1
        /\ queue'[side][p] # <<>>
        /\ \A s \in Sides : \A q \in Prices(s)' :
             ~ (s = side /\ q = p) => queue'[s][q] = queue[s][q] /\ q \in Prices(s)
    BY <1>2, AddStep
  <1>4. \A s \in Sides : levels'[s] # <<>>
    BY <1>1 DEF RunInv
  <1>5. \A s \in Sides : \A q \in Prices(s)' : queue'[s][q] # <<>>
    BY <1>1, <1>3 DEF RunInv
  <1>6. ASSUME NEW q \in Prices("Bid")'
        PROVE  q >= cfg.mid - 1 - MaxGap * cfg.levels - count'
    <2>1. PICK f \in Int : f = cfg.mid - 1 - MaxGap * cfg.levels
      BY ConfigIs, SMT
    <2>2. count \in Nat
      BY DEF ControlInv
    <2>3. \A bid \in Prices("Bid") : bid \in Int /\ bid >= f - count
      BY <1>1, <2>1, LevelsAre DEF RunInv, Sides
    <2>4. CASE q \in Prices("Bid")
      BY <1>3, <2>1, <2>2, <2>3, <2>4
    <2>5. CASE q \notin Prices("Bid")
      <3>1. side = "Bid" /\ q = p
        BY <2>5 DEF Sides
      <3>2. PICK bid \in Prices("Bid") : p >= bid - 1
        BY <3>1 DEF NotBelow
      <3> QED
        BY <1>3, <2>1, <2>2, <2>3, <3>1, <3>2
    <2> QED
      BY <2>4, <2>5
  <1>7. RunInv'
    BY <1>4, <1>5, <1>6 DEF RunInv
  <1>8. SeedInv' /\ ControlInv'
    BY <1>1, <1>3 DEF SeedInv, ControlInv
  <1> QED
    BY <1>3, <1>7, <1>8

LEMMA DoAddStep ==
    ASSUME IInv, Running, DoAdd, pc' = pc, cfg' = cfg
    PROVE  IInv'
  <1> USE DEF IInv
  <1>1. PICK side \in Sides, k \in SampledDepth : CreateLevel(side, k) \/ AddToLevel(side, k)
    BY DEF DoAdd
  <1>2. k \in Nat
    BY DepthsAre
  <1>3. levels["Bid"] # <<>> /\ levels["Ask"] # <<>> /\ levels[side] # <<>>
    BY DEF RunInv, Running, Sides
  <1>4. DOMAIN queue[side] = Prices(side)
    BY DEF OrdersInv
  <1>5. CASE CreateLevel(side, k)
    <2>1. PICK p : p = Candidate(side, k)
      OBVIOUS
    <2>2. /\ CanCreate(side, k)
          /\ levels' = [levels EXCEPT ![side] = WithLevel(side, p)]
          /\ EmitAdd(side, p)
      BY <1>5, <2>1 DEF CreateLevel
    <2>3. /\ p \in Int \ Prices(side)
          /\ Uncrossed(side, p)
          /\ side = "Bid" => \E bid \in Prices("Bid") : p >= bid - 1
      BY <1>2, <1>3, <1>4, <2>1, <2>2, CandidateFits
    <2>4. /\ LevelsInv'
          /\ Prices(side)' = Prices(side) \cup {p}
          /\ \A other \in Sides \ {side} : Prices(other)' = Prices(other)
          /\ \A s \in Sides : levels[s] # <<>> => levels'[s] # <<>>
      BY <2>2, <2>3, LevelsWith
    <2>5. NotBelow(side, p)
      BY <2>3 DEF NotBelow
    <2> QED
      BY <2>2, <2>3, <2>4, <2>5, AddedInRun
  <1>6. CASE AddToLevel(side, k)
    <2>1. PICK n \in Nat : n = Size(side) /\ n > 0
      BY <1>3, LevelsAre
    <2>2. PICK i \in 1..n : i = Min({k, n - 1}) + 1
      <3>1. Min({k, n - 1}) = IF k <= n - 1 THEN k ELSE n - 1
        BY <1>2, MinOfTwo
      <3> QED
        BY <1>2, <2>1, <3>1
    <2>3. PICK p \in Prices(side) : p = levels[side][i]
      BY <2>1, LevelsAre
    <2>4. EmitAdd(side, p) /\ levels' = levels
      BY <1>6, <2>1, <2>2, <2>3 DEF AddToLevel
    <2>5. LevelsInv' /\ \A s \in Sides : Prices(s)' = Prices(s)
      BY <2>4 DEF LevelsInv, Prices, Sorted
    <2>6. p \in Int /\ Uncrossed(side, p) /\ NotBelow(side, p)
      <3>1. p \in Int
        BY LevelsAre
      <3>2. Uncrossed(side, p)
        BY DEF Uncrossed, LevelsInv, Sides
      <3> QED
        BY <3>1, <3>2 DEF NotBelow
    <2>7. /\ Prices(side)' = Prices(side) \cup {p}
          /\ \A other \in Sides \ {side} : Prices(other)' = Prices(other)
          /\ \A s \in Sides : levels[s] # <<>> => levels'[s] # <<>>
      BY <2>4, <2>5
    <2> QED
      BY <2>4, <2>5, <2>6, <2>7, AddedInRun
  <1> QED
    BY <1>1, <1>5, <1>6

LEMMA PickInRange ==
    ASSUME IInv, Running, NEW side \in Sides, NEW prune \in BOOLEAN,
           NEW idx \in PickRange(side, prune)
    PROVE  levels[side][idx + 1] \in Prices(side)
  <1> USE DEF IInv
  <1>1. PICK n \in Nat : n = Size(side) /\ n > 0
    BY LevelsAre DEF RunInv, Running
  <1>2. idx + 1 \in 1..n
    <2>1. CASE prune /\ Prunes(side)
      <3>1. idx \in (n - n \div 4)..(n - 1)
        BY <1>1, <2>1 DEF PickRange
      <3>2. n \div 4 \in 0..n
        BY <1>1
      <3> QED
        BY <1>1, <3>1, <3>2
    <2>2. CASE ~ (prune /\ Prunes(side))
      <3>1. PICK k \in SampledDepth : idx = Min({k, n - 1})
        BY <1>1, <2>2 DEF PickRange
      <3>2. k \in Nat
        BY DepthsAre
      <3>3. idx = IF k <= n - 1 THEN k ELSE n - 1
        BY <1>1, <3>1, <3>2, MinOfTwo
      <3> QED
        BY <1>1, <3>2, <3>3
    <2> QED
      BY <2>1, <2>2
  <1> QED
    BY <1>1, <1>2, LevelsAre

LEMMA DoModifyStep ==
    ASSUME IInv, Running, DoModify, pc' = pc, cfg' = cfg
    PROVE  IInv'
  <1> USE DEF IInv
  <1>1. PICK side \in Sides : \E idx \in PickRange(side, FALSE) : \E id \in Picks(side, idx) :
          \E v \in NewVolumes(table[id]) :
            /\ table' = [table EXCEPT ![id].volume = v]
            /\ Emit(Update("Modify", id, table[id].side, table[id].price, v))
    BY DEF DoModify
  <1>2. PICK idx \in PickRange(side, FALSE) : \E id \in Picks(side, idx) :
          \E v \in NewVolumes(table[id]) :
            /\ table' = [table EXCEPT ![id].volume = v]
            /\ Emit(Update("Modify", id, table[id].side, table[id].price, v))
    BY <1>1
  <1>3. PICK id \in Picks(side, idx) : \E v \in NewVolumes(table[id]) :
            /\ table' = [table EXCEPT ![id].volume = v]
            /\ Emit(Update("Modify", id, table[id].side, table[id].price, v))
    BY <1>2
  <1>4. PICK v \in NewVolumes(table[id]) :
            /\ table' = [table EXCEPT ![id].volume = v]
            /\ Emit(Update("Modify", id, table[id].side, table[id].price, v))
    BY <1>3
  <1>5. PICK p \in Prices(side) : p = levels[side][idx + 1]
    BY PickInRange
  <1>6. PICK n \in DOMAIN queue[side][p] : id = queue[side][p][n]
    BY <1>3, <1>5 DEF Picks, ToSet
  <1>7. table[id].volume \in Nat \ {0}
    BY <1>6, PlacedOrder
  <1>8. v \in Nat \ {0}
    <2>1. PICK a \in Nat, b \in Nat : a = 2 * table[id].volume /\ b = 4 * cfg.volume
      BY <1>7, ConfigIs
    <2>2. Min({a, b}) \in Nat
      BY MinOfTwo
    <2> QED
      BY <1>4, <2>1, <2>2 DEF NewVolumes
  <1>9. UNCHANGED <<levels, queue, nextId>>
    BY DEF DoModify
  <1>10. LevelsInv' /\ OrdersInv' /\ BookInv' /\ count' = count + 1
    BY <1>4, <1>6, <1>8, <1>9, ModifyStep
  <1>11. RunInv'
    <2>1. \A s \in Sides : Prices(s)' = Prices(s)
      BY <1>9 DEF Prices
    <2>2. ASSUME NEW q \in Prices("Bid")
          PROVE  q >= cfg.mid - 1 - MaxGap * cfg.levels - count'
      <3>1. PICK f \in Int : f = cfg.mid - 1 - MaxGap * cfg.levels
        BY ConfigIs, SMT
      <3>2. count \in Nat /\ q \in Int /\ q >= f - count
        BY <3>1, LevelsAre DEF RunInv, Running, ControlInv, Sides
      <3> QED
        BY <1>10, <3>1, <3>2
    <2> QED
      BY <1>9, <2>1, <2>2 DEF RunInv, Running, Sides
  <1> QED
    BY <1>10, <1>11 DEF SeedInv, ControlInv, Running

LEMMA DoDeleteStep ==
    ASSUME IInv, Running, DoDelete, pc' = pc, cfg' = cfg
    PROVE  IInv'
  <1> USE DEF IInv
  <1>1. PICK side \in Sides : \E idx \in PickRange(side, TRUE) : \E id \in Picks(side, idx) :
          \/ LastOrder(side) /\ DoAdd
          \/ ~ LastOrder(side) /\ Delete(side, levels[side][idx + 1], id)
    BY DEF DoDelete
  <1>2. PICK idx \in PickRange(side, TRUE) : \E id \in Picks(side, idx) :
          \/ LastOrder(side) /\ DoAdd
          \/ ~ LastOrder(side) /\ Delete(side, levels[side][idx + 1], id)
    BY <1>1
  <1>3. PICK id \in Picks(side, idx) :
          \/ LastOrder(side) /\ DoAdd
          \/ ~ LastOrder(side) /\ Delete(side, levels[side][idx + 1], id)
    BY <1>2
  <1>4. CASE LastOrder(side) /\ DoAdd
    BY <1>4, DoAddStep
  <1>5. CASE ~ LastOrder(side) /\ Delete(side, levels[side][idx + 1], id)
    <2>1. PICK p \in Prices(side) : p = levels[side][idx + 1]
      BY PickInRange
    <2>2. PICK n \in DOMAIN queue[side][p] : id = queue[side][p][n]
      BY <1>3, <2>1 DEF Picks, ToSet
    <2>3. Delete(side, p, id)
      BY <1>5, <2>1
    <2>4. /\ LevelsInv' /\ OrdersInv' /\ BookInv' /\ count' = count + 1
          /\ \A s \in Sides : Prices(s)' \subseteq Prices(s)
          /\ \A s \in Sides : \A q \in Prices(s)' : queue[s][q] # <<>> => queue'[s][q] # <<>>
          /\ \A s \in Sides : levels[s] # <<>> /\ ~ LastOrder(side) => levels'[s] # <<>>
      BY <2>2, <2>3, DeleteStep
    <2>5. ASSUME NEW q \in Prices("Bid")'
          PROVE  q >= cfg.mid - 1 - MaxGap * cfg.levels - count'
      <3>1. PICK f \in Int : f = cfg.mid - 1 - MaxGap * cfg.levels
        BY ConfigIs, SMT
      <3>2. q \in Prices("Bid")
        BY <2>4 DEF Sides
      <3>3. count \in Nat /\ q \in Int /\ q >= f - count
        BY <3>1, <3>2, LevelsAre DEF RunInv, Running, ControlInv, Sides
      <3> QED
        BY <2>4, <3>1, <3>3
    <2>6. /\ \A s \in Sides : levels'[s] # <<>>
          /\ \A s \in Sides : \A q \in Prices(s)' : queue'[s][q] # <<>>
      BY <1>5, <2>4 DEF RunInv, Running
    <2> QED
      BY <2>4, <2>5, <2>6 DEF SeedInv, RunInv, ControlInv, Running
  <1> QED
    BY <1>3, <1>4, <1>5

-----------------------------------------------------------------------------
(* The ranges of the draws.  A quarter of at least four levels is at least *)
(* one, no level is without an order, and no order without a volume.       *)
LEMMA RangeOfLevels ==
    ASSUME IInv, Running, NEW side \in Sides, NEW prune \in BOOLEAN, cfg.levels >= 3
    PROVE  PickRange(side, prune) # {}
  <1> USE DEF IInv
  <1>1. PICK n \in Nat : n = Size(side)
    BY LevelsAre
  <1>2. CASE ~ (prune /\ Prunes(side))
    <2>1. PickRange(side, prune) = {Min({k, Size(side) - 1}) : k \in SampledDepth}
      BY <1>2 DEF PickRange
    <2> QED
      BY <2>1, DepthsAre
  <1>3. CASE prune /\ Prunes(side)
    <2>1. PickRange(side, prune) = (n - n \div 4)..(n - 1)
      BY <1>1, <1>3 DEF PickRange
    <2>2. n > cfg.levels /\ n >= 4
      BY <1>1, <1>3, ConfigIs DEF Prunes
    <2>3. n - 1 \in (n - n \div 4)..(n - 1)
      BY <2>2
    <2> QED
      BY <2>1, <2>3
  <1> QED
    BY <1>2, <1>3

LEMMA RangeOfOrders ==
    ASSUME IInv, Running, NEW side \in Sides, NEW prune \in BOOLEAN,
           NEW idx \in PickRange(side, prune)
    PROVE  Picks(side, idx) # {}
  <1> USE DEF IInv
  <1>1. PICK p \in Prices(side) : p = levels[side][idx + 1]
    BY PickInRange
  <1>2. queue[side][p] # <<>> /\ queue[side][p] \in Seq(Nat \ {0})
    BY DEF RunInv, Running, OrdersInv
  <1>3. 1 \in DOMAIN queue[side][p]
    BY <1>2
  <1>4. queue[side][p][1] \in Picks(side, idx)
    BY <1>1, <1>3 DEF Picks, ToSet
  <1> QED
    BY <1>4

LEMMA RangeOfNewVolumes ==
    ASSUME IInv, Running, NEW side \in Sides, NEW idx \in PickRange(side, FALSE),
           NEW id \in Picks(side, idx), cfg.volume > 0
    PROVE  NewVolumes(table[id]) # {}
  <1> USE DEF IInv
  <1>1. PICK p \in Prices(side) : p = levels[side][idx + 1]
    BY PickInRange
  <1>2. PICK n \in DOMAIN queue[side][p] : id = queue[side][p][n]
    BY <1>1 DEF Picks, ToSet
  <1>3. table[id].volume \in Nat \ {0}
    BY <1>2, PlacedOrder
  <1>4. PICK a \in Nat \ {0}, b \in Nat \ {0} : a = 2 * table[id].volume /\ b = 4 * cfg.volume
    BY <1>3, ConfigIs
  <1>5. Min({a, b}) \in Nat \ {0}
    BY MinOfTwo
  <1>6. 1 \in 1..Min({a, b})
    BY <1>5
  <1> QED
    BY <1>4, <1>6 DEF NewVolumes

LEMMA SomethingToDraw ==
    ASSUME IInv, cfg.levels >= 3, cfg.volume > 0
    PROVE  /\ Volumes # {}
           /\ Running => \A type \in {"Add", "Modify", "Delete"} : ~ NothingToDraw(type)
  <1>1. Volumes # {}
    <2>1. 1 \in 1..cfg.volume
      BY ConfigIs DEF IInv
    <2> QED
      BY <2>1 DEF Volumes
  <1>2. ASSUME Running, NEW side \in Sides, NEW prune \in BOOLEAN
        PROVE  ~ NothingToPick(side, prune)
    BY <1>2, RangeOfLevels, RangeOfOrders DEF NothingToPick
  <1>3. ASSUME Running
        PROVE  ~ NothingToDraw("Add") /\ ~ NothingToDraw("Modify") /\ ~ NothingToDraw("Delete")
    <2>1. ~ NothingToDraw("Add")
      BY <1>1 DEF NothingToDraw
    <2>2. ~ NothingToDraw("Modify")
      BY <1>2, <1>3, RangeOfNewVolumes DEF NothingToDraw
    <2>3. ~ NothingToDraw("Delete")
      BY <1>1, <1>2, <1>3 DEF NothingToDraw
    <2> QED
      BY <2>1, <2>2, <2>3
  <1> QED
    BY <1>1, <1>3

LEMMA DrawFromNothingStep ==
    ASSUME IInv, DrawFromNothing, cfg' = cfg
    PROVE  IInv'
  <1>1. pc' = "undefined" /\ UNCHANGED <<levels, queue, table, count, nextId, book, verdict>>
    BY DEF DrawFromNothing
  <1>2. cfg.levels < 3 \/ cfg.volume = 0
    <2> SUFFICES ASSUME cfg.levels >= 3, cfg.volume > 0
                 PROVE  FALSE
      BY ConfigIs DEF IInv
    <2>1. cfg.types \subseteq {"Add", "Modify", "Delete"}
      BY ConfigsAssumption DEF IInv, ControlInv, IsConfig
    <2> QED
      BY <2>1, SomethingToDraw DEF DrawFromNothing
  <1>3. LevelsInv' /\ OrdersInv' /\ BookInv'
    BY <1>1, PictureStays DEF IInv
  <1> QED
    BY <1>1, <1>2, <1>3 DEF IInv, SeedInv, RunInv, ControlInv

-----------------------------------------------------------------------------
LEMMA NextInv ==
    IInv /\ [Next]_vars => IInv'
  <1> SUFFICES ASSUME IInv, [Next]_vars
               PROVE  IInv'
    OBVIOUS
  <1>1. CASE SeedLevels /\ cfg' = cfg
    BY <1>1, SeedLevelsStep
  <1>2. CASE SeedOrder /\ cfg' = cfg
    BY <1>2, SeedOrderStep
  <1>3. CASE SeedDone /\ cfg' = cfg
    BY <1>3, SeedDoneStep
  <1>4. CASE Running /\ DoAdd /\ pc' = pc /\ cfg' = cfg
    BY <1>4, DoAddStep
  <1>5. CASE Running /\ DoModify /\ pc' = pc /\ cfg' = cfg
    BY <1>5, DoModifyStep
  <1>6. CASE Running /\ DoDelete /\ pc' = pc /\ cfg' = cfg
    BY <1>6, DoDeleteStep
  <1>7. CASE DrawFromNothing /\ cfg' = cfg
    BY <1>7, DrawFromNothingStep
  <1>8. CASE UNCHANGED vars
    <2>1. UNCHANGED <<cfg, levels, queue, table, count, nextId, pc, book, verdict>>
      BY <1>8 DEF vars
    <2>2. /\ LevelsInv' /\ OrdersInv' /\ BookInv'
          /\ \A side \in Sides : Prices(side)' = Prices(side) /\ Size(side)' = Size(side)
      BY <2>1, PictureStays DEF IInv
    <2>3. SeedInv'
      BY <2>1, <2>2 DEF IInv, SeedInv, SeedLevel, SeedCount, Filled, Sides
    <2>4. RunInv' /\ ControlInv'
      BY <2>1, <2>2 DEF IInv, RunInv, ControlInv, Sides
    <2> QED
      BY <2>2, <2>3, <2>4 DEF IInv
  <1> QED
    BY <1>1, <1>2, <1>3, <1>4, <1>5, <1>6, <1>7, <1>8 DEF Next, Run, Step

(* Whatever it draws, the generator keeps IInv.                            *)
THEOREM Invariance == Spec => []IInv
  <1> QED
    BY InitInv, NextInv, PTL DEF Spec

(* The validator accepts every feed that the generator makes with room     *)
(* below its mid price.                                                    *)
THEOREM FeedsAreAccepted == Spec => []Accepted
  <1>1. IInv => Accepted
    BY DEF IInv, BookInv, Accepted
  <1> QED
    BY <1>1, Invariance, PTL

(* No draw, of a volume, a level, an order or a new volume, is from an     *)
(* empty range with three levels per side or more and a greatest volume    *)
(* that is not 0.                                                          *)
THEOREM DrawsAreDefined == Spec => []DeepDrawsDefined
  <1>1. IInv => DeepDrawsDefined
    BY ConfigIs DEF IInv, ControlInv, DeepDrawsDefined, DrawsDefined
  <1> QED
    BY <1>1, Invariance, PTL

(* Every order is at the slot of its level that its record names.          *)
THEOREM SlotsAreRight == Spec => []SlotsAgree
  <1>1. IInv => SlotsAgree
    <2> SUFFICES ASSUME IInv, NEW side \in Sides, NEW p \in DOMAIN queue[side],
                        NEW n \in DOMAIN queue[side][p]
                 PROVE  LET id == queue[side][p][n]
                        IN  /\ id \in DOMAIN table
                            /\ table[id].side = side /\ table[id].price = p /\ table[id].slot = n
      BY DEF SlotsAgree
    <2>1. p \in Prices(side)
      BY DEF IInv, OrdersInv
    <2> QED
      BY <2>1, PlacedOrder DEF IInv
  <1> QED
    BY <1>1, Invariance, PTL

(* Once seeded, no side is without a level and no level without an order,  *)
(* and the levels are those that have a vector of ids.                     *)
THEOREM NothingIsEmpty == Spec => []NothingEmpty
  <1>1. IInv => NothingEmpty
    BY DEF IInv, RunInv, OrdersInv, Prices, NothingEmpty
  <1> QED
    BY <1>1, Invariance, PTL

(* With room below, the book of the feed so far is the generator's own.    *)
THEOREM PictureIsTheBook == Spec => []PictureMatchesFeed
  <1>1. IInv => PictureMatchesFeed
    <2> SUFFICES ASSUME IInv, RoomBelow
                 PROVE  /\ DOMAIN book = Live
                        /\ \A side \in Sides, id \in DOMAIN book :
                             id \in Queued(side) =>
                                /\ book[id].side = side
                                /\ id \in ToSet(queue[side][book[id].price])
                                /\ table[id].volume = book[id].volume
      BY Zenon DEF PictureMatchesFeed, Live
    <2>1. book = [id \in Live |-> Shown(id)]
      BY DEF IInv, BookInv, ShowsPicture
    <2>2. ASSUME NEW side \in Sides, NEW id \in Live, id \in Queued(side)
          PROVE  /\ book[id].side = side
                 /\ id \in ToSet(queue[side][book[id].price])
                 /\ table[id].volume = book[id].volume
      <3>1. PICK p \in Prices(side) : id \in ToSet(queue[side][p])
        BY <2>2 DEF Queued, IInv, OrdersInv
      <3>2. PICK n \in DOMAIN queue[side][p] : id = queue[side][p][n]
        BY <3>1 DEF ToSet
      <3>3. Shown(id) = [side |-> side, price |-> p, volume |-> table[id].volume]
        BY <3>2, PlacedOrder DEF IInv
      <3> QED
        BY <2>1, <3>1, <3>3
    <2> QED
      BY <2>1, <2>2
  <1> QED
    BY <1>1, Invariance, PTL
=============================================================================
