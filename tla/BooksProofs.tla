---------------------------- MODULE BooksProofs ----------------------------
(***************************************************************************)
(* Proofs about the vector books and the map book, for all ids, prices and *)
(* volumes.  That an order finds its level rests on what the volume of a   *)
(* level is: the sum of its orders' volumes, so that it cannot vanish      *)
(* while an order is left.  A sum is stated here without recursion, as the *)
(* number of shares that the orders have, a share being an order and a     *)
(* number up to its volume.                                                *)
(***************************************************************************)
EXTENDS Books, BranchlessSearch, FiniteSetTheorems, SequenceTheorems, WellFoundedInduction, TLAPS

\* What both books keep of each order.
IsOrders(r) ==
    /\ DOMAIN r \subseteq Ids
    /\ \A id \in DOMAIN r :
         r[id].side \in Sides /\ r[id].price \in Prices /\ r[id].volume \in 1..MaxVolume

Shares(r, side, p) ==
    {s \in (DOMAIN r) \X (1..MaxVolume) :
        r[s[1]].side = side /\ r[s[1]].price = p /\ s[2] <= r[s[1]].volume}

\* The volume of a level.
Total(r, side, p) == Cardinality(Shares(r, side, p))

SharesOfOthers(r, id, side, p) == {s \in Shares(r, side, p) : s[1] # id}

\* Order id rests at price p of this side.
RestsAt(r, id, side, p) == id \in DOMAIN r /\ r[id].side = side /\ r[id].price = p

\* r and t hold the same orders, id aside.
SameButFor(r, t, id) ==
    \A k : k # id => (k \in DOMAIN r <=> k \in DOMAIN t) /\ (k \in DOMAIN r => r[k] = t[k])

\* The volume of one level changes, by d, and of no other.
Changes(r, t, side, p, d) ==
    \A s \in Sides, q \in Prices :
        Total(t, s, q) = Total(r, s, q) + IF s = side /\ q = p THEN d ELSE 0

-----------------------------------------------------------------------------
(* Sums as numbers of shares.                                              *)
LEMMA PairsAre ==
    ASSUME NEW D, NEW V
    PROVE  /\ \A s \in D \X V : \E k, n : s = <<k, n>>
           /\ \A k, n : <<k, n>> \in D \X V <=> k \in D /\ n \in V
           /\ IsFiniteSet(D) /\ IsFiniteSet(V) => IsFiniteSet(D \X V)
  <1>1. \A s \in D \X V : \E k, n : s = <<k, n>>
    OBVIOUS
  <1>2. \A k, n : <<k, n>> \in D \X V <=> k \in D /\ n \in V
    OBVIOUS
  <1>3. ASSUME IsFiniteSet(D), IsFiniteSet(V)
        PROVE  IsFiniteSet(D \X V)
    BY <1>3, FS_Product
  <1> QED
    BY <1>1, <1>2, <1>3

LEMMA SharesArePairs ==
    ASSUME NEW r, NEW side, NEW p
    PROVE  /\ \A s \in Shares(r, side, p) : \E k, n : s = <<k, n>>
           /\ \A k, n : <<k, n>> \in Shares(r, side, p) <=>
                RestsAt(r, k, side, p) /\ n \in 1..MaxVolume /\ n <= r[k].volume
  <1>1. \A s : s \in Shares(r, side, p) <=>
          /\ s \in (DOMAIN r) \X (1..MaxVolume)
          /\ r[s[1]].side = side /\ r[s[1]].price = p /\ s[2] <= r[s[1]].volume
    BY Zenon DEF Shares
  <1>2. ASSUME NEW s \in Shares(r, side, p)
        PROVE  \E k, n : s = <<k, n>>
    <2>1. s \in (DOMAIN r) \X (1..MaxVolume)
      BY <1>1
    <2> QED
      BY <2>1, PairsAre
  <1>3. ASSUME NEW k, NEW n
        PROVE  <<k, n>> \in Shares(r, side, p) <=>
                 RestsAt(r, k, side, p) /\ n \in 1..MaxVolume /\ n <= r[k].volume
    <2>1. <<k, n>>[1] = k /\ <<k, n>>[2] = n
      OBVIOUS
    <2>2. <<k, n>> \in (DOMAIN r) \X (1..MaxVolume) <=> k \in DOMAIN r /\ n \in 1..MaxVolume
      BY PairsAre
    <2>3. <<k, n>> \in Shares(r, side, p) <=>
            /\ <<k, n>> \in (DOMAIN r) \X (1..MaxVolume)
            /\ r[k].side = side /\ r[k].price = p /\ n <= r[k].volume
      BY <1>1, <2>1, Zenon
    <2> QED
      BY <2>2, <2>3 DEF RestsAt
  <1> QED
    BY <1>2, <1>3

LEMMA SharesAreFinite ==
    ASSUME NEW r, IsOrders(r), NEW side, NEW p
    PROVE  IsFiniteSet(Shares(r, side, p)) /\ Total(r, side, p) \in Nat
  <1>1. IsFiniteSet(DOMAIN r)
    BY NodesAssumption, FS_Subset DEF IsOrders
  <1>2. IsFiniteSet(1..MaxVolume)
    BY VolumeAssumption, FS_Interval
  <1>3. IsFiniteSet((DOMAIN r) \X (1..MaxVolume))
    BY <1>1, <1>2, PairsAre
  <1>4. Shares(r, side, p) \in SUBSET ((DOMAIN r) \X (1..MaxVolume))
    BY DEF Shares
  <1>5. IsFiniteSet(Shares(r, side, p))
    BY <1>3, <1>4, FS_Subset
  <1> QED
    BY <1>5, FS_CardinalityType DEF Total

LEMMA OwnShares ==
    ASSUME NEW id, NEW v \in Nat
    PROVE  IsFiniteSet({id} \X (1..v)) /\ Cardinality({id} \X (1..v)) = v
  <1>1. IsFiniteSet({id}) /\ Cardinality({id}) = 1
    BY FS_Singleton
  <1>2. IsFiniteSet(1..v) /\ Cardinality(1..v) = v
    BY FS_Interval
  <1>3. /\ IsFiniteSet({id} \X (1..v))
        /\ Cardinality({id} \X (1..v)) = Cardinality({id}) * Cardinality(1..v)
    BY <1>1, <1>2, FS_Product
  <1> QED
    BY <1>1, <1>2, <1>3

LEMMA OrderAndOthers ==
    ASSUME NEW r, IsOrders(r), NEW id, NEW side, NEW p
    PROVE  /\ Cardinality(SharesOfOthers(r, id, side, p)) \in Nat
           /\ Total(r, side, p) = Cardinality(SharesOfOthers(r, id, side, p))
                                    + IF RestsAt(r, id, side, p) THEN r[id].volume ELSE 0
  <1>1. PICK S : S = SharesOfOthers(r, id, side, p)
    OBVIOUS
  <1>2. IsFiniteSet(S) /\ Cardinality(S) \in Nat
    BY <1>1, SharesAreFinite, FS_Subset, FS_CardinalityType DEF SharesOfOthers
  <1>3. CASE ~ RestsAt(r, id, side, p)
    <2>1. S = Shares(r, side, p)
      <3>1. \A s \in Shares(r, side, p) : s[1] # id
        BY <1>3, SharesArePairs
      <3> QED
        BY <1>1, <3>1 DEF SharesOfOthers
    <2> QED
      BY <1>1, <1>2, <1>3, <2>1 DEF Total
  <1>4. CASE RestsAt(r, id, side, p)
    <2>1. PICK v \in Nat : v = r[id].volume /\ v <= MaxVolume
      BY <1>4, VolumeAssumption DEF IsOrders, RestsAt
    <2>2. PICK T : T = {id} \X (1..v)
      OBVIOUS
    <2>3. IsFiniteSet(T) /\ Cardinality(T) = v
      BY <2>2, OwnShares
    <2>4. Shares(r, side, p) = S \cup T
      <3>1. ASSUME NEW s \in Shares(r, side, p)
            PROVE  s \in S \cup T
        <4>1. PICK k, n : s = <<k, n>>
          BY SharesArePairs
        <4>2. RestsAt(r, k, side, p) /\ n \in 1..MaxVolume /\ n <= r[k].volume
          BY <4>1, SharesArePairs
        <4>3. CASE k = id
          BY <2>1, <2>2, <4>1, <4>2, <4>3, VolumeAssumption
        <4>4. CASE k # id
          BY <1>1, <4>1, <4>4 DEF SharesOfOthers
        <4> QED
          BY <4>3, <4>4
      <3>2. ASSUME NEW s \in T
            PROVE  s \in Shares(r, side, p)
        <4>1. PICK n \in 1..v : s = <<id, n>>
          BY <2>2
        <4>2. n \in 1..MaxVolume /\ n <= r[id].volume
          BY <2>1, VolumeAssumption
        <4> QED
          BY <1>4, <4>1, <4>2, SharesArePairs
      <3> QED
        BY <1>1, <3>1, <3>2 DEF SharesOfOthers
    <2>5. S \cap T = {}
      BY <1>1, <2>2 DEF SharesOfOthers
    <2>6. Cardinality(S \cup T) = Cardinality(S) + Cardinality(T) - Cardinality(S \cap T)
      BY <1>2, <2>3, FS_Union
    <2>7. Cardinality(S \cap T) = 0
      BY <2>5, FS_EmptySet
    <2> QED
      BY <1>1, <1>2, <1>4, <2>1, <2>3, <2>4, <2>6, <2>7 DEF Total
  <1> QED
    BY <1>1, <1>2, <1>3, <1>4

LEMMA OthersStay ==
    ASSUME NEW r, NEW t, NEW id, SameButFor(r, t, id), NEW side, NEW p
    PROVE  SharesOfOthers(r, id, side, p) = SharesOfOthers(t, id, side, p)
  <1>1. ASSUME NEW s
        PROVE  s \in SharesOfOthers(r, id, side, p) <=> s \in SharesOfOthers(t, id, side, p)
    <2>1. CASE \E k, n : s = <<k, n>>
      <3>1. PICK k, n : s = <<k, n>>
        BY <2>1
      <3>2. s[1] = k
        BY <3>1
      <3>3. k # id => /\ RestsAt(r, k, side, p) <=> RestsAt(t, k, side, p)
                      /\ RestsAt(r, k, side, p) => r[k] = t[k]
        BY DEF SameButFor, RestsAt
      <3>4. k # id => (s \in Shares(r, side, p) <=> s \in Shares(t, side, p))
        BY <3>1, <3>3, SharesArePairs
      <3> QED
        BY <3>2, <3>4 DEF SharesOfOthers
    <2>2. CASE ~ \E k, n : s = <<k, n>>
      BY <2>2, SharesArePairs DEF SharesOfOthers
    <2> QED
      BY <2>1, <2>2
  <1> QED
    BY <1>1

\* A level has volume exactly if it has an order, and then as much as that.
LEMMA LevelHasOrder ==
    ASSUME NEW r, IsOrders(r), NEW side, NEW p
    PROVE  /\ Total(r, side, p) > 0 <=> \E id : RestsAt(r, id, side, p)
           /\ \A id : RestsAt(r, id, side, p) => r[id].volume > 0 /\ Total(r, side, p) >= r[id].volume
  <1>1. ASSUME NEW id, RestsAt(r, id, side, p)
        PROVE  r[id].volume > 0 /\ Total(r, side, p) >= r[id].volume /\ Total(r, side, p) > 0
    <2>1. r[id].volume \in Nat /\ r[id].volume > 0
      BY <1>1, VolumeAssumption DEF IsOrders, RestsAt
    <2> QED
      BY <1>1, <2>1, OrderAndOthers
  <1>2. ASSUME Total(r, side, p) > 0
        PROVE  \E id : RestsAt(r, id, side, p)
    <2>1. Shares(r, side, p) # {}
      BY <1>2, FS_EmptySet DEF Total
    <2> QED
      BY <2>1, SharesArePairs
  <1> QED
    BY <1>1, <1>2

\* An update of one order changes the volume of its level and of no other.
LEMMA UpdateChanges ==
    ASSUME NEW r, IsOrders(r), NEW t, IsOrders(t), NEW id, SameButFor(r, t, id),
           NEW side, NEW p, NEW a \in Int, NEW b \in Int,
           IF id \in DOMAIN r THEN RestsAt(r, id, side, p) /\ a = r[id].volume ELSE a = 0,
           IF id \in DOMAIN t THEN RestsAt(t, id, side, p) /\ b = t[id].volume ELSE b = 0
    PROVE  Changes(r, t, side, p, b - a)
  <1> SUFFICES ASSUME NEW s \in Sides, NEW q \in Prices
               PROVE  Total(t, s, q) = Total(r, s, q) + IF s = side /\ q = p THEN b - a ELSE 0
    BY DEF Changes
  <1>1. PICK m \in Nat : m = Cardinality(SharesOfOthers(r, id, s, q))
    BY OrderAndOthers
  <1>2. m = Cardinality(SharesOfOthers(t, id, s, q))
    BY <1>1, OthersStay
  <1>3. Total(r, s, q) = m + IF s = side /\ q = p THEN a ELSE 0
    <2>1. RestsAt(r, id, s, q) <=> id \in DOMAIN r /\ s = side /\ q = p
      BY DEF RestsAt
    <2>2. Total(r, s, q) = m + IF RestsAt(r, id, s, q) THEN r[id].volume ELSE 0
      BY <1>1, OrderAndOthers
    <2> QED
      BY <2>1, <2>2
  <1>4. Total(t, s, q) = m + IF s = side /\ q = p THEN b ELSE 0
    <2>1. RestsAt(t, id, s, q) <=> id \in DOMAIN t /\ s = side /\ q = p
      BY DEF RestsAt
    <2>2. Total(t, s, q) = m + IF RestsAt(t, id, s, q) THEN t[id].volume ELSE 0
      BY <1>2, OrderAndOthers
    <2> QED
      BY <2>1, <2>2
  <1> QED
    BY <1>3, <1>4

-----------------------------------------------------------------------------
(* Elements of sequences.                                                  *)
\* t is s, of length n, with p put at i, or without the element at i.
Inserted(S, t, s, n, i, p) ==
    /\ t \in [1..n + 1 -> S]
    /\ \A j \in 1..n + 1 : t[j] = IF j < i THEN s[j] ELSE IF j = i THEN p ELSE s[j - 1]

Removed(S, t, s, n, i) ==
    /\ t \in [1..n - 1 -> S]
    /\ \A j \in 1..n - 1 : t[j] = IF j < i THEN s[j] ELSE s[j + 1]

LEMMA MinIsLeast ==
    ASSUME NEW S \in SUBSET Nat, S # {}
    PROVE  Min(S) \in S /\ \A x \in S : Min(S) <= x
  <1>1. PICK x \in S : \A y \in S : ~ (<<y, x>> \in OpToRel(<, Nat))
    BY NatLessThanWellFounded, WFMin
  <1>2. OpToRel(<, Nat) = {ss \in Nat \X Nat : ss[1] < ss[2]}
    BY Zenon DEF OpToRel
  <1>3. \A y \in S : x <= y
    <2>1. TAKE y \in S
    <2>2. <<y, x>> \notin {ss \in Nat \X Nat : ss[1] < ss[2]}
      BY <1>1, <1>2, Zenon
    <2> QED
      BY <2>2
  <1> QED
    BY <1>3 DEF Min

LEMMA InsertIsAt ==
    ASSUME NEW S, NEW n \in Nat, NEW s \in Seq(S), Len(s) = n, NEW p \in S, NEW i \in 1..n + 1
    PROVE  /\ InsertAt(s, i, p) \in Seq(S) /\ Len(InsertAt(s, i, p)) = n + 1
           /\ Inserted(S, InsertAt(s, i, p), s, n, i, p)
  <1>1. PICK k : k = i - 1
    OBVIOUS
  <1>2. PICK m : m = n - i + 1
    OBVIOUS
  <1>3. k \in Nat /\ i = k + 1 /\ i \in Nat /\ m \in Nat /\ i + m = n + 1
    BY <1>1, <1>2
  <1>4. PICK a : a = SubSeq(s, 1, i - 1)
    OBVIOUS
  <1>5. PICK c : c = SubSeq(s, i, Len(s))
    OBVIOUS
  <1>a. a \in Seq(S) /\ Len(a) = k /\ \A j \in 1..k : a[j] = s[j]
    BY <1>1, <1>3, <1>4
  <1>c. c \in Seq(S) /\ Len(c) = m /\ \A j \in 1..m : c[j] = s[i + j - 1]
    <2>1. /\ c \in Seq(S) /\ Len(c) = n - i + 1
          /\ \A j \in 1..n - i + 1 : c[j] = s[i + j - 1]
      BY <1>5
    <2> QED
      BY <1>2, <2>1
  <1>6. PICK b : b = a \o <<p>>
    OBVIOUS
  <1>7. PICK r : r = b \o c
    OBVIOUS
  <1>8. InsertAt(s, i, p) = r
    BY <1>4, <1>5, <1>6, <1>7 DEF InsertAt
  <1>9. b \in Seq(S) /\ Len(b) = i /\ \A j \in 1..i : b[j] = IF j < i THEN s[j] ELSE p
    <2>1. <<p>> \in Seq(S) /\ Len(<<p>>) = 1 /\ <<p>>[1] = p
      OBVIOUS
    <2>2. /\ b \in Seq(S) /\ Len(b) = k + 1
          /\ \A j \in 1..k + 1 : b[j] = IF j <= k THEN a[j] ELSE <<p>>[j - k]
      BY <1>3, <1>a, <1>6, <2>1, ConcatProperties
    <2> QED
      BY <1>3, <1>a, <2>1, <2>2
  <1>10. /\ r \in Seq(S) /\ Len(r) = i + m
         /\ \A j \in 1..i + m : r[j] = IF j <= i THEN b[j] ELSE c[j - i]
    <2>1. b \in Seq(S) /\ c \in Seq(S) /\ Len(b) = i /\ Len(c) = m /\ i \in Nat /\ m \in Nat
      BY <1>3, <1>9, <1>c
    <2> QED
      BY <1>7, <2>1, ConcatProperties
  <1>11. ASSUME NEW j \in 1..i + m
         PROVE  r[j] = IF j < i THEN s[j] ELSE IF j = i THEN p ELSE s[j - 1]
    <2>1. CASE j <= i
      BY <1>3, <1>9, <1>10, <2>1
    <2>2. CASE j > i
      <3>1. j - i \in 1..m /\ i + (j - i) - 1 = j - 1
        BY <1>3, <2>2
      <3> QED
        <4>1. r[j] = c[j - i]
          BY <1>3, <1>10, <2>2
        <4>2. c[j - i] = s[i + (j - i) - 1]
          BY <1>c, <3>1
        <4> QED
          BY <1>3, <2>2, <3>1, <4>1, <4>2
    <2> QED
      BY <1>3, <2>1, <2>2
  <1>12. r \in [1..n + 1 -> S]
    BY <1>3, <1>10
  <1>13. Inserted(S, r, s, n, i, p)
    BY <1>3, <1>11, <1>12 DEF Inserted
  <1> QED
    BY <1>3, <1>8, <1>10, <1>13

LEMMA RemoveIsAt ==
    ASSUME NEW S, NEW n \in Nat, NEW s \in Seq(S), Len(s) = n, NEW i \in 1..n
    PROVE  /\ RemoveAt(s, i) \in Seq(S) /\ Len(RemoveAt(s, i)) = n - 1
           /\ Removed(S, RemoveAt(s, i), s, n, i)
  <1>1. PICK k : k = i - 1
    OBVIOUS
  <1>2. PICK m : m = n - i
    OBVIOUS
  <1>3. k \in Nat /\ i = k + 1 /\ m \in Nat /\ k + m = n - 1
    BY <1>1, <1>2
  <1>4. PICK a : a = SubSeq(s, 1, i - 1)
    OBVIOUS
  <1>5. PICK c : c = SubSeq(s, i + 1, Len(s))
    OBVIOUS
  <1>a. a \in Seq(S) /\ Len(a) = k /\ \A j \in 1..k : a[j] = s[j]
    BY <1>1, <1>3, <1>4
  <1>c. c \in Seq(S) /\ Len(c) = m /\ \A j \in 1..m : c[j] = s[i + j]
    BY <1>2, <1>3, <1>5
  <1>6. PICK r : r = a \o c
    OBVIOUS
  <1>7. RemoveAt(s, i) = r
    BY <1>4, <1>5, <1>6 DEF RemoveAt
  <1>8. /\ r \in Seq(S) /\ Len(r) = k + m
        /\ \A j \in 1..k + m : r[j] = IF j <= k THEN a[j] ELSE c[j - k]
    <2>1. a \in Seq(S) /\ c \in Seq(S) /\ Len(a) = k /\ Len(c) = m /\ k \in Nat /\ m \in Nat
      BY <1>3, <1>a, <1>c
    <2> QED
      BY <1>6, <2>1, ConcatProperties
  <1>9. ASSUME NEW j \in 1..k + m
        PROVE  r[j] = IF j < i THEN s[j] ELSE s[j + 1]
    <2>1. CASE j <= k
      BY <1>3, <1>a, <1>8, <2>1
    <2>2. CASE j > k
      <3>1. j - k \in 1..m /\ i + (j - k) = j + 1
        BY <1>3, <2>2
      <3> QED
        BY <1>3, <1>c, <1>8, <2>2, <3>1
    <2> QED
      BY <1>3, <2>1, <2>2
  <1>10. r \in [1..n - 1 -> S]
    BY <1>3, <1>8
  <1>11. Removed(S, r, s, n, i)
    BY <1>3, <1>9, <1>10 DEF Removed
  <1> QED
    BY <1>3, <1>7, <1>8, <1>11

-----------------------------------------------------------------------------
(* Vectors of levels and the searches in them.                             *)
LevelSet == [price : Prices, volume : Nat \ {0}]

Ways == {"forward", "backward"}

\* In memory the best level is the first, or the last.
Precedes(way, side, a, b) ==
    IF way = "forward" THEN Better(side, a, b) ELSE Better(side, b, a)

IsLevels(way, side, ls) ==
    /\ ls \in Seq(LevelSet)
    /\ \A i, j \in DOMAIN ls : i < j => Precedes(way, side, ls[i].price, ls[j].price)

\* The levels before i are those that precede p.
IsPlace(way, side, ls, p, i) ==
    /\ i \in 1..Len(ls) + 1
    /\ \A j \in DOMAIN ls : Precedes(way, side, ls[j].price, p) <=> j < i

LEMMA PrecedesIsOrder ==
    ASSUME NEW way \in Ways, NEW side \in Sides, NEW a \in Int, NEW b \in Int, NEW c \in Int
    PROVE  /\ ~ Precedes(way, side, a, a)
           /\ Precedes(way, side, a, b) \/ a = b \/ Precedes(way, side, b, a)
           /\ Precedes(way, side, a, b) /\ Precedes(way, side, b, c) => Precedes(way, side, a, c)
           /\ Precedes(way, side, a, b) => ~ Precedes(way, side, b, a)
  BY DEF Ways, Sides, Better, Precedes

LEMMA LevelsAre ==
    ASSUME NEW way \in Ways, NEW side \in Sides, NEW ls, IsLevels(way, side, ls)
    PROVE  /\ ls \in Seq(LevelSet) /\ Len(ls) \in Nat /\ DOMAIN ls = 1..Len(ls)
           /\ \A j \in 1..Len(ls) : /\ ls[j] \in LevelSet /\ ls[j] = Level(ls[j].price, ls[j].volume)
                                   /\ ls[j].price \in Prices /\ ls[j].price \in Int
                                   /\ ls[j].volume \in Nat \ {0}
           /\ \A i, j \in 1..Len(ls) : i < j => Precedes(way, side, ls[i].price, ls[j].price)
  <1>1. ls \in Seq(LevelSet) /\ Len(ls) \in Nat /\ DOMAIN ls = 1..Len(ls)
    BY DEF IsLevels
  <1>2. \A i, j \in 1..Len(ls) : i < j => Precedes(way, side, ls[i].price, ls[j].price)
    BY <1>1 DEF IsLevels
  <1>3. \A j \in 1..Len(ls) : ls[j] \in LevelSet
    BY <1>1
  <1>4. ASSUME NEW l \in LevelSet
        PROVE  /\ l = Level(l.price, l.volume) /\ l.price \in Prices /\ l.price \in Int
               /\ l.volume \in Nat \ {0}
    <2>1. l = [price |-> l.price, volume |-> l.volume]
      BY DEF LevelSet
    <2>2. l.price \in Prices /\ l.volume \in Nat \ {0}
      BY DEF LevelSet
    <2> QED
      BY <2>1, <2>2, PricesAssumption DEF Level
  <1> QED
    BY <1>1, <1>2, <1>3, <1>4

LEMMA LowerBoundIs ==
    ASSUME NEW way \in Ways, NEW side \in Sides, NEW ls, IsLevels(way, side, ls), NEW p \in Int,
           NEW F, F = {k \in DOMAIN ls : ~ Precedes(way, side, ls[k].price, p)} \cup {Len(ls) + 1}
    PROVE  IsPlace(way, side, ls, p, Min(F))
  <1>1. PICK n \in Nat : n = Len(ls) /\ DOMAIN ls = 1..n
    BY LevelsAre
  <1>2. F = {k \in 1..n : ~ Precedes(way, side, ls[k].price, p)} \cup {n + 1}
    BY <1>1
  <1>3. PICK i : i = Min(F)
    OBVIOUS
  <1>4. i \in F /\ \A k \in F : i <= k
    <2>1. F \in SUBSET Nat /\ F # {}
      BY <1>2
    <2> QED
      BY <1>3, <2>1, MinIsLeast
  <1>5. i \in 1..n + 1 /\ (i \in 1..n => ~ Precedes(way, side, ls[i].price, p))
    BY <1>2, <1>4
  <1>6. ASSUME NEW j \in 1..n
        PROVE  Precedes(way, side, ls[j].price, p) <=> j < i
    <2>1. ASSUME j < i, ~ Precedes(way, side, ls[j].price, p)
          PROVE  FALSE
      <3>1. j \in F
        BY <1>2, <2>1
      <3> QED
        BY <1>4, <1>5, <2>1, <3>1
    <2>2. ASSUME ~ (j < i), Precedes(way, side, ls[j].price, p)
          PROVE  FALSE
      <3>1. i \in 1..n /\ (i < j \/ i = j)
        BY <1>5, <2>2
      <3>2. i < j => Precedes(way, side, ls[i].price, ls[j].price)
        BY <1>1, <3>1, LevelsAre
      <3>3. ls[i].price \in Int /\ ls[j].price \in Int
        BY <1>1, <3>1, LevelsAre
      <3> QED
        BY <1>5, <2>2, <3>1, <3>2, <3>3, PrecedesIsOrder
    <2> QED
      BY <2>1, <2>2
  <1> QED
    BY <1>1, <1>3, <1>5, <1>6 DEF IsPlace

LEMMA PlaceIsUnique ==
    ASSUME NEW way, NEW side, NEW ls \in Seq(LevelSet), NEW p,
           NEW i, IsPlace(way, side, ls, p, i), NEW k, IsPlace(way, side, ls, p, k)
    PROVE  i = k
  <1>1. PICK n \in Nat : n = Len(ls) /\ DOMAIN ls = 1..n
    OBVIOUS
  <1>2. /\ i \in 1..n + 1 /\ k \in 1..n + 1
        /\ \A j \in 1..n : j < i <=> j < k
    BY <1>1 DEF IsPlace
  <1>3. i < k => FALSE
    BY <1>2
  <1>4. k < i => FALSE
    BY <1>2
  <1> QED
    BY <1>2, <1>3, <1>4

\* A price that has a level has it at its place.
LEMMA PlaceHolds ==
    ASSUME NEW way \in Ways, NEW side \in Sides, NEW ls, IsLevels(way, side, ls), NEW p \in Int,
           NEW i, IsPlace(way, side, ls, p, i), NEW k \in DOMAIN ls, ls[k].price = p
    PROVE  k = i /\ Holds(ls, i, p)
  <1>1. PICK n \in Nat : n = Len(ls) /\ DOMAIN ls = 1..n
    BY LevelsAre
  <1>2. /\ i \in 1..n + 1
        /\ \A j \in 1..n : Precedes(way, side, ls[j].price, p) <=> j < i
    BY <1>1 DEF IsPlace
  <1>3. ~ (k < i)
    BY <1>1, <1>2, PrecedesIsOrder
  <1>4. ~ (i < k)
    <2> SUFFICES ASSUME i < k
                 PROVE  FALSE
      OBVIOUS
    <2>1. i \in 1..n /\ Precedes(way, side, ls[i].price, ls[k].price)
      BY <1>1, <1>2, LevelsAre
    <2> QED
      BY <1>2, <2>1
  <1>5. k = i
    BY <1>1, <1>2, <1>3, <1>4
  <1> QED
    BY <1>5 DEF Holds

LEMMA LinearIs ==
    ASSUME NEW side, NEW ls \in Seq(LevelSet), NEW p,
           NEW i, IsPlace("backward", side, ls, p, i)
    PROVE  LinearFind(ls, side, p) = i
  <1>1. PICK n \in Nat : n = Len(ls) /\ DOMAIN ls = 1..n
    OBVIOUS
  <1>2. /\ i \in 1..n + 1
        /\ \A j \in 1..n : Better(side, p, ls[j].price) <=> j < i
    BY <1>1 DEF IsPlace, Precedes
  <1>3. {j \in DOMAIN ls : Better(side, p, ls[j].price)} \cup {0} = 0..i - 1
    BY <1>1, <1>2
  <1>4. Max(0..i - 1) = i - 1
    BY <1>2 DEF Max
  <1>5. LinearFind(ls, side, p) = 1 + Max(0..i - 1)
    BY <1>3 DEF LinearFind
  <1> QED
    BY <1>2, <1>4, <1>5

-----------------------------------------------------------------------------
(* The branchless search.  Where the loop ends from base b and length l,   *)
(* when q levels precede the price: at the last of them, if that is in the *)
(* window, or else at the nearer end of the window.                        *)
Ends(q, b, l) ==
    IF q <= b + 1 THEN b ELSE IF q >= b + l THEN b + l - 1 ELSE q - 1

\* Where the next iteration starts.
Base(q, b, half) == IF b + half < q THEN b + half ELSE b

\* The loop, as BranchlessFind has it: f is where it ends up.
Loop(f, ls, side, p) ==
    LET Compared(m) == IF Better(side, p, ls[m + 1].price) THEN 1 ELSE 0
    IN  [w \in Windows(Len(ls)) |->
           IF w[2] <= 1 THEN w[1]
           ELSE LET half == w[2] \div 2
                IN  f[<<w[1] + Compared(w[1] + half) * half, w[2] - half>>]]

\* The loop, in terms of the q levels that precede the price.
IsLoop(f, n, q) ==
    \A b \in 0..n, l \in 1..n :
        b + l <= n =>
          f[<<b, l>>] = IF l <= 1 THEN b ELSE f[<<Base(q, b, l \div 2), l - l \div 2>>]

LEMMA HalfIs ==
    ASSUME NEW l \in Nat, l > 1
    PROVE  l \div 2 \in 1..l - 1 /\ 2 * (l \div 2) <= l /\ l - l \div 2 \in 1..l - 1
  OBVIOUS

LEMMA EndsHalve ==
    ASSUME NEW q \in Nat, NEW b \in Nat, NEW l \in Nat, NEW half \in Nat,
           half > 0, half < l, 2 * half <= l
    PROVE  /\ Ends(q, b, l) = Ends(q, Base(q, b, half), l - half)
           /\ Base(q, b, half) \in Nat /\ Base(q, b, half) + (l - half) <= b + l
  BY DEF Ends, Base

LEMMA LoopEnds ==
    ASSUME NEW n \in Nat, NEW q \in Nat, NEW f, IsLoop(f, n, q)
    PROVE  \A b \in 0..n, l \in 1..n : b + l <= n => f[<<b, l>>] = Ends(q, b, l)
  <1> DEFINE Wrong == {l \in 1..n : \E b \in 0..n : b + l <= n /\ f[<<b, l>>] # Ends(q, b, l)}
  <1> SUFFICES ASSUME Wrong # {}
               PROVE  FALSE
    OBVIOUS
  <1>1. PICK l : l \in Wrong /\ \A k \in Wrong : l <= k
    <2>1. Wrong \in SUBSET Nat
      OBVIOUS
    <2> QED
      BY <2>1, MinIsLeast
  <1>2. PICK b \in 0..n : b + l <= n /\ f[<<b, l>>] # Ends(q, b, l)
    BY <1>1
  <1>3. l \in 1..n
    BY <1>1
  <1>4. l > 1
    <2>1. l <= 1 => f[<<b, l>>] = b
      BY <1>2, <1>3 DEF IsLoop
    <2>2. l <= 1 => Ends(q, b, l) = b
      BY <1>3 DEF Ends
    <2> QED
      BY <1>2, <1>3, <2>1, <2>2
  <1>5. PICK half : half = l \div 2
    OBVIOUS
  <1>6. half \in Nat /\ half > 0 /\ half < l /\ 2 * half <= l /\ l - half \in 1..l - 1
    BY <1>3, <1>4, <1>5, HalfIs
  <1>7. PICK c : c = Base(q, b, half)
    OBVIOUS
  <1>8. c \in Nat /\ c + (l - half) <= b + l /\ Ends(q, b, l) = Ends(q, c, l - half)
    <2>1. b \in Nat /\ l \in Nat /\ half \in Nat /\ half > 0 /\ half < l /\ 2 * half <= l
      BY <1>3, <1>6
    <2>2. /\ Ends(q, b, l) = Ends(q, Base(q, b, half), l - half)
          /\ Base(q, b, half) \in Nat /\ Base(q, b, half) + (l - half) <= b + l
      BY <2>1, EndsHalve, SMT
    <2> QED
      BY <1>7, <2>2, Zenon
  <1>9. f[<<b, l>>] = f[<<c, l - half>>]
    <2>1. f[<<b, l>>] = IF l <= 1 THEN b ELSE f[<<Base(q, b, l \div 2), l - l \div 2>>]
      BY <1>2, <1>3, Zenon DEF IsLoop
    <2>2. ~ (l <= 1)
      BY <1>3, <1>4
    <2> QED
      BY <1>5, <1>7, <2>1, <2>2, Zenon
  <1>10. c \in 0..n /\ l - half \in 1..n /\ c + (l - half) <= n
    BY <1>2, <1>3, <1>6, <1>8
  <1>11. l - half \in Wrong
    BY <1>2, <1>8, <1>9, <1>10
  <1> QED
    BY <1>1, <1>3, <1>6, <1>11

LEMMA LoopIsLoop ==
    ASSUME NEW side \in Sides, NEW ls, IsLevels("backward", side, ls), NEW p \in Int,
           NEW i, IsPlace("backward", side, ls, p, i), NEW f, f = Loop(f, ls, side, p)
    PROVE  IsLoop(f, Len(ls), i - 1)
  <1>1. PICK n \in Nat : n = Len(ls) /\ DOMAIN ls = 1..n
    BY LevelsAre DEF Ways
  <1>2. /\ i \in 1..n + 1
        /\ \A j \in 1..n : Better(side, p, ls[j].price) <=> j < i
    BY <1>1 DEF IsPlace, Precedes
  <1>3. PICK q \in Nat : q = i - 1
    BY <1>2
  <1> SUFFICES ASSUME NEW b \in 0..n, NEW l \in 1..n, b + l <= n
               PROVE  f[<<b, l>>] = IF l <= 1 THEN b ELSE f[<<Base(q, b, l \div 2), l - l \div 2>>]
    BY <1>1, <1>3 DEF IsLoop
  <1>4. <<b, l>> \in Windows(Len(ls)) /\ <<b, l>>[1] = b /\ <<b, l>>[2] = l
    BY <1>1 DEF Windows
  <1>5. f[<<b, l>>] =
          IF l <= 1 THEN b
          ELSE f[<<b + (IF Better(side, p, ls[b + l \div 2 + 1].price) THEN 1 ELSE 0) * (l \div 2),
                   l - l \div 2>>]
    <2>1. PICK w : w = <<b, l>> /\ w \in Windows(Len(ls)) /\ w[1] = b /\ w[2] = l
      BY <1>4
    <2>2. f[w] =
          IF w[2] <= 1 THEN w[1]
       ELSE f[<<w[1] + (IF Better(side, p, ls[w[1] + w[2] \div 2 + 1].price) THEN 1 ELSE 0) * (w[2] \div 2),
                w[2] - w[2] \div 2>>]
      BY <2>1, Zenon DEF Loop
    <2> QED
      BY <2>1, <2>2, Zenon
  <1>6. CASE l <= 1
    BY <1>5, <1>6
  <1>7. CASE l > 1
    <2>1. PICK half : half = l \div 2
      OBVIOUS
    <2>2. half \in Nat /\ half > 0 /\ half < l
      BY <1>7, <2>1, HalfIs
    <2>3. Better(side, p, ls[b + half + 1].price) <=> b + half < q
      <3>1. b + half + 1 \in 1..n
        BY <2>2
      <3> QED
        BY <1>2, <1>3, <2>2, <3>1
    <2>4. b + (IF Better(side, p, ls[b + half + 1].price) THEN 1 ELSE 0) * half = Base(q, b, half)
      BY <2>2, <2>3 DEF Base
    <2> QED
      BY <1>5, <1>7, <2>1, <2>4
  <1> QED
    BY <1>6, <1>7

LEMMA LoopExists ==
    ASSUME NEW side \in Sides, NEW ls, IsLevels("backward", side, ls), NEW p \in Int,
           NEW i, IsPlace("backward", side, ls, p, i)
    PROVE  \E f : f = Loop(f, ls, side, p)
  <1>1. PICK n \in Nat : n = Len(ls) /\ DOMAIN ls = 1..n
    BY LevelsAre DEF Ways
  <1>2. /\ i \in 1..n + 1
        /\ \A j \in 1..n : Better(side, p, ls[j].price) <=> j < i
    BY <1>1 DEF IsPlace, Precedes
  <1>3. PICK q \in Nat : q = i - 1
    BY <1>2
  <1>4. PICK f : f = [w \in Windows(n) |-> Ends(q, w[1], w[2])]
    OBVIOUS
  <1>5. ASSUME NEW b \in 0..n, NEW l \in 1..n, b + l <= n
        PROVE  f[<<b, l>>] = Ends(q, b, l)
    BY <1>4, <1>5 DEF Windows
  <1>6. ASSUME NEW w \in Windows(n)
        PROVE  f[w] = Loop(f, ls, side, p)[w]
    <2>1. PICK b \in 0..n, l \in 1..n : w = <<b, l>> /\ w[1] = b /\ w[2] = l /\ b + l <= n
      BY DEF Windows
    <2>2. Loop(f, ls, side, p)[w] =
          IF w[2] <= 1 THEN w[1]
       ELSE f[<<w[1] + (IF Better(side, p, ls[w[1] + w[2] \div 2 + 1].price) THEN 1 ELSE 0) * (w[2] \div 2),
                w[2] - w[2] \div 2>>]
      BY <1>1, Zenon DEF Loop
    <2>3. Loop(f, ls, side, p)[w] =
          IF l <= 1 THEN b
          ELSE f[<<b + (IF Better(side, p, ls[b + l \div 2 + 1].price) THEN 1 ELSE 0) * (l \div 2),
                   l - l \div 2>>]
      BY <2>1, <2>2, Zenon
    <2>4. f[w] = Ends(q, b, l)
      BY <1>5, <2>1
    <2>5. CASE l <= 1
      BY <2>1, <2>3, <2>4, <2>5 DEF Ends
    <2>6. CASE l > 1
      <3>1. PICK half : half = l \div 2
        OBVIOUS
      <3>2. half \in Nat /\ half > 0 /\ half < l /\ 2 * half <= l /\ l - half \in 1..l - 1
        BY <2>6, <3>1, HalfIs
      <3>3. Better(side, p, ls[b + half + 1].price) <=> b + half < q
        <4>1. b + half + 1 \in 1..n
          BY <2>1, <3>2
        <4> QED
          BY <1>2, <1>3, <3>2, <4>1
      <3>4. PICK c : c = Base(q, b, half)
        OBVIOUS
      <3>5. b + (IF Better(side, p, ls[b + half + 1].price) THEN 1 ELSE 0) * half = c
        BY <3>2, <3>3, <3>4 DEF Base
      <3>6. c \in Nat /\ c + (l - half) <= b + l /\ Ends(q, b, l) = Ends(q, c, l - half)
        BY <3>2, <3>4, EndsHalve
      <3>7. c \in 0..n /\ l - half \in 1..n /\ c + (l - half) <= n
        BY <2>1, <3>2, <3>6
      <3>8. f[<<c, l - half>>] = Ends(q, c, l - half)
        BY <1>5, <3>7
      <3>9. Loop(f, ls, side, p)[w] = f[<<c, l - half>>]
        BY <2>3, <2>6, <3>1, <3>5
      <3> QED
        BY <2>4, <3>6, <3>8, <3>9
    <2> QED
      BY <2>5, <2>6
  <1>7. Loop(f, ls, side, p) = [w \in Windows(n) |-> Loop(f, ls, side, p)[w]]
    BY <1>1 DEF Loop
  <1>8. f = [w \in Windows(n) |-> f[w]]
    BY <1>4
  <1> QED
    BY <1>6, <1>7, <1>8

LEMMA BranchlessIs ==
    ASSUME NEW side \in Sides, NEW ls, IsLevels("backward", side, ls), NEW p \in Int,
           NEW i, IsPlace("backward", side, ls, p, i)
    PROVE  BranchlessFind(ls, side, p) = i
  <1>1. PICK n \in Nat : n = Len(ls) /\ DOMAIN ls = 1..n
    BY LevelsAre DEF Ways
  <1>2. /\ i \in 1..n + 1
        /\ \A j \in 1..n : Better(side, p, ls[j].price) <=> j < i
    BY <1>1 DEF IsPlace, Precedes
  <1>3. CASE n = 0
    BY <1>1, <1>2, <1>3 DEF BranchlessFind
  <1>4. CASE n > 0
    <2>1. PICK f : f = CHOOSE g : g = Loop(g, ls, side, p)
      OBVIOUS
    <2>2. f = Loop(f, ls, side, p)
      BY <2>1, LoopExists, Zenon
    <2>3. IsLoop(f, n, i - 1) /\ i - 1 \in Nat
      BY <1>1, <1>2, <2>2, LoopIsLoop
    <2>4. PICK e : e = f[<<0, n>>]
      OBVIOUS
    <2>5. e = Ends(i - 1, 0, n)
      BY <1>4, <2>3, <2>4, LoopEnds
    <2>6. BranchlessFind(ls, side, p) =
            1 + e + IF Better(side, p, ls[e + 1].price) THEN 1 ELSE 0
      <3>1. BranchlessFind(ls, side, p) =
              LET Compared(m) == IF Better(side, p, ls[m + 1].price) THEN 1 ELSE 0
                  at == CHOOSE g : g = Loop(g, ls, side, p)
              IN  IF Len(ls) = 0 THEN 1 ELSE 1 + at[<<0, Len(ls)>>] + Compared(at[<<0, Len(ls)>>])
        BY Zenon DEF BranchlessFind, Loop
      <3> QED
        BY <1>1, <1>4, <2>1, <2>4, <3>1
    <2>7. e \in 0..n - 1 /\ e = IF i = 1 THEN 0 ELSE i - 2
      BY <1>2, <1>4, <2>5 DEF Ends
    <2>8. Better(side, p, ls[e + 1].price) <=> e + 1 < i
      BY <1>2, <2>7
    <2> QED
      BY <1>2, <2>6, <2>7, <2>8
  <1> QED
    BY <1>3, <1>4

-----------------------------------------------------------------------------
(* The four layouts.                                                       *)
Way == IF layout = "forward" THEN "forward" ELSE "backward"

LEMMA FindIs ==
    ASSUME layout \in Layouts, NEW side \in Sides, NEW ls, IsLevels(Way, side, ls), NEW p \in Int
    PROVE  IsPlace(Way, side, ls, p, Find(ls, side, p))
  <1>1. PICK way \in Ways : way = Way
    BY DEF Way, Ways
  <1>2. PICK F : F = {k \in DOMAIN ls : ~ Precedes(way, side, ls[k].price, p)} \cup {Len(ls) + 1}
    OBVIOUS
  <1>3. IsPlace(way, side, ls, p, Min(F))
    BY <1>1, <1>2, LowerBoundIs
  <1>4. way = "forward" => Find(ls, side, p) = Min(F)
    <2>1. way = "forward" => F = {k \in DOMAIN ls : ~ Better(side, ls[k].price, p)} \cup {Len(ls) + 1}
      BY <1>2 DEF Precedes
    <2>2. way = "forward" => Find(ls, side, p) = ForwardFind(ls, side, p)
      BY <1>1 DEF Way, Find
    <2> QED
      BY <2>1, <2>2, Zenon DEF ForwardFind
  <1>5. way = "backward" => ReverseFind(ls, side, p) = Min(F)
    <2>1. way = "backward" => F = {k \in DOMAIN ls : ~ Better(side, p, ls[k].price)} \cup {Len(ls) + 1}
      BY <1>2 DEF Precedes
    <2> QED
      BY <2>1, Zenon DEF ReverseFind
  <1>6. way = "backward" => BranchlessFind(ls, side, p) = Min(F) /\ LinearFind(ls, side, p) = Min(F)
    <2>1. ls \in Seq(LevelSet)
      BY DEF IsLevels
    <2> QED
      BY <1>1, <1>3, <2>1, BranchlessIs, LinearIs
  <1>7. way = "backward" => Find(ls, side, p) = Min(F)
    <2>1. way = "backward" => layout \in {"lower_bound", "branchless", "linear"}
      BY <1>1 DEF Way, Layouts
    <2> QED
      BY <1>5, <1>6, <2>1 DEF Find
  <1> QED
    BY <1>1, <1>3, <1>4, <1>7 DEF Ways

LEMMA ReverseIs ==
    ASSUME NEW way \in Ways, NEW other \in Ways, way # other,
           NEW side \in Sides, NEW ls, IsLevels(way, side, ls)
    PROVE  /\ IsLevels(other, side, Reverse(ls)) /\ Len(Reverse(ls)) = Len(ls)
           /\ \A j \in 1..Len(ls) : /\ Reverse(ls)[j] = ls[Len(ls) + 1 - j]
                                   /\ ls[j] = Reverse(ls)[Len(ls) + 1 - j]
  <1>1. PICK n \in Nat : n = Len(ls) /\ DOMAIN ls = 1..n
    BY LevelsAre
  <1>2. PICK r : r = Reverse(ls)
    OBVIOUS
  <1>3. r = [j \in 1..n |-> ls[n - j + 1]]
    BY <1>1, <1>2 DEF Reverse
  <1>4. \A j \in 1..n : n - j + 1 \in 1..n /\ n + 1 - j = n - j + 1 /\ n - (n + 1 - j) + 1 = j
    OBVIOUS
  <1>5. \A j \in 1..n : r[j] = ls[n + 1 - j] /\ ls[j] = r[n + 1 - j] /\ r[j] \in LevelSet
    BY <1>1, <1>3, <1>4, LevelsAre
  <1>6. r \in [1..n -> LevelSet]
    BY <1>3, <1>5
  <1>7. r \in Seq(LevelSet) /\ Len(r) = n /\ DOMAIN r = 1..n
    BY <1>6, SeqDef
  <1>8. ASSUME NEW i \in 1..n, NEW j \in 1..n, i < j
        PROVE  Precedes(other, side, r[i].price, r[j].price)
    <2>1. n + 1 - j \in 1..n /\ n + 1 - i \in 1..n /\ n + 1 - j < n + 1 - i
      BY <1>8
    <2>2. Precedes(way, side, ls[n + 1 - j].price, ls[n + 1 - i].price)
      BY <1>1, <2>1, LevelsAre
    <2> QED
      BY <1>5, <2>2 DEF Precedes, Ways
  <1> QED
    BY <1>1, <1>2, <1>5, <1>7, <1>8 DEF IsLevels

\* The place in the other order.
LEMMA PlaceFromTheEnd ==
    ASSUME NEW side \in Sides, NEW f, IsLevels("forward", side, f),
           NEW r, IsLevels("backward", side, r), NEW n \in Nat, Len(f) = n, Len(r) = n,
           \A j \in 1..n : f[j] = r[n + 1 - j],
           NEW p \in Int, NEW i, IsPlace("forward", side, f, p, i)
    PROVE  IsPlace("backward", side, r, p, n + (IF Holds(f, i, p) THEN 1 ELSE 2) - i)
  <1>1. DOMAIN f = 1..n /\ DOMAIN r = 1..n
    BY LevelsAre DEF Ways
  <1>2. /\ i \in 1..n + 1
        /\ \A j \in 1..n : Better(side, f[j].price, p) <=> j < i
    BY <1>1 DEF IsPlace, Precedes
  <1>3. ASSUME NEW j \in 1..n
        PROVE  Better(side, p, f[j].price) <=> i < j \/ (i = j /\ ~ Holds(f, i, p))
    <2>1. f[j].price \in Int
      BY LevelsAre DEF Ways
    <2>2. f[j].price = p => j = i /\ Holds(f, i, p)
      BY <1>1, PlaceHolds DEF Ways
    <2>3. Better(side, f[j].price, p) \/ f[j].price = p \/ Better(side, p, f[j].price)
      BY <2>1 DEF Better, Sides
    <2>4. ~ (Better(side, f[j].price, p) /\ Better(side, p, f[j].price))
      BY <2>1 DEF Better, Sides
    <2>5. ~ (f[j].price = p /\ Better(side, p, f[j].price))
      BY <2>1 DEF Better, Sides
    <2>6. j = i /\ Holds(f, i, p) => f[j].price = p
      BY DEF Holds
    <2>7. j < i \/ i < j \/ i = j
      BY <1>2
    <2>8. ~ (j < i /\ i < j) /\ ~ (j < i /\ i = j) /\ ~ (i < j /\ i = j)
      BY <1>2
    <2> QED
      BY <1>2, <2>2, <2>3, <2>4, <2>5, <2>6, <2>7, <2>8
  <1>4. PICK m : m = n + (IF Holds(f, i, p) THEN 1 ELSE 2) - i
    OBVIOUS
  <1>5. m \in 1..n + 1
    <2>1. Holds(f, i, p) => i \in 1..n
      BY <1>1 DEF Holds
    <2> QED
      BY <1>2, <1>4, <2>1
  <1>6. ASSUME NEW j \in 1..n
        PROVE  Better(side, p, r[j].price) <=> j < m
    <2>1. PICK k \in 1..n : k = n + 1 - j /\ j = n + 1 - k
      OBVIOUS
    <2>2. r[j] = f[k]
      BY <2>1
    <2>3. j < m <=> i < k \/ (i = k /\ ~ Holds(f, i, p))
      BY <1>2, <1>4, <2>1
    <2> QED
      BY <1>3, <2>2, <2>3
  <1> QED
    BY <1>1, <1>4, <1>5, <1>6 DEF IsPlace, Precedes

LEMMA SearchesAre ==
    ASSUME NEW side \in Sides, NEW p \in Int
    PROVE  /\ \A ls : IsLevels("forward", side, ls) => IsPlace("forward", side, ls, p, ForwardFind(ls, side, p))
           /\ \A ls, i : IsLevels("backward", side, ls) /\ IsPlace("backward", side, ls, p, i) =>
                /\ ReverseFind(ls, side, p) = i /\ BranchlessFind(ls, side, p) = i
                /\ LinearFind(ls, side, p) = i
  <1>1. ASSUME NEW ls, IsLevels("forward", side, ls)
        PROVE  IsPlace("forward", side, ls, p, ForwardFind(ls, side, p))
    <2>1. PICK F : F = {k \in DOMAIN ls : ~ Better(side, ls[k].price, p)} \cup {Len(ls) + 1}
      OBVIOUS
    <2>2. F = {k \in DOMAIN ls : ~ Precedes("forward", side, ls[k].price, p)} \cup {Len(ls) + 1}
      BY <2>1 DEF Precedes
    <2>3. IsPlace("forward", side, ls, p, Min(F))
      BY <1>1, <2>2, LowerBoundIs DEF Ways
    <2> QED
      BY <2>1, <2>3, Zenon DEF ForwardFind
  <1>2. ASSUME NEW ls, NEW i, IsLevels("backward", side, ls), IsPlace("backward", side, ls, p, i)
        PROVE  /\ ReverseFind(ls, side, p) = i /\ BranchlessFind(ls, side, p) = i
               /\ LinearFind(ls, side, p) = i
    <2>1. PICK F : F = {k \in DOMAIN ls : ~ Better(side, p, ls[k].price)} \cup {Len(ls) + 1}
      OBVIOUS
    <2>2. F = {k \in DOMAIN ls : ~ Precedes("backward", side, ls[k].price, p)} \cup {Len(ls) + 1}
      BY <2>1 DEF Precedes
    <2>3. IsPlace("backward", side, ls, p, Min(F))
      BY <1>2, <2>2, LowerBoundIs DEF Ways
    <2>4. ls \in Seq(LevelSet)
      BY <1>2 DEF IsLevels
    <2>5. Min(F) = i
      BY <1>2, <2>3, <2>4, PlaceIsUnique
    <2>6. ReverseFind(ls, side, p) = i
      BY <2>1, <2>5, Zenon DEF ReverseFind
    <2> QED
      BY <1>2, <2>4, <2>6, BranchlessIs, LinearIs
  <1> QED
    BY <1>1, <1>2

-----------------------------------------------------------------------------
(* A side of the book and the orders.                                      *)
Mirrors(way, side, ls, r) ==
    /\ IsLevels(way, side, ls)
    /\ \A j \in DOMAIN ls : ls[j].volume = Total(r, side, ls[j].price)
    /\ \A p \in Prices : Total(r, side, p) > 0 => \E j \in DOMAIN ls : ls[j].price = p

LEMMA OtherSideMirrors ==
    ASSUME NEW way \in Ways, NEW side \in Sides, NEW s \in Sides, s # side, NEW p, NEW d,
           NEW r, IsOrders(r), NEW t, IsOrders(t), Changes(r, t, side, p, d),
           NEW ls, Mirrors(way, s, ls, r)
    PROVE  Mirrors(way, s, ls, t)
  <1>1. \A q \in Prices : Total(t, s, q) = Total(r, s, q)
    <2>1. TAKE q \in Prices
    <2>2. Total(r, s, q) \in Nat
      BY SharesAreFinite
    <2> QED
      BY <2>2 DEF Changes
  <1>2. \A j \in DOMAIN ls : ls[j].price \in Prices
    BY LevelsAre DEF Mirrors
  <1> QED
    BY <1>1, <1>2 DEF Mirrors

\* The volume of a level is set.
LEMMA VolumeIsSet ==
    ASSUME NEW way \in Ways, NEW side \in Sides, NEW ls, IsLevels(way, side, ls),
           NEW n \in DOMAIN ls, NEW v \in Nat \ {0}
    PROVE  /\ IsLevels(way, side, [ls EXCEPT ![n].volume = v])
           /\ DOMAIN [ls EXCEPT ![n].volume = v] = DOMAIN ls
           /\ \A j \in DOMAIN ls :
                [ls EXCEPT ![n].volume = v][j] = Level(ls[j].price, IF j = n THEN v ELSE ls[j].volume)
  <1>1. PICK m \in Nat : m = Len(ls) /\ DOMAIN ls = 1..m
    BY LevelsAre
  <1>2. PICK e : e = [ls EXCEPT ![n].volume = v]
    OBVIOUS
  <1>3. DOMAIN e = 1..m /\ e = [j \in 1..m |-> e[j]]
    BY <1>1, <1>2
  <1>4. ASSUME NEW j \in 1..m
        PROVE  e[j] = Level(ls[j].price, IF j = n THEN v ELSE ls[j].volume)
    <2>1. ls[j] = Level(ls[j].price, ls[j].volume)
      BY <1>1, LevelsAre
    <2>2. CASE j # n
      BY <1>1, <1>2, <2>1, <2>2
    <2>3. CASE j = n
      <3>1. e[j] = [ls[j] EXCEPT !.volume = v]
        BY <1>1, <1>2, <2>3
      <3>2. PICK q, w : ls[j] = [price |-> q, volume |-> w] /\ q = ls[j].price
        BY <2>1 DEF Level
      <3>3. e[j] = [price |-> q, volume |-> v]
        BY <3>1, <3>2
      <3> QED
        BY <2>3, <3>2, <3>3 DEF Level
    <2> QED
      BY <2>2, <2>3
  <1>5. \A j \in 1..m : e[j] \in LevelSet /\ e[j].price = ls[j].price
    <2>1. TAKE j \in 1..m
    <2>2. e[j] = Level(ls[j].price, IF j = n THEN v ELSE ls[j].volume)
      BY <1>4
    <2>3. ls[j].price \in Prices /\ ls[j].volume \in Nat \ {0}
      BY <1>1, LevelsAre
    <2> QED
      BY <2>2, <2>3 DEF Level, LevelSet
  <1>6. e \in [1..m -> LevelSet]
    BY <1>3, <1>5
  <1>7. e \in Seq(LevelSet)
    BY <1>6, SeqDef
  <1>8. \A i, j \in 1..m : i < j => Precedes(way, side, e[i].price, e[j].price)
    BY <1>1, <1>5, LevelsAre
  <1>9. IsLevels(way, side, e)
    BY <1>3, <1>7, <1>8 DEF IsLevels
  <1> QED
    BY <1>1, <1>2, <1>3, <1>4, <1>9

\* The level at the place of a price changes with the orders there.
LEMMA SetMirrors ==
    ASSUME NEW way \in Ways, NEW side \in Sides, NEW p \in Prices, NEW d \in Int,
           NEW r, IsOrders(r), NEW t, IsOrders(t), Changes(r, t, side, p, d),
           NEW ls, Mirrors(way, side, ls, r), NEW n, IsPlace(way, side, ls, p, n), Holds(ls, n, p),
           NEW v, v = ls[n].volume + d, v > 0
    PROVE  Mirrors(way, side, [ls EXCEPT ![n].volume = v], t)
  <1>1. IsLevels(way, side, ls) /\ n \in DOMAIN ls /\ ls[n].price = p /\ p \in Int
    BY PricesAssumption DEF Mirrors, Holds
  <1>2. ls[n].volume \in Nat /\ v \in Nat \ {0}
    BY <1>1, LevelsAre
  <1>3. PICK e : e = [ls EXCEPT ![n].volume = v]
    OBVIOUS
  <1>4. /\ IsLevels(way, side, e) /\ DOMAIN e = DOMAIN ls
        /\ \A j \in DOMAIN ls : e[j] = Level(ls[j].price, IF j = n THEN v ELSE ls[j].volume)
    <2>1. PICK w : w = v
      OBVIOUS
    <2>2. w \in Nat \ {0}
      BY <1>2, <2>1
    <2>3. /\ IsLevels(way, side, [ls EXCEPT ![n].volume = w])
          /\ DOMAIN [ls EXCEPT ![n].volume = w] = DOMAIN ls
          /\ \A j \in DOMAIN ls :
               [ls EXCEPT ![n].volume = w][j] = Level(ls[j].price, IF j = n THEN w ELSE ls[j].volume)
      BY <1>1, <2>2, VolumeIsSet, Zenon
    <2> QED
      BY <1>3, <2>1, <2>3, Zenon
  <1>5. \A j \in DOMAIN ls : e[j].price = ls[j].price /\ e[j].volume = IF j = n THEN v ELSE ls[j].volume
    BY <1>4 DEF Level
  <1>6. ASSUME NEW j \in DOMAIN ls
        PROVE  e[j].volume = Total(t, side, e[j].price)
    <2>1. PICK q \in Prices : q = ls[j].price
      BY <1>1, LevelsAre
    <2>2. Total(r, side, q) \in Nat /\ ls[j].volume = Total(r, side, q)
      BY <2>1, SharesAreFinite DEF Mirrors
    <2>3. j = n <=> q = p
      BY <1>1, <2>1, PlaceHolds
    <2>4. Total(t, side, q) = Total(r, side, q) + IF q = p THEN d ELSE 0
      BY DEF Changes
    <2> QED
      BY <1>5, <2>1, <2>2, <2>3, <2>4
  <1>7. ASSUME NEW q \in Prices, Total(t, side, q) > 0
        PROVE  \E j \in DOMAIN e : e[j].price = q
    <2>1. CASE q = p
      BY <1>1, <1>4, <1>5, <2>1
    <2>2. CASE q # p
      <3>1. Total(r, side, q) \in Nat /\ Total(t, side, q) = Total(r, side, q) + 0
        BY <2>2, SharesAreFinite DEF Changes
      <3> QED
        BY <1>4, <1>5, <1>7, <3>1 DEF Mirrors
    <2> QED
      BY <2>1, <2>2
  <1> QED
    BY <1>3, <1>4, <1>6, <1>7 DEF Mirrors

\* A price that has no level gets one.
LEMMA InsertMirrors ==
    ASSUME NEW way \in Ways, NEW side \in Sides, NEW p \in Prices, NEW v \in Nat \ {0},
           NEW r, IsOrders(r), NEW t, IsOrders(t), Changes(r, t, side, p, v),
           NEW ls, Mirrors(way, side, ls, r), NEW n, IsPlace(way, side, ls, p, n), ~ Holds(ls, n, p)
    PROVE  Mirrors(way, side, InsertAt(ls, n, Level(p, v)), t)
  <1>1. IsLevels(way, side, ls) /\ p \in Int
    BY PricesAssumption DEF Mirrors
  <1>2. PICK m \in Nat : m = Len(ls) /\ DOMAIN ls = 1..m
    BY <1>1, LevelsAre
  <1>3. ls \in Seq(LevelSet)
    BY <1>1, LevelsAre
  <1>4. n \in 1..m + 1
    BY <1>2 DEF IsPlace
  <1>5. \A j \in 1..m : Precedes(way, side, ls[j].price, p) <=> j < n
    BY <1>2 DEF IsPlace
  <1>6. PICK l : l = Level(p, v)
    OBVIOUS
  <1>7. l \in LevelSet /\ l.price = p /\ l.volume = v
    BY <1>6 DEF Level, LevelSet
  <1>8. PICK e : e = InsertAt(ls, n, l)
    OBVIOUS
  <1>9. e \in Seq(LevelSet) /\ Len(e) = m + 1 /\ Inserted(LevelSet, e, ls, m, n, l)
    BY <1>2, <1>3, <1>4, <1>7, <1>8, InsertIsAt
  <1>10. /\ DOMAIN e = 1..m + 1
         /\ \A j \in 1..m + 1 : e[j] = IF j < n THEN ls[j] ELSE IF j = n THEN l ELSE ls[j - 1]
    BY <1>9 DEF Inserted
  <1>11. \A j \in 1..m : /\ ls[j].price \in Prices /\ ls[j].price \in Int /\ ls[j].price # p
                         /\ n <= j => Precedes(way, side, p, ls[j].price)
    <2>1. TAKE j \in 1..m
    <2>2. ls[j].price \in Prices /\ ls[j].price \in Int
      BY <1>1, <1>2, LevelsAre
    <2>3. ls[j].price # p
      BY <1>1, <1>2, PlaceHolds
    <2>4. n <= j => ~ Precedes(way, side, ls[j].price, p)
      BY <1>4, <1>5
    <2> QED
      BY <1>1, <2>2, <2>3, <2>4, PrecedesIsOrder
  <1>12. ASSUME NEW i \in 1..m + 1, NEW j \in 1..m + 1, i < j
         PROVE  Precedes(way, side, e[i].price, e[j].price)
    <2>1. CASE j < n
      <3>1. i \in 1..m /\ j \in 1..m /\ e[i] = ls[i] /\ e[j] = ls[j]
        BY <1>4, <1>10, <1>12, <2>1
      <3> QED
        BY <1>1, <1>2, <1>12, <3>1, LevelsAre
    <2>2. CASE j = n
      <3>1. i \in 1..m /\ i < n /\ e[i] = ls[i] /\ e[j] = l
        BY <1>4, <1>10, <1>12, <2>2
      <3> QED
        BY <1>5, <1>7, <3>1
    <2>3. CASE n < j /\ i = n
      <3>1. j - 1 \in 1..m /\ n <= j - 1 /\ e[i] = l /\ e[j] = ls[j - 1]
        BY <1>4, <1>10, <2>3
      <3> QED
        BY <1>7, <1>11, <3>1
    <2>4. CASE n < j /\ i < n
      <3>1. i \in 1..m /\ j - 1 \in 1..m /\ n <= j - 1 /\ e[i] = ls[i] /\ e[j] = ls[j - 1] /\ i < j - 1
        BY <1>4, <1>10, <2>4
      <3> QED
        BY <1>1, <1>2, <3>1, LevelsAre
    <2>5. CASE n < j /\ n < i
      <3>1. i - 1 \in 1..m /\ j - 1 \in 1..m /\ e[i] = ls[i - 1] /\ e[j] = ls[j - 1] /\ i - 1 < j - 1
        BY <1>4, <1>10, <1>12, <2>5
      <3> QED
        BY <1>1, <1>2, <3>1, LevelsAre
    <2> QED
      BY <1>4, <2>1, <2>2, <2>3, <2>4, <2>5
  <1>13. IsLevels(way, side, e)
    BY <1>9, <1>10, <1>12 DEF IsLevels
  <1>14. Total(r, side, p) = 0
    <2>1. Total(r, side, p) \in Nat
      BY SharesAreFinite
    <2>2. ~ (Total(r, side, p) > 0)
      BY <1>2, <1>11 DEF Mirrors
    <2> QED
      BY <2>1, <2>2
  <1>15. Total(t, side, p) = v
    BY <1>14 DEF Changes
  <1>16. \A q \in Prices : q # p => Total(t, side, q) = Total(r, side, q)
    <2>1. TAKE q \in Prices
    <2>2. Total(r, side, q) \in Nat
      BY SharesAreFinite
    <2> QED
      BY <2>2 DEF Changes
  <1>17. ASSUME NEW j \in 1..m
         PROVE  ls[j].volume = Total(t, side, ls[j].price)
    BY <1>2, <1>11, <1>16 DEF Mirrors
  <1>18. ASSUME NEW j \in DOMAIN e
         PROVE  e[j].volume = Total(t, side, e[j].price)
    <2>1. CASE j < n
      <3>1. j \in 1..m /\ e[j] = ls[j]
        BY <1>4, <1>10, <2>1
      <3> QED
        BY <1>17, <3>1
    <2>2. CASE j = n
      BY <1>7, <1>10, <1>15, <2>2
    <2>3. CASE n < j
      <3>1. j - 1 \in 1..m /\ e[j] = ls[j - 1]
        BY <1>4, <1>10, <2>3
      <3> QED
        BY <1>17, <3>1
    <2> QED
      BY <1>4, <1>10, <2>1, <2>2, <2>3
  <1>19. ASSUME NEW q \in Prices, Total(t, side, q) > 0
         PROVE  \E j \in DOMAIN e : e[j].price = q
    <2>1. CASE q = p
      BY <1>4, <1>7, <1>10, <2>1
    <2>2. CASE q # p
      <3>1. PICK j \in 1..m : ls[j].price = q
        BY <1>2, <1>16, <1>19, <2>2 DEF Mirrors
      <3>2. CASE j < n
        <4>1. j \in 1..m + 1 /\ e[j] = ls[j]
          BY <1>10, <3>2
        <4> QED
          BY <1>10, <3>1, <4>1
      <3>3. CASE n <= j
        <4>1. PICK k : k = j + 1
          OBVIOUS
        <4>2. k \in 1..m + 1 /\ e[k] = ls[j]
          BY <1>4, <1>10, <3>3, <4>1
        <4> QED
          BY <1>10, <3>1, <4>2
      <3> QED
        BY <1>4, <3>2, <3>3
    <2> QED
      BY <2>1, <2>2
  <1> QED
    BY <1>6, <1>8, <1>13, <1>18, <1>19 DEF Mirrors

\* The level of a price that has no orders left goes.
LEMMA RemoveMirrors ==
    ASSUME NEW way \in Ways, NEW side \in Sides, NEW p \in Prices, NEW d \in Int,
           NEW r, IsOrders(r), NEW t, IsOrders(t), Changes(r, t, side, p, d),
           NEW ls, Mirrors(way, side, ls, r), NEW n, IsPlace(way, side, ls, p, n), Holds(ls, n, p),
           ls[n].volume + d <= 0
    PROVE  Mirrors(way, side, RemoveAt(ls, n), t)
  <1>1. IsLevels(way, side, ls) /\ p \in Int /\ n \in DOMAIN ls /\ ls[n].price = p
    BY PricesAssumption DEF Mirrors, Holds
  <1>2. PICK m \in Nat : m = Len(ls) /\ DOMAIN ls = 1..m
    BY <1>1, LevelsAre
  <1>3. ls \in Seq(LevelSet)
    BY <1>1, LevelsAre
  <1>s. \A i, j \in 1..m : i < j => Precedes(way, side, ls[i].price, ls[j].price)
    BY <1>1, <1>2, LevelsAre
  <1>4. n \in 1..m
    BY <1>1, <1>2
  <1>5. PICK e : e = RemoveAt(ls, n)
    OBVIOUS
  <1>6. e \in Seq(LevelSet) /\ Len(e) = m - 1 /\ Removed(LevelSet, e, ls, m, n)
    BY <1>2, <1>3, <1>4, <1>5, RemoveIsAt
  <1>7. /\ DOMAIN e = 1..m - 1
        /\ \A j \in 1..m - 1 : e[j] = IF j < n THEN ls[j] ELSE ls[j + 1]
    BY <1>6 DEF Removed
  <1>8. \A j \in 1..m : ls[j].price \in Prices /\ (ls[j].price = p => j = n)
    <2>1. TAKE j \in 1..m
    <2>2. ls[j].price \in Prices
      BY <1>1, <1>2, LevelsAre
    <2> QED
      BY <1>1, <1>2, <2>2, PlaceHolds
  <1>9. \A j \in 1..m - 1 : \E k \in 1..m : k # n /\ e[j] = ls[k]
    <2>1. TAKE j \in 1..m - 1
    <2>2. j < n => j \in 1..m /\ j # n /\ e[j] = ls[j]
      BY <1>4, <1>7
    <2>3. ~ (j < n) => j + 1 \in 1..m /\ j + 1 # n /\ e[j] = ls[j + 1]
      BY <1>4, <1>7
    <2> QED
      BY <2>2, <2>3
  <1>10. \A k \in 1..m : k # n => \E j \in 1..m - 1 : e[j] = ls[k]
    <2>1. TAKE k \in 1..m
    <2>2. k < n => k \in 1..m - 1 /\ e[k] = ls[k]
      BY <1>4, <1>7
    <2>3. n < k => k - 1 \in 1..m - 1 /\ e[k - 1] = ls[k]
      BY <1>4, <1>7
    <2> QED
      BY <1>4, <2>2, <2>3
  <1>11. ASSUME NEW i \in 1..m - 1, NEW j \in 1..m - 1, i < j
         PROVE  Precedes(way, side, e[i].price, e[j].price)
    <2>1. CASE j < n
      <3>1. i \in 1..m /\ j \in 1..m /\ e[i] = ls[i] /\ e[j] = ls[j]
        BY <1>4, <1>7, <1>11, <2>1
      <3> QED
        BY <1>s, <1>11, <3>1
    <2>2. CASE i < n /\ ~ (j < n)
      <3>1. PICK k : k = j + 1
        OBVIOUS
      <3>2. i \in 1..m /\ k \in 1..m /\ e[i] = ls[i] /\ e[j] = ls[k] /\ i < k
        BY <1>4, <1>7, <1>11, <2>2, <3>1
      <3> QED
        BY <1>s, <3>2
    <2>3. CASE ~ (i < n)
      <3>1. PICK h, k : h = i + 1 /\ k = j + 1
        OBVIOUS
      <3>2. h \in 1..m /\ k \in 1..m /\ e[i] = ls[h] /\ e[j] = ls[k] /\ h < k
        BY <1>4, <1>7, <1>11, <2>3, <3>1
      <3> QED
        BY <1>s, <3>2
    <2> QED
      BY <2>1, <2>2, <2>3
  <1>12. IsLevels(way, side, e)
    BY <1>6, <1>7, <1>11 DEF IsLevels
  <1>13. Total(t, side, p) = 0
    <2>1. Total(t, side, p) \in Nat /\ Total(t, side, p) = Total(r, side, p) + d
      BY SharesAreFinite DEF Changes
    <2>2. ls[n].volume = Total(r, side, p)
      BY <1>1 DEF Mirrors
    <2> QED
      BY <2>1, <2>2
  <1>14. \A q \in Prices : q # p => Total(t, side, q) = Total(r, side, q)
    <2>1. TAKE q \in Prices
    <2>2. Total(r, side, q) \in Nat
      BY SharesAreFinite
    <2> QED
      BY <2>2 DEF Changes
  <1>15. ASSUME NEW j \in DOMAIN e
         PROVE  e[j].volume = Total(t, side, e[j].price)
    <2>1. PICK k \in 1..m : k # n /\ e[j] = ls[k]
      BY <1>7, <1>9
    <2> QED
      BY <1>2, <1>8, <1>14, <2>1 DEF Mirrors
  <1>16. ASSUME NEW q \in Prices, Total(t, side, q) > 0
         PROVE  \E j \in DOMAIN e : e[j].price = q
    <2>1. q # p
      BY <1>13, <1>16
    <2>2. PICK k \in 1..m : ls[k].price = q
      BY <1>2, <1>14, <1>16, <2>1 DEF Mirrors
    <2> QED
      BY <1>1, <1>7, <1>10, <2>1, <2>2
  <1> QED
    BY <1>5, <1>12, <1>15, <1>16 DEF Mirrors

\* Side::Add
LEMMA AddMirrors ==
    ASSUME layout \in Layouts, NEW side \in Sides, NEW p \in Prices, NEW v \in Nat \ {0},
           NEW r, IsOrders(r), NEW t, IsOrders(t), Changes(r, t, side, p, v),
           NEW ls, Mirrors(Way, side, ls, r)
    PROVE  Mirrors(Way, side, AddTo(ls, side, p, v), t)
  <1>1. PICK way \in Ways : way = Way
    BY DEF Way, Ways
  <1>2. PICK n : n = Find(ls, side, p)
    OBVIOUS
  <1>3. Mirrors(way, side, ls, r) /\ IsPlace(way, side, ls, p, n)
    BY <1>1, <1>2, PricesAssumption, FindIs DEF Mirrors
  <1>4. CASE ~ Holds(ls, n, p)
    <2>1. AddTo(ls, side, p, v) = InsertAt(ls, n, Level(p, v))
      BY <1>2, <1>4 DEF AddTo
    <2> QED
      BY <1>1, <1>3, <1>4, <2>1, InsertMirrors
  <1>5. CASE Holds(ls, n, p)
    <2>1. PICK w : w = ls[n].volume + v
      OBVIOUS
    <2>2. AddTo(ls, side, p, v) = [ls EXCEPT ![n].volume = w]
      BY <1>2, <1>5, <2>1 DEF AddTo
    <2>3. ls[n].volume \in Nat /\ v \in Nat \ {0} /\ v \in Int
      BY <1>3, <1>5, LevelsAre DEF Mirrors, Holds
    <2>4. w > 0
      BY <2>1, <2>3
    <2>5. Mirrors(way, side, [ls EXCEPT ![n].volume = w], t)
      BY <1>3, <1>5, <2>1, <2>3, <2>4, SetMirrors
    <2> QED
      BY <1>1, <2>2, <2>5
  <1> QED
    BY <1>4, <1>5

\* Find finds the level of a price that has orders.
LEMMA FindHolds ==
    ASSUME layout \in Layouts, NEW side \in Sides, NEW p \in Prices,
           NEW r, IsOrders(r), NEW id, RestsAt(r, id, side, p), NEW ls, Mirrors(Way, side, ls, r)
    PROVE  IsPlace(Way, side, ls, p, Find(ls, side, p)) /\ Holds(ls, Find(ls, side, p), p)
  <1>1. PICK way \in Ways : way = Way
    BY DEF Way, Ways
  <1>2. p \in Int /\ IsLevels(Way, side, ls)
    BY PricesAssumption DEF Mirrors
  <1>3. IsPlace(Way, side, ls, p, Find(ls, side, p))
    BY <1>2, FindIs
  <1>4. Total(r, side, p) > 0
    BY LevelHasOrder
  <1>5. PICK j \in DOMAIN ls : ls[j].price = p
    BY <1>4 DEF Mirrors
  <1> QED
    BY <1>1, <1>2, <1>3, <1>5, PlaceHolds

\* Side::Adjust
LEMMA AdjustMirrors ==
    ASSUME layout \in Layouts, NEW side \in Sides, NEW p \in Prices, NEW d \in Int,
           NEW r, IsOrders(r), NEW t, IsOrders(t), Changes(r, t, side, p, d),
           NEW id, RestsAt(r, id, side, p), NEW ls, Mirrors(Way, side, ls, r)
    PROVE  Mirrors(Way, side, Adjusted(ls, side, p, d), t)
  <1>1. PICK way \in Ways : way = Way
    BY DEF Way, Ways
  <1>2. PICK n : n = Find(ls, side, p)
    OBVIOUS
  <1>3. Mirrors(way, side, ls, r) /\ IsPlace(way, side, ls, p, n) /\ Holds(ls, n, p)
    BY <1>1, <1>2, FindHolds
  <1>4. PICK v : v = ls[n].volume + d
    OBVIOUS
  <1>5. Adjusted(ls, side, p, d) = IF v <= 0 THEN RemoveAt(ls, n) ELSE [ls EXCEPT ![n].volume = v]
    BY <1>2, <1>4 DEF Adjusted
  <1>6. v \in Int
    BY <1>3, <1>4, LevelsAre DEF Mirrors, Holds
  <1>7. CASE v <= 0
    <2>1. Mirrors(way, side, RemoveAt(ls, n), t)
      BY <1>3, <1>4, <1>7, RemoveMirrors
    <2> QED
      BY <1>1, <1>5, <1>7, <2>1
  <1>8. CASE ~ (v <= 0)
    <2>1. v > 0
      BY <1>6, <1>8
    <2>2. Mirrors(way, side, [ls EXCEPT ![n].volume = v], t)
      BY <1>3, <1>4, <2>1, SetMirrors
    <2> QED
      BY <1>1, <1>5, <1>8, <2>2
  <1> QED
    BY <1>7, <1>8

-----------------------------------------------------------------------------
(* The updates of the orders.                                              *)
OrderSet == [side : Sides, price : Prices, volume : 1..MaxVolume]

Order(side, p, v) == [side |-> side, price |-> p, volume |-> v]

\* orders_ of the vector book.
IsTable(r) == r \in [DOMAIN r -> OrderSet] /\ DOMAIN r \subseteq Ids

\* r becomes t by an update of order id, which rests at p of this side
\* before or after it, and the volume of that level changes by d.
Updates(r, t, id, side, p, d) ==
    IsTable(t) /\ IsOrders(r) /\ IsOrders(t) /\ SameButFor(r, t, id) /\ Changes(r, t, side, p, d)

WithVolume(r, id, v) == [r EXCEPT ![id].volume = v]

LEMMA TableIsOrders ==
    ASSUME NEW r, IsTable(r)
    PROVE  /\ IsOrders(r)
           /\ \A id \in DOMAIN r : /\ r[id] \in OrderSet
                                  /\ r[id] = Order(r[id].side, r[id].price, r[id].volume)
                                  /\ r[id].volume \in Nat \ {0}
  <1>1. \A id \in DOMAIN r : r[id] \in OrderSet
    BY DEF IsTable
  <1>2. \A o \in OrderSet : /\ o.side \in Sides /\ o.price \in Prices /\ o.volume \in 1..MaxVolume
                            /\ o = Order(o.side, o.price, o.volume)
    BY DEF OrderSet, Order
  <1>3. \A v \in 1..MaxVolume : v \in Nat \ {0}
    BY VolumeAssumption
  <1>4. IsOrders(r)
    BY <1>1, <1>2 DEF IsOrders, IsTable
  <1> QED
    BY <1>1, <1>2, <1>3, <1>4

LEMMA OrderAdded ==
    ASSUME NEW r, IsTable(r), NEW id \in Ids, id \notin DOMAIN r,
           NEW side \in Sides, NEW p \in Prices, NEW v \in 1..MaxVolume,
           NEW t, t = [k \in DOMAIN r \cup {id} |->
                         IF k = id THEN Order(side, p, v) ELSE r[k]]
    PROVE  Updates(r, t, id, side, p, v) /\ RestsAt(t, id, side, p) /\ t[id] = Order(side, p, v)
  <1>1. DOMAIN t = DOMAIN r \cup {id} /\ t[id] = Order(side, p, v)
    OBVIOUS
  <1>2. \A k \in DOMAIN r : k # id /\ t[k] = r[k]
    OBVIOUS
  <1>3. Order(side, p, v) \in OrderSet /\ Order(side, p, v).side = side /\ Order(side, p, v).price = p
        /\ Order(side, p, v).volume = v
    BY DEF Order, OrderSet
  <1>4. IsTable(t)
    <2>1. \A k \in DOMAIN t : t[k] \in OrderSet
      BY <1>1, <1>2, <1>3, TableIsOrders
    <2>2. t = [k \in DOMAIN t |-> t[k]]
      OBVIOUS
    <2>3. t \in [DOMAIN t -> OrderSet]
      BY <2>1, <2>2
    <2> QED
      BY <1>1, <2>3 DEF IsTable
  <1>5. IsOrders(r) /\ IsOrders(t)
    BY <1>4, TableIsOrders
  <1>6. SameButFor(r, t, id)
    BY <1>1, <1>2 DEF SameButFor
  <1>7. RestsAt(t, id, side, p)
    BY <1>1, <1>3 DEF RestsAt
  <1>8. Changes(r, t, side, p, v - 0)
    <2>1. v \in Int /\ 0 \in Int
      OBVIOUS
    <2>2. IF id \in DOMAIN r THEN RestsAt(r, id, side, p) /\ 0 = r[id].volume ELSE 0 = 0
      OBVIOUS
    <2>3. IF id \in DOMAIN t THEN RestsAt(t, id, side, p) /\ v = t[id].volume ELSE v = 0
      BY <1>1, <1>3, <1>7
    <2> QED
      BY <1>5, <1>6, <2>1, <2>2, <2>3, UpdateChanges
  <1>9. v - 0 = v
    OBVIOUS
  <1>10. Changes(r, t, side, p, v)
    BY <1>8, <1>9
  <1> QED
    BY <1>1, <1>4, <1>5, <1>6, <1>7, <1>10 DEF Updates

LEMMA OrderDropped ==
    ASSUME NEW r, IsTable(r), NEW id \in DOMAIN r,
           NEW t, t = [k \in DOMAIN r \ {id} |-> r[k]]
    PROVE  Updates(r, t, id, r[id].side, r[id].price, - r[id].volume)
  <1>1. DOMAIN t = DOMAIN r \ {id} /\ \A k \in DOMAIN t : t[k] = r[k]
    OBVIOUS
  <1>2. IsTable(t)
    <2>1. \A k \in DOMAIN t : t[k] \in OrderSet
      BY <1>1, TableIsOrders
    <2>2. t = [k \in DOMAIN t |-> t[k]]
      OBVIOUS
    <2>3. t \in [DOMAIN t -> OrderSet]
      BY <2>1, <2>2
    <2> QED
      BY <1>1, <2>3 DEF IsTable
  <1>3. IsOrders(r) /\ IsOrders(t)
    BY <1>2, TableIsOrders
  <1>4. SameButFor(r, t, id)
    BY <1>1 DEF SameButFor
  <1>5. PICK v \in Nat : v = r[id].volume
    BY TableIsOrders
  <1>6. Changes(r, t, r[id].side, r[id].price, 0 - v)
    <2>1. v \in Int /\ 0 \in Int
      OBVIOUS
    <2>2. IF id \in DOMAIN r THEN RestsAt(r, id, r[id].side, r[id].price) /\ v = r[id].volume ELSE v = 0
      BY <1>5 DEF RestsAt
    <2>3. IF id \in DOMAIN t THEN RestsAt(t, id, r[id].side, r[id].price) /\ 0 = t[id].volume ELSE 0 = 0
      BY <1>1
    <2> QED
      BY <1>3, <1>4, <2>1, <2>2, <2>3, UpdateChanges
  <1>7. 0 - v = - r[id].volume
    BY <1>5
  <1>8. Changes(r, t, r[id].side, r[id].price, - r[id].volume)
    BY <1>6, <1>7
  <1> QED
    BY <1>2, <1>3, <1>4, <1>8 DEF Updates

LEMMA OrderSetTo ==
    ASSUME NEW r, IsTable(r), NEW id \in DOMAIN r, NEW v \in 1..MaxVolume,
           NEW t, t = WithVolume(r, id, v)
    PROVE  /\ Updates(r, t, id, r[id].side, r[id].price, v - r[id].volume)
           /\ DOMAIN t = DOMAIN r /\ t[id] = Order(r[id].side, r[id].price, v)
  <1>1. DOMAIN t = DOMAIN r /\ \A k \in DOMAIN r : k # id => t[k] = r[k]
    BY DEF WithVolume
  <1>2. t[id] = Order(r[id].side, r[id].price, v)
    <2>1. PICK s, q, w : s = r[id].side /\ q = r[id].price /\ r[id] = [side |-> s, price |-> q, volume |-> w]
      BY TableIsOrders DEF Order
    <2>2. t[id] = [r[id] EXCEPT !.volume = v]
      BY DEF WithVolume
    <2>3. t[id] = [side |-> s, price |-> q, volume |-> v]
      BY <2>1, <2>2
    <2> QED
      BY <2>1, <2>3 DEF Order
  <1>3. r[id].side \in Sides /\ r[id].price \in Prices
    BY TableIsOrders DEF OrderSet
  <1>4. t[id] \in OrderSet /\ t[id].side = r[id].side /\ t[id].price = r[id].price /\ t[id].volume = v
    BY <1>2, <1>3 DEF Order, OrderSet
  <1>5. IsTable(t)
    <2>1. \A k \in DOMAIN t : t[k] \in OrderSet
      BY <1>1, <1>4, TableIsOrders
    <2>2. t = [k \in DOMAIN t |-> t[k]]
      BY <1>1 DEF WithVolume
    <2>3. t \in [DOMAIN t -> OrderSet]
      BY <2>1, <2>2
    <2> QED
      BY <1>1, <2>3 DEF IsTable
  <1>6. IsOrders(r) /\ IsOrders(t)
    BY <1>5, TableIsOrders
  <1>7. SameButFor(r, t, id)
    BY <1>1 DEF SameButFor
  <1>8. PICK w \in Nat : w = r[id].volume
    BY TableIsOrders
  <1>9. Changes(r, t, r[id].side, r[id].price, v - w)
    <2>1. w \in Int /\ v \in Int
      OBVIOUS
    <2>2. IF id \in DOMAIN r THEN RestsAt(r, id, r[id].side, r[id].price) /\ w = r[id].volume ELSE w = 0
      BY <1>8 DEF RestsAt
    <2>3. IF id \in DOMAIN t THEN RestsAt(t, id, r[id].side, r[id].price) /\ v = t[id].volume ELSE v = 0
      BY <1>1, <1>4 DEF RestsAt
    <2> QED
      BY <1>6, <1>7, <2>1, <2>2, <2>3, UpdateChanges
  <1> QED
    BY <1>1, <1>2, <1>5, <1>6, <1>7, <1>8, <1>9 DEF Updates

-----------------------------------------------------------------------------
(* The vector book.                                                        *)
BookInv(r, ls) ==
    /\ IsTable(r)
    /\ ls = [side \in Sides |-> ls[side]]
    /\ \A side \in Sides : Mirrors(Way, side, ls[side], r)

LEMMA SidesMirror ==
    ASSUME NEW r, NEW ls, BookInv(r, ls), NEW t, NEW id, NEW side \in Sides, NEW p, NEW d,
           Updates(r, t, id, side, p, d), NEW l, Mirrors(Way, side, l, t)
    PROVE  BookInv(t, [ls EXCEPT ![side] = l])
  <1>1. PICK way \in Ways : way = Way
    BY DEF Way, Ways
  <1>2. PICK e : e = [ls EXCEPT ![side] = l]
    OBVIOUS
  <1>3. e = [s \in Sides |-> e[s]] /\ \A s \in Sides : e[s] = IF s = side THEN l ELSE ls[s]
    BY <1>2 DEF BookInv
  <1>4. ASSUME NEW s \in Sides
        PROVE  Mirrors(way, s, e[s], t)
    <2>1. CASE s = side
      BY <1>1, <1>3, <2>1
    <2>2. CASE s # side
      <3>1. Mirrors(way, s, ls[s], r)
        BY <1>1 DEF BookInv
      <3>2. IsOrders(r) /\ IsOrders(t) /\ Changes(r, t, side, p, d)
        BY DEF Updates
      <3>3. Mirrors(way, s, ls[s], t)
        BY <2>2, <3>1, <3>2, OtherSideMirrors
      <3> QED
        BY <1>3, <2>2, <3>3
    <2> QED
      BY <2>1, <2>2
  <1> QED
    BY <1>1, <1>2, <1>3, <1>4 DEF BookInv, Updates

LEMMA BookInit == Init => BookInv(recs, levels)
  <1> SUFFICES ASSUME Init
               PROVE  BookInv(recs, levels)
    OBVIOUS
  <1>1. DOMAIN recs = {} /\ levels = [side \in Sides |-> <<>>]
    BY DEF Init
  <1>2. IsTable(recs)
    BY <1>1 DEF Init, IsTable
  <1>3. ASSUME NEW side \in Sides, NEW p
        PROVE  Total(recs, side, p) = 0
    <2>1. Shares(recs, side, p) = {}
      BY <1>1, SharesArePairs DEF RestsAt
    <2> QED
      BY <2>1, FS_EmptySet DEF Total
  <1>4. ASSUME NEW side \in Sides
        PROVE  Mirrors(Way, side, <<>>, recs)
    BY <1>3 DEF Mirrors, IsLevels
  <1> QED
    BY <1>1, <1>2, <1>4 DEF BookInv

LEMMA AddKeepsBook ==
    ASSUME layout \in Layouts, BookInv(recs, levels), NEW id \in Ids, NEW side \in Sides,
           NEW p \in Prices, NEW v \in 1..MaxVolume, OnAdd(id, side, p, v)
    PROVE  /\ BookInv(recs', levels') /\ Updates(recs, recs', id, side, p, v)
           /\ RestsAt(recs', id, side, p) /\ recs'[id] = Order(side, p, v)
           /\ DOMAIN recs' = DOMAIN recs \cup {id} /\ id \notin DOMAIN recs
  <1>1. PICK t : t = recs'
    OBVIOUS
  <1>2. /\ id \notin DOMAIN recs
        /\ t = [k \in DOMAIN recs \cup {id} |-> IF k = id THEN Order(side, p, v) ELSE recs[k]]
    BY <1>1 DEF OnAdd, Live, Order
  <1>3. IsTable(recs) /\ Mirrors(Way, side, levels[side], recs)
    BY DEF BookInv
  <1>4. Updates(recs, t, id, side, p, v) /\ RestsAt(t, id, side, p) /\ t[id] = Order(side, p, v)
    BY <1>2, <1>3, OrderAdded
  <1>5. PICK l : l = AddTo(levels[side], side, p, v)
    OBVIOUS
  <1>6. Mirrors(Way, side, l, t)
    <2>1. v \in Nat \ {0}
      BY VolumeAssumption
    <2>2. IsOrders(recs) /\ IsOrders(t) /\ Changes(recs, t, side, p, v)
      BY <1>4 DEF Updates
    <2> QED
      BY <1>3, <1>5, <2>1, <2>2, AddMirrors
  <1>7. levels' = [levels EXCEPT ![side] = l]
    <2>1. side \in DOMAIN levels
      BY DEF BookInv
    <2> QED
      BY <1>5, <2>1 DEF OnAdd
  <1>8. BookInv(t, [levels EXCEPT ![side] = l])
    BY <1>4, <1>6, SidesMirror
  <1> QED
    BY <1>1, <1>2, <1>4, <1>7, <1>8

LEMMA DeleteKeepsBook ==
    ASSUME layout \in Layouts, BookInv(recs, levels), NEW id, OnDelete(id)
    PROVE  /\ BookInv(recs', levels')
           /\ Updates(recs, recs', id, recs[id].side, recs[id].price, - recs[id].volume)
           /\ DOMAIN recs' = DOMAIN recs \ {id} /\ id \in DOMAIN recs
  <1>1. PICK t : t = recs'
    OBVIOUS
  <1>2. id \in DOMAIN recs /\ t = [k \in DOMAIN recs \ {id} |-> recs[k]]
    BY <1>1 DEF OnDelete, Live
  <1>3. PICK side, p, d : side = recs[id].side /\ p = recs[id].price /\ d = - recs[id].volume
    OBVIOUS
  <1>4. IsTable(recs)
    BY DEF BookInv
  <1>5. side \in Sides /\ p \in Prices /\ d \in Int /\ RestsAt(recs, id, side, p)
    <2>1. recs[id] \in OrderSet /\ recs[id].volume \in Nat
      BY <1>2, <1>4, TableIsOrders
    <2> QED
      BY <1>2, <1>3, <2>1 DEF OrderSet, RestsAt
  <1>6. Updates(recs, t, id, side, p, d)
    BY <1>2, <1>3, <1>4, OrderDropped
  <1>7. PICK l : l = Adjusted(levels[side], side, p, d)
    OBVIOUS
  <1>8. Mirrors(Way, side, l, t)
    <2>1. IsOrders(recs) /\ IsOrders(t) /\ Changes(recs, t, side, p, d)
      BY <1>6 DEF Updates
    <2>2. Mirrors(Way, side, levels[side], recs)
      BY <1>5 DEF BookInv
    <2> QED
      BY <1>5, <1>7, <2>1, <2>2, AdjustMirrors
  <1>9. levels' = [levels EXCEPT ![side] = l]
    <2>1. side \in DOMAIN levels
      BY <1>5 DEF BookInv
    <2> QED
      BY <1>3, <1>7, <2>1 DEF OnDelete
  <1>10. BookInv(t, [levels EXCEPT ![side] = l])
    BY <1>5, <1>6, <1>8, SidesMirror
  <1> QED
    BY <1>1, <1>2, <1>3, <1>6, <1>9, <1>10

LEMMA SetKeepsBook ==
    ASSUME layout \in Layouts, BookInv(recs, levels), NEW id \in DOMAIN recs, NEW v \in 1..MaxVolume,
           NEW l, l = Adjusted(levels[recs[id].side], recs[id].side, recs[id].price, v - recs[id].volume),
           levels' = [levels EXCEPT ![recs[id].side] = l],
           recs' = [recs EXCEPT ![id].volume = v]
    PROVE  /\ BookInv(recs', levels')
           /\ Updates(recs, recs', id, recs[id].side, recs[id].price, v - recs[id].volume)
           /\ DOMAIN recs' = DOMAIN recs /\ recs'[id] = Order(recs[id].side, recs[id].price, v)
  <1>1. PICK t : t = recs'
    OBVIOUS
  <1>2. t = [recs EXCEPT ![id].volume = v]
    BY <1>1
  <1>3. PICK side, p, d : side = recs[id].side /\ p = recs[id].price /\ d = v - recs[id].volume
    OBVIOUS
  <1>4. IsTable(recs)
    BY DEF BookInv
  <1>5. side \in Sides /\ p \in Prices /\ d \in Int /\ RestsAt(recs, id, side, p)
    <2>1. recs[id] \in OrderSet /\ recs[id].volume \in Nat
      BY <1>4, TableIsOrders
    <2> QED
      BY <1>3, <2>1 DEF OrderSet, RestsAt
  <1>6. Updates(recs, t, id, side, p, d) /\ DOMAIN t = DOMAIN recs /\ t[id] = Order(side, p, v)
    <2>1. PICK r : r = recs
      OBVIOUS
    <2>2. IsTable(r) /\ id \in DOMAIN r /\ t = WithVolume(r, id, v)
      BY <1>2, <1>4, <2>1, Zenon DEF WithVolume
    <2>3. /\ Updates(r, t, id, r[id].side, r[id].price, v - r[id].volume)
          /\ DOMAIN t = DOMAIN r /\ t[id] = Order(r[id].side, r[id].price, v)
      BY <2>2, OrderSetTo
    <2> QED
      BY <1>3, <2>1, <2>3, Zenon
  <1>7. l = Adjusted(levels[side], side, p, d)
    BY <1>3
  <1>8. Mirrors(Way, side, l, t)
    <2>1. IsOrders(recs) /\ IsOrders(t) /\ Changes(recs, t, side, p, d)
      BY <1>6 DEF Updates
    <2>2. Mirrors(Way, side, levels[side], recs)
      BY <1>5 DEF BookInv
    <2> QED
      BY <1>5, <1>7, <2>1, <2>2, AdjustMirrors
  <1>9. levels' = [levels EXCEPT ![side] = l]
    BY <1>3
  <1>10. BookInv(t, [levels EXCEPT ![side] = l])
    BY <1>5, <1>6, <1>8, SidesMirror
  <1> QED
    BY <1>1, <1>3, <1>6, <1>9, <1>10

-----------------------------------------------------------------------------
(* The map book.                                                           *)
NodeSet == [side : Sides, price : Prices, volume : Nat]

\* Node n is the level of price p.
IsNode(h, n, side, p) == n \in DOMAIN h /\ h[n].side = side /\ h[n].price = p

\* bids_ and asks_: one node for every price that has orders.
IsHeap(h, r) ==
    /\ h \in [DOMAIN h -> NodeSet] /\ DOMAIN h \subseteq Nodes
    /\ \A n \in DOMAIN h : h[n].volume > 0 /\ h[n].volume = Total(r, h[n].side, h[n].price)
    /\ \A side, p, m, n : IsNode(h, m, side, p) /\ IsNode(h, n, side, p) => m = n
    /\ \A side \in Sides, p \in Prices : Total(r, side, p) > 0 => \E n : IsNode(h, n, side, p)

Kept(side, p, v, it) == [side |-> side, price |-> p, volume |-> v, it |-> it]

\* orders_ of the map book: the orders r with the nodes of their levels.
IsKept(k, r, h) ==
    /\ k = [id \in DOMAIN r |-> Kept(r[id].side, r[id].price, r[id].volume, k[id].it)]
    /\ \A id \in DOMAIN r : IsNode(h, k[id].it, r[id].side, r[id].price)

\* h becomes g: it is the only node that price p had, or is to have.
Replaces(h, g, t, it, side, p) ==
    /\ g = [n \in DOMAIN g |-> g[n]] /\ DOMAIN g \subseteq Nodes
    /\ it \in DOMAIN h => IsNode(h, it, side, p)
    /\ \A n : n # it => /\ n \in DOMAIN g <=> n \in DOMAIN h
                        /\ n \in DOMAIN h => g[n] = h[n] /\ ~ IsNode(h, n, side, p)
    /\ it \in DOMAIN g => g[it] = Map!Node(side, p, Total(t, side, p)) /\ Total(t, side, p) > 0
    /\ it \notin DOMAIN g => ~ (Total(t, side, p) > 0)

LEMMA NodeIs ==
    ASSUME NEW side \in Sides, NEW p \in Prices, NEW v \in Nat
    PROVE  /\ Map!Node(side, p, v) \in NodeSet
           /\ Map!Node(side, p, v).side = side /\ Map!Node(side, p, v).price = p
           /\ Map!Node(side, p, v).volume = v
  BY DEF Map!Node, NodeSet

LEMMA NodesAre ==
    ASSUME NEW h, NEW r, IsHeap(h, r), NEW n \in DOMAIN h
    PROVE  /\ h[n] \in NodeSet /\ h[n] = Map!Node(h[n].side, h[n].price, h[n].volume)
           /\ h[n].side \in Sides /\ h[n].price \in Prices /\ h[n].volume \in Nat
           /\ IsNode(h, n, h[n].side, h[n].price)
  <1>1. h[n] \in NodeSet
    BY DEF IsHeap
  <1>2. \A o \in NodeSet : /\ o.side \in Sides /\ o.price \in Prices /\ o.volume \in Nat
                           /\ o = Map!Node(o.side, o.price, o.volume)
    BY DEF NodeSet, Map!Node
  <1> QED
    BY <1>1, <1>2 DEF IsNode

\* A record keeps its order and its iterator.
LEMMA KeptIs ==
    ASSUME NEW k, NEW r, NEW h, IsKept(k, r, h), NEW id \in DOMAIN r
    PROVE  /\ DOMAIN k = DOMAIN r
           /\ k[id] = Kept(r[id].side, r[id].price, r[id].volume, k[id].it)
           /\ k[id].side = r[id].side /\ k[id].price = r[id].price /\ k[id].volume = r[id].volume
           /\ IsNode(h, k[id].it, r[id].side, r[id].price)
  <1>1. DOMAIN k = DOMAIN r
    BY DEF IsKept
  <1>2. k[id] = Kept(r[id].side, r[id].price, r[id].volume, k[id].it)
    BY Zenon DEF IsKept
  <1>3. \A s, p, v, it : Kept(s, p, v, it).side = s /\ Kept(s, p, v, it).price = p /\ Kept(s, p, v, it).volume = v
    BY DEF Kept
  <1>4. k[id].side = r[id].side /\ k[id].price = r[id].price /\ k[id].volume = r[id].volume
    <2>1. PICK s, q, w, n : s = r[id].side /\ q = r[id].price /\ w = r[id].volume /\ n = k[id].it
      OBVIOUS
    <2>2. k[id] = Kept(s, q, w, n)
      BY <1>2, <2>1
    <2>3. k[id].side = s /\ k[id].price = q /\ k[id].volume = w
      BY <1>3, <2>2
    <2> QED
      BY <2>1, <2>3
  <1>5. IsNode(h, k[id].it, r[id].side, r[id].price)
    BY DEF IsKept
  <1> QED
    BY <1>1, <1>2, <1>4, <1>5

LEMMA HeapReplaced ==
    ASSUME NEW r, NEW t, NEW id, NEW side \in Sides, NEW p \in Prices, NEW d,
           Updates(r, t, id, side, p, d),
           NEW h, IsHeap(h, r), NEW g, NEW it, Replaces(h, g, t, it, side, p)
    PROVE  IsHeap(g, t)
  <1>1. Total(t, side, p) \in Nat
    BY SharesAreFinite DEF Updates
  <1>2. \A s \in Sides, q \in Prices : ~ (s = side /\ q = p) => Total(t, s, q) = Total(r, s, q)
    <2>1. TAKE s \in Sides, q \in Prices
    <2>2. Total(r, s, q) \in Nat
      BY SharesAreFinite DEF Updates
    <2>3. Total(t, s, q) = Total(r, s, q) + IF s = side /\ q = p THEN d ELSE 0
      BY DEF Updates, Changes
    <2> QED
      BY <2>2, <2>3
  <1>3. /\ g = [n \in DOMAIN g |-> g[n]] /\ DOMAIN g \subseteq Nodes
        /\ it \in DOMAIN h => IsNode(h, it, side, p)
        /\ \A n : n # it => /\ n \in DOMAIN g <=> n \in DOMAIN h
                            /\ n \in DOMAIN h => g[n] = h[n] /\ ~ IsNode(h, n, side, p)
        /\ it \in DOMAIN g => g[it] = Map!Node(side, p, Total(t, side, p)) /\ Total(t, side, p) > 0
        /\ it \notin DOMAIN g => ~ (Total(t, side, p) > 0)
    BY Zenon DEF Replaces
  <1>4. ASSUME NEW n \in DOMAIN g
        PROVE  /\ g[n] \in NodeSet /\ g[n].volume > 0
               /\ g[n].volume = Total(t, g[n].side, g[n].price)
               /\ g[n].side = side /\ g[n].price = p <=> n = it
    <2>1. CASE n = it
      <3>1. /\ g[n] = Map!Node(side, p, Total(t, side, p)) /\ Total(t, side, p) > 0
        BY <1>3, <2>1
      <3> QED
        BY <1>1, <2>1, <3>1, NodeIs
    <2>2. CASE n # it
      <3>1. n \in DOMAIN h /\ g[n] = h[n] /\ ~ IsNode(h, n, side, p)
        BY <1>3, <2>2
      <3>2. ~ (h[n].side = side /\ h[n].price = p)
        BY <3>1 DEF IsNode
      <3>3. h[n] \in NodeSet /\ h[n].side \in Sides /\ h[n].price \in Prices
        BY <3>1, NodesAre
      <3>4. h[n].volume > 0 /\ h[n].volume = Total(r, h[n].side, h[n].price)
        BY <3>1 DEF IsHeap
      <3> QED
        BY <1>2, <2>2, <3>1, <3>2, <3>3, <3>4
    <2> QED
      BY <2>1, <2>2
  <1>5. g \in [DOMAIN g -> NodeSet]
    BY <1>3, <1>4
  <1>6. ASSUME NEW s, NEW q, NEW m, NEW n, IsNode(g, m, s, q), IsNode(g, n, s, q)
        PROVE  m = n
    <2>1. CASE s = side /\ q = p
      BY <1>4, <1>6, <2>1 DEF IsNode
    <2>2. CASE ~ (s = side /\ q = p)
      <3>1. m # it /\ n # it
        BY <1>4, <1>6, <2>2 DEF IsNode
      <3>2. IsNode(h, m, s, q) /\ IsNode(h, n, s, q)
        BY <1>3, <1>6, <3>1 DEF IsNode
      <3> QED
        BY <3>2, Zenon DEF IsHeap
    <2> QED
      BY <2>1, <2>2
  <1>7. ASSUME NEW s \in Sides, NEW q \in Prices, Total(t, s, q) > 0
        PROVE  \E n : IsNode(g, n, s, q)
    <2>1. CASE s = side /\ q = p
      <3>1. it \in DOMAIN g
        BY <1>3, <1>7, <2>1
      <3> QED
        BY <1>4, <2>1, <3>1 DEF IsNode
    <2>2. CASE ~ (s = side /\ q = p)
      <3>1. PICK n : IsNode(h, n, s, q)
        BY <1>2, <1>7, <2>2 DEF IsHeap
      <3>2. n # it
        BY <1>3, <2>2, <3>1 DEF IsNode
      <3>3. IsNode(g, n, s, q)
        BY <1>3, <3>1, <3>2 DEF IsNode
      <3> QED
        BY <3>3
    <2> QED
      BY <2>1, <2>2
  <1>8. \A n \in DOMAIN g : g[n].volume > 0 /\ g[n].volume = Total(t, g[n].side, g[n].price)
    BY <1>4
  <1>9. DOMAIN g \subseteq Nodes
    BY <1>3
  <1> QED
    BY <1>5, <1>6, <1>7, <1>8, <1>9 DEF IsHeap

\* The records of the other orders still point at their levels.
LEMMA OthersPoint ==
    ASSUME NEW r, NEW t, NEW id, NEW side \in Sides, NEW p \in Prices, NEW d,
           Updates(r, t, id, side, p, d),
           NEW h, NEW g, NEW it, Replaces(h, g, t, it, side, p),
           NEW k, IsKept(k, r, h)
    PROVE  \A o \in DOMAIN t : o # id =>
             /\ k[o] = Kept(t[o].side, t[o].price, t[o].volume, k[o].it)
             /\ IsNode(g, k[o].it, t[o].side, t[o].price)
  <1> SUFFICES ASSUME NEW o \in DOMAIN t, o # id
               PROVE  /\ k[o] = Kept(t[o].side, t[o].price, t[o].volume, k[o].it)
                      /\ IsNode(g, k[o].it, t[o].side, t[o].price)
    OBVIOUS
  <1>1. o \in DOMAIN r /\ t[o] = r[o]
    BY DEF Updates, SameButFor
  <1>2. /\ k[o] = Kept(t[o].side, t[o].price, t[o].volume, k[o].it)
        /\ IsNode(h, k[o].it, t[o].side, t[o].price)
    <2>1. /\ k[o] = Kept(r[o].side, r[o].price, r[o].volume, k[o].it)
          /\ IsNode(h, k[o].it, r[o].side, r[o].price)
      BY <1>1, KeptIs
    <2> QED
      BY <1>1, <2>1
  <1>3. PICK n, s, q : n = k[o].it /\ s = t[o].side /\ q = t[o].price
    OBVIOUS
  <1>4. IsNode(h, n, s, q)
    BY <1>2, <1>3
  <1>5. CASE n # it
    BY <1>1, <1>2, <1>3, <1>4, <1>5 DEF Replaces, IsNode
  <1>6. CASE n = it
    <2>1. s = side /\ q = p
      BY <1>4, <1>6 DEF Replaces, IsNode
    <2>2. RestsAt(t, o, side, p)
      BY <1>3, <2>1 DEF RestsAt
    <2>3. Total(t, side, p) > 0 /\ Total(t, side, p) \in Nat
      BY <2>2, LevelHasOrder, SharesAreFinite DEF Updates
    <2>4. it \in DOMAIN g /\ g[it] = Map!Node(side, p, Total(t, side, p))
      BY <2>3 DEF Replaces
    <2>5. IsNode(g, n, s, q)
      BY <1>6, <2>1, <2>3, <2>4, NodeIs DEF IsNode
    <2> QED
      BY <1>1, <1>2, <1>3, <2>5
  <1> QED
    BY <1>5, <1>6

\* A node that no level and no record uses is left.
LEMMA NodeIsFree ==
    ASSUME NEW r, IsOrders(r), NEW h, IsHeap(h, r), NEW k, IsKept(k, r, h)
    PROVE  \E n \in Nodes : n \notin DOMAIN h \cup {k[id].it : id \in DOMAIN k}
  <1>1. PICK f : f = [id \in DOMAIN k |-> k[id].it]
    OBVIOUS
  <1>2. PICK T : T = {k[id].it : id \in DOMAIN k}
    OBVIOUS
  <1>3. DOMAIN k = DOMAIN r
    BY DEF IsKept
  <1>4. f \in Surjection(DOMAIN k, T)
    <2>1. f \in [DOMAIN k -> T]
      BY <1>1, <1>2
    <2>2. \A n \in T : \E id \in DOMAIN k : f[id] = n
      BY <1>1, <1>2
    <2> QED
      BY <2>1, <2>2 DEF Surjection
  <1>5. /\ IsFiniteSet(DOMAIN k) /\ Cardinality(DOMAIN k) <= Cardinality(Ids)
        /\ Cardinality(DOMAIN k) \in Nat /\ Cardinality(Ids) \in Nat
    BY <1>3, NodesAssumption, FS_Subset, FS_CardinalityType DEF IsOrders
  <1>6. IsFiniteSet(T) /\ Cardinality(T) <= Cardinality(DOMAIN k) /\ Cardinality(T) \in Nat
    BY <1>4, <1>5, FS_Surjection, FS_CardinalityType
  <1>7. DOMAIN h \subseteq T
    <2> SUFFICES ASSUME NEW n \in DOMAIN h
                 PROVE  n \in T
      OBVIOUS
    <2>1. PICK side \in Sides, p \in Prices : side = h[n].side /\ p = h[n].price /\ IsNode(h, n, side, p)
      BY NodesAre
    <2>2. Total(r, side, p) > 0
      BY <2>1 DEF IsHeap
    <2>3. PICK id : RestsAt(r, id, side, p)
      BY <2>2, LevelHasOrder
    <2>4. id \in DOMAIN r /\ IsNode(h, k[id].it, side, p)
      BY <2>3 DEF RestsAt, IsKept
    <2>5. k[id].it = n
      BY <2>1, <2>4, Zenon DEF IsHeap
    <2> QED
      BY <1>2, <1>3, <2>4, <2>5
  <1>8. ASSUME Nodes \subseteq T
        PROVE  FALSE
    <2>1. Cardinality(Nodes) <= Cardinality(T) /\ Cardinality(Nodes) \in Nat
      BY <1>6, <1>8, FS_Subset, FS_CardinalityType
    <2> QED
      BY <1>5, <1>6, <2>1, NodesAssumption
  <1> QED
    BY <1>2, <1>7, <1>8

LEMMA EmplacedIs ==
    ASSUME NEW r, IsOrders(r), IsHeap(heap, r), IsKept(kept, r, heap),
           NEW side \in Sides, NEW p \in Prices
    PROVE  \E it \in Nodes :
             /\ it = Map!Emplaced(side, p)
             /\ it \in DOMAIN heap => IsNode(heap, it, side, p)
             /\ \A n : n # it => ~ IsNode(heap, n, side, p)
  <1>1. \A n : n \in Map!NodesOf(side, p) <=> IsNode(heap, n, side, p)
    BY DEF Map!NodesOf, IsNode
  <1>2. PICK it : it = Map!Emplaced(side, p)
    OBVIOUS
  <1>3. CASE Map!NodesOf(side, p) # {}
    <2>1. it \in Map!NodesOf(side, p)
      BY <1>2, <1>3 DEF Map!Emplaced
    <2>2. IsNode(heap, it, side, p)
      BY <1>1, <2>1
    <2>3. it \in Nodes
      BY <2>2 DEF IsNode, IsHeap
    <2>4. \A n : n # it => ~ IsNode(heap, n, side, p)
      BY <2>2, Zenon DEF IsHeap
    <2> QED
      BY <1>2, <2>2, <2>3, <2>4
  <1>4. CASE ~ (Map!NodesOf(side, p) # {})
    <2>1. it = Map!FreshNode
      BY <1>2, <1>4 DEF Map!Emplaced
    <2>2. \E n \in Nodes : n \notin DOMAIN heap \cup {kept[id].it : id \in DOMAIN kept}
      BY NodeIsFree
    <2>3. it \in Nodes /\ it \notin DOMAIN heap
      BY <2>1, <2>2, Zenon DEF Map!FreshNode, Map!Live
    <2>4. \A n : ~ IsNode(heap, n, side, p)
      BY <1>1, <1>4
    <2> QED
      BY <1>2, <2>3, <2>4
  <1> QED
    BY <1>3, <1>4

LEMMA MapAddKeeps ==
    ASSUME NEW r, IsOrders(r), IsHeap(heap, r), IsKept(kept, r, heap),
           NEW id, NEW side \in Sides, NEW p \in Prices, NEW v \in 1..MaxVolume, NEW t,
           Updates(r, t, id, side, p, v), t[id] = Order(side, p, v),
           DOMAIN t = DOMAIN r \cup {id}, id \notin DOMAIN r, Map!OnAdd(id, side, p, v)
    PROVE  IsHeap(heap', t) /\ IsKept(kept', t, heap')
  <1>1. PICK it \in Nodes :
             /\ it = Map!Emplaced(side, p)
             /\ it \in DOMAIN heap => IsNode(heap, it, side, p)
             /\ \A n : n # it => ~ IsNode(heap, n, side, p)
    BY EmplacedIs
  <1>2. PICK g, k : g = heap' /\ k = kept'
    OBVIOUS
  <1>3. PICK before : before = IF it \in DOMAIN heap THEN heap[it].volume ELSE 0
    OBVIOUS
  <1>4. /\ g = [n \in DOMAIN heap \cup {it} |->
                  IF n = it THEN Map!Node(side, p, before + v) ELSE heap[n]]
        /\ k = [o \in DOMAIN kept \cup {id} |->
                  IF o = id THEN Kept(side, p, v, it) ELSE kept[o]]
    BY <1>1, <1>2, <1>3 DEF Map!OnAdd, Map!Live, Kept
  <1>5. Total(r, side, p) = before
    <2>1. CASE it \in DOMAIN heap
      <3>1. heap[it].side = side /\ heap[it].price = p
        BY <1>1, <2>1 DEF IsNode
      <3> QED
        BY <1>3, <2>1, <3>1 DEF IsHeap
    <2>2. CASE it \notin DOMAIN heap
      <3>1. \A n : ~ IsNode(heap, n, side, p)
        BY <1>1, <2>2 DEF IsNode
      <3>2. ~ (Total(r, side, p) > 0)
        BY <3>1 DEF IsHeap
      <3>3. Total(r, side, p) \in Nat
        BY SharesAreFinite
      <3> QED
        BY <1>3, <2>2, <3>2, <3>3
    <2> QED
      BY <2>1, <2>2
  <1>6. Total(t, side, p) = before + v /\ Total(t, side, p) > 0
    <2>1. Total(r, side, p) \in Nat
      BY SharesAreFinite
    <2>2. Total(t, side, p) = Total(r, side, p) + v
      BY DEF Updates, Changes
    <2> QED
      BY <1>5, <2>1, <2>2
  <1>7. DOMAIN g = DOMAIN heap \cup {it} /\ g[it] = Map!Node(side, p, Total(t, side, p))
    BY <1>4, <1>6
  <1>8. Replaces(heap, g, t, it, side, p)
    <2>1. g = [n \in DOMAIN g |-> g[n]]
      BY <1>4
    <2>2. DOMAIN g \subseteq Nodes
      BY <1>7 DEF IsHeap
    <2>3. \A n : n # it => /\ n \in DOMAIN g <=> n \in DOMAIN heap
                           /\ n \in DOMAIN heap => g[n] = heap[n] /\ ~ IsNode(heap, n, side, p)
      BY <1>1, <1>4, <1>7
    <2> QED
      BY <1>1, <1>6, <1>7, <2>1, <2>2, <2>3 DEF Replaces
  <1>9. IsHeap(g, t)
    BY <1>8, HeapReplaced
  <1>10. /\ DOMAIN k = DOMAIN t /\ k[id] = Kept(side, p, v, it)
         /\ \A o \in DOMAIN t : o # id => k[o] = kept[o]
    <2>1. DOMAIN kept = DOMAIN r
      BY DEF IsKept
    <2> QED
      BY <1>4, <2>1
  <1>11. k[id].it = it /\ t[id].side = side /\ t[id].price = p /\ t[id].volume = v
    BY <1>10 DEF Kept, Order
  <1>o. \A o \in DOMAIN t : o # id =>
          /\ kept[o] = Kept(t[o].side, t[o].price, t[o].volume, kept[o].it)
          /\ IsNode(g, kept[o].it, t[o].side, t[o].price)
    BY <1>8, OthersPoint
  <1>12. ASSUME NEW o \in DOMAIN t
         PROVE  /\ k[o] = Kept(t[o].side, t[o].price, t[o].volume, k[o].it)
                /\ IsNode(g, k[o].it, t[o].side, t[o].price)
    <2>1. CASE o = id
      <3>1. IsNode(g, it, side, p)
        <4>1. Total(t, side, p) \in Nat
          BY SharesAreFinite DEF Updates
        <4> QED
          BY <1>7, <4>1, NodeIs DEF IsNode
      <3> QED
        BY <1>10, <1>11, <2>1, <3>1
    <2>2. CASE o # id
      BY <1>10, <1>o, <2>2
    <2> QED
      BY <2>1, <2>2
  <1>13. k = [o \in DOMAIN t |-> Kept(t[o].side, t[o].price, t[o].volume, k[o].it)]
    <2>1. k = [o \in DOMAIN t |-> k[o]]
      BY <1>4, <1>10
    <2> QED
      BY <1>12, <2>1
  <1>14. IsKept(k, t, g)
    BY <1>12, <1>13 DEF IsKept
  <1> QED
    BY <1>2, <1>9, <1>14

LEMMA MapDeleteKeeps ==
    ASSUME NEW r, IsTable(r), IsHeap(heap, r), IsKept(kept, r, heap),
           NEW id \in DOMAIN r, NEW t,
           Updates(r, t, id, r[id].side, r[id].price, - r[id].volume),
           DOMAIN t = DOMAIN r \ {id}, Map!OnDelete(id)
    PROVE  IsHeap(heap', t) /\ IsKept(kept', t, heap')
  <1>1. PICK side, p, v, it : /\ side = r[id].side /\ p = r[id].price /\ v = r[id].volume
                              /\ it = kept[id].it
    OBVIOUS
  <1>2. side \in Sides /\ p \in Prices /\ v \in Nat \ {0}
    BY <1>1, TableIsOrders DEF OrderSet
  <1>3. IsNode(heap, it, side, p) /\ kept[id].volume = v /\ DOMAIN kept = DOMAIN r
    <2>1. /\ IsNode(heap, kept[id].it, r[id].side, r[id].price) /\ kept[id].volume = r[id].volume
          /\ DOMAIN kept = DOMAIN r
      BY KeptIs
    <2> QED
      BY <1>1, <2>1
  <1>4. PICK g, k : g = heap' /\ k = kept'
    OBVIOUS
  <1>5. PICK left : left = heap[it].volume - v
    OBVIOUS
  <1>6. /\ g = IF left <= 0 THEN [n \in DOMAIN heap \ {it} |-> heap[n]]
               ELSE [heap EXCEPT ![it].volume = left]
        /\ k = [o \in DOMAIN kept \ {id} |-> kept[o]]
    BY <1>1, <1>3, <1>4, <1>5 DEF Map!OnDelete, Map!Live
  <1>7. Updates(r, t, id, side, p, - v)
    BY <1>1
  <1>8. Total(t, side, p) = left /\ Total(t, side, p) \in Nat
    <2>1. heap[it].volume = Total(r, side, p) /\ Total(r, side, p) \in Nat
      BY <1>3, TableIsOrders, SharesAreFinite DEF IsHeap, IsNode
    <2>2. Total(t, side, p) = Total(r, side, p) + (- v)
      BY <1>2, <1>7 DEF Updates, Changes
    <2>3. Total(t, side, p) \in Nat
      BY SharesAreFinite DEF Updates
    <2> QED
      BY <1>2, <1>5, <2>1, <2>2, <2>3
  <1>9. \A n : n # it => ~ IsNode(heap, n, side, p)
    BY <1>3, Zenon DEF IsHeap
  <1>10. Replaces(heap, g, t, it, side, p)
    <2>1. it \in DOMAIN heap /\ heap[it] = Map!Node(side, p, heap[it].volume)
      <3>1. it \in DOMAIN heap /\ heap[it].side = side /\ heap[it].price = p
        BY <1>3 DEF IsNode
      <3> QED
        BY <3>1, NodesAre
    <2>2. CASE left <= 0
      <3>1. g = [n \in DOMAIN heap \ {it} |-> heap[n]]
        BY <1>6, <2>2
      <3>2. g = [n \in DOMAIN g |-> g[n]] /\ DOMAIN g = DOMAIN heap \ {it}
        BY <3>1
      <3>3. \A n : n # it => /\ n \in DOMAIN g <=> n \in DOMAIN heap
                             /\ n \in DOMAIN heap => g[n] = heap[n] /\ ~ IsNode(heap, n, side, p)
        BY <1>9, <3>1
      <3>4. DOMAIN g \subseteq Nodes
        BY <3>2 DEF IsHeap
      <3>5. ~ (Total(t, side, p) > 0)
        BY <1>8, <2>2
      <3> QED
        BY <1>3, <3>2, <3>3, <3>4, <3>5 DEF Replaces
    <2>3. CASE ~ (left <= 0)
      <3>1. g = [heap EXCEPT ![it].volume = left]
        BY <1>6, <2>3
      <3>2. DOMAIN g = DOMAIN heap /\ g = [n \in DOMAIN g |-> g[n]]
        <4>1. heap = [n \in DOMAIN heap |-> heap[n]]
          BY DEF IsHeap
        <4> QED
          BY <3>1, <4>1
      <3>3. g[it] = Map!Node(side, p, left)
        <4>1. PICK w : heap[it] = [side |-> side, price |-> p, volume |-> w]
          BY <2>1 DEF Map!Node
        <4>2. g[it] = [heap[it] EXCEPT !.volume = left]
          BY <2>1, <3>1
        <4> QED
          BY <4>1, <4>2 DEF Map!Node
      <3>4. \A n : n # it => /\ n \in DOMAIN g <=> n \in DOMAIN heap
                             /\ n \in DOMAIN heap => g[n] = heap[n] /\ ~ IsNode(heap, n, side, p)
        BY <1>9, <3>1, <3>2
      <3>5. DOMAIN g \subseteq Nodes
        BY <3>2 DEF IsHeap
      <3>6. Total(t, side, p) > 0
        BY <1>8, <2>3
      <3> QED
        BY <1>3, <1>8, <2>1, <3>2, <3>3, <3>4, <3>5, <3>6 DEF Replaces
    <2> QED
      BY <2>2, <2>3
  <1>11. IsHeap(g, t)
    BY <1>2, <1>7, <1>10, HeapReplaced
  <1>12. DOMAIN k = DOMAIN t /\ \A o \in DOMAIN t : o # id /\ k[o] = kept[o]
    BY <1>3, <1>6
  <1>o. \A o \in DOMAIN t : o # id =>
          /\ kept[o] = Kept(t[o].side, t[o].price, t[o].volume, kept[o].it)
          /\ IsNode(g, kept[o].it, t[o].side, t[o].price)
    BY <1>2, <1>7, <1>10, OthersPoint
  <1>13. ASSUME NEW o \in DOMAIN t
         PROVE  /\ k[o] = Kept(t[o].side, t[o].price, t[o].volume, k[o].it)
                /\ IsNode(g, k[o].it, t[o].side, t[o].price)
    BY <1>12, <1>o
  <1>14. k = [o \in DOMAIN t |-> Kept(t[o].side, t[o].price, t[o].volume, k[o].it)]
    <2>1. k = [o \in DOMAIN t |-> k[o]]
      BY <1>6, <1>12
    <2> QED
      BY <1>13, <2>1
  <1> QED
    BY <1>4, <1>11, <1>13, <1>14 DEF IsKept

LEMMA MapSetKeeps ==
    ASSUME NEW r, IsTable(r), IsHeap(heap, r), IsKept(kept, r, heap),
           NEW id \in DOMAIN r, NEW v \in 1..MaxVolume, NEW t,
           Updates(r, t, id, r[id].side, r[id].price, v - r[id].volume),
           DOMAIN t = DOMAIN r, t[id] = Order(r[id].side, r[id].price, v),
           heap' = [heap EXCEPT ![kept[id].it].volume = heap[kept[id].it].volume + (v - kept[id].volume)],
           kept' = WithVolume(kept, id, v)
    PROVE  IsHeap(heap', t) /\ IsKept(kept', t, heap')
  <1>1. PICK side, p, w, it : /\ side = r[id].side /\ p = r[id].price /\ w = r[id].volume
                              /\ it = kept[id].it
    OBVIOUS
  <1>2. side \in Sides /\ p \in Prices /\ w \in Nat \ {0}
    BY <1>1, TableIsOrders DEF OrderSet
  <1>3. /\ IsNode(heap, it, side, p) /\ kept[id].volume = w /\ DOMAIN kept = DOMAIN r
        /\ kept[id] = Kept(side, p, w, it)
    <2>1. /\ IsNode(heap, kept[id].it, r[id].side, r[id].price) /\ kept[id].volume = r[id].volume
          /\ kept[id] = Kept(r[id].side, r[id].price, r[id].volume, kept[id].it)
          /\ DOMAIN kept = DOMAIN r
      BY KeptIs
    <2> QED
      BY <1>1, <2>1
  <1>4. PICK g, k : g = heap' /\ k = kept'
    OBVIOUS
  <1>5. PICK left : left = heap[it].volume + (v - w)
    OBVIOUS
  <1>6. g = [heap EXCEPT ![it].volume = left]
    BY <1>1, <1>3, <1>4, <1>5
  <1>7. /\ DOMAIN k = DOMAIN kept /\ k = [o \in DOMAIN kept |-> k[o]]
        /\ \A o \in DOMAIN kept : o # id => k[o] = kept[o]
    <2>1. kept = [o \in DOMAIN kept |-> kept[o]]
      BY DEF IsKept
    <2> QED
      BY <1>4, <2>1 DEF WithVolume
  <1>8. k[id] = Kept(side, p, v, it)
    <2>1. k[id] = [kept[id] EXCEPT !.volume = v]
      BY <1>3, <1>4 DEF WithVolume
    <2> QED
      BY <1>3, <2>1 DEF Kept
  <1>9. Updates(r, t, id, side, p, v - w) /\ t[id] = Order(side, p, v)
    BY <1>1
  <1>10. Total(t, side, p) = left /\ Total(t, side, p) \in Nat
    <2>1. heap[it].volume = Total(r, side, p) /\ Total(r, side, p) \in Nat
      BY <1>3, TableIsOrders, SharesAreFinite DEF IsHeap, IsNode
    <2>2. Total(t, side, p) = Total(r, side, p) + (v - w)
      BY <1>2, <1>9 DEF Updates, Changes
    <2>3. Total(t, side, p) \in Nat
      BY SharesAreFinite DEF Updates
    <2> QED
      BY <1>5, <2>1, <2>2, <2>3
  <1>11. t[id].side = side /\ t[id].price = p /\ t[id].volume = v
    BY <1>9 DEF Order
  <1>12. Total(t, side, p) > 0
    <2>1. RestsAt(t, id, side, p)
      BY <1>11 DEF RestsAt
    <2> QED
      BY <2>1, LevelHasOrder DEF Updates
  <1>13. \A n : n # it => ~ IsNode(heap, n, side, p)
    BY <1>3, Zenon DEF IsHeap
  <1>14. it \in DOMAIN heap /\ heap[it] = Map!Node(side, p, heap[it].volume)
    <2>1. it \in DOMAIN heap /\ heap[it].side = side /\ heap[it].price = p
      BY <1>3 DEF IsNode
    <2> QED
      BY <2>1, NodesAre
  <1>15. g[it] = Map!Node(side, p, left)
    <2>1. PICK u : heap[it] = [side |-> side, price |-> p, volume |-> u]
      BY <1>14 DEF Map!Node
    <2>2. g[it] = [heap[it] EXCEPT !.volume = left]
      BY <1>6, <1>14
    <2> QED
      BY <2>1, <2>2 DEF Map!Node
  <1>16. Replaces(heap, g, t, it, side, p)
    <2>1. DOMAIN g = DOMAIN heap /\ g = [n \in DOMAIN g |-> g[n]]
      <3>1. heap = [n \in DOMAIN heap |-> heap[n]]
        BY DEF IsHeap
      <3> QED
        BY <1>6, <3>1
    <2>2. \A n : n # it => /\ n \in DOMAIN g <=> n \in DOMAIN heap
                           /\ n \in DOMAIN heap => g[n] = heap[n] /\ ~ IsNode(heap, n, side, p)
      BY <1>6, <1>13, <2>1
    <2>3. DOMAIN g \subseteq Nodes
      BY <2>1 DEF IsHeap
    <2> QED
      BY <1>3, <1>10, <1>12, <1>14, <1>15, <2>1, <2>2, <2>3 DEF Replaces
  <1>17. IsHeap(g, t)
    BY <1>2, <1>9, <1>16, HeapReplaced
  <1>o. \A o \in DOMAIN t : o # id =>
          /\ kept[o] = Kept(t[o].side, t[o].price, t[o].volume, kept[o].it)
          /\ IsNode(g, kept[o].it, t[o].side, t[o].price)
    BY <1>2, <1>9, <1>16, OthersPoint
  <1>18. ASSUME NEW o \in DOMAIN t
         PROVE  /\ k[o] = Kept(t[o].side, t[o].price, t[o].volume, k[o].it)
                /\ IsNode(g, k[o].it, t[o].side, t[o].price)
    <2>1. CASE o = id
      <3>1. IsNode(g, it, side, p)
        <4>1. it \in DOMAIN g
          BY <1>6, <1>14
        <4>2. g[it].side = side /\ g[it].price = p
          BY <1>2, <1>10, <1>15, NodeIs
        <4> QED
          BY <4>1, <4>2 DEF IsNode
      <3>2. k[id].it = it
        BY <1>8 DEF Kept
      <3> QED
        BY <1>8, <1>11, <2>1, <3>1, <3>2
    <2>2. CASE o # id
      BY <1>3, <1>7, <1>o, <2>2
    <2> QED
      BY <2>1, <2>2
  <1>19. k = [o \in DOMAIN t |-> Kept(t[o].side, t[o].price, t[o].volume, k[o].it)]
    BY <1>3, <1>7, <1>18
  <1> QED
    BY <1>4, <1>17, <1>18, <1>19 DEF IsKept

-----------------------------------------------------------------------------
(* The inductive invariant: both books mirror the same orders.             *)
BooksInv ==
    /\ layout \in Layouts
    /\ BookInv(recs, levels)
    /\ IsHeap(heap, recs)
    /\ IsKept(kept, recs, heap)

LEMMA BooksInit == Init2 => BooksInv
  <1> SUFFICES ASSUME Init2
               PROVE  BooksInv
    OBVIOUS
  <1>1. layout \in Layouts /\ BookInv(recs, levels)
    BY BookInit DEF Init2, Init
  <1>2. DOMAIN recs = {} /\ DOMAIN kept = {} /\ DOMAIN heap = {}
    BY DEF Init2, Init, Map!Init
  <1>3. ASSUME NEW side, NEW p
        PROVE  Total(recs, side, p) = 0
    <2>1. Shares(recs, side, p) = {}
      BY <1>2, SharesArePairs DEF RestsAt
    <2> QED
      BY <2>1, FS_EmptySet DEF Total
  <1>4. IsHeap(heap, recs)
    <2>1. heap = [n \in {} |-> heap[n]]
      BY DEF Init2, Map!Init
    <2>2. heap \in [DOMAIN heap -> NodeSet]
      BY <1>2, <2>1
    <2> QED
      BY <1>2, <1>3, <2>2 DEF IsHeap, IsNode
  <1>5. IsKept(kept, recs, heap)
    <2>1. kept = [id \in DOMAIN recs |-> Kept(recs[id].side, recs[id].price, recs[id].volume, kept[id].it)]
      BY <1>2 DEF Init2, Map!Init
    <2> QED
      BY <1>2, <2>1 DEF IsKept
  <1> QED
    BY <1>1, <1>4, <1>5 DEF BooksInv

LEMMA WayStays ==
    ASSUME UNCHANGED layout, layout \in Layouts, BookInv(recs', levels')
    PROVE  layout' \in Layouts /\ BookInv(recs, levels)'
  BY DEF BookInv, Way

LEMMA AddKeeps ==
    ASSUME BooksInv, UNCHANGED layout, NEW id \in Ids, NEW side \in Sides, NEW p \in Prices,
           NEW v \in 1..MaxVolume, OnAdd(id, side, p, v), Map!OnAdd(id, side, p, v)
    PROVE  BooksInv'
  <1>1. layout \in Layouts /\ BookInv(recs, levels) /\ IsHeap(heap, recs) /\ IsKept(kept, recs, heap)
    BY DEF BooksInv
  <1>2. PICK t : t = recs'
    OBVIOUS
  <1>3. /\ BookInv(recs', levels') /\ Updates(recs, t, id, side, p, v)
        /\ t[id] = Order(side, p, v) /\ DOMAIN t = DOMAIN recs \cup {id} /\ id \notin DOMAIN recs
    BY <1>1, <1>2, AddKeepsBook
  <1>4. IsOrders(recs)
    BY <1>3 DEF Updates
  <1>5. IsHeap(heap', t) /\ IsKept(kept', t, heap')
    BY <1>1, <1>3, <1>4, MapAddKeeps
  <1>6. layout' \in Layouts /\ BookInv(recs, levels)'
    BY <1>1, <1>3, WayStays
  <1> QED
    BY <1>2, <1>5, <1>6 DEF BooksInv

LEMMA DeleteKeeps ==
    ASSUME BooksInv, UNCHANGED layout, NEW id, OnDelete(id), Map!OnDelete(id)
    PROVE  BooksInv'
  <1>1. layout \in Layouts /\ BookInv(recs, levels) /\ IsHeap(heap, recs) /\ IsKept(kept, recs, heap)
    BY DEF BooksInv
  <1>2. PICK t : t = recs'
    OBVIOUS
  <1>3. /\ BookInv(recs', levels')
        /\ Updates(recs, t, id, recs[id].side, recs[id].price, - recs[id].volume)
        /\ DOMAIN t = DOMAIN recs \ {id} /\ id \in DOMAIN recs
    BY <1>1, <1>2, DeleteKeepsBook
  <1>4. IsTable(recs)
    BY <1>1 DEF BookInv
  <1>5. IsHeap(heap', t) /\ IsKept(kept', t, heap')
    BY <1>1, <1>3, <1>4, MapDeleteKeeps
  <1>6. layout' \in Layouts /\ BookInv(recs, levels)'
    BY <1>1, <1>3, WayStays
  <1> QED
    BY <1>2, <1>5, <1>6 DEF BooksInv

LEMMA SetKeeps ==
    ASSUME BooksInv, UNCHANGED layout, NEW id, NEW v \in 0..MaxVolume, v > 0,
           OnModify(id, v), Map!OnModify(id, v)
    PROVE  BooksInv'
  <1>1. layout \in Layouts /\ BookInv(recs, levels) /\ IsHeap(heap, recs) /\ IsKept(kept, recs, heap)
    BY DEF BooksInv
  <1>2. PICK t, l : t = recs' /\ l = Adjusted(levels[recs[id].side], recs[id].side, recs[id].price, v - recs[id].volume)
    OBVIOUS
  <1>3. v \in 1..MaxVolume /\ ~ (v <= 0)
    OBVIOUS
  <1>4. id \in DOMAIN recs
    BY <1>3 DEF OnModify, Live
  <1>5. IsTable(recs)
    BY <1>1 DEF BookInv
  <1>6. recs[id].side \in DOMAIN levels
    <2>1. recs[id].side \in Sides
      BY <1>4, <1>5, TableIsOrders DEF OrderSet
    <2> QED
      BY <1>1, <2>1 DEF BookInv
  <1>7. levels' = [levels EXCEPT ![recs[id].side] = l] /\ recs' = [recs EXCEPT ![id].volume = v]
    BY <1>2, <1>3, <1>6 DEF OnModify
  <1>8. /\ BookInv(recs', levels')
        /\ Updates(recs, t, id, recs[id].side, recs[id].price, v - recs[id].volume)
        /\ DOMAIN t = DOMAIN recs /\ t[id] = Order(recs[id].side, recs[id].price, v)
    BY <1>1, <1>2, <1>3, <1>4, <1>7, SetKeepsBook
  <1>9. /\ heap' = [heap EXCEPT ![kept[id].it].volume = heap[kept[id].it].volume + (v - kept[id].volume)]
        /\ kept' = WithVolume(kept, id, v)
    <2>1. kept[id].it \in DOMAIN heap
      BY <1>1, <1>4 DEF IsKept, IsNode
    <2> QED
      BY <1>3, <2>1 DEF Map!OnModify, WithVolume
  <1>10. IsHeap(heap', t) /\ IsKept(kept', t, heap')
    BY <1>1, <1>3, <1>4, <1>5, <1>8, <1>9, MapSetKeeps
  <1>11. layout' \in Layouts /\ BookInv(recs, levels)'
    BY <1>1, <1>8, WayStays
  <1> QED
    BY <1>2, <1>10, <1>11 DEF BooksInv

LEMMA BooksStep == BooksInv /\ [Next2]_bothVars => BooksInv'
  <1> SUFFICES ASSUME BooksInv, [Next2]_bothVars
               PROVE  BooksInv'
    OBVIOUS
  <1>1. CASE Next2
    <2>1. UNCHANGED layout
      BY <1>1 DEF Next2
    <2>2. PICK id \in Ids :
            \/ \E side \in Sides, p \in Prices, v \in 1..MaxVolume :
                  OnAdd(id, side, p, v) /\ Map!OnAdd(id, side, p, v)
            \/ \E v \in 0..MaxVolume : OnModify(id, v) /\ Map!OnModify(id, v)
            \/ OnDelete(id) /\ Map!OnDelete(id)
      BY <1>1, Zenon DEF Next2
    <2>3. CASE \E side \in Sides, p \in Prices, v \in 1..MaxVolume :
                  OnAdd(id, side, p, v) /\ Map!OnAdd(id, side, p, v)
      BY <2>1, <2>3, AddKeeps
    <2>4. CASE \E v \in 0..MaxVolume : OnModify(id, v) /\ Map!OnModify(id, v)
      <3>1. PICK v \in 0..MaxVolume : OnModify(id, v) /\ Map!OnModify(id, v)
        BY <2>4
      <3>2. CASE v > 0
        BY <2>1, <3>1, <3>2, SetKeeps
      <3>3. CASE ~ (v > 0)
        <4>1. OnDelete(id) /\ Map!OnDelete(id)
          BY <3>1, <3>3 DEF OnModify, Map!OnModify
        <4> QED
          BY <2>1, <4>1, DeleteKeeps
      <3> QED
        BY <3>2, <3>3
    <2>5. CASE OnDelete(id) /\ Map!OnDelete(id)
      BY <2>1, <2>5, DeleteKeeps
    <2> QED
      BY <2>2, <2>3, <2>4, <2>5
  <1>2. CASE UNCHANGED bothVars
    BY <1>2 DEF bothVars, vars, BooksInv, BookInv, Way, IsHeap, IsKept
  <1> QED
    BY <1>1, <1>2

(* The two books mirror the orders after every sequence of updates.        *)
THEOREM BooksInvariance == Spec2 => []BooksInv
  <1> QED
    BY BooksInit, BooksStep, PTL DEF Spec2

LEMMA InvFinds == BooksInv => OrderHasLevel
  <1> SUFFICES ASSUME BooksInv, NEW id \in DOMAIN recs
               PROVE  Holds(levels[recs[id].side], Find(levels[recs[id].side], recs[id].side, recs[id].price),
                            recs[id].price)
    BY Zenon DEF OrderHasLevel, Live
  <1>1. layout \in Layouts /\ BookInv(recs, levels)
    BY DEF BooksInv
  <1>2. IsTable(recs)
    BY <1>1 DEF BookInv
  <1>3. PICK side, p : side = recs[id].side /\ p = recs[id].price
    OBVIOUS
  <1>4. side \in Sides /\ p \in Prices /\ IsOrders(recs) /\ RestsAt(recs, id, side, p)
    BY <1>2, <1>3, TableIsOrders DEF OrderSet, RestsAt
  <1>5. Mirrors(Way, side, levels[side], recs)
    BY <1>1, <1>4 DEF BookInv
  <1>6. Holds(levels[side], Find(levels[side], side, p), p)
    BY <1>1, <1>4, <1>5, FindHolds
  <1> QED
    BY <1>3, <1>6

LEMMA LevelsBothWays ==
    ASSUME BooksInv, NEW side \in Sides
    PROVE  \E n, f, b :
             /\ n \in Nat
             /\ f = IF layout = "forward" THEN levels[side] ELSE Reverse(levels[side])
             /\ b = IF layout = "forward" THEN Reverse(levels[side]) ELSE levels[side]
             /\ IsLevels("forward", side, f) /\ IsLevels("backward", side, b)
             /\ n = Len(levels[side]) /\ Len(f) = n /\ Len(b) = n
             /\ \A j \in 1..n : f[j] = b[n + 1 - j]
             /\ Mirrors("forward", side, f, recs)
  <1>1. PICK ls : ls = levels[side]
    OBVIOUS
  <1>2. Mirrors(Way, side, ls, recs)
    BY <1>1 DEF BooksInv, BookInv
  <1>3. CASE layout = "forward"
    <2>1. Mirrors("forward", side, ls, recs) /\ IsLevels("forward", side, ls)
      BY <1>2, <1>3 DEF Mirrors, Way
    <2>2. PICK n \in Nat : n = Len(ls) /\ DOMAIN ls = 1..n
      BY <2>1, LevelsAre DEF Ways
    <2>3. PICK b : b = Reverse(ls)
      OBVIOUS
    <2>4. /\ IsLevels("backward", side, b) /\ Len(b) = n
          /\ \A j \in 1..n : ls[j] = b[n + 1 - j]
      BY <2>1, <2>2, <2>3, ReverseIs DEF Ways
    <2> QED
      BY <1>1, <1>3, <2>1, <2>2, <2>3, <2>4
  <1>4. CASE layout # "forward"
    <2>1. Mirrors("backward", side, ls, recs) /\ IsLevels("backward", side, ls)
      BY <1>2, <1>4 DEF Mirrors, Way
    <2>2. PICK n \in Nat : n = Len(ls) /\ DOMAIN ls = 1..n
      BY <2>1, LevelsAre DEF Ways
    <2>3. PICK f : f = Reverse(ls)
      OBVIOUS
    <2>4. /\ IsLevels("forward", side, f) /\ Len(f) = n
          /\ \A j \in 1..n : f[j] = ls[n + 1 - j] /\ ls[j] = f[n + 1 - j]
      BY <2>1, <2>2, <2>3, ReverseIs DEF Ways
    <2>5. DOMAIN f = 1..n
      BY <2>4, LevelsAre DEF Ways
    <2>6. \A j \in DOMAIN f : f[j].volume = Total(recs, side, f[j].price)
      <3>1. TAKE j \in DOMAIN f
      <3>2. PICK k \in 1..n : f[j] = ls[k]
        <4>1. n + 1 - j \in 1..n
          BY <2>5
        <4> QED
          BY <2>4, <2>5, <4>1
      <3> QED
        BY <2>1, <2>2, <3>2 DEF Mirrors
    <2>7. \A p \in Prices : Total(recs, side, p) > 0 => \E j \in DOMAIN f : f[j].price = p
      <3>1. TAKE p \in Prices
      <3> SUFFICES ASSUME Total(recs, side, p) > 0
                   PROVE  \E j \in DOMAIN f : f[j].price = p
        OBVIOUS
      <3>2. PICK j \in 1..n : ls[j].price = p
        BY <2>1, <2>2 DEF Mirrors
      <3>3. n + 1 - j \in 1..n
        OBVIOUS
      <3> QED
        BY <2>4, <2>5, <3>2, <3>3
    <2>8. Mirrors("forward", side, f, recs)
      BY <2>4, <2>6, <2>7 DEF Mirrors
    <2> QED
      BY <1>1, <1>4, <2>1, <2>2, <2>3, <2>4, <2>8
  <1> QED
    BY <1>3, <1>4

LEMMA InvSearches == BooksInv => SearchesAgree
  <1> SUFFICES ASSUME BooksInv
               PROVE  SearchesAgree
    OBVIOUS
  <1>1. ASSUME NEW side \in Sides, NEW p \in Prices
        PROVE  LET ls == levels[side]
                   back == Reverse(ls)
                   f == IF layout = "forward" THEN ls ELSE back
                   r == IF layout = "forward" THEN back ELSE ls
                   n == ForwardFind(f, side, p)
                   here == Holds(f, n, p)
               IN  \A m \in {ReverseFind(r, side, p), BranchlessFind(r, side, p),
                             LinearFind(r, side, p)} :
                     m = Len(ls) + (IF here THEN 1 ELSE 2) - n
    <2>1. PICK n, f, b :
             /\ n \in Nat
             /\ f = IF layout = "forward" THEN levels[side] ELSE Reverse(levels[side])
             /\ b = IF layout = "forward" THEN Reverse(levels[side]) ELSE levels[side]
             /\ IsLevels("forward", side, f) /\ IsLevels("backward", side, b)
             /\ n = Len(levels[side]) /\ Len(f) = n /\ Len(b) = n
             /\ \A j \in 1..n : f[j] = b[n + 1 - j]
      BY LevelsBothWays
    <2>2. p \in Int
      BY PricesAssumption
    <2>3. PICK i : i = ForwardFind(f, side, p)
      OBVIOUS
    <2>4. IsPlace("forward", side, f, p, i)
      BY <2>1, <2>2, <2>3, SearchesAre
    <2>5. PICK m : m = n + (IF Holds(f, i, p) THEN 1 ELSE 2) - i
      OBVIOUS
    <2>6. IsPlace("backward", side, b, p, m)
      BY <2>1, <2>2, <2>4, <2>5, PlaceFromTheEnd
    <2>7. ReverseFind(b, side, p) = m /\ BranchlessFind(b, side, p) = m /\ LinearFind(b, side, p) = m
      BY <2>1, <2>2, <2>6, SearchesAre
    <2> QED
      BY <2>1, <2>3, <2>5, <2>7, Zenon
  <1> QED
    BY <1>1, Zenon DEF SearchesAgree

(* Adjust may trust Find, whatever the layout of the book and the search.  *)
THEOREM EveryOrderHasItsLevel == Spec2 => []OrderHasLevel
  <1> QED
    BY InvFinds, BooksInvariance, PTL

(* The four searches agree on every vector that the books build.           *)
THEOREM AllSearchesAgree == Spec2 => []SearchesAgree
  <1> QED
    BY InvSearches, BooksInvariance, PTL

(* No iterator that a record of the map book keeps dangles.                *)
THEOREM NoIteratorDangles == Spec2 => []IteratorsValid
  <1>1. BooksInv => IteratorsValid
    <2> SUFFICES ASSUME BooksInv
                 PROVE  IteratorsValid
      OBVIOUS
    <2>1. IsKept(kept, recs, heap) /\ DOMAIN kept = DOMAIN recs
      BY DEF BooksInv, IsKept
    <2>2. ASSUME NEW id \in DOMAIN kept
          PROVE  /\ IsNode(heap, kept[id].it, recs[id].side, recs[id].price)
                 /\ kept[id].side = recs[id].side /\ kept[id].price = recs[id].price
      BY <2>1, KeptIs
    <2> QED
      BY <2>2 DEF IteratorsValid, Map!IteratorsValid, Map!Live, IsNode
  <1> QED
    BY <1>1, BooksInvariance, PTL

-----------------------------------------------------------------------------
(* What the two books show.                                                *)
\* s lists the elements of ns, each with a key of its own, best key first.
SortedBy(s, ns, side, key) ==
    /\ s \in [1..Cardinality(ns) -> ns]
    /\ \A j, k \in DOMAIN s : j < k => Better(side, key[s[j]], key[s[k]])

\* Two listings of the same set by the same keys are equal.
LEMMA OneListing ==
    ASSUME NEW side \in Sides, NEW ns, IsFiniteSet(ns),
           NEW key, \A n \in ns : key[n] \in Int,
           NEW s, SortedBy(s, ns, side, key), NEW g, SortedBy(g, ns, side, key)
    PROVE  s = g
  <1>1. PICK m \in Nat : m = Cardinality(ns)
    BY FS_CardinalityType
  <1>2. /\ s \in [1..m -> ns] /\ g \in [1..m -> ns]
        /\ \A j, k \in 1..m : j < k => Better(side, key[s[j]], key[s[k]])
        /\ \A j, k \in 1..m : j < k => Better(side, key[g[j]], key[g[k]])
    BY <1>1 DEF SortedBy
  <1>3. \A h \in [1..m -> ns] :
          (\A j, k \in 1..m : j < k => Better(side, key[h[j]], key[h[k]])) =>
             /\ \A j, k \in 1..m : h[j] = h[k] => j = k
             /\ \A n \in ns : \E j \in 1..m : h[j] = n
    <2> SUFFICES ASSUME NEW h \in [1..m -> ns],
                        \A j, k \in 1..m : j < k => Better(side, key[h[j]], key[h[k]])
                 PROVE  /\ \A j, k \in 1..m : h[j] = h[k] => j = k
                        /\ \A n \in ns : \E j \in 1..m : h[j] = n
      OBVIOUS
    <2>1. ASSUME NEW j \in 1..m, NEW k \in 1..m, h[j] = h[k]
          PROVE  j = k
      <3>1. key[h[j]] \in Int
        OBVIOUS
      <3>2. ~ Better(side, key[h[j]], key[h[k]]) /\ ~ Better(side, key[h[k]], key[h[j]])
        BY <2>1, <3>1 DEF Better
      <3> QED
        BY <3>2
    <2>2. h \in Injection(1..m, ns)
      BY <2>1 DEF Injection, IsInjective
    <2>3. IsFiniteSet(1..m) /\ Cardinality(1..m) = m
      BY FS_Interval
    <2>4. h \in Surjection(1..m, ns)
      BY <1>1, <2>2, <2>3, FS_Injection
    <2> QED
      BY <2>1, <2>4 DEF Surjection
  <1>4. /\ \A j, k \in 1..m : s[j] = s[k] => j = k
        /\ \A n \in ns : \E j \in 1..m : s[j] = n
        /\ \A j, k \in 1..m : g[j] = g[k] => j = k
        /\ \A n \in ns : \E j \in 1..m : g[j] = n
    BY <1>2, <1>3
  <1> DEFINE Wrong == {j \in 1..m : s[j] # g[j]}
  <1>5. ASSUME Wrong # {}
        PROVE  FALSE
    <2>1. PICK j : j \in Wrong /\ \A k \in Wrong : j <= k
      <3>1. Wrong \in SUBSET Nat
        OBVIOUS
      <3> QED
        BY <1>5, <3>1, MinIsLeast
    <2>2. j \in 1..m /\ s[j] # g[j] /\ \A k \in 1..m : k < j => s[k] = g[k]
      BY <2>1
    <2>3. PICK k \in 1..m : g[k] = s[j]
      BY <1>2, <1>4, <2>2
    <2>4. PICK l \in 1..m : s[l] = g[j]
      BY <1>2, <1>4, <2>2
    <2>5. j < k
      <3>1. k # j /\ ~ (k < j)
        BY <1>4, <2>2, <2>3
      <3> QED
        BY <2>2, <3>1
    <2>6. j < l
      <3>1. l # j /\ ~ (l < j)
        BY <1>4, <2>2, <2>4
      <3> QED
        BY <2>2, <3>1
    <2>7. PICK a, b : a = key[s[j]] /\ b = key[g[j]]
      OBVIOUS
    <2>8. a \in Int /\ b \in Int
      BY <1>2, <2>2, <2>7
    <2>9. Better(side, a, b)
      BY <1>2, <2>2, <2>4, <2>6, <2>7
    <2>10. Better(side, b, a)
      BY <1>2, <2>2, <2>3, <2>5, <2>7
    <2> QED
      BY <2>8, <2>9, <2>10 DEF Better
  <1> QED
    BY <1>2, <1>5

\* The order in which Map!Snapshot lists the nodes ns of a side.
InOrder(s, ns, side) ==
    /\ s \in [1..Cardinality(ns) -> ns]
    /\ \A j, k \in DOMAIN s : j < k => Better(side, heap[s[j]].price, heap[s[k]].price)

LEMMA OneOrder ==
    ASSUME NEW side \in Sides, NEW ns, IsFiniteSet(ns),
           \A n \in ns : heap[n].price \in Int,
           NEW s, InOrder(s, ns, side), NEW g, InOrder(g, ns, side)
    PROVE  s = g
  <1>1. PICK key : key = [n \in ns |-> heap[n].price]
    OBVIOUS
  <1>2. \A n \in ns : key[n] = heap[n].price /\ key[n] \in Int
    BY <1>1
  <1>3. SortedBy(s, ns, side, key) /\ SortedBy(g, ns, side, key)
    BY <1>2 DEF InOrder, SortedBy
  <1> QED
    BY <1>2, <1>3, OneListing

\* The map lists a node for each level of the vector, in the same order.
LEMMA SnapshotsAgree ==
    ASSUME IsHeap(heap, recs), NEW side \in Sides, NEW m \in Nat, NEW f, Len(f) = m,
           Mirrors("forward", side, f, recs)
    PROVE  Map!Snapshot(side) = f
  <1>1. /\ IsLevels("forward", side, f) /\ DOMAIN f = 1..m
        /\ \A j \in 1..m : f[j].volume = Total(recs, side, f[j].price)
        /\ \A p \in Prices : Total(recs, side, p) > 0 => \E j \in 1..m : f[j].price = p
    BY LevelsAre DEF Mirrors, Ways
  <1>2. \A j \in 1..m : /\ f[j] = Level(f[j].price, f[j].volume)
                        /\ f[j].price \in Prices /\ f[j].price \in Int /\ f[j].volume \in Nat \ {0}
    BY <1>1, LevelsAre DEF Ways
  <1>3. PICK ns : ns = {n \in DOMAIN heap : heap[n].side = side}
    OBVIOUS
  <1>4. \A j \in 1..m : \E n : IsNode(heap, n, side, f[j].price)
    <2>1. TAKE j \in 1..m
    <2>2. Total(recs, side, f[j].price) > 0
      BY <1>1, <1>2
    <2> QED
      BY <1>2, <2>2 DEF IsHeap
  <1>5. PICK g : g = [j \in 1..m |-> CHOOSE n : IsNode(heap, n, side, f[j].price)]
    OBVIOUS
  <1>6. \A j \in 1..m : IsNode(heap, g[j], side, f[j].price)
    BY <1>4, <1>5
  <1>7. \A n \in ns : \E j \in 1..m : g[j] = n
    <2>1. TAKE n \in ns
    <2>2. n \in DOMAIN heap /\ heap[n].side = side
      BY <1>3
    <2>3. PICK p \in Prices : p = heap[n].price /\ IsNode(heap, n, side, p)
      BY <2>2, NodesAre
    <2>4. Total(recs, side, p) > 0
      BY <2>2, <2>3 DEF IsHeap
    <2>5. PICK j \in 1..m : f[j].price = p
      BY <1>1, <2>4
    <2>6. IsNode(heap, g[j], side, p)
      BY <1>6, <2>5
    <2>7. g[j] = n
      BY <2>3, <2>6, Zenon DEF IsHeap
    <2> QED
      BY <2>7
  <1>8. g \in [1..m -> ns]
    BY <1>3, <1>5, <1>6 DEF IsNode
  <1>9. \A j, k \in 1..m : j < k => Better(side, f[j].price, f[k].price)
    BY <1>1 DEF IsLevels, Precedes
  <1>10. \A j \in 1..m : heap[g[j]].price = f[j].price /\ heap[g[j]].volume = f[j].volume
    <2>1. TAKE j \in 1..m
    <2>2. g[j] \in DOMAIN heap /\ heap[g[j]].side = side /\ heap[g[j]].price = f[j].price
      BY <1>6 DEF IsNode
    <2>3. heap[g[j]].volume = Total(recs, side, f[j].price)
      BY <2>2 DEF IsHeap
    <2> QED
      BY <1>1, <2>2, <2>3
  <1>11. \A j, k \in 1..m : g[j] = g[k] => j = k
    <2> SUFFICES ASSUME NEW j \in 1..m, NEW k \in 1..m, g[j] = g[k]
                 PROVE  j = k
      OBVIOUS
    <2>1. f[j].price = f[k].price /\ f[j].price \in Int
      BY <1>2, <1>10
    <2>2. ~ Better(side, f[j].price, f[k].price) /\ ~ Better(side, f[k].price, f[j].price)
      BY <2>1 DEF Better
    <2> QED
      BY <1>9, <2>2
  <1>12. IsFiniteSet(ns) /\ Cardinality(ns) = m
    <2>1. IsFiniteSet(1..m) /\ Cardinality(1..m) = m
      BY FS_Interval
    <2>2. g \in Injection(1..m, ns) /\ g \in Surjection(1..m, ns)
      BY <1>7, <1>8, <1>11 DEF Injection, IsInjective, Surjection
    <2> QED
      BY <2>1, <2>2, FS_Surjection
  <1>13. InOrder(g, ns, side)
    BY <1>8, <1>9, <1>10, <1>12 DEF InOrder
  <1>14. PICK in : in = CHOOSE s \in [1..Cardinality(ns) -> ns] :
                \A j, k \in DOMAIN s : j < k => Better(side, heap[s[j]].price, heap[s[k]].price)
    OBVIOUS
  <1>15. InOrder(in, ns, side)
    BY <1>13, <1>14, Zenon DEF InOrder
  <1>16. \A n \in ns : heap[n].price \in Int
    BY <1>3, NodesAre, PricesAssumption
  <1>17. in = g
    BY <1>12, <1>13, <1>15, <1>16, OneOrder
  <1>18. Map!Snapshot(side) = [k \in DOMAIN in |-> Level(heap[in[k]].price, heap[in[k]].volume)]
    <2>1. Map!Cardinality(ns) = Cardinality(ns)
      BY Zenon DEF Map!Cardinality, Cardinality
    <2> QED
      BY <1>3, <1>14, <2>1, Zenon DEF Map!Snapshot, Map!Better, Better, Level
  <1>19. Map!Snapshot(side) = [k \in 1..m |-> f[k]]
    <2>1. DOMAIN g = 1..m
      BY <1>5
    <2>2. \A k \in 1..m : Level(heap[g[k]].price, heap[g[k]].volume) = f[k]
      BY <1>2, <1>10
    <2> QED
      BY <1>17, <1>18, <2>1, <2>2
  <1>20. f = [k \in 1..m |-> f[k]]
    BY <1>1 DEF IsLevels
  <1> QED
    BY <1>19, <1>20

\* All levels of a side, best first.
LEMMA SnapshotIs ==
    ASSUME NEW side \in Sides, NEW m \in Nat, NEW f \in Seq(LevelSet), Len(f) = m,
           Len(levels[side]) = m, f = BestFirst(levels[side])
    PROVE  Snapshot(side, LevelCount(side)) = f
  <1>1. Min({m, m}) = m
    BY DEF Min
  <1>2. SubSeq(f, 1, m) = f
    OBVIOUS
  <1> QED
    BY <1>1, <1>2 DEF Snapshot, LevelCount

LEMMA InvAgree == BooksInv => BooksAgree
  <1> SUFFICES ASSUME BooksInv
               PROVE  BooksAgree
    OBVIOUS
  <1>1. IsTable(recs) /\ IsKept(kept, recs, heap) /\ IsHeap(heap, recs)
    BY DEF BooksInv, BookInv
  <1>2. recs = Map!Orders
    <2>1. DOMAIN kept = DOMAIN recs
      BY <1>1 DEF IsKept
    <2>2. ASSUME NEW id \in DOMAIN recs
          PROVE  recs[id] = [side |-> kept[id].side, price |-> kept[id].price, volume |-> kept[id].volume]
      <3>1. kept[id].side = recs[id].side /\ kept[id].price = recs[id].price /\ kept[id].volume = recs[id].volume
        BY <1>1, KeptIs
      <3>2. recs[id] = [side |-> recs[id].side, price |-> recs[id].price, volume |-> recs[id].volume]
        BY <1>1, TableIsOrders DEF Order
      <3> QED
        BY <3>1, <3>2
    <2>3. recs = [id \in DOMAIN recs |-> recs[id]]
      BY <1>1 DEF IsTable
    <2> QED
      BY <2>1, <2>2, <2>3 DEF Map!Orders, Map!Live
  <1>3. ASSUME NEW side \in Sides
        PROVE  LET all == Map!Snapshot(side)
               IN  /\ Snapshot(side, LevelCount(side)) = all
                   /\ Best(side) = IF all = <<>> THEN 0 ELSE Head(all).price
                   /\ \A n \in 0..Len(all) :
                        VolumeAtLevel(side, n) = IF n = Len(all) THEN 0 ELSE all[n + 1].volume
    <2>1. PICK m, f, b :
             /\ m \in Nat
             /\ f = IF layout = "forward" THEN levels[side] ELSE Reverse(levels[side])
             /\ b = IF layout = "forward" THEN Reverse(levels[side]) ELSE levels[side]
             /\ IsLevels("forward", side, f) /\ IsLevels("backward", side, b)
             /\ m = Len(levels[side]) /\ Len(f) = m /\ Len(b) = m
             /\ \A j \in 1..m : f[j] = b[m + 1 - j]
             /\ Mirrors("forward", side, f, recs)
      BY LevelsBothWays
    <2>2. Map!Snapshot(side) = f
      BY <1>1, <2>1, SnapshotsAgree
    <2>3. f \in Seq(LevelSet) /\ DOMAIN f = 1..m
      BY <2>1, LevelsAre DEF Ways
    <2>4. Snapshot(side, LevelCount(side)) = f
      <3>1. BestFirst(levels[side]) = f
        BY <2>1 DEF BestFirst
      <3> QED
        BY <2>1, <2>3, <3>1, SnapshotIs
    <2>5. f = <<>> <=> m = 0
      BY <2>1, <2>3
    <2>6. levels[side] = <<>> <=> m = 0
      <3>1. levels[side] \in Seq(LevelSet)
        BY <2>1, LevelsAre DEF Ways
      <3> QED
        BY <2>1, <3>1
    <2>7. m # 0 => Best(side) = f[1].price /\ f[1] = Head(f)
      <3>1. m # 0 => f[1] = b[m]
        BY <2>1
      <3> QED
        BY <2>1, <2>3, <2>6, <3>1 DEF Best
    <2>8. m = 0 => Best(side) = 0
      BY <2>6 DEF Best
    <2>9. ASSUME NEW n \in 0..m
          PROVE  VolumeAtLevel(side, n) = IF n = m THEN 0 ELSE f[n + 1].volume
      <3>1. CASE n = m
        BY <2>1, <3>1 DEF VolumeAtLevel
      <3>2. CASE n # m
        <4>1. n + 1 \in 1..m /\ ~ (n >= m) /\ m + 1 - (n + 1) = m - n
          <5>1. m \in Nat
            BY <2>1
          <5> QED
            BY <3>2, <5>1
        <4>2. f[n + 1] = b[m - n]
          BY <2>1, <4>1
        <4> QED
          BY <2>1, <3>2, <4>1, <4>2 DEF VolumeAtLevel
      <3> QED
        BY <3>1, <3>2
    <2> QED
      BY <2>1, <2>2, <2>4, <2>5, <2>7, <2>8, <2>9
  <1> QED
    BY <1>2, <1>3, Zenon DEF BooksAgree

(* The vector book, with any layout and search, and the map book hold the  *)
(* same orders and show the same levels after every sequence of updates.   *)
THEOREM TheBooksAgree == Spec2 => []BooksAgree
  <1> QED
    BY InvAgree, BooksInvariance, PTL

-----------------------------------------------------------------------------
(* OrderBook adds volumes up with a fold over a set of orders: what it     *)
(* adds up is the number of their shares.                                  *)
Resting(r, side, p) == {id \in DOMAIN r : r[id].side = side /\ r[id].price = p}

Only(r, s) == [id \in s |-> r[id]]

One(s) == CHOOSE id \in s : TRUE

LEMMA OnlyIs ==
    ASSUME NEW r, IsOrders(r), NEW side, NEW p, NEW s \in SUBSET Resting(r, side, p)
    PROVE  /\ IsOrders(Only(r, s))
           /\ \A id : RestsAt(Only(r, s), id, side, p) <=> id \in s
           /\ \A id \in s : Only(r, s)[id] = r[id] /\ r[id].volume \in Nat
  <1>1. \A id \in s : id \in DOMAIN r /\ r[id].side = side /\ r[id].price = p
    BY DEF Resting
  <1>2. \A id \in DOMAIN r : /\ id \in Ids /\ r[id].side \in Sides /\ r[id].price \in Prices
                             /\ r[id].volume \in 1..MaxVolume
    BY DEF IsOrders
  <1>3. DOMAIN Only(r, s) = s /\ \A id \in s : Only(r, s)[id] = r[id]
    BY DEF Only
  <1>4. \A id \in s : r[id].volume \in Nat
    BY <1>1, <1>2, VolumeAssumption
  <1>5. IsOrders(Only(r, s))
    BY <1>1, <1>2, <1>3, Zenon DEF IsOrders
  <1> QED
    BY <1>1, <1>3, <1>4, <1>5 DEF RestsAt

LEMMA OnlyWithout ==
    ASSUME NEW r, IsOrders(r), NEW side, NEW p, NEW s \in SUBSET Resting(r, side, p), NEW x \in s
    PROVE  Total(Only(r, s), side, p) = r[x].volume + Total(Only(r, s \ {x}), side, p)
  <1>1. PICK t : t = Only(r, s)
    OBVIOUS
  <1>2. PICK u : u = Only(r, s \ {x})
    OBVIOUS
  <1>3. IsOrders(t) /\ RestsAt(t, x, side, p) /\ t[x] = r[x] /\ r[x].volume \in Nat
    BY <1>1, OnlyIs
  <1>4. IsOrders(u) /\ ~ RestsAt(u, x, side, p)
    <2>1. s \ {x} \in SUBSET Resting(r, side, p)
      OBVIOUS
    <2> QED
      BY <1>2, <2>1, OnlyIs
  <1>5. SameButFor(t, u, x)
    BY <1>1, <1>2 DEF SameButFor, Only
  <1>6. PICK n \in Nat : n = Cardinality(SharesOfOthers(t, x, side, p))
    BY <1>3, OrderAndOthers
  <1>7. n = Cardinality(SharesOfOthers(u, x, side, p))
    BY <1>5, <1>6, OthersStay
  <1>8. Total(t, side, p) = n + t[x].volume
    BY <1>3, <1>6, OrderAndOthers
  <1>9. Total(u, side, p) = n
    BY <1>4, <1>7, OrderAndOthers
  <1> QED
    BY <1>1, <1>2, <1>3, <1>8, <1>9

LEMMA OnlyAll ==
    ASSUME NEW r, NEW side, NEW p
    PROVE  /\ Total(Only(r, Resting(r, side, p)), side, p) = Total(r, side, p)
           /\ Total(Only(r, {}), side, p) = 0
  <1>1. PICK t : t = Only(r, Resting(r, side, p))
    OBVIOUS
  <1>2. PICK u : u = Only(r, {})
    OBVIOUS
  <1>3. \A id : RestsAt(t, id, side, p) <=> RestsAt(r, id, side, p)
    BY <1>1 DEF RestsAt, Only, Resting
  <1>4. \A id : RestsAt(r, id, side, p) => t[id] = r[id]
    BY <1>1 DEF RestsAt, Only, Resting
  <1>5. Shares(t, side, p) = Shares(r, side, p)
    <2>1. ASSUME NEW s
          PROVE  s \in Shares(t, side, p) <=> s \in Shares(r, side, p)
      <3>1. CASE \E k, n : s = <<k, n>>
        <4>1. PICK k, n : s = <<k, n>>
          BY <3>1
        <4> QED
          BY <1>3, <1>4, <4>1, SharesArePairs
      <3>2. CASE ~ \E k, n : s = <<k, n>>
        BY <3>2, SharesArePairs
      <3> QED
        BY <3>1, <3>2
    <2> QED
      BY <2>1
  <1>6. Shares(u, side, p) = {}
    <2>1. \A id : ~ RestsAt(u, id, side, p)
      BY <1>2 DEF RestsAt, Only
    <2> QED
      BY <2>1, SharesArePairs
  <1> QED
    BY <1>1, <1>2, <1>5, <1>6, FS_EmptySet DEF Total

\* The fold of MapThenSumSet over the volumes.
Fold(r, S, f) ==
    [s \in SUBSET S |-> IF s = {} THEN 0 ELSE r[One(s)].volume + f[s \ {One(s)}]]

LEMMA FoldIs ==
    ASSUME NEW r, IsOrders(r), NEW side, NEW p, NEW S, S = Resting(r, side, p)
    PROVE  /\ \E f : f = Fold(r, S, f)
           /\ \A f : f = Fold(r, S, f) => f[S] = Total(r, side, p)
  <1>1. PICK g : g = [s \in SUBSET S |-> Total(Only(r, s), side, p)]
    OBVIOUS
  <1>2. \A s \in SUBSET S : /\ g[s] = Total(Only(r, s), side, p)
                            /\ s # {} => One(s) \in s /\ s \ {One(s)} \in SUBSET S
    BY <1>1 DEF One
  <1>3. \A s \in SUBSET S :
          g[s] = IF s = {} THEN 0 ELSE r[One(s)].volume + g[s \ {One(s)}]
    <2>1. TAKE s \in SUBSET S
    <2>2. CASE s = {}
      BY <1>2, <2>2, OnlyAll
    <2>3. CASE s # {}
      <3>1. PICK x : x = One(s) /\ x \in s /\ s \ {x} \in SUBSET S
        BY <1>2, <2>3
      <3>2. Total(Only(r, s), side, p) = r[x].volume + Total(Only(r, s \ {x}), side, p)
        BY <3>1, OnlyWithout
      <3>3. g[s] = r[x].volume + g[s \ {x}]
        BY <1>2, <3>1, <3>2
      <3> QED
        BY <2>3, <3>1, <3>3, Zenon
    <2> QED
      BY <2>2, <2>3
  <1>4. g = Fold(r, S, g)
    BY <1>1, <1>3 DEF Fold
  <1>5. g[S] = Total(r, side, p)
    BY <1>2, OnlyAll
  <1>6. IsFiniteSet(S)
    BY NodesAssumption, FS_Subset DEF IsOrders, Resting
  <1>7. ASSUME NEW f, f = Fold(r, S, f)
        PROVE  f[S] = g[S]
    <2>1. \A s \in SUBSET S :
            f[s] = IF s = {} THEN 0 ELSE r[One(s)].volume + f[s \ {One(s)}]
      BY <1>7, Zenon DEF Fold
    <2>2. SUFFICES ASSUME f[S] # g[S]
                   PROVE  FALSE
      OBVIOUS
    <2>3. \A s \in SUBSET S : IsFiniteSet(s) /\ Cardinality(s) \in Nat
      BY <1>6, FS_Subset, FS_CardinalityType
    <2>4. PICK Wrong : Wrong = {Cardinality(s) : s \in {s \in SUBSET S : f[s] # g[s]}}
      OBVIOUS
    <2>5. Wrong \in SUBSET Nat /\ Wrong # {}
      BY <2>2, <2>3, <2>4
    <2>6. PICK s \in SUBSET S : f[s] # g[s] /\ \A c \in Wrong : Cardinality(s) <= c
      <3>1. Min(Wrong) \in Wrong /\ \A c \in Wrong : Min(Wrong) <= c
        BY <2>5, MinIsLeast
      <3> QED
        BY <2>4, <3>1
    <2>7. s # {}
      BY <1>3, <2>1, <2>6
    <2>8. PICK x : x = One(s) /\ x \in s /\ s \ {x} \in SUBSET S
      BY <1>2, <2>7
    <2>9. f[s \ {x}] # g[s \ {x}]
      BY <1>3, <2>1, <2>6, <2>7, <2>8
    <2>10. Cardinality(s \ {x}) \in Wrong
      BY <2>4, <2>8, <2>9
    <2>11. Cardinality(s \ {x}) = Cardinality(s) - 1
      BY <2>3, <2>8, FS_RemoveElement
    <2> QED
      BY <2>3, <2>6, <2>10, <2>11
  <1> QED
    BY <1>4, <1>5, <1>7

LEMMA SumIsTotal ==
    ASSUME NEW r, IsOrders(r), NEW side, NEW p
    PROVE  Book!Total(r, side, p) = Total(r, side, p)
  <1>1. PICK S : S = {id \in Book!OrdersOf(r, side) : r[id].price = p}
    OBVIOUS
  <1>2. S = Resting(r, side, p)
    BY <1>1 DEF Book!OrdersOf, Resting
  <1>3. PICK iter : iter = CHOOSE f : f = Fold(r, S, f)
    OBVIOUS
  <1>4. Book!Total(r, side, p) = iter[S]
    BY <1>1, <1>3, Zenon DEF Book!Total, Book!MapThenSumSet, Book!MapThenFoldSet, Fold, One
  <1>5. iter = Fold(r, S, iter)
    BY <1>2, <1>3, FoldIs, Zenon
  <1> QED
    BY <1>2, <1>4, <1>5, FoldIs

-----------------------------------------------------------------------------
(* The vector book implements OrderBook.                                   *)
Shown == [side \in Sides |-> Snapshot(side, LevelCount(side))]

\* Its levels are those of its orders, listed as OrderBook lists them.
LEMMA SideShows ==
    ASSUME BooksInv, NEW side \in Sides
    PROVE  Book!DepthOf(recs)[side] = Shown[side]
  <1>1. PICK m, f, b :
           /\ m \in Nat
           /\ f = IF layout = "forward" THEN levels[side] ELSE Reverse(levels[side])
           /\ b = IF layout = "forward" THEN Reverse(levels[side]) ELSE levels[side]
           /\ IsLevels("forward", side, f) /\ IsLevels("backward", side, b)
           /\ m = Len(levels[side]) /\ Len(f) = m /\ Len(b) = m
           /\ \A j \in 1..m : f[j] = b[m + 1 - j]
           /\ Mirrors("forward", side, f, recs)
    BY LevelsBothWays
  <1>2. /\ f \in Seq(LevelSet) /\ DOMAIN f = 1..m /\ m \in Nat
        /\ \A j \in 1..m : f[j].volume = Total(recs, side, f[j].price)
        /\ \A p \in Prices : Total(recs, side, p) > 0 => \E j \in 1..m : f[j].price = p
    <2>1. f \in Seq(LevelSet) /\ DOMAIN f = 1..m /\ m \in Nat
      BY <1>1, LevelsAre DEF Ways
    <2> QED
      BY <1>1, <2>1, Zenon DEF Mirrors
  <1>3. \A j \in 1..m : /\ f[j] = Level(f[j].price, f[j].volume)
                        /\ f[j].price \in Prices /\ f[j].price \in Int /\ f[j].volume \in Nat \ {0}
    BY <1>1, LevelsAre DEF Ways
  <1>4. Shown[side] = f
    <2>1. BestFirst(levels[side]) = f
      BY <1>1 DEF BestFirst
    <2> QED
      BY <1>1, <1>2, <2>1, SnapshotIs DEF Shown
  <1>5. IsOrders(recs)
    BY TableIsOrders DEF BooksInv, BookInv
  <1>6. PICK qs : qs = Book!PricesOf(recs, side)
    OBVIOUS
  <1>7. \A q : q \in qs <=> \E j \in 1..m : f[j].price = q
    <2>1. \A q : q \in qs <=> \E id : RestsAt(recs, id, side, q)
      BY <1>6 DEF Book!PricesOf, Book!OrdersOf, RestsAt
    <2>2. \A q : Total(recs, side, q) > 0 <=> q \in qs
      BY <1>5, <2>1, LevelHasOrder
    <2>3. \A q : q \in qs => q \in Prices
      BY <1>5, <2>1 DEF IsOrders, RestsAt
    <2> QED
      BY <1>2, <1>3, <2>2, <2>3
  <1>8. PICK g : g = [j \in 1..m |-> f[j].price]
    OBVIOUS
  <1>9. /\ g \in [1..m -> qs]
        /\ \A q \in qs : \E j \in 1..m : g[j] = q
        /\ \A j, k \in 1..m : j < k => Better(side, g[j], g[k])
    <2>1. \A j, k \in 1..m : j < k => Better(side, f[j].price, f[k].price)
      BY <1>1, <1>2 DEF IsLevels, Precedes
    <2> QED
      BY <1>7, <1>8, <2>1
  <1>10. IsFiniteSet(qs) /\ Cardinality(qs) = m
    <2>1. \A q \in qs : q \in Int
      BY <1>3, <1>7
    <2>2. \A j, k \in 1..m : g[j] = g[k] => j = k
      <3> SUFFICES ASSUME NEW j \in 1..m, NEW k \in 1..m, g[j] = g[k]
                   PROVE  j = k
        OBVIOUS
      <3>1. g[j] \in Int
        BY <1>9, <2>1
      <3>2. ~ Better(side, g[j], g[k]) /\ ~ Better(side, g[k], g[j])
        BY <3>1 DEF Better
      <3> QED
        BY <1>9, <3>2
    <2>3. IsFiniteSet(1..m) /\ Cardinality(1..m) = m
      BY <1>2, FS_Interval
    <2>4. g \in Injection(1..m, qs) /\ g \in Surjection(1..m, qs)
      BY <1>9, <2>2 DEF Injection, IsInjective, Surjection
    <2> QED
      BY <2>3, <2>4, FS_Surjection
  <1>11. PICK key : key = [q \in qs |-> q]
    OBVIOUS
  <1>12. \A q \in qs : key[q] = q /\ key[q] \in Int
    BY <1>3, <1>7, <1>11
  <1>13. PICK ps : ps = CHOOSE s \in [1..Cardinality(qs) -> qs] :
                          \A j, k \in DOMAIN s : j < k => Better(side, s[j], s[k])
    OBVIOUS
  <1>14. /\ ps \in [1..m -> qs]
         /\ \A j, k \in 1..m : j < k => Better(side, ps[j], ps[k])
    <2>1. \E s \in [1..m -> qs] : \A j, k \in DOMAIN s : j < k => Better(side, s[j], s[k])
      BY <1>9
    <2>2. /\ ps \in [1..m -> qs]
          /\ \A j, k \in DOMAIN ps : j < k => Better(side, ps[j], ps[k])
      BY <1>10, <1>13, <2>1, Zenon
    <2> QED
      BY <2>2
  <1>15. SortedBy(g, qs, side, key) /\ SortedBy(ps, qs, side, key)
    <2>1. ASSUME NEW h \in [1..m -> qs],
                 \A j, k \in 1..m : j < k => Better(side, h[j], h[k])
          PROVE  SortedBy(h, qs, side, key)
      <3>1. \A j \in 1..m : key[h[j]] = h[j]
        BY <1>12
      <3>2. DOMAIN h = 1..m
        OBVIOUS
      <3> QED
        BY <1>10, <2>1, <3>1, <3>2, Zenon DEF SortedBy
    <2> QED
      BY <1>9, <1>14, <2>1
  <1>16. ps = g
    BY <1>10, <1>12, <1>15, OneListing
  <1>17. Book!DepthOf(recs)[side] = [j \in DOMAIN ps |-> Book!Level(ps[j], Book!Total(recs, side, ps[j]))]
    <2>1. Book!Cardinality(qs) = Cardinality(qs)
      BY Zenon DEF Book!Cardinality, Cardinality
    <2>2. side \in Book!Sides
      BY DEF Book!Sides, Sides
    <2>3. Book!DepthOf(recs)[side] =
            LET all == Book!PricesOf(recs, side)
                in == CHOOSE s \in [1..Book!Cardinality(all) -> all] :
                        \A j, k \in DOMAIN s : j < k => Book!Better(side, s[j], s[k])
            IN  [j \in DOMAIN in |-> Book!Level(in[j], Book!Total(recs, side, in[j]))]
      BY <2>2, Zenon DEF Book!DepthOf
    <2> QED
      BY <1>6, <1>13, <2>1, <2>3, Zenon DEF Book!Better, Better
  <1>18. \A j \in 1..m : Book!Level(ps[j], Book!Total(recs, side, ps[j])) = f[j]
    <2>1. TAKE j \in 1..m
    <2>2. ps[j] = f[j].price
      BY <1>8, <1>16
    <2>3. Book!Total(recs, side, ps[j]) = f[j].volume
      BY <1>2, <1>5, <2>2, SumIsTotal
    <2> QED
      BY <1>3, <2>2, <2>3 DEF Book!Level, Level
  <1>19. Book!DepthOf(recs)[side] = [j \in 1..m |-> f[j]]
    <2>1. DOMAIN ps = 1..m
      BY <1>14
    <2> QED
      BY <1>17, <1>18, <2>1
  <1>20. f = [j \in 1..m |-> f[j]]
    BY <1>2
  <1> QED
    BY <1>4, <1>19, <1>20

LEMMA DepthIsShown == BooksInv => Book!DepthOf(recs) = Shown
  <1> SUFFICES ASSUME BooksInv
               PROVE  Book!DepthOf(recs) = Shown
    OBVIOUS
  <1>1. DOMAIN Book!DepthOf(recs) = Sides
    BY DEF Book!DepthOf, Book!Sides, Sides
  <1>2. \A side \in Sides : Book!DepthOf(recs)[side] = Shown[side]
    BY SideShows
  <1>3. Book!DepthOf(recs) = [side \in Sides |-> Book!DepthOf(recs)[side]]
    <2> DEFINE Depth(side) ==
                 LET all == Book!PricesOf(recs, side)
                     in == CHOOSE s \in [1..Book!Cardinality(all) -> all] :
                             \A j, k \in DOMAIN s : j < k => Book!Better(side, s[j], s[k])
                 IN  [j \in DOMAIN in |-> Book!Level(in[j], Book!Total(recs, side, in[j]))]
    <2>1. Book!DepthOf(recs) = [side \in Sides |-> Depth(side)]
      BY Zenon DEF Book!DepthOf, Book!Sides, Sides
    <2> HIDE DEF Depth
    <2> QED
      BY <2>1
  <1>4. Shown = [side \in Sides |-> Shown[side]]
    BY DEF Shown
  <1> QED
    BY <1>2, <1>3, <1>4, Zenon

\* Every handler does to the orders what its namesake of OrderBook does.
LEMMA OrdersStep ==
    ASSUME [Next2]_bothVars, (Book!DepthOf(recs) = Shown)'
    PROVE  [Book!Next]_(Book!vars)
  <1>1. CASE UNCHANGED bothVars
    <2>1. UNCHANGED <<layout, recs, levels>>
      BY <1>1 DEF bothVars, vars
    <2>2. Shown' = Shown
      BY <2>1 DEF Shown, Snapshot, LevelCount, BestFirst
    <2> QED
      BY <2>1, <2>2 DEF Book!vars, Shown
  <1>2. CASE Next2
    <2>1. PICK id \in Ids :
             \/ \E side \in Sides, p \in Prices, v \in 1..MaxVolume : OnAdd(id, side, p, v)
             \/ \E v \in 0..MaxVolume : OnModify(id, v)
             \/ OnDelete(id)
      BY <1>2 DEF Next2
    <2>2. CASE \E side \in Sides, p \in Prices, v \in 1..MaxVolume : OnAdd(id, side, p, v)
      <3>1. PICK side \in Sides, p \in Prices, v \in 1..MaxVolume : OnAdd(id, side, p, v)
        BY <2>2
      <3>2. Book!Add(id, side, p, v) /\ side \in Book!Sides
        BY <3>1, Zenon DEF OnAdd, Book!Add, Book!Live, Live, Book!Order, Book!Sides, Sides
      <3>3. Book!Next
        BY <3>2, Zenon DEF Book!Next, Shown
      <3> QED
        BY <3>3
    <2>3. ASSUME OnDelete(id)
          PROVE  Book!Delete(id)
      BY <2>3, Zenon DEF OnDelete, Book!Delete, Book!Live, Live
    <2>4. CASE \E v \in 0..MaxVolume : OnModify(id, v)
      <3>1. PICK v \in 0..MaxVolume : OnModify(id, v)
        BY <2>4
      <3>2. Book!Modify(id, v)
        <4>1. CASE v <= 0 /\ OnDelete(id)
          <5>1. ~ (v > 0)
            BY <4>1
          <5>2. id \in Live
            BY <4>1 DEF OnDelete
          <5> QED
            BY <2>3, <4>1, <5>1, <5>2, Zenon DEF Book!Modify, Book!Live, Live
        <4>2. CASE v > 0 /\ id \in Live /\ recs' = [recs EXCEPT ![id].volume = v]
          BY <4>2, Zenon DEF Book!Modify, Book!Live, Live
        <4> QED
          BY <3>1, <4>1, <4>2, Zenon DEF OnModify
      <3> QED
        BY <3>2, Zenon DEF Book!Next, Shown
    <2>5. CASE OnDelete(id)
      BY <2>3, <2>5, Zenon DEF Book!Next, Shown
    <2> QED
      BY <2>1, <2>2, <2>4, <2>5
  <1> QED
    BY <1>1, <1>2

(* With any layout and search, the vector book shows after every sequence  *)
(* of updates what its orders add up to, level by level, best first: each  *)
(* step of it is a step of OrderBook.                                      *)
THEOREM VectorBookImplementsBook == Spec2 => ImplementsBook
  <1>1. Init2 => Book!Init
    <2> SUFFICES ASSUME Init2
                 PROVE  Book!Init
      OBVIOUS
    <2>1. Book!DepthOf(recs) = Shown
      BY BooksInit, DepthIsShown
    <2>2. recs = [id \in {} |-> Book!Order("Bid", 0, 0)]
      BY DEF Init2, Init
    <2> QED
      BY <2>1, <2>2, Zenon DEF Book!Init, Shown
  <1>2. BooksInv' => (Book!DepthOf(recs) = Shown)'
    BY DepthIsShown, PTL
  <1>3. BooksInv' /\ [Next2]_bothVars => [Book!Next]_(Book!vars)
    BY <1>2, OrdersStep
  <1> QED
    BY <1>1, <1>3, BooksInvariance, PTL DEF Spec2, ImplementsBook, Book!Spec

-----------------------------------------------------------------------------
(* The map book implements OrderBook because the vector book does, and the *)
(* two cannot be told apart.                                               *)
MapShown == [side \in Sides |-> Map!Snapshot(side)]

LEMMA TheyShowTheSame == BooksAgree => Map!Orders = recs /\ MapShown = Shown
  <1> SUFFICES ASSUME BooksAgree
               PROVE  Map!Orders = recs /\ MapShown = Shown
    OBVIOUS
  <1>1. recs = Map!Orders /\ \A side \in Sides : Snapshot(side, LevelCount(side)) = Map!Snapshot(side)
    BY DEF BooksAgree
  <1> QED
    BY <1>1 DEF MapShown, Shown

\* The two instances of OrderBook define the same.
LEMMA SameDepth == \A r : MapShows!DepthOf(r) = Book!DepthOf(r)
  BY Zenon DEF MapShows!DepthOf, Book!DepthOf, MapShows!PricesOf, Book!PricesOf,
     MapShows!OrdersOf, Book!OrdersOf, MapShows!Total, Book!Total, MapShows!Level, Book!Level,
     MapShows!Better, Book!Better, MapShows!Sides, Book!Sides,
     MapShows!MapThenSumSet, Book!MapThenSumSet, MapShows!MapThenFoldSet, Book!MapThenFoldSet,
     MapShows!Cardinality, Book!Cardinality

LEMMA SameSteps ==
    ASSUME Map!Orders = recs, (Map!Orders = recs)', [Book!Next]_(Book!vars),
           MapShown = Shown, (MapShown = Shown)'
    PROVE  [MapShows!Next]_(MapShows!vars)
  <1>1. CASE UNCHANGED Book!vars
    BY <1>1, Zenon DEF Book!vars, MapShows!vars, MapShown, Shown
  <1>2. CASE Book!Next
    <2>1. ASSUME NEW id, Book!Delete(id)
          PROVE  MapShows!Delete(id)
      BY <2>1, Zenon DEF Book!Delete, MapShows!Delete, Book!Live, MapShows!Live
    <2>2. ASSUME NEW id, NEW v, Book!Modify(id, v)
          PROVE  MapShows!Modify(id, v)
      BY <2>1, <2>2, Zenon DEF Book!Modify, MapShows!Modify, Book!Live, MapShows!Live
    <2>3. ASSUME NEW id, NEW side, NEW p, NEW v, Book!Add(id, side, p, v)
          PROVE  MapShows!Add(id, side, p, v)
      BY <2>3, Zenon DEF Book!Add, MapShows!Add, Book!Live, MapShows!Live, Book!Order, MapShows!Order
    <2>4. MapShown' = MapShows!DepthOf(Map!Orders')
      BY <1>2, SameDepth, Zenon DEF Book!Next, Shown
    <2>5. \E id \in Ids :
            \/ \E side \in MapShows!Sides, p \in Prices, v \in 1..MaxVolume : MapShows!Add(id, side, p, v)
            \/ \E v \in 0..MaxVolume : MapShows!Modify(id, v)
            \/ MapShows!Delete(id)
      BY <1>2, <2>1, <2>2, <2>3, Zenon DEF Book!Next, Book!Sides, MapShows!Sides
    <2> QED
      BY <2>4, <2>5, Zenon DEF MapShows!Next, MapShown
  <1> QED
    BY <1>1, <1>2

(* With any history, the map book shows what its orders add up to, level   *)
(* by level, best first.                                                   *)
THEOREM MapBookImplementsBook == Spec2 => MapImplementsBook
  <1>1. BooksAgree /\ Book!Init => MapShows!Init
    BY TheyShowTheSame, SameDepth, Zenon
       DEF Book!Init, MapShows!Init, Book!Order, MapShows!Order, MapShown, Shown
  <1>2. BooksAgree' => (Map!Orders = recs)' /\ (MapShown = Shown)'
    BY TheyShowTheSame, PTL
  <1>3. BooksAgree /\ BooksAgree' /\ [Book!Next]_(Book!vars) => [MapShows!Next]_(MapShows!vars)
    BY <1>2, TheyShowTheSame, SameSteps
  <1> QED
    BY <1>1, <1>3, TheBooksAgree, VectorBookImplementsBook, PTL
       DEF ImplementsBook, MapImplementsBook, Book!Spec, MapShows!Spec

-----------------------------------------------------------------------------
(* The loop of BranchlessSearch::Find, iteration by iteration, for every   *)
(* number of levels and every place of the price among them.               *)
LEMMA SearchStarts == SearchInit => SearchInv
  BY MaxLevelsAssumption
     DEF SearchInit, SearchInv, TypeOK, WindowInside, WindowHolds, FindsLowerBound

LEMMA SearchKeeps == SearchInv /\ [SearchNext]_searchVars => SearchInv'
  <1> SUFFICES ASSUME SearchInv, [SearchNext]_searchVars
               PROVE  SearchInv'
    OBVIOUS
  <1> USE DEF SearchInv, TypeOK, WindowInside, WindowHolds,
              FindsLowerBound
  <1>1. CASE Empty
    BY <1>1 DEF Empty
  <1>2. CASE Halve
    <2> DEFINE half == len \div 2
    <2>1. half \in Nat /\ 0 < half /\ half < len
      BY <1>2 DEF Halve
    <2>2. /\ base' = base + Times(After(base + half), half)
          /\ len' = len - half
          /\ UNCHANGED <<size, place, pc, result>>
      BY <1>2 DEF Halve
    <2> HIDE DEF half
    <2>3. base' = IF base + half < place THEN base + half ELSE base
      BY <2>1, <2>2 DEF Times, After
    <2> QED
      BY <1>2, <2>1, <2>2, <2>3 DEF Halve
  <1>3. CASE Finish
    BY <1>3 DEF Finish, Times, After
  <1>4. CASE UNCHANGED searchVars
    BY <1>4 DEF searchVars
  <1> QED
    BY <1>1, <1>2, <1>3, <1>4 DEF SearchNext

(* The window stays in the vector and keeps the place of the price.        *)
THEOREM SearchInvariance == SearchSpec => []SearchInv
  <1> QED
    BY SearchStarts, SearchKeeps, PTL DEF SearchSpec

(* The branchless search and std::lower_bound agree, whatever the number   *)
(* of levels and the place of the price.                                   *)
THEOREM BranchlessIsLowerBound == SearchSpec => []FindsLowerBound
  <1>1. SearchInv => FindsLowerBound
    BY DEF SearchInv
  <1> QED
    BY <1>1, SearchInvariance, PTL

(* The search reads no level outside of the vector: in the loop and after  *)
(* it, base + half and base are below n.                                   *)
THEOREM ReadsInside == SearchSpec => []WindowInside
  <1>1. SearchInv => WindowInside
    BY DEF SearchInv
  <1> QED
    BY <1>1, SearchInvariance, PTL
=============================================================================
