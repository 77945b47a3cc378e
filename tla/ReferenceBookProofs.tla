------------------------- MODULE ReferenceBookProofs -------------------------
(***************************************************************************)
(* ReferenceBook, for any ids, prices and volumes: its index and levels    *)
(* stay consistent, so none of its .at calls ever throws; its three ways   *)
(* to count agree; and it implements OrderBook.                            *)
(***************************************************************************)
EXTENDS ReferenceBook, FiniteSetTheorems, WellFoundedInduction, TLAPS

(* A map after m[k] = v, and after m.erase(k).                             *)
LEMMA PutFacts ==
  ASSUME NEW m, NEW k, NEW v, NEW K, NEW V, IsMap(m, K, V), k \in K, v \in V
  PROVE  /\ IsMap(Put(m, k, v), K, V)
         /\ DOMAIN Put(m, k, v) = DOMAIN m \cup {k}
  BY DEF IsMap, Put

LEMMA DropFacts ==
  ASSUME NEW m, NEW k, NEW K, NEW V, IsMap(m, K, V)
  PROVE  /\ IsMap(Drop(m, k), K, V)
         /\ DOMAIN Drop(m, k) = DOMAIN m \ {k}
  BY DEF IsMap, Drop

LEMMA LevelFacts ==
  ASSUME NEW total, NEW orders
  PROVE  /\ LevelOrders(total, orders).total = total
         /\ LevelOrders(total, orders).orders = orders
  BY DEF LevelOrders

\* b is book with the levels of the prices ps, the one of p among them, and
\* only the level of p touched.
SameBut(b, book, p, ps) ==
    /\ DOMAIN b = ps
    /\ \A q \in ps \ {p} : b[q] = book[q]

(* Replacing, adding or dropping one level leaves the other prices alone.  *)
LEMMA PutLevel ==
  ASSUME NEW book, IsBook(book), NEW p \in Prices, NEW lvl, IsLevel(lvl)
  PROVE  /\ IsBook(Put(book, p, lvl))
         /\ SameBut(Put(book, p, lvl), book, p, DOMAIN book \cup {p})
         /\ Put(book, p, lvl)[p] = lvl
  BY DEF IsBook, Put, SameBut

LEMMA DropLevel ==
  ASSUME NEW book, IsBook(book), NEW p
  PROVE  /\ IsBook(Drop(book, p))
         /\ SameBut(Drop(book, p), book, p, DOMAIN book \ {p})
  BY DEF IsBook, Drop, SameBut

(* In which level of a side an order is.                                   *)
Has(book, id, p) == p \in DOMAIN book /\ id \in DOMAIN book[p].orders

NoEmpty(book) == \A p \in DOMAIN book : DOMAIN book[p].orders # {}

LEMMA InsertFacts ==
  ASSUME NEW book, IsBook(book), NoEmpty(book),
         NEW p \in Prices, NEW id \in Ids, NEW v \in Volume
  PROVE  /\ IsBook(Insert(book, p, id, v)) /\ NoEmpty(Insert(book, p, id, v))
         /\ \A q, k : Has(Insert(book, p, id, v), k, q)
                       <=> Has(book, k, q) \/ (q = p /\ k = id)
  <1> DEFINE lvl == LevelFor(book, p)
             new == LevelOrders(lvl.total + v, Put(lvl.orders, id, v))
  <1>1. /\ IsLevel(lvl)
        /\ p \in DOMAIN book => lvl = book[p]
        /\ p \notin DOMAIN book => DOMAIN lvl.orders = {}
    BY DEF LevelFor, IsBook, IsLevel, IsMap, LevelOrders, EmptyMap
  <1>2. IsLevel(new) /\ DOMAIN new.orders = DOMAIN lvl.orders \cup {id}
    <2> HIDE DEF lvl
    <2>1. lvl.total + v \in Int
      BY <1>1, VolumeAssumption DEF IsLevel, Volume
    <2>2. IsMap(lvl.orders, Ids, Volume)
      BY <1>1 DEF IsLevel
    <2>3. /\ IsMap(Put(lvl.orders, id, v), Ids, Volume)
          /\ DOMAIN Put(lvl.orders, id, v) = DOMAIN lvl.orders \cup {id}
      BY <2>2, PutFacts
    <2>4. new.total = lvl.total + v /\ new.orders = Put(lvl.orders, id, v)
      BY LevelFacts
    <2> QED
      BY <2>1, <2>3, <2>4 DEF IsLevel
  <1>3. Insert(book, p, id, v) = Put(book, p, new)
    BY DEF Insert
  <1> DEFINE b == Insert(book, p, id, v)
  <1> HIDE DEF lvl, new
  <1>4. /\ IsBook(b) /\ b[p] = new
        /\ SameBut(b, book, p, DOMAIN book \cup {p})
    BY <1>1, <1>2, <1>3, PutLevel
  <1> HIDE DEF b
  <1>5. NoEmpty(b)
    BY <1>2, <1>4 DEF NoEmpty, SameBut
  <1>6. ASSUME NEW q, NEW k
        PROVE  Has(b, k, q) <=> Has(book, k, q) \/ (q = p /\ k = id)
    <2>1. CASE q = p
      BY <1>1, <1>2, <1>4, <2>1 DEF Has, SameBut
    <2>2. CASE q # p
      BY <1>4, <2>2 DEF Has, SameBut
    <2> QED
      BY <2>1, <2>2
  <1> QED
    BY <1>4, <1>5, <1>6 DEF b

LEMMA ChangeFacts ==
  ASSUME NEW book, IsBook(book), NoEmpty(book),
         NEW p \in Prices, NEW id \in Ids, NEW v \in Volume, Has(book, id, p)
  PROVE  /\ IsBook(Change(book, p, id, v)) /\ NoEmpty(Change(book, p, id, v))
         /\ \A q, k : Has(Change(book, p, id, v), k, q) <=> Has(book, k, q)
  <1> DEFINE lvl == book[p]
             new == LevelOrders(lvl.total + (v - lvl.orders[id]), Put(lvl.orders, id, v))
             b == Change(book, p, id, v)
  <1>1. IsLevel(lvl) /\ p \in DOMAIN book /\ id \in DOMAIN lvl.orders
    BY DEF IsBook, Has
  <1>2. IsLevel(new) /\ DOMAIN new.orders = DOMAIN lvl.orders
    <2> HIDE DEF lvl
    <2>1. IsMap(lvl.orders, Ids, Volume) /\ lvl.total \in Int
      BY <1>1 DEF IsLevel
    <2>2. lvl.orders[id] \in Volume
      BY <1>1, <2>1 DEF IsMap
    <2>3. lvl.total + (v - lvl.orders[id]) \in Int
      BY <2>1, <2>2, VolumeAssumption DEF Volume
    <2>4. /\ IsMap(Put(lvl.orders, id, v), Ids, Volume)
          /\ DOMAIN Put(lvl.orders, id, v) = DOMAIN lvl.orders \cup {id}
      BY <2>1, PutFacts
    <2>5. /\ new.total = lvl.total + (v - lvl.orders[id])
          /\ new.orders = Put(lvl.orders, id, v)
      BY LevelFacts
    <2> QED
      BY <1>1, <2>3, <2>4, <2>5 DEF IsLevel
  <1>3. b = Put(book, p, new)
    BY DEF Change
  <1> HIDE DEF new, b
  <1>4. /\ IsBook(b) /\ b[p] = new
        /\ SameBut(b, book, p, DOMAIN book \cup {p})
    BY <1>1, <1>2, <1>3, PutLevel
  <1>5. NoEmpty(b)
    BY <1>1, <1>2, <1>4 DEF NoEmpty, SameBut
  <1>6. \A q, k : Has(b, k, q) <=> Has(book, k, q)
    BY <1>1, <1>2, <1>4 DEF Has, SameBut
  <1> QED
    BY <1>4, <1>5, <1>6 DEF b

LEMMA EraseFacts ==
  ASSUME NEW book, IsBook(book), NoEmpty(book), NEW p \in Prices, NEW id \in Ids
  PROVE  /\ IsBook(Erase(book, p, id)) /\ NoEmpty(Erase(book, p, id))
         /\ \A q, k : Has(Erase(book, p, id), k, q)
                       <=> Has(book, k, q) /\ ~ (q = p /\ k = id)
  <1> DEFINE lvl == book[p]
             less == LevelOrders(lvl.total - lvl.orders[id], Drop(lvl.orders, id))
             left == IF id \in DOMAIN lvl.orders THEN less ELSE lvl
             b == Erase(book, p, id)
  <1>1. CASE p \notin DOMAIN book
    BY <1>1 DEF Erase, Has
  <1>2. CASE p \in DOMAIN book
    <2>1. IsLevel(lvl)
      BY <1>2 DEF IsBook
    <2>2. IsLevel(left) /\ DOMAIN left.orders = DOMAIN lvl.orders \ {id}
      <3> HIDE DEF lvl
      <3>1. IsMap(lvl.orders, Ids, Volume) /\ lvl.total \in Int
        BY <2>1 DEF IsLevel
      <3>2. CASE id \in DOMAIN lvl.orders
        <4>1. lvl.orders[id] \in Volume
          BY <3>1, <3>2 DEF IsMap
        <4>2. lvl.total - lvl.orders[id] \in Int
          BY <3>1, <4>1, VolumeAssumption DEF Volume
        <4>3. /\ IsMap(Drop(lvl.orders, id), Ids, Volume)
              /\ DOMAIN Drop(lvl.orders, id) = DOMAIN lvl.orders \ {id}
          BY <3>1, DropFacts
        <4>4. /\ less.total = lvl.total - lvl.orders[id]
              /\ less.orders = Drop(lvl.orders, id)
          BY LevelFacts
        <4> QED
          BY <3>2, <4>2, <4>3, <4>4 DEF IsLevel
      <3>3. CASE id \notin DOMAIN lvl.orders
        BY <2>1, <3>3
      <3> QED
        BY <3>2, <3>3
    <2>3. b = IF DOMAIN left.orders = {} THEN Drop(book, p) ELSE Put(book, p, left)
      BY <1>2 DEF Erase
    <2> HIDE DEF left, b
    <2>4. CASE DOMAIN left.orders = {}
      <3>1. IsBook(b) /\ SameBut(b, book, p, DOMAIN book \ {p})
        BY <2>3, <2>4, DropLevel
      <3>2. NoEmpty(b)
        BY <3>1 DEF NoEmpty, SameBut
      <3>3. \A q, k : Has(b, k, q) <=> Has(book, k, q) /\ ~ (q = p /\ k = id)
        BY <2>2, <2>4, <3>1 DEF Has, SameBut
      <3> QED
        BY <3>1, <3>2, <3>3 DEF b
    <2>5. CASE DOMAIN left.orders # {}
      <3>1. /\ IsBook(b) /\ b[p] = left
            /\ SameBut(b, book, p, DOMAIN book \cup {p})
        BY <1>2, <2>2, <2>3, <2>5, PutLevel
      <3>2. NoEmpty(b)
        BY <2>5, <3>1 DEF NoEmpty, SameBut
      <3>3. \A q, k : Has(b, k, q) <=> Has(book, k, q) /\ ~ (q = p /\ k = id)
        BY <1>2, <2>2, <3>1 DEF Has, SameBut
      <3> QED
        BY <3>1, <3>2, <3>3 DEF b
    <2> QED
      BY <2>4, <2>5
  <1> QED
    BY <1>1, <1>2

-----------------------------------------------------------------------------
(* The invariant, in terms of the sides' maps.                             *)

\* The orders that index ix places on this side are those that book holds.
Agree(ix, side, book) ==
    \A id \in Ids, p \in Prices :
        Has(book, id, p) <=>
            id \in DOMAIN ix /\ ix[id].side = side /\ ix[id].price = p

IsIndex(ix) == IsMap(ix, Ids, [side : Sides, price : Prices])

LEMMA ConsistentMeaning ==
  Consistent <=>
    /\ sides = [side \in Sides |-> sides[side]]
    /\ IsIndex(index)
    /\ \A side \in Sides :
         /\ IsBook(sides[side]) /\ NoEmpty(sides[side])
         /\ Agree(index, side, sides[side])
  BY DEF Consistent, TypeOK, IndexLocates, NoEmptyLevel, InLevel, Has, NoEmpty,
         Agree, IsIndex

LEMMA ConsistentInit == Init => Consistent
  <1> SUFFICES ASSUME Init
               PROVE  Consistent
    OBVIOUS
  <1>1. /\ \A side \in Sides : sides[side] = EmptyMap
        /\ sides = [side \in Sides |-> sides[side]] /\ index = EmptyMap
    BY DEF Init
  <1>2. DOMAIN EmptyMap = {} /\ IsMap(EmptyMap, Ids, [side : Sides, price : Prices])
        /\ IsBook(EmptyMap)
    BY DEF EmptyMap, IsMap, IsBook
  <1> QED
    BY <1>1, <1>2 DEF Consistent, TypeOK, IndexLocates, NoEmptyLevel, InLevel

(* A step that gives one side a new book, and leaves the places of the     *)
(* orders of the other side alone, keeps the invariant.                    *)
LEMMA OneSide ==
  ASSUME Consistent, NEW side \in Sides, NEW book,
         sides' = [sides EXCEPT ![side] = book],
         IsBook(book), NoEmpty(book), IsIndex(index'), Agree(index', side, book),
         \A s \in Sides \ {side} :
            Agree(index, s, sides[s]) => Agree(index', s, sides[s])
  PROVE  Consistent'
  <1>1. /\ sides = [s \in Sides |-> sides[s]]
        /\ \A s \in Sides :
             /\ IsBook(sides[s]) /\ NoEmpty(sides[s])
             /\ Agree(index, s, sides[s])
    BY ConsistentMeaning
  <1>2. /\ sides' = [s \in Sides |-> sides'[s]]
        /\ sides'[side] = book
        /\ \A s \in Sides \ {side} : sides'[s] = sides[s]
    BY <1>1
  <1>3. \A s \in Sides :
          /\ IsBook(sides'[s]) /\ NoEmpty(sides'[s])
          /\ Agree(index', s, sides'[s])
    BY <1>1, <1>2
  <1>4. TypeOK'
    BY <1>2, <1>3 DEF TypeOK, IsIndex
  <1>5. NoEmptyLevel'
    BY <1>3 DEF NoEmptyLevel, NoEmpty
  <1>6. IndexLocates'
    BY <1>3 DEF IndexLocates, InLevel, Has, Agree
  <1> QED
    BY <1>4, <1>5, <1>6 DEF Consistent

LEMMA AddStep ==
  ASSUME Consistent, NEW id \in Ids, NEW side \in Sides, NEW p \in Prices,
         NEW v \in Volume, OnAdd(id, side, p, v)
  PROVE  Consistent'
  <1> DEFINE book == Insert(sides[side], p, id, v)
             loc == [side |-> side, price |-> p]
  <1>1. /\ IsIndex(index) /\ Agree(index, side, sides[side])
        /\ IsBook(sides[side]) /\ NoEmpty(sides[side])
        /\ sides = [s \in Sides |-> sides[s]]
    BY ConsistentMeaning
  <1>2. /\ sides' = [sides EXCEPT ![side] = book]
        /\ index' = Put(index, id, loc) /\ id \notin DOMAIN index
    BY DEF OnAdd
  <1>3. /\ IsBook(book) /\ NoEmpty(book)
        /\ \A q, k : Has(book, k, q) <=> Has(sides[side], k, q) \/ (q = p /\ k = id)
    BY <1>1, InsertFacts
  <1>4. /\ IsIndex(index') /\ DOMAIN index' = DOMAIN index \cup {id}
        /\ index'[id] = loc /\ \A k \in DOMAIN index : index'[k] = index[k]
    BY <1>1, <1>2 DEF IsIndex, IsMap, Put
  <1> HIDE DEF book
  <1>5. Agree(index', side, book)
    BY <1>1, <1>2, <1>3, <1>4 DEF Agree
  <1>6. ASSUME NEW s \in Sides \ {side}, Agree(index, s, sides[s])
        PROVE  Agree(index', s, sides[s])
    BY <1>2, <1>4, <1>6 DEF Agree
  <1> QED
    BY <1>2, <1>3, <1>4, <1>5, <1>6, OneSide

LEMMA DeleteStep ==
  ASSUME Consistent, NEW id \in Ids, OnDelete(id)
  PROVE  Consistent'
  <1> DEFINE side == index[id].side
             p == index[id].price
             book == Erase(sides[side], p, id)
  <1>1. id \in DOMAIN index /\ sides' = [sides EXCEPT ![side] = book]
        /\ index' = Drop(index, id)
    BY DEF OnDelete
  <1>2. IsIndex(index) /\ side \in Sides /\ p \in Prices
    BY <1>1, ConsistentMeaning DEF IsIndex, IsMap
  <1>3. /\ Agree(index, side, sides[side])
        /\ IsBook(sides[side]) /\ NoEmpty(sides[side])
    BY <1>2, ConsistentMeaning
  <1>4. /\ IsBook(book) /\ NoEmpty(book)
        /\ \A q, k : Has(book, k, q) <=> Has(sides[side], k, q) /\ ~ (q = p /\ k = id)
    BY <1>2, <1>3, EraseFacts
  <1>5. /\ IsIndex(index') /\ DOMAIN index' = DOMAIN index \ {id}
        /\ \A k \in DOMAIN index' : index'[k] = index[k]
    BY <1>1, <1>2 DEF IsIndex, IsMap, Drop
  <1> HIDE DEF book
  <1>6. Agree(index', side, book)
    BY <1>3, <1>4, <1>5 DEF Agree
  <1>7. ASSUME NEW s \in Sides \ {side}, Agree(index, s, sides[s])
        PROVE  Agree(index', s, sides[s])
    BY <1>5, <1>7 DEF Agree
  <1> QED
    BY <1>1, <1>2, <1>4, <1>5, <1>6, <1>7, OneSide

LEMMA ModifyStep ==
  ASSUME Consistent, NEW id \in Ids, NEW v \in Volume, id \in DOMAIN index,
         sides' = [sides EXCEPT ![index[id].side] = Change(@, index[id].price, id, v)],
         UNCHANGED index
  PROVE  Consistent'
  <1> DEFINE side == index[id].side
             p == index[id].price
             book == Change(sides[side], p, id, v)
  <1>1. IsIndex(index) /\ side \in Sides /\ p \in Prices
    BY ConsistentMeaning DEF IsIndex, IsMap
  <1>2. /\ Agree(index, side, sides[side])
        /\ IsBook(sides[side]) /\ NoEmpty(sides[side])
        /\ sides = [s \in Sides |-> sides[s]]
    BY <1>1, ConsistentMeaning
  <1>3. Has(sides[side], id, p)
    BY <1>1, <1>2 DEF Agree
  <1>4. /\ IsBook(book) /\ NoEmpty(book)
        /\ \A q, k : Has(book, k, q) <=> Has(sides[side], k, q)
    BY <1>1, <1>2, <1>3, ChangeFacts
  <1>5. sides' = [sides EXCEPT ![side] = book]
    BY <1>1, <1>2
  <1> HIDE DEF book
  <1>6. Agree(index', side, book)
    BY <1>2, <1>4 DEF Agree
  <1>7. IsIndex(index') /\ \A s \in Sides \ {side} :
            Agree(index, s, sides[s]) => Agree(index', s, sides[s])
    BY <1>1
  <1> QED
    BY <1>1, <1>4, <1>5, <1>6, <1>7, OneSide

LEMMA ConsistentStep == Consistent /\ [Next]_vars => Consistent'
  <1> SUFFICES ASSUME Consistent, [Next]_vars
               PROVE  Consistent'
    OBVIOUS
  <1>1. ASSUME NEW id \in Ids, NEW v \in 0..MaxVolume, OnModify(id, v)
        PROVE  Consistent'
    <2>1. v > 0 => v \in Volume
      BY VolumeAssumption DEF Volume
    <2> QED
      BY <1>1, <2>1, DeleteStep, ModifyStep DEF OnModify
  <1>2. CASE UNCHANGED vars
    BY <1>2 DEF vars, Consistent, TypeOK, IndexLocates, NoEmptyLevel, InLevel
  <1> QED
    BY <1>1, <1>2, AddStep, DeleteStep DEF Next

(* The index and the levels never disagree and no level is empty.          *)
THEOREM Consistency == Spec => []Consistent
  <1> QED
    BY ConsistentInit, ConsistentStep, PTL DEF Spec

(* Every .at of modify and of DebugLookup finds its level and its order.   *)
THEOREM AtNeverThrows == Spec => []IndexLocates
  <1>1. Consistent => IndexLocates
    BY DEF Consistent
  <1> QED
    BY <1>1, Consistency, PTL

(* No level outlives its last order.                                       *)
THEOREM LevelsHaveOrders == Spec => []NoEmptyLevel
  <1>1. Consistent => NoEmptyLevel
    BY DEF Consistent
  <1> QED
    BY <1>1, Consistency, PTL

-----------------------------------------------------------------------------
(* Sums.  MapThenSumSet folds over a set, in an order that CHOOSE picks;   *)
(* what it adds up is the number of the shares that the elements have, a   *)
(* share being an element and a number up to its weight.                   *)
One(s) == CHOOSE x \in s : TRUE

Natural(w, S) == IsFiniteSet(S) /\ \A x \in S : w[x] \in Nat

SharesOf(w, x) == {x} \X (1..w[x])

Shares(w, S) == UNION {SharesOf(w, x) : x \in S}

\* The weights w of the elements of S, added up.
Weight(w, S) == Cardinality(Shares(w, S))

LEMMA LeastOf ==
    ASSUME NEW S \in SUBSET Nat, S # {}
    PROVE  \E x \in S : \A y \in S : x <= y
  <1>1. PICK x \in S : \A y \in S : ~ (<<y, x>> \in OpToRel(<, Nat))
    BY NatLessThanWellFounded, WFMin
  <1>2. OpToRel(<, Nat) = {ss \in Nat \X Nat : ss[1] < ss[2]}
    BY Zenon DEF OpToRel
  <1>3. \A y \in S : x <= y
    <2>1. TAKE y \in S
    <2>2. <<y, x>> \notin {ss \in Nat \X Nat : ss[1] < ss[2]}
      BY <1>1, <1>2, Zenon
    <2> QED
      BY <2>2
  <1> QED
    BY <1>3

\* What is wrong of some subset of S is wrong of a smallest one, and so of
\* none of the smaller sets that are left when an element goes.
LEMMA SmallestSubset ==
    ASSUME NEW S, IsFiniteSet(S), NEW Wrong \in SUBSET (SUBSET S), Wrong # {}
    PROVE  \E s \in Wrong : \A x \in s : \A t \in SUBSET (s \ {x}) : t \notin Wrong
  <1>1. \A s \in SUBSET S : IsFiniteSet(s) /\ Cardinality(s) \in Nat
    BY FS_Subset, FS_CardinalityType
  <1>2. PICK Sizes : Sizes = {Cardinality(s) : s \in Wrong}
    OBVIOUS
  <1>3. Sizes \in SUBSET Nat /\ Sizes # {}
    BY <1>1, <1>2
  <1>4. PICK c \in Sizes : \A d \in Sizes : c <= d
    BY <1>3, LeastOf
  <1>5. PICK s \in Wrong : c = Cardinality(s)
    BY <1>2, <1>4
  <1>6. ASSUME NEW x \in s, NEW t \in SUBSET (s \ {x})
        PROVE  t \notin Wrong
    <2>1. IsFiniteSet(s \ {x}) /\ Cardinality(s \ {x}) = Cardinality(s) - 1
      BY <1>1, FS_RemoveElement
    <2>2. Cardinality(t) <= Cardinality(s \ {x})
      BY <2>1, FS_Subset
    <2>3. Cardinality(t) < c
      <3>1. s \in SUBSET S /\ t \in SUBSET S
        OBVIOUS
      <3>2. Cardinality(t) \in Nat /\ Cardinality(s) \in Nat
        BY <1>1, <3>1
      <3> QED
        BY <1>5, <2>1, <2>2, <3>2
    <2>4. t \in Wrong => c <= Cardinality(t)
      BY <1>2, <1>4
    <2>5. c \in Nat /\ Cardinality(t) \in Nat
      <3>1. t \in SUBSET S
        OBVIOUS
      <3> QED
        BY <1>1, <1>3, <3>1
    <2> QED
      BY <2>3, <2>4, <2>5
  <1> QED
    BY <1>6

LEMMA SharesAre ==
    ASSUME NEW w, NEW S
    PROVE  \A s : s \in Shares(w, S) <=> \E x \in S : s \in SharesOf(w, x)
  BY DEF Shares

LEMMA SharesOfIs ==
    ASSUME NEW w, NEW x, w[x] \in Nat
    PROVE  IsFiniteSet(SharesOf(w, x)) /\ Cardinality(SharesOf(w, x)) = w[x]
  <1>1. PICK v \in Nat : v = w[x]
    OBVIOUS
  <1>2. IsFiniteSet({x}) /\ Cardinality({x}) = 1
    BY FS_Singleton
  <1>3. IsFiniteSet(1..v) /\ Cardinality(1..v) = v
    BY FS_Interval
  <1>4. /\ IsFiniteSet({x} \X (1..v))
        /\ Cardinality({x} \X (1..v)) = Cardinality({x}) * Cardinality(1..v)
    BY <1>2, <1>3, FS_Product
  <1> QED
    BY <1>1, <1>2, <1>3, <1>4 DEF SharesOf

LEMMA SharesAreFinite ==
    ASSUME NEW w, NEW S, Natural(w, S)
    PROVE  IsFiniteSet(Shares(w, S)) /\ Weight(w, S) \in Nat
  <1>1. PICK T, f : T = {SharesOf(w, x) : x \in S} /\ f = [x \in S |-> SharesOf(w, x)]
    OBVIOUS
  <1>2. f \in Surjection(S, T)
    BY <1>1 DEF Surjection
  <1>3. IsFiniteSet(T)
    BY <1>2, FS_Surjection DEF Natural
  <1>4. \A t \in T : IsFiniteSet(t)
    BY <1>1, SharesOfIs DEF Natural
  <1>5. IsFiniteSet(UNION T)
    BY <1>3, <1>4, FS_UNION
  <1> QED
    BY <1>1, <1>5, FS_CardinalityType DEF Shares, Weight

\* An element more is its weight more.
LEMMA WeightWith ==
    ASSUME NEW w, NEW S, Natural(w, S), NEW x \in S
    PROVE  /\ Natural(w, S \ {x}) /\ Weight(w, S \ {x}) \in Nat /\ w[x] \in Nat
           /\ Weight(w, S) = w[x] + Weight(w, S \ {x})
  <1>1. PICK R : R = S \ {x}
    OBVIOUS
  <1>2. Natural(w, R) /\ w[x] \in Nat
    BY <1>1, FS_Subset DEF Natural
  <1>3. PICK A, B : A = Shares(w, R) /\ B = SharesOf(w, x)
    OBVIOUS
  <1>4. IsFiniteSet(A) /\ Cardinality(A) \in Nat /\ Weight(w, R) = Cardinality(A)
    BY <1>2, <1>3, SharesAreFinite DEF Weight
  <1>5. IsFiniteSet(B) /\ Cardinality(B) = w[x]
    BY <1>2, <1>3, SharesOfIs
  <1>6. Shares(w, S) = A \cup B
    <2>1. \A s : s \in A <=> \E y \in R : s \in SharesOf(w, y)
      BY <1>3, SharesAre
    <2>2. \A s : s \in Shares(w, S) <=> \E y \in S : s \in SharesOf(w, y)
      BY SharesAre
    <2>3. \A s : s \in Shares(w, S) <=> s \in A \cup B
      BY <1>1, <1>3, <2>1, <2>2
    <2> QED
      BY <2>3
  <1>7. A \cap B = {}
    <2>1. ASSUME NEW s, s \in A, s \in B
          PROVE  FALSE
      <3>1. PICK y \in R : s \in SharesOf(w, y)
        BY <1>3, <2>1, SharesAre
      <3>2. s[1] = y /\ s[1] = x
        BY <1>3, <2>1, <3>1 DEF SharesOf
      <3> QED
        BY <1>1, <3>1, <3>2
    <2> QED
      BY <2>1
  <1>8. /\ Cardinality(A \cup B) = Cardinality(A) + Cardinality(B) - Cardinality(A \cap B)
        /\ Cardinality(A \cap B) = 0
    BY <1>4, <1>5, <1>7, FS_Union, FS_EmptySet
  <1> QED
    BY <1>1, <1>2, <1>4, <1>5, <1>6, <1>8 DEF Weight

LEMMA WeightOfNone ==
    ASSUME NEW w
    PROVE  Weight(w, {}) = 0
  <1>1. Shares(w, {}) = {}
    BY SharesAre
  <1> QED
    BY <1>1, FS_EmptySet DEF Weight

\* The same weights have the same sum.
Alike(w, z, S) == \A x \in S : w[x] = z[x]

LEMMA WeightSame ==
    ASSUME NEW w, NEW z, NEW S, Alike(w, z, S)
    PROVE  Weight(w, S) = Weight(z, S)
  <1>1. \A x \in S : SharesOf(w, x) = SharesOf(z, x)
    BY DEF Alike, SharesOf
  <1>2. \A s : s \in Shares(w, S) <=> s \in Shares(z, S)
    BY <1>1, SharesAre
  <1>3. Shares(w, S) = Shares(z, S)
    BY <1>2
  <1> QED
    BY <1>3 DEF Weight

\* The fold of MapThenSumSet.
Fold(w, S, f) ==
    [s \in SUBSET S |-> IF s = {} THEN 0 ELSE w[One(s)] + f[s \ {One(s)}]]

LEMMA FoldIs ==
    ASSUME NEW w, NEW S, Natural(w, S)
    PROVE  /\ \E f : f = Fold(w, S, f)
           /\ \A f : f = Fold(w, S, f) => f[S] = Weight(w, S)
  <1>1. PICK g : g = [s \in SUBSET S |-> Weight(w, s)]
    OBVIOUS
  <1>2. \A s \in SUBSET S : /\ g[s] = Weight(w, s) /\ Natural(w, s)
                            /\ s # {} => One(s) \in s /\ s \ {One(s)} \in SUBSET S
    BY <1>1, FS_Subset DEF One, Natural
  <1>3. \A s \in SUBSET S :
          g[s] = IF s = {} THEN 0 ELSE w[One(s)] + g[s \ {One(s)}]
    <2>1. TAKE s \in SUBSET S
    <2>2. CASE s = {}
      BY <1>2, <2>2, WeightOfNone
    <2>3. CASE s # {}
      <3>1. PICK x : x = One(s) /\ x \in s /\ s \ {x} \in SUBSET S
        BY <1>2, <2>3
      <3>2. Weight(w, s) = w[x] + Weight(w, s \ {x})
        BY <1>2, <3>1, WeightWith
      <3>3. g[s] = w[x] + g[s \ {x}]
        BY <1>2, <3>1, <3>2
      <3> QED
        BY <2>3, <3>1, <3>3, Zenon
    <2> QED
      BY <2>2, <2>3
  <1>4. g = Fold(w, S, g)
    BY <1>1, <1>3 DEF Fold
  <1>5. g[S] = Weight(w, S)
    BY <1>2
  <1>6. ASSUME NEW f, f = Fold(w, S, f)
        PROVE  f[S] = g[S]
    <2>1. \A s \in SUBSET S :
            f[s] = IF s = {} THEN 0 ELSE w[One(s)] + f[s \ {One(s)}]
      BY <1>6, Zenon DEF Fold
    <2>2. PICK Wrong : Wrong = {s \in SUBSET S : f[s] # g[s]}
      OBVIOUS
    <2>3. SUFFICES ASSUME Wrong # {}
                   PROVE  FALSE
      BY <2>2
    <2>4. IsFiniteSet(S) /\ Wrong \in SUBSET (SUBSET S)
      BY <2>2 DEF Natural
    <2>5. PICK s \in Wrong : \A x \in s : \A t \in SUBSET (s \ {x}) : t \notin Wrong
      BY <2>3, <2>4, SmallestSubset
    <2>6. s \in SUBSET S /\ f[s] # g[s]
      BY <2>2
    <2>7. s # {}
      BY <1>3, <2>1, <2>6
    <2>8. PICK x : x = One(s) /\ x \in s /\ s \ {x} \in SUBSET S
      BY <1>2, <2>6, <2>7
    <2>9. f[s \ {x}] # g[s \ {x}]
      BY <1>3, <2>1, <2>6, <2>7, <2>8
    <2> QED
      BY <2>2, <2>5, <2>8, <2>9
  <1> QED
    BY <1>4, <1>5, <1>6

-----------------------------------------------------------------------------
(* What a level's total is: the volumes of its orders added up.            *)
TotalIs(lvl) == lvl.total = Weight(lvl.orders, DOMAIN lvl.orders)

Summed(book) == \A p \in DOMAIN book : TotalIs(book[p])

\* b holds what book holds, with the same volumes, order id aside.
KeepsOthers(b, book, id) ==
    \A q, k : k # id => /\ Has(b, k, q) <=> Has(book, k, q)
                        /\ Has(book, k, q) => b[q].orders[k] = book[q].orders[k]

LEMMA MapIsNatural ==
    ASSUME NEW m, IsMap(m, Ids, Volume)
    PROVE  Natural(m, DOMAIN m)
  <1>1. IsFiniteSet(DOMAIN m)
    BY IdsAssumption, FS_Subset DEF IsMap
  <1>2. \A k \in DOMAIN m : m[k] \in Nat
    BY VolumeAssumption DEF IsMap, Volume
  <1> QED
    BY <1>1, <1>2 DEF Natural

LEMMA WeightOfPut ==
    ASSUME NEW m, IsMap(m, Ids, Volume), NEW id \in Ids, NEW v \in Volume
    PROVE  /\ Weight(m, DOMAIN m) \in Int
           /\ Weight(Put(m, id, v), DOMAIN Put(m, id, v))
                = Weight(m, DOMAIN m) + v - IF id \in DOMAIN m THEN m[id] ELSE 0
           /\ id \in DOMAIN m => m[id] \in Int
  <1>1. PICK z : z = Put(m, id, v)
    OBVIOUS
  <1>2. IsMap(z, Ids, Volume) /\ DOMAIN z = DOMAIN m \cup {id}
    BY <1>1, PutFacts
  <1>3. z[id] = v /\ \A k \in DOMAIN m \ {id} : z[k] = m[k]
    BY <1>1 DEF Put
  <1>4. PICK S : S = DOMAIN m \ {id}
    OBVIOUS
  <1>5. Natural(z, DOMAIN z) /\ Natural(m, DOMAIN m)
    BY <1>2, MapIsNatural
  <1>6. Weight(z, S) = Weight(m, S)
    <2>1. Alike(z, m, S)
      BY <1>3, <1>4 DEF Alike
    <2> QED
      BY <2>1, WeightSame
  <1>7. Weight(z, DOMAIN z) = v + Weight(z, S) /\ Weight(z, S) \in Nat /\ v \in Nat
    <2>1. id \in DOMAIN z /\ (DOMAIN z) \ {id} = S
      BY <1>2, <1>4
    <2> QED
      BY <1>3, <1>5, <2>1, WeightWith
  <1>8. Weight(m, DOMAIN m) \in Nat
    BY <1>5, SharesAreFinite
  <1>9. CASE id \in DOMAIN m
    <2>1. Weight(m, DOMAIN m) = m[id] + Weight(m, S) /\ m[id] \in Nat
      BY <1>4, <1>5, <1>9, WeightWith
    <2> QED
      BY <1>1, <1>6, <1>7, <1>8, <1>9, <2>1
  <1>10. CASE id \notin DOMAIN m
    <2>1. S = DOMAIN m
      BY <1>4, <1>10
    <2> QED
      BY <1>1, <1>6, <1>7, <1>8, <1>10, <2>1
  <1> QED
    BY <1>9, <1>10

LEMMA WeightOfDrop ==
    ASSUME NEW m, IsMap(m, Ids, Volume), NEW id \in DOMAIN m
    PROVE  /\ Weight(m, DOMAIN m) \in Int /\ m[id] \in Int
           /\ Weight(Drop(m, id), DOMAIN Drop(m, id)) = Weight(m, DOMAIN m) - m[id]
  <1>1. PICK z : z = Drop(m, id)
    OBVIOUS
  <1>2. DOMAIN z = DOMAIN m \ {id} /\ \A k \in DOMAIN z : z[k] = m[k]
    BY <1>1 DEF Drop
  <1>3. Alike(z, m, DOMAIN z)
    BY <1>2 DEF Alike
  <1>4. Weight(z, DOMAIN z) = Weight(m, DOMAIN z)
    BY <1>3, WeightSame
  <1>5. Natural(m, DOMAIN m)
    BY MapIsNatural
  <1>6. /\ Weight(m, DOMAIN m \ {id}) \in Nat /\ m[id] \in Nat
        /\ Weight(m, DOMAIN m) = m[id] + Weight(m, DOMAIN m \ {id})
    BY <1>5, WeightWith
  <1> QED
    BY <1>1, <1>2, <1>4, <1>6

LEMMA InsertSums ==
    ASSUME NEW book, IsBook(book), Summed(book), NEW p \in Prices, NEW id \in Ids,
           NEW v \in Volume, ~ Has(book, id, p)
    PROVE  /\ Summed(Insert(book, p, id, v))
           /\ Insert(book, p, id, v)[p].orders[id] = v
           /\ KeepsOthers(Insert(book, p, id, v), book, id)
  <1>1. PICK lvl : lvl = LevelFor(book, p)
    OBVIOUS
  <1>2. PICK new : new = LevelOrders(lvl.total + v, Put(lvl.orders, id, v))
    OBVIOUS
  <1>3. PICK b : b = Insert(book, p, id, v)
    OBVIOUS
  <1>4. DOMAIN b = DOMAIN book \cup {p} /\ b[p] = new /\ \A q \in DOMAIN book \ {p} : b[q] = book[q]
    BY <1>1, <1>2, <1>3 DEF Insert, Put
  <1>5. /\ p \in DOMAIN book => lvl = book[p]
        /\ p \notin DOMAIN book => lvl = LevelOrders(0, EmptyMap)
    BY <1>1 DEF LevelFor
  <1>6. lvl.total \in Int /\ IsMap(lvl.orders, Ids, Volume) /\ id \notin DOMAIN lvl.orders /\ TotalIs(lvl)
    <2>1. CASE p \in DOMAIN book
      BY <1>5, <2>1 DEF IsBook, IsLevel, Summed, Has
    <2>2. CASE p \notin DOMAIN book
      <3>1. lvl.total = 0 /\ lvl.orders = EmptyMap
        BY <1>5, <2>2, LevelFacts
      <3>2. DOMAIN EmptyMap = {} /\ IsMap(EmptyMap, Ids, Volume)
        BY DEF EmptyMap, IsMap
      <3> QED
        BY <3>1, <3>2, WeightOfNone DEF TotalIs
    <2> QED
      BY <2>1, <2>2
  <1>7. new.total = lvl.total + v /\ new.orders = Put(lvl.orders, id, v)
    BY <1>2, LevelFacts
  <1>8. TotalIs(new)
    <2>1. v \in Int
      BY VolumeAssumption DEF Volume
    <2>2. /\ Weight(lvl.orders, DOMAIN lvl.orders) \in Int
          /\ Weight(Put(lvl.orders, id, v), DOMAIN Put(lvl.orders, id, v))
               = Weight(lvl.orders, DOMAIN lvl.orders) + v
      BY <1>6, <2>1, WeightOfPut
    <2> QED
      BY <1>6, <1>7, <2>2 DEF TotalIs
  <1>9. Summed(b)
    BY <1>4, <1>8 DEF Summed
  <1>10. /\ DOMAIN new.orders = DOMAIN lvl.orders \cup {id} /\ new.orders[id] = v
         /\ \A k \in DOMAIN lvl.orders \ {id} : new.orders[k] = lvl.orders[k]
    BY <1>7 DEF Put
  <1>11. p \notin DOMAIN book => DOMAIN lvl.orders = {}
    BY <1>5, LevelFacts DEF EmptyMap
  <1>12. KeepsOthers(b, book, id)
    <2> SUFFICES ASSUME NEW q, NEW k, k # id
                 PROVE  /\ Has(b, k, q) <=> Has(book, k, q)
                        /\ Has(book, k, q) => b[q].orders[k] = book[q].orders[k]
      BY DEF KeepsOthers
    <2>1. CASE q # p
      BY <1>4, <2>1 DEF Has
    <2>2. CASE q = p
      BY <1>4, <1>5, <1>10, <1>11, <2>2 DEF Has
    <2> QED
      BY <2>1, <2>2
  <1> QED
    BY <1>3, <1>4, <1>9, <1>10, <1>12

LEMMA ChangeSums ==
    ASSUME NEW book, IsBook(book), Summed(book), NEW p \in Prices, NEW id \in Ids,
           NEW v \in Volume, Has(book, id, p)
    PROVE  /\ Summed(Change(book, p, id, v))
           /\ Change(book, p, id, v)[p].orders[id] = v
           /\ KeepsOthers(Change(book, p, id, v), book, id)
  <1>1. PICK lvl : lvl = book[p]
    OBVIOUS
  <1>2. PICK new : new = LevelOrders(lvl.total + (v - lvl.orders[id]), Put(lvl.orders, id, v))
    OBVIOUS
  <1>3. PICK b : b = Change(book, p, id, v)
    OBVIOUS
  <1>4. /\ p \in DOMAIN book /\ DOMAIN b = DOMAIN book /\ b[p] = new
        /\ \A q \in DOMAIN book \ {p} : b[q] = book[q]
    BY <1>1, <1>2, <1>3 DEF Change, Put, Has
  <1>5. lvl.total \in Int /\ IsMap(lvl.orders, Ids, Volume) /\ id \in DOMAIN lvl.orders /\ TotalIs(lvl)
    BY <1>1, <1>4 DEF IsBook, IsLevel, Summed, Has
  <1>6. new.total = lvl.total + (v - lvl.orders[id]) /\ new.orders = Put(lvl.orders, id, v)
    BY <1>2, LevelFacts
  <1>7. TotalIs(new)
    <2>1. v \in Int
      BY VolumeAssumption DEF Volume
    <2>2. /\ Weight(lvl.orders, DOMAIN lvl.orders) \in Int
          /\ Weight(Put(lvl.orders, id, v), DOMAIN Put(lvl.orders, id, v))
               = Weight(lvl.orders, DOMAIN lvl.orders) + v - lvl.orders[id]
          /\ lvl.orders[id] \in Int
      BY <1>5, WeightOfPut
    <2>3. PICK t \in Int : t = lvl.orders[id]
      BY <2>2
    <2> QED
      BY <1>5, <1>6, <2>1, <2>2, <2>3 DEF TotalIs
  <1>8. Summed(b)
    BY <1>4, <1>7 DEF Summed
  <1>9. /\ DOMAIN new.orders = DOMAIN lvl.orders \cup {id} /\ new.orders[id] = v
        /\ \A k \in DOMAIN lvl.orders \ {id} : new.orders[k] = lvl.orders[k]
    BY <1>6 DEF Put
  <1>10. KeepsOthers(b, book, id)
    <2> SUFFICES ASSUME NEW q, NEW k, k # id
                 PROVE  /\ Has(b, k, q) <=> Has(book, k, q)
                        /\ Has(book, k, q) => b[q].orders[k] = book[q].orders[k]
      BY DEF KeepsOthers
    <2>1. CASE q # p
      BY <1>4, <2>1 DEF Has
    <2>2. CASE q = p
      BY <1>1, <1>4, <1>9, <2>2 DEF Has
    <2> QED
      BY <2>1, <2>2
  <1> QED
    BY <1>3, <1>4, <1>8, <1>9, <1>10

LEMMA EraseSums ==
    ASSUME NEW book, IsBook(book), Summed(book), NEW p \in Prices, NEW id \in Ids,
           Has(book, id, p)
    PROVE  /\ Summed(Erase(book, p, id))
           /\ KeepsOthers(Erase(book, p, id), book, id)
  <1>1. PICK lvl : lvl = book[p]
    OBVIOUS
  <1>2. PICK left : left = LevelOrders(lvl.total - lvl.orders[id], Drop(lvl.orders, id))
    OBVIOUS
  <1>3. PICK b : b = Erase(book, p, id)
    OBVIOUS
  <1>4. p \in DOMAIN book /\ id \in DOMAIN lvl.orders
    BY <1>1 DEF Has
  <1>5. b = IF DOMAIN left.orders = {} THEN Drop(book, p) ELSE Put(book, p, left)
    BY <1>1, <1>2, <1>3, <1>4, Zenon DEF Erase
  <1>6. lvl.total \in Int /\ IsMap(lvl.orders, Ids, Volume) /\ TotalIs(lvl)
    BY <1>1, <1>4 DEF IsBook, IsLevel, Summed
  <1>7. left.total = lvl.total - lvl.orders[id] /\ left.orders = Drop(lvl.orders, id)
    BY <1>2, LevelFacts
  <1>8. TotalIs(left)
    BY <1>4, <1>6, <1>7, WeightOfDrop DEF TotalIs
  <1>9. /\ DOMAIN left.orders = DOMAIN lvl.orders \ {id}
        /\ \A k \in DOMAIN left.orders : left.orders[k] = lvl.orders[k]
    BY <1>7 DEF Drop
  <1>10. /\ \A q : q # p => (q \in DOMAIN b <=> q \in DOMAIN book)
         /\ \A q \in DOMAIN b \ {p} : b[q] = book[q]
         /\ p \in DOMAIN b <=> DOMAIN left.orders # {}
         /\ p \in DOMAIN b => b[p] = left
    <2>1. CASE DOMAIN left.orders = {}
      <3>1. b = Drop(book, p)
        BY <1>5, <2>1
      <3> QED
        BY <2>1, <3>1 DEF Drop
    <2>2. CASE DOMAIN left.orders # {}
      <3>1. b = Put(book, p, left)
        BY <1>5, <2>2
      <3> QED
        BY <1>4, <2>2, <3>1 DEF Put
    <2> QED
      BY <2>1, <2>2
  <1>11. Summed(b)
    BY <1>8, <1>10 DEF Summed
  <1>12. KeepsOthers(b, book, id)
    <2> SUFFICES ASSUME NEW q, NEW k, k # id
                 PROVE  /\ Has(b, k, q) <=> Has(book, k, q)
                        /\ Has(book, k, q) => b[q].orders[k] = book[q].orders[k]
      BY DEF KeepsOthers
    <2>1. CASE q # p
      BY <1>10, <2>1 DEF Has
    <2>2. CASE q = p
      BY <1>1, <1>4, <1>9, <1>10, <2>2 DEF Has
    <2> QED
      BY <2>1, <2>2
  <1> QED
    BY <1>3, <1>11, <1>12

-----------------------------------------------------------------------------
(* Every total adds up, in every state; the invariant of the sums.         *)
TotalsAdd == \A side \in Sides : Summed(sides[side])

BookInv == Consistent /\ TotalsAdd

\* Order k is looked up before and after a step: nothing of it has changed.
StaysPut(k) ==
    /\ k \in DOMAIN index <=> k \in DOMAIN index'
    /\ k \in DOMAIN index => DebugLookup(k)' = DebugLookup(k)

LEMMA IndexedIs ==
    ASSUME Consistent
    PROVE  \A k \in DOMAIN index :
             /\ k \in Ids /\ index[k].side \in Sides /\ index[k].price \in Prices
             /\ Has(sides[index[k].side], k, index[k].price)
             /\ sides[index[k].side][index[k].price].orders[k] \in Volume
  <1> SUFFICES ASSUME NEW k \in DOMAIN index
               PROVE  /\ k \in Ids /\ index[k].side \in Sides /\ index[k].price \in Prices
                      /\ Has(sides[index[k].side], k, index[k].price)
                      /\ sides[index[k].side][index[k].price].orders[k] \in Volume
    OBVIOUS
  <1>1. k \in Ids /\ index[k].side \in Sides /\ index[k].price \in Prices
    BY ConsistentMeaning DEF IsIndex, IsMap
  <1>2. PICK s, p : s = index[k].side /\ p = index[k].price
    OBVIOUS
  <1>3. IsBook(sides[s]) /\ Agree(index, s, sides[s])
    BY <1>1, <1>2, ConsistentMeaning
  <1>4. Has(sides[s], k, p)
    BY <1>1, <1>2, <1>3 DEF Agree
  <1>5. sides[s][p].orders[k] \in Volume
    <2>1. IsLevel(sides[s][p]) /\ k \in DOMAIN sides[s][p].orders
      BY <1>3, <1>4 DEF IsBook, Has
    <2> QED
      BY <2>1 DEF IsLevel, IsMap
  <1> QED
    BY <1>1, <1>2, <1>4, <1>5

\* A side gets a new book, in which only order id has another place or volume.
LEMMA OneSideSums ==
    ASSUME BookInv, NEW side \in Sides, NEW book, NEW id \in Ids,
           sides' = [sides EXCEPT ![side] = book],
           Summed(book), KeepsOthers(book, sides[side], id),
           \A k : k # id => /\ k \in DOMAIN index <=> k \in DOMAIN index'
                            /\ k \in DOMAIN index => index'[k] = index[k]
    PROVE  TotalsAdd' /\ \A k : k # id => StaysPut(k)
  <1>1. /\ sides = [s \in Sides |-> sides[s]] /\ TotalsAdd
    BY ConsistentMeaning DEF BookInv
  <1>2. sides'[side] = book /\ \A s \in Sides \ {side} : sides'[s] = sides[s]
    BY <1>1
  <1>3. TotalsAdd'
    BY <1>1, <1>2 DEF TotalsAdd
  <1>4. ASSUME NEW k, k # id, k \in DOMAIN index
        PROVE  DebugLookup(k)' = DebugLookup(k)
    <2>1. PICK s, p : s = index[k].side /\ p = index[k].price
      OBVIOUS
    <2>2. s \in Sides /\ p \in Prices /\ Has(sides[s], k, p)
      BY <1>4, <2>1, IndexedIs DEF BookInv
    <2>3. index'[k].side = s /\ index'[k].price = p
      BY <1>4, <2>1
    <2>4. sides'[s][p].orders[k] = sides[s][p].orders[k]
      <3>1. CASE s = side
        BY <1>2, <1>4, <2>2, <3>1 DEF KeepsOthers
      <3>2. CASE s # side
        BY <1>2, <2>2, <3>2
      <3> QED
        BY <3>1, <3>2
    <2> QED
      BY <2>1, <2>3, <2>4, Zenon DEF DebugLookup
  <1> QED
    BY <1>3, <1>4 DEF StaysPut

LEMMA AddSums ==
    ASSUME BookInv, NEW id \in Ids, NEW side \in Sides, NEW p \in Prices, NEW v \in Volume,
           OnAdd(id, side, p, v)
    PROVE  /\ TotalsAdd' /\ \A k : k # id => StaysPut(k)
           /\ id \notin DOMAIN index /\ DOMAIN index' = DOMAIN index \cup {id}
           /\ DebugLookup(id)' = [side |-> side, price |-> p, volume |-> v]
  <1>1. PICK book : book = Insert(sides[side], p, id, v)
    OBVIOUS
  <1>2. /\ id \notin DOMAIN index
        /\ sides' = [sides EXCEPT ![side] = book]
        /\ index' = Put(index, id, [side |-> side, price |-> p])
    BY <1>1 DEF OnAdd
  <1>3. /\ IsBook(sides[side]) /\ Summed(sides[side]) /\ Agree(index, side, sides[side])
        /\ sides = [s \in Sides |-> sides[s]]
    BY ConsistentMeaning DEF BookInv, TotalsAdd
  <1>4. ~ Has(sides[side], id, p)
    BY <1>2, <1>3 DEF Agree
  <1>5. Summed(book) /\ book[p].orders[id] = v /\ KeepsOthers(book, sides[side], id)
    BY <1>1, <1>3, <1>4, InsertSums
  <1>6. /\ DOMAIN index' = DOMAIN index \cup {id}
        /\ index'[id] = [side |-> side, price |-> p]
        /\ \A k \in DOMAIN index : index'[k] = index[k]
    BY <1>2 DEF Put
  <1>7. \A k : k # id => /\ k \in DOMAIN index <=> k \in DOMAIN index'
                         /\ k \in DOMAIN index => index'[k] = index[k]
    BY <1>6
  <1>8. TotalsAdd' /\ \A k : k # id => StaysPut(k)
    BY <1>2, <1>5, <1>7, OneSideSums
  <1>9. index'[id].side = side /\ index'[id].price = p /\ sides'[side][p].orders[id] = v
    BY <1>2, <1>3, <1>5, <1>6
  <1>10. DebugLookup(id)' = [side |-> side, price |-> p, volume |-> v]
    BY <1>9, Zenon DEF DebugLookup
  <1> QED
    BY <1>2, <1>6, <1>8, <1>10

LEMMA DeleteSums ==
    ASSUME BookInv, NEW id \in Ids, OnDelete(id)
    PROVE  /\ TotalsAdd' /\ \A k : k # id => StaysPut(k)
           /\ id \in DOMAIN index /\ DOMAIN index' = DOMAIN index \ {id}
  <1>1. PICK side, p : side = index[id].side /\ p = index[id].price
    OBVIOUS
  <1>2. PICK book : book = Erase(sides[side], p, id)
    OBVIOUS
  <1>3. id \in DOMAIN index /\ sides' = [sides EXCEPT ![side] = book] /\ index' = Drop(index, id)
    BY <1>1, <1>2 DEF OnDelete
  <1>4. side \in Sides /\ p \in Prices /\ Has(sides[side], id, p)
    BY <1>1, <1>3, IndexedIs DEF BookInv
  <1>5. IsBook(sides[side]) /\ Summed(sides[side])
    BY <1>4, ConsistentMeaning DEF BookInv, TotalsAdd
  <1>6. Summed(book) /\ KeepsOthers(book, sides[side], id)
    BY <1>2, <1>4, <1>5, EraseSums
  <1>7. /\ DOMAIN index' = DOMAIN index \ {id}
        /\ \A k \in DOMAIN index' : index'[k] = index[k]
    BY <1>3 DEF Drop
  <1>8. \A k : k # id => /\ k \in DOMAIN index <=> k \in DOMAIN index'
                         /\ k \in DOMAIN index => index'[k] = index[k]
    BY <1>7
  <1>9. TotalsAdd' /\ \A k : k # id => StaysPut(k)
    BY <1>3, <1>4, <1>6, <1>8, OneSideSums
  <1> QED
    BY <1>3, <1>7, <1>9

LEMMA ModifySums ==
    ASSUME BookInv, NEW id \in Ids, NEW v \in Volume, id \in DOMAIN index,
           sides' = [sides EXCEPT ![index[id].side] = Change(@, index[id].price, id, v)],
           UNCHANGED index
    PROVE  /\ TotalsAdd' /\ \A k : k # id => StaysPut(k)
           /\ DebugLookup(id)' = [DebugLookup(id) EXCEPT !.volume = v]
  <1>1. PICK side, p : side = index[id].side /\ p = index[id].price
    OBVIOUS
  <1>2. side \in Sides /\ p \in Prices /\ Has(sides[side], id, p)
    BY <1>1, IndexedIs DEF BookInv
  <1>3. /\ IsBook(sides[side]) /\ Summed(sides[side]) /\ sides = [s \in Sides |-> sides[s]]
    BY <1>2, ConsistentMeaning DEF BookInv, TotalsAdd
  <1>4. PICK book : book = Change(sides[side], p, id, v)
    OBVIOUS
  <1>5. sides' = [sides EXCEPT ![side] = book]
    BY <1>1, <1>2, <1>3, <1>4
  <1>6. Summed(book) /\ book[p].orders[id] = v /\ KeepsOthers(book, sides[side], id)
    BY <1>2, <1>3, <1>4, ChangeSums
  <1>7. TotalsAdd' /\ \A k : k # id => StaysPut(k)
    BY <1>2, <1>5, <1>6, OneSideSums
  <1>8. sides'[side][p].orders[id] = v
    BY <1>2, <1>3, <1>5, <1>6
  <1>9. DebugLookup(id)' = [side |-> side, price |-> p, volume |-> v]
    BY <1>1, <1>8, Zenon DEF DebugLookup
  <1>10. DebugLookup(id) = [side |-> side, price |-> p, volume |-> sides[side][p].orders[id]]
    BY <1>1, Zenon DEF DebugLookup
  <1> QED
    BY <1>7, <1>9, <1>10

LEMMA BookInvInit == Init => BookInv
  <1> SUFFICES ASSUME Init
               PROVE  BookInv
    OBVIOUS
  <1>1. Consistent
    BY ConsistentInit
  <1>2. \A side \in Sides : DOMAIN sides[side] = {}
    BY DEF Init, EmptyMap
  <1> QED
    BY <1>1, <1>2 DEF BookInv, TotalsAdd, Summed

LEMMA BookInvStep == BookInv /\ [Next]_vars => BookInv'
  <1> SUFFICES ASSUME BookInv, [Next]_vars
               PROVE  BookInv'
    OBVIOUS
  <1>1. Consistent'
    BY ConsistentStep DEF BookInv
  <1>2. CASE UNCHANGED vars
    BY <1>1, <1>2 DEF vars, BookInv, TotalsAdd
  <1>3. ASSUME NEW id \in Ids, NEW side \in Sides, NEW p \in Prices, NEW v \in Volume,
               OnAdd(id, side, p, v)
        PROVE  TotalsAdd'
    BY <1>3, AddSums
  <1>4. ASSUME NEW id \in Ids, NEW v \in 0..MaxVolume, OnModify(id, v)
        PROVE  TotalsAdd'
    <2>1. CASE v <= 0 /\ OnDelete(id)
      BY <2>1, DeleteSums
    <2>2. CASE v > 0 /\ ~ (v <= 0 /\ OnDelete(id))
      <3>1. v \in Volume
        BY <2>2, VolumeAssumption DEF Volume
      <3> QED
        BY <1>4, <2>2, <3>1, ModifySums DEF OnModify
    <2> QED
      BY <1>4, <2>1, <2>2 DEF OnModify
  <1>5. ASSUME NEW id \in Ids, OnDelete(id)
        PROVE  TotalsAdd'
    BY <1>5, DeleteSums
  <1>6. ASSUME Next
        PROVE  TotalsAdd'
    BY <1>6, <1>3, <1>4, <1>5 DEF Next
  <1>7. TotalsAdd'
    BY <1>2, <1>6 DEF vars, BookInv, TotalsAdd
  <1> QED
    BY <1>1, <1>7 DEF BookInv

LEMMA BookInvariance == Spec => []BookInv
  <1> QED
    BY BookInvInit, BookInvStep, PTL DEF Spec

-----------------------------------------------------------------------------
(* The book's own sums, as weights.                                        *)
LEMMA VolumeIs ==
    ASSUME NEW lvl, Natural(lvl.orders, DOMAIN lvl.orders)
    PROVE  VolumeOf(lvl) = Weight(lvl.orders, DOMAIN lvl.orders)
  <1>1. PICK w, S : w = lvl.orders /\ S = DOMAIN lvl.orders
    OBVIOUS
  <1>2. PICK iter : iter = CHOOSE f : f =
          [s \in SUBSET S |-> IF s = {} THEN 0 ELSE lvl.orders[One(s)] + f[s \ {One(s)}]]
    OBVIOUS
  <1>3. VolumeOf(lvl) = iter[S]
    BY <1>1, <1>2, Zenon DEF VolumeOf, MapThenSumSet, MapThenFoldSet, One
  <1>4. Natural(w, S)
    BY <1>1
  <1>5. iter = CHOOSE f : f = Fold(w, S, f)
    BY <1>1, <1>2, Zenon DEF Fold
  <1>6. iter = Fold(w, S, iter)
    BY <1>4, <1>5, FoldIs, Zenon
  <1> QED
    BY <1>1, <1>3, <1>4, <1>6, FoldIs

LEMMA CountIs ==
    ASSUME NEW side, NEW w, NEW S, S = DOMAIN sides[side],
           w = [p \in S |-> Cardinality(DOMAIN sides[side][p].orders)], Natural(w, S)
    PROVE  OrderCount(side) = Weight(w, S)
  <1>1. PICK iter : iter = CHOOSE f : f =
          [s \in SUBSET S |-> IF s = {} THEN 0
             ELSE Cardinality(DOMAIN sides[side][One(s)].orders) + f[s \ {One(s)}]]
    OBVIOUS
  <1>2. OrderCount(side) = iter[S]
    BY <1>1, Zenon DEF OrderCount, MapThenSumSet, MapThenFoldSet, One
  <1>3. ASSUME NEW f
        PROVE  Fold(w, S, f) =
                 [s \in SUBSET S |-> IF s = {} THEN 0
                    ELSE Cardinality(DOMAIN sides[side][One(s)].orders) + f[s \ {One(s)}]]
    <2>1. \A s \in SUBSET S : s # {} => w[One(s)] = Cardinality(DOMAIN sides[side][One(s)].orders)
      BY DEF One
    <2> QED
      BY <2>1 DEF Fold
  <1>4. PICK g : g = Fold(w, S, g)
    BY FoldIs
  <1>5. g = [s \in SUBSET S |-> IF s = {} THEN 0
                  ELSE Cardinality(DOMAIN sides[side][One(s)].orders) + g[s \ {One(s)}]]
    BY <1>3, <1>4, Zenon
  <1>6. iter = [s \in SUBSET S |-> IF s = {} THEN 0
                  ELSE Cardinality(DOMAIN sides[side][One(s)].orders) + iter[s \ {One(s)}]]
    BY <1>1, <1>5, Zenon
  <1>7. iter = Fold(w, S, iter)
    BY <1>3, <1>6, Zenon
  <1> QED
    BY <1>2, <1>7, FoldIs

LEMMA TotalVolumeIs ==
    ASSUME NEW side, NEW w, NEW S, S = DOMAIN sides[side],
           w = [p \in S |-> VolumeOf(sides[side][p])], Natural(w, S)
    PROVE  TotalVolume(side) = Weight(w, S)
  <1>1. PICK iter : iter = CHOOSE f : f =
          [s \in SUBSET S |-> IF s = {} THEN 0
             ELSE VolumeOf(sides[side][One(s)]) + f[s \ {One(s)}]]
    OBVIOUS
  <1>2. TotalVolume(side) = iter[S]
    BY <1>1, Zenon DEF TotalVolume, MapThenSumSet, MapThenFoldSet, One
  <1>3. ASSUME NEW f
        PROVE  Fold(w, S, f) =
                 [s \in SUBSET S |-> IF s = {} THEN 0
                    ELSE VolumeOf(sides[side][One(s)]) + f[s \ {One(s)}]]
    <2>1. \A s \in SUBSET S : s # {} => w[One(s)] = VolumeOf(sides[side][One(s)])
      BY DEF One
    <2> QED
      BY <2>1 DEF Fold
  <1>4. PICK g : g = Fold(w, S, g)
    BY FoldIs
  <1>5. g = [s \in SUBSET S |-> IF s = {} THEN 0
                  ELSE VolumeOf(sides[side][One(s)]) + g[s \ {One(s)}]]
    BY <1>3, <1>4, Zenon
  <1>6. iter = [s \in SUBSET S |-> IF s = {} THEN 0
                  ELSE VolumeOf(sides[side][One(s)]) + iter[s \ {One(s)}]]
    BY <1>1, <1>5, Zenon
  <1>7. iter = Fold(w, S, iter)
    BY <1>3, <1>6, Zenon
  <1> QED
    BY <1>2, <1>7, FoldIs

LEMMA TotalsAre ==
    ASSUME NEW side, NEW w, NEW S, S = DOMAIN sides[side],
           w = [p \in S |-> sides[side][p].total], Natural(w, S)
    PROVE  MapThenSumSet(LAMBDA p : sides[side][p].total, DOMAIN sides[side]) = Weight(w, S)
  <1>1. PICK iter : iter = CHOOSE f : f =
          [s \in SUBSET S |-> IF s = {} THEN 0
             ELSE sides[side][One(s)].total + f[s \ {One(s)}]]
    OBVIOUS
  <1>2. MapThenSumSet(LAMBDA p : sides[side][p].total, DOMAIN sides[side]) = iter[S]
    BY <1>1, Zenon DEF MapThenSumSet, MapThenFoldSet, One
  <1>3. ASSUME NEW f
        PROVE  Fold(w, S, f) =
                 [s \in SUBSET S |-> IF s = {} THEN 0
                    ELSE sides[side][One(s)].total + f[s \ {One(s)}]]
    <2>1. \A s \in SUBSET S : s # {} => w[One(s)] = sides[side][One(s)].total
      BY DEF One
    <2> QED
      BY <2>1 DEF Fold
  <1>4. PICK g : g = Fold(w, S, g)
    BY FoldIs
  <1>5. g = [s \in SUBSET S |-> IF s = {} THEN 0
                  ELSE sides[side][One(s)].total + g[s \ {One(s)}]]
    BY <1>3, <1>4, Zenon
  <1>6. iter = [s \in SUBSET S |-> IF s = {} THEN 0
                  ELSE sides[side][One(s)].total + iter[s \ {One(s)}]]
    BY <1>1, <1>5, Zenon
  <1>7. iter = Fold(w, S, iter)
    BY <1>3, <1>6, Zenon
  <1> QED
    BY <1>2, <1>7, FoldIs

-----------------------------------------------------------------------------
(* Counting.                                                               *)

\* The live orders that the index places on this side, at one of these prices.
PlacedIn(side, T) == {k \in DOMAIN index : index[k].side = side /\ index[k].price \in T}

LEMMA LevelHolds ==
    ASSUME Consistent, NEW side \in Sides, NEW p \in DOMAIN sides[side]
    PROVE  /\ p \in Prices /\ DOMAIN sides[side][p].orders # {}
           /\ IsMap(sides[side][p].orders, Ids, Volume)
           /\ \A k : k \in DOMAIN sides[side][p].orders <=>
                k \in DOMAIN index /\ index[k].side = side /\ index[k].price = p
  <1>1. IsBook(sides[side]) /\ NoEmpty(sides[side]) /\ Agree(index, side, sides[side])
    BY ConsistentMeaning
  <1>2. p \in Prices /\ IsMap(sides[side][p].orders, Ids, Volume)
    BY <1>1 DEF IsBook, IsLevel
  <1>3. DOMAIN sides[side][p].orders \subseteq Ids /\ DOMAIN index \subseteq Ids
    BY <1>2, ConsistentMeaning DEF IsMap, IsIndex
  <1> QED
    BY <1>1, <1>2, <1>3 DEF NoEmpty, Agree, Has

\* Only prices of live orders have levels, so there are finitely many.
LEMMA LevelsAreFinite ==
    ASSUME Consistent, NEW side \in Sides
    PROVE  IsFiniteSet(DOMAIN sides[side]) /\ IsFiniteSet(DOMAIN index)
  <1>1. IsFiniteSet(DOMAIN index)
    BY IdsAssumption, FS_Subset, ConsistentMeaning DEF IsIndex, IsMap
  <1>2. PICK X, f : /\ X = {k \in DOMAIN index : index[k].side = side}
                    /\ f = [k \in X |-> index[k].price]
    OBVIOUS
  <1>3. IsFiniteSet(X)
    BY <1>1, <1>2, FS_Subset
  <1>4. \A k \in X : f[k] \in DOMAIN sides[side]
    BY <1>2, IndexedIs DEF Has
  <1>5. \A p \in DOMAIN sides[side] : \E k \in X : f[k] = p
    BY <1>2, LevelHolds
  <1>6. f \in Surjection(X, DOMAIN sides[side])
    BY <1>2, <1>4, <1>5 DEF Surjection
  <1> QED
    BY <1>1, <1>3, <1>6, FS_Surjection

\* How many orders each level of a side has.
Heads(side) == [p \in DOMAIN sides[side] |-> Cardinality(DOMAIN sides[side][p].orders)]

LEMMA HeadsAre ==
    ASSUME Consistent, NEW side \in Sides
    PROVE  Natural(Heads(side), DOMAIN sides[side])
  <1>1. \A p \in DOMAIN sides[side] : Heads(side)[p] \in Nat
    <2>1. TAKE p \in DOMAIN sides[side]
    <2>2. IsFiniteSet(DOMAIN sides[side][p].orders)
      BY LevelHolds, IdsAssumption, FS_Subset DEF IsMap
    <2> QED
      BY <2>2, FS_CardinalityType DEF Heads
  <1> QED
    BY <1>1, LevelsAreFinite DEF Natural

LEMMA HeadsCount ==
    ASSUME Consistent, NEW side \in Sides
    PROVE  Weight(Heads(side), DOMAIN sides[side]) = Cardinality(PlacedIn(side, DOMAIN sides[side]))
  <1>1. PICK S, w : S = DOMAIN sides[side] /\ w = Heads(side)
    OBVIOUS
  <1>2. PICK Wrong : Wrong = {T \in SUBSET S : Weight(w, T) # Cardinality(PlacedIn(side, T))}
    OBVIOUS
  <1>3. SUFFICES ASSUME Wrong # {}
                 PROVE  FALSE
    BY <1>1, <1>2
  <1>4. IsFiniteSet(S) /\ Wrong \in SUBSET (SUBSET S) /\ Natural(w, S) /\ IsFiniteSet(DOMAIN index)
    BY <1>1, <1>2, LevelsAreFinite, HeadsAre
  <1>5. PICK T \in Wrong : \A x \in T : \A t \in SUBSET (T \ {x}) : t \notin Wrong
    BY <1>3, <1>4, SmallestSubset
  <1>6. T \in SUBSET S /\ Weight(w, T) # Cardinality(PlacedIn(side, T))
    BY <1>2
  <1>7. T # {}
    <2>1. PlacedIn(side, {}) = {}
      BY DEF PlacedIn
    <2> QED
      BY <1>6, <2>1, WeightOfNone, FS_EmptySet
  <1>8. PICK p \in T : TRUE
    BY <1>7
  <1>9. PICK A, B : A = PlacedIn(side, T \ {p}) /\ B = DOMAIN sides[side][p].orders
    OBVIOUS
  <1>10. Weight(w, T \ {p}) = Cardinality(A)
    BY <1>2, <1>5, <1>6, <1>8, <1>9
  <1>11. Weight(w, T) = w[p] + Weight(w, T \ {p}) /\ w[p] = Cardinality(B)
    <2>1. Natural(w, T)
      BY <1>4, <1>6, FS_Subset DEF Natural
    <2>2. w[p] = Cardinality(B)
      BY <1>1, <1>6, <1>9 DEF Heads
    <2> QED
      BY <1>8, <2>1, <2>2, WeightWith
  <1>12. \A k : k \in B <=> k \in DOMAIN index /\ index[k].side = side /\ index[k].price = p
    BY <1>1, <1>6, <1>9, LevelHolds
  <1>13. PlacedIn(side, T) = A \cup B /\ A \cap B = {}
    BY <1>8, <1>9, <1>12 DEF PlacedIn
  <1>14. IsFiniteSet(A) /\ IsFiniteSet(B)
    <2>1. A \in SUBSET DOMAIN index /\ B \in SUBSET DOMAIN index
      BY <1>9, <1>12 DEF PlacedIn
    <2> QED
      BY <1>4, <2>1, FS_Subset
  <1>15. /\ Cardinality(A \cup B) = Cardinality(A) + Cardinality(B) - Cardinality(A \cap B)
         /\ Cardinality(A \cap B) = 0 /\ Cardinality(A) \in Nat /\ Cardinality(B) \in Nat
    BY <1>13, <1>14, FS_Union, FS_EmptySet, FS_CardinalityType
  <1> QED
    BY <1>6, <1>10, <1>11, <1>13, <1>15

LEMMA CountsAre == BookInv => CountsAgree
  <1> SUFFICES ASSUME BookInv
               PROVE  CountsAgree
    OBVIOUS
  <1>1. Consistent /\ TotalsAdd
    BY DEF BookInv
  <1>2. \A side \in Sides : OrderCount(side) = Cardinality(PlacedIn(side, DOMAIN sides[side]))
    <2>1. TAKE side \in Sides
    <2>2. OrderCount(side) = Weight(Heads(side), DOMAIN sides[side])
      BY <1>1, HeadsAre, CountIs DEF Heads
    <2> QED
      BY <1>1, <2>2, HeadsCount
  <1>3. PICK A, B : A = PlacedIn("Bid", DOMAIN sides["Bid"]) /\ B = PlacedIn("Ask", DOMAIN sides["Ask"])
    OBVIOUS
  <1>4. DOMAIN index = A \cup B /\ A \cap B = {}
    <2>1. \A k \in DOMAIN index : /\ index[k].side \in Sides
                                  /\ index[k].price \in DOMAIN sides[index[k].side]
      BY <1>1, IndexedIs DEF Has
    <2> QED
      BY <1>3, <2>1 DEF PlacedIn, Sides
  <1>5. IsFiniteSet(A) /\ IsFiniteSet(B)
    <2>1. IsFiniteSet(DOMAIN index)
      BY <1>1, LevelsAreFinite DEF Sides
    <2> QED
      BY <1>4, <2>1, FS_Subset
  <1>6. Cardinality(A \cup B) = Cardinality(A) + Cardinality(B)
    <2>1. /\ Cardinality(A \cup B) = Cardinality(A) + Cardinality(B) - Cardinality(A \cap B)
          /\ Cardinality(A \cap B) = 0 /\ Cardinality(A) \in Nat /\ Cardinality(B) \in Nat
      BY <1>4, <1>5, FS_Union, FS_EmptySet, FS_CardinalityType
    <2> QED
      BY <2>1
  <1>7. OrderCount("Bid") + OrderCount("Ask") = Cardinality(DOMAIN index)
    BY <1>2, <1>3, <1>4, <1>6 DEF Sides
  <1>8. ASSUME NEW side \in Sides
        PROVE  TotalVolume(side) = MapThenSumSet(LAMBDA p : sides[side][p].total, DOMAIN sides[side])
    <2>1. PICK S : S = DOMAIN sides[side]
      OBVIOUS
    <2>2. PICK w, z : /\ w = [p \in S |-> VolumeOf(sides[side][p])]
                      /\ z = [p \in S |-> sides[side][p].total]
      OBVIOUS
    <2>3. \A p \in S : VolumeOf(sides[side][p]) = sides[side][p].total /\ sides[side][p].total \in Nat
      <3>1. TAKE p \in S
      <3>2. PICK lvl : lvl = sides[side][p]
        OBVIOUS
      <3>3. Natural(lvl.orders, DOMAIN lvl.orders) /\ TotalIs(lvl)
        BY <1>1, <2>1, <3>2, LevelHolds, MapIsNatural DEF TotalsAdd, Summed
      <3>4. Weight(lvl.orders, DOMAIN lvl.orders) \in Nat
        BY <3>3, SharesAreFinite
      <3> QED
        BY <3>2, <3>3, <3>4, VolumeIs DEF TotalIs
    <2>4. Natural(w, S) /\ Natural(z, S) /\ Alike(w, z, S)
      BY <1>1, <2>1, <2>2, <2>3, LevelsAreFinite DEF Natural, Alike
    <2>5. TotalVolume(side) = Weight(w, S)
      BY <2>1, <2>2, <2>4, TotalVolumeIs
    <2>6. MapThenSumSet(LAMBDA p : sides[side][p].total, DOMAIN sides[side]) = Weight(z, S)
      BY <2>1, <2>2, <2>4, TotalsAre
    <2> QED
      BY <2>4, <2>5, <2>6, WeightSame
  <1> QED
    BY <1>7, <1>8 DEF CountsAgree

(* The index, the orders in the levels and the cached totals count alike.  *)
THEOREM TheCountsAgree == Spec => []CountsAgree
  <1> QED
    BY BookInvariance, CountsAre, PTL

-----------------------------------------------------------------------------
(* The book implements OrderBook.                                          *)
Held == [k \in DOMAIN index |-> DebugLookup(k)]

Shown == [side \in Sides |-> Snapshot(side)]

LEMMA HeldIs ==
    ASSUME Consistent
    PROVE  /\ DOMAIN Held = DOMAIN index
           /\ \A k \in DOMAIN index :
                /\ Held[k] = DebugLookup(k)
                /\ Held[k].side = index[k].side /\ Held[k].price = index[k].price
                /\ Held[k].volume = sides[index[k].side][index[k].price].orders[k]
  <1>1. DOMAIN Held = DOMAIN index /\ \A k \in DOMAIN index : Held[k] = DebugLookup(k)
    BY DEF Held
  <1>2. \A k \in DOMAIN index :
          /\ DebugLookup(k).side = index[k].side /\ DebugLookup(k).price = index[k].price
          /\ DebugLookup(k).volume = sides[index[k].side][index[k].price].orders[k]
    BY DEF DebugLookup
  <1> QED
    BY <1>1, <1>2

LEMMA BetterIs ==
    ASSUME NEW side \in Sides, NEW a \in Int, NEW b \in Int
    PROVE  /\ a # b => Better(side, a, b) \/ Better(side, b, a)
           /\ \A c \in Int : Better(side, a, b) /\ Better(side, b, c) => Better(side, a, c)
           /\ ~ Better(side, a, a)
  BY DEF Better

\* Some price of a finite set comes last.
LEMMA LastExists ==
    ASSUME NEW side \in Sides, NEW S \in SUBSET Int, IsFiniteSet(S), S # {}
    PROVE  \E x \in S : \A y \in S \ {x} : Better(side, y, x)
  <1>1. PICK Wrong : Wrong = {T \in SUBSET S : /\ T # {}
                                               /\ ~ \E x \in T : \A y \in T \ {x} : Better(side, y, x)}
    OBVIOUS
  <1>2. SUFFICES ASSUME Wrong # {}
                 PROVE  FALSE
    BY <1>1
  <1>3. Wrong \in SUBSET (SUBSET S)
    BY <1>1
  <1>4. PICK T \in Wrong : \A x \in T : \A t \in SUBSET (T \ {x}) : t \notin Wrong
    BY <1>2, <1>3, SmallestSubset
  <1>5. T \in SUBSET S /\ T # {} /\ ~ \E x \in T : \A y \in T \ {x} : Better(side, y, x)
    BY <1>1
  <1>6. PICK z \in T : TRUE
    BY <1>5
  <1>7. T \ {z} # {}
    BY <1>5
  <1>8. PICK x \in T \ {z} : \A y \in (T \ {z}) \ {x} : Better(side, y, x)
    BY <1>1, <1>4, <1>5, <1>7
  <1>9. x \in Int /\ z \in Int /\ x # z
    BY <1>5
  <1>10. CASE Better(side, z, x)
    <2>1. \A y \in T \ {x} : Better(side, y, x)
      BY <1>8, <1>10
    <2> QED
      BY <1>5, <1>8, <2>1
  <1>11. CASE Better(side, x, z)
    <2>1. \A y \in T \ {z} : Better(side, y, z)
      BY <1>5, <1>8, <1>9, <1>11, BetterIs
    <2> QED
      BY <1>5, <2>1
  <1> QED
    BY <1>9, <1>10, <1>11, BetterIs

\* A listing of S, best first.
Listing(s, S, side) ==
    /\ s \in [1..Cardinality(S) -> S]
    /\ \A m, n \in DOMAIN s : m < n => Better(side, s[m], s[n])

LEMMA ListingExists ==
    ASSUME NEW side \in Sides, NEW S \in SUBSET Int, IsFiniteSet(S)
    PROVE  \E s : Listing(s, S, side)
  <1>1. PICK Wrong : Wrong = {T \in SUBSET S : ~ \E s : Listing(s, T, side)}
    OBVIOUS
  <1>2. SUFFICES ASSUME Wrong # {}
                 PROVE  FALSE
    BY <1>1
  <1>3. Wrong \in SUBSET (SUBSET S)
    BY <1>1
  <1>4. PICK T \in Wrong : \A x \in T : \A t \in SUBSET (T \ {x}) : t \notin Wrong
    BY <1>2, <1>3, SmallestSubset
  <1>5. T \in SUBSET S /\ IsFiniteSet(T) /\ ~ \E s : Listing(s, T, side)
    BY <1>1, FS_Subset
  <1>6. T # {}
    <2>1. ASSUME T = {}
          PROVE  FALSE
      <3>1. Cardinality(T) = 0
        BY <2>1, FS_EmptySet
      <3>2. PICK s : s = [j \in 1..0 |-> 0]
        OBVIOUS
      <3>3. 1..0 = {}
        OBVIOUS
      <3>4. DOMAIN s = {} /\ s \in [1..0 -> T]
        BY <3>2, <3>3
      <3>5. Listing(s, T, side)
        BY <3>1, <3>4 DEF Listing
      <3> QED
        BY <1>5, <3>5
    <2> QED
      BY <2>1
  <1>7. PICK x \in T : \A y \in T \ {x} : Better(side, y, x)
    BY <1>5, <1>6, LastExists
  <1>8. PICK U : U = T \ {x}
    OBVIOUS
  <1>9. PICK s : Listing(s, U, side)
    BY <1>1, <1>4, <1>5, <1>7, <1>8
  <1>10. PICK m \in Nat : m = Cardinality(U) /\ Cardinality(T) = m + 1
    <2>1. IsFiniteSet(U) /\ Cardinality(U) = Cardinality(T) - 1
      BY <1>5, <1>7, <1>8, FS_RemoveElement
    <2> QED
      BY <1>5, <2>1, FS_CardinalityType
  <1>11. s \in [1..m -> U] /\ \A j, k \in 1..m : j < k => Better(side, s[j], s[k])
    <2>1. s \in [1..m -> U] /\ \A j, k \in DOMAIN s : j < k => Better(side, s[j], s[k])
      BY <1>9, <1>10, Zenon DEF Listing
    <2> QED
      BY <2>1
  <1>12. PICK t : t = [j \in 1..(m + 1) |-> IF j = m + 1 THEN x ELSE s[j]]
    OBVIOUS
  <1>13. \A j \in 1..(m + 1) : j # m + 1 => j \in 1..m /\ s[j] \in T \ {x}
    BY <1>8, <1>11
  <1>14. t \in [1..(m + 1) -> T]
    BY <1>7, <1>12, <1>13
  <1>15. ASSUME NEW j \in 1..(m + 1), NEW k \in 1..(m + 1), j < k
         PROVE  Better(side, t[j], t[k])
    <2>1. j # m + 1
      BY <1>15
    <2>2. t[j] = s[j] /\ j \in 1..m /\ s[j] \in T \ {x}
      BY <1>12, <1>13, <2>1
    <2>3. CASE k = m + 1
      BY <1>7, <1>12, <2>2, <2>3
    <2>4. CASE k # m + 1
      <3>1. t[k] = s[k] /\ k \in 1..m
        BY <1>12, <1>13, <2>4
      <3> QED
        BY <1>11, <1>15, <2>2, <3>1
    <2> QED
      BY <2>3, <2>4
  <1>16. Listing(t, T, side)
    <2>1. DOMAIN t = 1..(m + 1)
      BY <1>12
    <2> QED
      BY <1>10, <1>14, <1>15, <2>1, Zenon DEF Listing
  <1> QED
    BY <1>5, <1>16

-----------------------------------------------------------------------------
\* OrderBook's sum over the orders of a price is the level's total.
LEMMA SumIsTotal ==
    ASSUME BookInv, NEW side \in Sides, NEW p \in DOMAIN sides[side]
    PROVE  Book!Total(Held, side, p) = sides[side][p].total
  <1>1. Consistent /\ TotalsAdd
    BY DEF BookInv
  <1>2. PICK r, lvl : r = Held /\ lvl = sides[side][p]
    OBVIOUS
  <1>3. PICK S : S = {id \in Book!OrdersOf(r, side) : r[id].price = p}
    OBVIOUS
  <1>4. /\ IsMap(lvl.orders, Ids, Volume) /\ TotalIs(lvl)
        /\ \A k : k \in DOMAIN lvl.orders <=>
             k \in DOMAIN index /\ index[k].side = side /\ index[k].price = p
    BY <1>1, <1>2, LevelHolds DEF TotalsAdd, Summed
  <1>5. /\ DOMAIN r = DOMAIN index
        /\ \A k \in DOMAIN index :
             /\ r[k].side = index[k].side /\ r[k].price = index[k].price
             /\ r[k].volume = sides[index[k].side][index[k].price].orders[k]
    BY <1>1, <1>2, HeldIs
  <1>6. S = DOMAIN lvl.orders /\ \A k \in S : r[k].volume = lvl.orders[k]
    BY <1>2, <1>3, <1>4, <1>5 DEF Book!OrdersOf
  <1>7. PICK w : w = lvl.orders
    OBVIOUS
  <1>8. Natural(w, S) /\ lvl.total = Weight(w, S)
    BY <1>4, <1>6, <1>7, MapIsNatural DEF TotalIs
  <1>9. PICK iter : iter = CHOOSE f : f =
          [s \in SUBSET S |-> IF s = {} THEN 0 ELSE r[One(s)].volume + f[s \ {One(s)}]]
    OBVIOUS
  <1>10. Book!Total(r, side, p) = iter[S]
    BY <1>3, <1>9, Zenon DEF Book!Total, Book!MapThenSumSet, Book!MapThenFoldSet, One
  <1>11. ASSUME NEW f
         PROVE  Fold(w, S, f) =
                  [s \in SUBSET S |-> IF s = {} THEN 0 ELSE r[One(s)].volume + f[s \ {One(s)}]]
    <2>1. \A s \in SUBSET S : s # {} => w[One(s)] = r[One(s)].volume
      BY <1>6, <1>7 DEF One
    <2> QED
      BY <2>1 DEF Fold
  <1>12. PICK g : g = Fold(w, S, g)
    BY <1>8, FoldIs
  <1>13. g = [s \in SUBSET S |-> IF s = {} THEN 0 ELSE r[One(s)].volume + g[s \ {One(s)}]]
    BY <1>11, <1>12, Zenon
  <1>14. iter = [s \in SUBSET S |-> IF s = {} THEN 0 ELSE r[One(s)].volume + iter[s \ {One(s)}]]
    BY <1>9, <1>13, Zenon
  <1>15. iter = Fold(w, S, iter)
    BY <1>11, <1>14, Zenon
  <1> QED
    BY <1>2, <1>8, <1>10, <1>15, FoldIs

\* A side shows its levels as OrderBook lists them.
LEMMA SideShows ==
    ASSUME BookInv, NEW side \in Sides
    PROVE  Book!DepthOf(Held)[side] = Shown[side]
  <1>1. Consistent
    BY DEF BookInv
  <1>2. PICK qs : qs = DOMAIN sides[side]
    OBVIOUS
  <1>3. Book!PricesOf(Held, side) = qs
    <2>1. \A q : q \in Book!PricesOf(Held, side) <=>
            \E k \in DOMAIN index : index[k].side = side /\ index[k].price = q
      BY <1>1, HeldIs DEF Book!PricesOf, Book!OrdersOf
    <2>2. \A q \in qs : \E k \in DOMAIN index : index[k].side = side /\ index[k].price = q
      BY <1>1, <1>2, LevelHolds
    <2>3. \A k \in DOMAIN index : index[k].side = side => index[k].price \in qs
      BY <1>1, <1>2, IndexedIs DEF Has
    <2>4. \A q : q \in Book!PricesOf(Held, side) <=> q \in qs
      BY <2>1, <2>2, <2>3
    <2> QED
      BY <2>4
  <1>4. IsFiniteSet(qs) /\ qs \in SUBSET Int
    <2>1. qs \subseteq Prices
      BY <1>1, <1>2, LevelHolds
    <2> QED
      BY <1>1, <1>2, <2>1, LevelsAreFinite, PricesAssumption
  <1>5. PICK ps : ps = CHOOSE s \in [1..Cardinality(qs) -> qs] :
                         \A m, n \in DOMAIN s : m < n => Better(side, s[m], s[n])
    OBVIOUS
  <1>6. ps \in [1..Cardinality(qs) -> qs]
    <2>1. PICK s : Listing(s, qs, side)
      BY <1>4, ListingExists
    <2>2. \E t \in [1..Cardinality(qs) -> qs] :
            \A m, n \in DOMAIN t : m < n => Better(side, t[m], t[n])
      BY <2>1, Zenon DEF Listing
    <2> QED
      BY <1>5, <2>2, Zenon
  <1>7. PricesInOrder(side) = ps
    BY <1>2, <1>5, Zenon DEF PricesInOrder
  <1>8. Snapshot(side) = [n \in DOMAIN ps |-> [price |-> ps[n], volume |-> sides[side][ps[n]].total]]
    BY <1>7, Zenon DEF Snapshot
  <1>9. Book!DepthOf(Held)[side] = [n \in DOMAIN ps |-> Book!Level(ps[n], Book!Total(Held, side, ps[n]))]
    <2>1. Book!Cardinality(qs) = Cardinality(qs)
      BY Zenon DEF Book!Cardinality, Cardinality
    <2>2. side \in Book!Sides
      BY DEF Book!Sides, Sides
    <2>3. Book!DepthOf(Held)[side] =
            LET all == Book!PricesOf(Held, side)
                in == CHOOSE s \in [1..Book!Cardinality(all) -> all] :
                        \A j, k \in DOMAIN s : j < k => Book!Better(side, s[j], s[k])
            IN  [j \in DOMAIN in |-> Book!Level(in[j], Book!Total(Held, side, in[j]))]
      BY <2>2, Zenon DEF Book!DepthOf
    <2> QED
      BY <1>3, <1>5, <2>1, <2>3, Zenon DEF Book!Better, Better
  <1>10. \A n \in DOMAIN ps : Book!Level(ps[n], Book!Total(Held, side, ps[n]))
                               = [price |-> ps[n], volume |-> sides[side][ps[n]].total]
    <2>1. TAKE n \in DOMAIN ps
    <2>2. PICK q \in DOMAIN sides[side] : q = ps[n]
      BY <1>2, <1>6
    <2>3. Book!Total(Held, side, q) = sides[side][q].total
      BY SumIsTotal
    <2> QED
      BY <2>2, <2>3 DEF Book!Level
  <1>11. Shown[side] = Snapshot(side)
    BY DEF Shown
  <1> QED
    BY <1>8, <1>9, <1>10, <1>11

LEMMA DepthIsShown == BookInv => Book!DepthOf(Held) = Shown
  <1> SUFFICES ASSUME BookInv
               PROVE  Book!DepthOf(Held) = Shown
    OBVIOUS
  <1>1. \A side \in Sides : Book!DepthOf(Held)[side] = Shown[side]
    BY SideShows
  <1>2. Book!DepthOf(Held) = [side \in Sides |-> Book!DepthOf(Held)[side]]
    <2> DEFINE Depth(side) ==
                 LET all == Book!PricesOf(Held, side)
                     in == CHOOSE s \in [1..Book!Cardinality(all) -> all] :
                             \A j, k \in DOMAIN s : j < k => Book!Better(side, s[j], s[k])
                 IN  [j \in DOMAIN in |-> Book!Level(in[j], Book!Total(Held, side, in[j]))]
    <2>1. Book!DepthOf(Held) = [side \in Sides |-> Depth(side)]
      BY Zenon DEF Book!DepthOf, Book!Sides, Sides
    <2> HIDE DEF Depth
    <2> QED
      BY <2>1
  <1>3. Shown = [side \in Sides |-> Shown[side]]
    BY DEF Shown
  <1> QED
    BY <1>1, <1>2, <1>3, Zenon

\* What a step does to the orders, from what it does to each.
LEMMA HeldStep ==
    ASSUME NEW id, \A k : k # id => StaysPut(k)
    PROVE  \A k : k # id => /\ k \in DOMAIN Held <=> k \in DOMAIN Held'
                            /\ k \in DOMAIN Held => Held'[k] = Held[k]
  <1>1. DOMAIN Held = DOMAIN index /\ DOMAIN Held' = DOMAIN index'
    BY DEF Held
  <1>2. \A k \in DOMAIN index : Held[k] = DebugLookup(k)
    BY DEF Held
  <1>3. \A k \in DOMAIN index' : Held'[k] = DebugLookup(k)'
    BY DEF Held
  <1> QED
    BY <1>1, <1>2, <1>3 DEF StaysPut

LEMMA AddMaps ==
    ASSUME BookInv, NEW id \in Ids, NEW side \in Sides, NEW p \in Prices, NEW v \in Volume,
           OnAdd(id, side, p, v)
    PROVE  Book!Add(id, side, p, v)
  <1>1. PICK r, t : r = Held /\ t = Held'
    OBVIOUS
  <1>2. /\ \A k : k # id => StaysPut(k)
        /\ id \notin DOMAIN index /\ DOMAIN index' = DOMAIN index \cup {id}
        /\ DebugLookup(id)' = [side |-> side, price |-> p, volume |-> v]
    BY AddSums
  <1>3. DOMAIN r = DOMAIN index /\ DOMAIN t = DOMAIN index'
    BY <1>1 DEF Held
  <1>4. t[id] = [side |-> side, price |-> p, volume |-> v]
    <2>1. id \in DOMAIN index'
      BY <1>2
    <2>2. \A k \in DOMAIN index' : Held'[k] = DebugLookup(k)'
      BY DEF Held
    <2> QED
      BY <1>1, <1>2, <2>1, <2>2
  <1>5. \A k \in DOMAIN r : t[k] = r[k]
    <2>1. \A k : k # id => /\ k \in DOMAIN r <=> k \in DOMAIN t
                           /\ k \in DOMAIN r => t[k] = r[k]
      BY <1>1, <1>2, HeldStep
    <2> QED
      BY <1>2, <1>3, <2>1
  <1>6. t = [k \in DOMAIN t |-> t[k]]
    BY <1>1 DEF Held
  <1>7. t = [k \in DOMAIN r \cup {id} |-> IF k = id THEN [side |-> side, price |-> p, volume |-> v] ELSE r[k]]
    BY <1>2, <1>3, <1>4, <1>5, <1>6
  <1> QED
    BY <1>1, <1>2, <1>3, <1>7, Zenon DEF Book!Add, Book!Live, Book!Order, Held

LEMMA DeleteMaps ==
    ASSUME BookInv, NEW id \in Ids, OnDelete(id)
    PROVE  Book!Delete(id)
  <1>1. PICK r, t : r = Held /\ t = Held'
    OBVIOUS
  <1>2. /\ \A k : k # id => StaysPut(k)
        /\ id \in DOMAIN index /\ DOMAIN index' = DOMAIN index \ {id}
    BY DeleteSums
  <1>3. DOMAIN r = DOMAIN index /\ DOMAIN t = DOMAIN index'
    BY <1>1 DEF Held
  <1>4. \A k : k # id => /\ k \in DOMAIN r <=> k \in DOMAIN t
                         /\ k \in DOMAIN r => t[k] = r[k]
    BY <1>1, <1>2, HeldStep
  <1>5. t = [k \in DOMAIN t |-> t[k]]
    BY <1>1 DEF Held
  <1>6. t = [k \in DOMAIN r \ {id} |-> r[k]]
    BY <1>2, <1>3, <1>4, <1>5
  <1> QED
    BY <1>1, <1>2, <1>3, <1>6, Zenon DEF Book!Delete, Book!Live, Held

LEMMA ModifyMaps ==
    ASSUME BookInv, NEW id \in Ids, NEW v \in 0..MaxVolume, OnModify(id, v)
    PROVE  Book!Modify(id, v)
  <1>1. CASE v <= 0 /\ OnDelete(id)
    <2>1. ~ (v > 0)
      BY <1>1
    <2>2. Book!Delete(id)
      BY <1>1, DeleteMaps
    <2> QED
      BY <2>1, <2>2, Zenon DEF Book!Modify, Book!Delete
  <1>2. CASE ~ (v <= 0 /\ OnDelete(id))
    <2>1. PICK r, t : r = Held /\ t = Held'
      OBVIOUS
    <2>2. /\ v > 0 /\ id \in DOMAIN index /\ UNCHANGED index
          /\ sides' = [sides EXCEPT ![index[id].side] = Change(@, index[id].price, id, v)]
      BY <1>2 DEF OnModify
    <2>3. v \in Volume
      BY <2>2, VolumeAssumption DEF Volume
    <2>4. /\ \A k : k # id => StaysPut(k)
          /\ DebugLookup(id)' = [DebugLookup(id) EXCEPT !.volume = v]
      BY <2>2, <2>3, ModifySums
    <2>5. DOMAIN r = DOMAIN index /\ DOMAIN t = DOMAIN index
      BY <2>1, <2>2 DEF Held
    <2>6. t[id] = [r[id] EXCEPT !.volume = v]
      <3>1. Held[id] = DebugLookup(id)
        BY <2>2 DEF Held
      <3>2. id \in DOMAIN index'
        BY <2>2
      <3>3. \A k \in DOMAIN index' : Held'[k] = DebugLookup(k)'
        BY DEF Held
      <3> QED
        BY <2>1, <2>4, <3>1, <3>2, <3>3
    <2>7. \A k \in DOMAIN r : k # id => t[k] = r[k]
      BY <2>1, <2>4, HeldStep
    <2>8. t = [k \in DOMAIN t |-> t[k]] /\ r = [k \in DOMAIN r |-> r[k]]
      BY <2>1 DEF Held
    <2>9. t = [r EXCEPT ![id].volume = v]
      BY <2>2, <2>5, <2>6, <2>7, <2>8
    <2> QED
      BY <2>1, <2>2, <2>5, <2>9, Zenon DEF Book!Modify, Book!Live, Held
  <1> QED
    BY <1>1, <1>2

LEMMA BookStep ==
    ASSUME BookInv, [Next]_vars, (Book!DepthOf(Held) = Shown)'
    PROVE  [Book!Next]_(Book!vars)
  <1>1. CASE UNCHANGED vars
    <2>1. sides' = sides /\ index' = index
      BY <1>1 DEF vars
    <2>2. Shown' = Shown /\ Held' = Held
      BY <2>1 DEF Shown, Snapshot, PricesInOrder, Held, DebugLookup
    <2> QED
      BY <2>2 DEF Book!vars, Shown, Held
  <1>2. CASE Next
    <2>1. PICK id \in Ids :
            \/ \E side \in Sides, p \in Prices, v \in Volume : OnAdd(id, side, p, v)
            \/ \E v \in 0..MaxVolume : OnModify(id, v)
            \/ OnDelete(id)
      BY <1>2 DEF Next
    <2>2. CASE \E side \in Sides, p \in Prices, v \in Volume : OnAdd(id, side, p, v)
      <3>1. PICK side \in Sides, p \in Prices, v \in Volume : OnAdd(id, side, p, v)
        BY <2>2
      <3>2. Book!Add(id, side, p, v) /\ side \in Book!Sides /\ v \in 1..MaxVolume
        BY <3>1, AddMaps DEF Book!Sides, Sides, Volume
      <3> QED
        BY <3>2, Zenon DEF Book!Next, Shown, Held
    <2>3. CASE \E v \in 0..MaxVolume : OnModify(id, v)
      <3>1. PICK v \in 0..MaxVolume : OnModify(id, v)
        BY <2>3
      <3>2. Book!Modify(id, v)
        BY <3>1, ModifyMaps
      <3> QED
        BY <3>2, Zenon DEF Book!Next, Shown, Held
    <2>4. CASE OnDelete(id)
      <3>1. Book!Delete(id)
        BY <2>4, DeleteMaps
      <3> QED
        BY <3>1, Zenon DEF Book!Next, Shown, Held
    <2> QED
      BY <2>1, <2>2, <2>3, <2>4
  <1> QED
    BY <1>1, <1>2

(* The reference book shows what its live orders add up to, level by       *)
(* level, best first, after every sequence of updates.                     *)
THEOREM ReferenceBookImplementsBook == Spec => ImplementsBook
  <1>1. Init => Book!Init
    <2> SUFFICES ASSUME Init
                 PROVE  Book!Init
      OBVIOUS
    <2>1. Book!DepthOf(Held) = Shown
      BY BookInvInit, DepthIsShown
    <2>2. DOMAIN index = {}
      BY DEF Init, EmptyMap
    <2>3. Held = [id \in {} |-> Book!Order("Bid", 0, 0)]
      BY <2>2 DEF Held
    <2> QED
      BY <2>1, <2>3, Zenon DEF Book!Init, Shown, Held
  <1>2. BookInv' => (Book!DepthOf(Held) = Shown)'
    BY DepthIsShown, PTL
  <1>3. BookInv /\ BookInv' /\ [Next]_vars => [Book!Next]_(Book!vars)
    BY <1>2, BookStep
  <1> QED
    BY <1>1, <1>3, BookInvariance, PTL DEF Spec, ImplementsBook, Book!Spec
=============================================================================
