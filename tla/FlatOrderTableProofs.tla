------------------------ MODULE FlatOrderTableProofs ------------------------
(***************************************************************************)
(* Proofs about FlatOrderTable, for every capacity, hash and set of ids.   *)
(* The arithmetic of the ring of slots comes first; with it, every step of *)
(* the table's loops preserves the inductive invariant IInv.  On it rests  *)
(* the refinement: whatever the collisions and whatever Erase moves, the   *)
(* callers see the bounded dictionary of OrderTable.                       *)
(***************************************************************************)
EXTENDS FlatOrderTable, FiniteSetTheorems, WellFoundedInduction, TLAPS

(* Half the slots is at least one and fewer than all: Reserve's limit      *)
(* leaves a slot empty.                                                    *)
LEMMA LimitRange == Limit \in Nat /\ 1 <= Limit /\ Limit < Cap
  BY CapAssumption DEF Limit

(* The masks keep every index in the array.                                *)
LEMMA SuccType == ASSUME NEW s \in Slot PROVE Succ(s) \in Slot
  BY CapAssumption DEF Slot, Succ

LEMMA HomeType == ASSUME NEW id \in Keys PROVE Home(id) \in Slot
  <1>1. Mix[id] \in Nat
    BY MixAssumption
  <1> QED
    BY <1>1, CapAssumption DEF Slot, Home

(* The ring: distances are below Cap, zero only to the slot itself, and    *)
(* one step forward lengthens the distance by one unless it closes the     *)
(* circle.                                                                 *)
LEMMA DistType ==
  ASSUME NEW a \in Slot, NEW b \in Slot
  PROVE  /\ Dist(a, b) \in Slot
         /\ Dist(a, b) = 0 <=> a = b
         /\ Succ(b) # b
         /\ Succ(b) # a => Dist(a, Succ(b)) = Dist(a, b) + 1
  BY CapAssumption DEF Slot, Succ, Dist

(* A slot passed before the successor of b was passed before b, or is b.   *)
LEMMA BeforeSucc ==
  ASSUME NEW a \in Slot, NEW t \in Slot, NEW b \in Slot,
         Before(a, t, Succ(b))
  PROVE  Before(a, t, b) \/ t = b
  BY CapAssumption DEF Slot, Succ, Dist, Before

(* Three ways in which two probes from the same home compare.              *)
LEMMA BeforeTotal ==
  ASSUME NEW a \in Slot, NEW s \in Slot, NEW t \in Slot
  PROVE  Before(a, s, t) \/ Before(a, t, s) \/ s = t
  BY CapAssumption DEF Slot, Dist, Before

(* What Erase's condition means: the record at jj, whose home is h, stays  *)
(* exactly when its probe does not pass the hole.                          *)
LEMMA StaysMeaning ==
  ASSUME NEW hh \in Slot, NEW jj \in Slot, NEW h \in Slot, hh # jj
  PROVE  Stays(hh, jj, h) <=> ~ Before(h, hh, jj)
  BY CapAssumption DEF Slot, Dist, Before, Stays

(* A probe to jj that passes the hole begins with a probe to the hole.     *)
LEMMA BeforeTrans ==
  ASSUME NEW h \in Slot, NEW t \in Slot, NEW hh \in Slot, NEW jj \in Slot,
         Before(h, t, hh), Before(h, hh, jj)
  PROVE  Before(h, t, jj)
  BY CapAssumption DEF Slot, Dist, Before

(* A run of records that does not reach back to the hole: if a probe from  *)
(* h to s passes the hole, it passes every slot between the hole and s.    *)
LEMMA BeforePast ==
  ASSUME NEW h \in Slot, NEW hh \in Slot, NEW s \in Slot, NEW jj \in Slot,
         Before(h, hh, s),
         ~ (0 < Dist(hh, s) /\ Dist(hh, s) < Dist(hh, jj)), s # jj, hh # jj
  PROVE  Before(h, jj, s)
  BY CapAssumption DEF Slot, Dist, Before

-----------------------------------------------------------------------------
(* Counting the occupied slots.                                            *)

LEMMA SlotsFinite ==
    /\ IsFiniteSet(Slot) /\ Cardinality(Slot) = Cap
    /\ IsFiniteSet(Occupied) /\ Occupied \subseteq Slot
  <1>1. IsFiniteSet(Slot) /\ Cardinality(Slot) = Cap
    BY FS_Interval, CapAssumption DEF Slot
  <1>2. Occupied \subseteq Slot
    BY DEF Occupied
  <1> QED
    BY <1>1, <1>2, FS_Subset

(* There is always an empty slot for a probe to stop at.                   *)
LEMMA SomeEmpty ==
  ASSUME SizeCounts
  PROVE  \E s \in Slot : key[s] = 0
  <1>1. Occupied # Slot
    BY SlotsFinite, LimitRange, CapAssumption DEF SizeCounts
  <1> QED
    BY <1>1 DEF Occupied

(* size_ goes on counting the occupied slots, and no step takes it past    *)
(* the limit.                                                              *)
LEMMA SizeStep ==
  ASSUME TypeOK, SizeCounts, CallShape, ShiftInv, [Next]_vars
  PROVE  SizeCounts' /\ size' \in Nat
  <1>1. CASE UNCHANGED <<key, size>>
    <2>1. Occupied' = Occupied
      BY <1>1 DEF Occupied
    <2> QED
      BY <1>1, <2>1 DEF SizeCounts, TypeOK, Limit
  <1>2. CASE InsertNew
    <2>1. i \in Slot /\ i \notin Occupied /\ Occupied' = Occupied \cup {i}
      BY <1>2, KeysAssumption DEF InsertNew, TypeOK, Occupied, CallShape
    <2>2. Cardinality(Occupied') = Cardinality(Occupied) + 1
      BY <2>1, SlotsFinite, FS_AddElement
    <2> QED
      BY <1>2, <2>2, LimitRange DEF InsertNew, SizeCounts, TypeOK, Limit
  <1>3. CASE ShiftMove
    <2>1. Occupied' = Occupied
      BY <1>3 DEF ShiftMove, TypeOK, Occupied, ShiftInv
    <2> QED
      BY <1>3, <2>1 DEF ShiftMove, SizeCounts, TypeOK, Limit
  <1>4. CASE ShiftEnd
    <2>1. hole \in Occupied /\ Occupied' = Occupied \ {hole}
      BY <1>4 DEF ShiftEnd, TypeOK, Occupied, ShiftInv
    <2>2. /\ Cardinality(Occupied') = Cardinality(Occupied) - 1
          /\ Cardinality(Occupied') \in Nat
      <3>1. IsFiniteSet(Occupied')
        BY <2>1, SlotsFinite, FS_RemoveElement
      <3> QED
        BY <2>1, <3>1, SlotsFinite, FS_RemoveElement, FS_CardinalityType
    <2> QED
      BY <1>4, <2>2, LimitRange DEF ShiftEnd, SizeCounts, TypeOK, Limit
  <1> QED
    BY <1>1, <1>2, <1>3, <1>4
       DEF Next, Begin, Step, vars, CallWithZero, Call, ProbeOn, InsertKnown,
           InsertThrow, FindMiss, FindRead, FindUpdate, FindErase, EraseMiss,
           EraseHit, ShiftKeep

-----------------------------------------------------------------------------
(* Type correctness.                                                       *)

LEMMA TypeInit == Init => TypeOK
  BY CapAssumption, VolumeAssumption
     DEF Init, TypeOK, Slot, Volume, Answer, NoAnswer, NoCall, Op

LEMMA TypeStep ==
  ASSUME TypeOK, SizeCounts, CallShape, ShiftInv, [Next]_vars
  PROVE  TypeOK'
  <1>0. /\ 0 \in Slot /\ 0 \in Volume
        /\ \A s \in Slot : Succ(s) \in Slot
        /\ \A id \in Keys : Home(id) \in Slot
        /\ \A v \in 1..MaxVolume : v \in Volume
    BY CapAssumption, VolumeAssumption, SuccType, HomeType DEF Slot, Volume
  <1>1. CASE UNCHANGED vars
    BY <1>1 DEF vars, TypeOK
  <1>2. CASE CallWithZero
    BY <1>0, <1>2 DEF CallWithZero, Answer, TypeOK
  <1>3. ASSUME NEW op \in Op, NEW id \in Keys, NEW v \in Volume, Call(op, id, v)
        PROVE  TypeOK'
    BY <1>0, <1>3 DEF Call, Answer, NoAnswer, FirstLoop, TypeOK
  <1>4. ASSUME NEW what \in {"ignored", "length_error", "done", "found"},
               NEW v \in Volume, Return(what, v)
        PROVE  /\ pc' = "idle"
               /\ call' \in [op : Op \cup {"none"}, id : Keys \cup {0},
                             volume : Volume]
               /\ i' \in Slot /\ hole' \in Slot /\ j' \in Slot
               /\ answer' \in [what : {"none", "ignored", "length_error",
                                       "done", "found"}, volume : Volume]
    BY <1>0, <1>4 DEF Return, NoCall, Answer
  <1>5. CASE ProbeOn
    BY <1>0, <1>5 DEF ProbeOn, TypeOK
  <1>6. CASE InsertKnown \/ InsertThrow \/ FindMiss \/ EraseMiss
    BY <1>0, <1>4, <1>6 DEF InsertKnown, InsertThrow, FindMiss, EraseMiss, TypeOK
  <1>7. CASE InsertNew
    BY <1>0, <1>4, <1>7 DEF InsertNew, TypeOK
  <1>8. CASE FindRead \/ FindUpdate
    BY <1>0, <1>4, <1>8 DEF FindRead, FindUpdate, TypeOK
  <1>9. CASE FindErase \/ EraseHit
    BY <1>0, <1>9 DEF FindErase, EraseHit, CallShape, TypeOK
  <1>10. CASE ShiftKeep \/ ShiftMove
    BY <1>0, <1>10 DEF ShiftKeep, ShiftMove, TypeOK
  <1>11. CASE ShiftEnd
    BY <1>0, <1>4, <1>11, SizeStep DEF ShiftEnd, TypeOK
  <1>12. CASE Begin
    BY <1>0, <1>2, <1>3, <1>12 DEF Begin, Op
  <1> QED
    BY <1>1, <1>5, <1>6, <1>7, <1>8, <1>9, <1>10, <1>11, <1>12 DEF Next, Step

-----------------------------------------------------------------------------
(* The shape of a call.                                                    *)

LEMMA CallShapeStep ==
  ASSUME TypeOK, CallShape, [Next]_vars
  PROVE  CallShape'
  <1>1. CASE UNCHANGED <<pc, call>>
    BY <1>1 DEF CallShape
  <1>2. ASSUME NEW op \in Op, NEW id \in Keys, NEW v \in Volume, Call(op, id, v),
               op = "add" => v > 0
        PROVE  CallShape'
    BY <1>2 DEF Call, FirstLoop, CallShape, NoCall, Op
  <1>3. ASSUME NEW what, NEW v, Return(what, v)
        PROVE  CallShape'
    BY <1>3 DEF Return, NoCall, CallShape
  <1>4. CASE FindErase \/ EraseHit
    BY <1>4 DEF FindErase, EraseHit, CallShape, NoCall
  <1>5. CASE Begin
    BY <1>1, <1>2, <1>5, VolumeAssumption DEF Begin, CallWithZero, Op, Volume
  <1>6. CASE Step
    BY <1>1, <1>3, <1>4, <1>6
       DEF Step, ProbeOn, InsertKnown, InsertThrow, InsertNew, FindMiss, FindRead,
           FindUpdate, EraseMiss, ShiftKeep, ShiftMove, ShiftEnd
  <1> QED
    BY <1>1, <1>5, <1>6 DEF Next, vars

-----------------------------------------------------------------------------
(* Probing.                                                                *)

(* A probe that meets an empty slot has shown that its key is nowhere in   *)
(* the table.                                                              *)
LEMMA ProbeAbsent ==
  ASSUME TypeOK, CallShape, Reachable, ProbeInv,
         pc \in {"insert", "find", "locate"}, key[i] = 0
  PROVE  \A s \in Slot : key[s] # call.id
  <1> SUFFICES ASSUME NEW s \in Slot, key[s] = call.id
               PROVE  FALSE
    OBVIOUS
  <1>1. call.id \in Keys /\ call.id # 0 /\ Home(call.id) \in Slot /\ i \in Slot
    BY HomeType, KeysAssumption DEF CallShape, TypeOK
  <1>2. Live(s)
    BY <1>1 DEF Live
  <1>3. ~ Before(Home(call.id), i, s)
    BY <1>1, <1>2 DEF Reachable
  <1>4. ~ Before(Home(call.id), s, i)
    BY DEF ProbeInv
  <1>5. s # i
    BY <1>1
  <1> QED
    BY <1>1, <1>3, <1>4, <1>5, BeforeTotal

LEMMA ProbeStep ==
  ASSUME TypeOK, CallShape, SizeCounts, ProbeInv, [Next]_vars
  PROVE  ProbeInv'
  <1>1. CASE pc' \notin {"insert", "find", "locate"}
    BY <1>1 DEF ProbeInv
  <1>2. CASE UNCHANGED <<key, pc, call, i>>
    BY <1>2 DEF ProbeInv, Before, Home, Dist
  <1>3. CASE call'.id \in Keys /\ i' = Home(call'.id)
    <2>1. \A t \in Slot : ~ Before(i', t, i')
      BY <1>3, HomeType, CapAssumption DEF Before, Dist, Slot
    <2> QED
      BY <1>3, <2>1 DEF ProbeInv, Before, Dist, Home
  <1>4. CASE ProbeOn
    <2> SUFFICES ASSUME NEW t \in Slot, Before(Home(call.id), t, Succ(i))
                 PROVE  key[t] \notin {0, call.id}
      BY <1>4 DEF ProbeOn, ProbeInv, Before, Dist, Home
    <2>1. Home(call.id) \in Slot /\ i \in Slot
      BY <1>4, HomeType DEF ProbeOn, CallShape, TypeOK
    <2>2. Before(Home(call.id), t, i) \/ t = i
      BY <2>1, BeforeSucc
    <2> QED
      BY <1>4, <2>2 DEF ProbeOn, ProbeInv
  <1>5. CASE Begin
    BY <1>2, <1>3, <1>5 DEF Begin, CallWithZero, Call
  <1>6. CASE Step
    BY <1>1, <1>2, <1>3, <1>4, <1>6
       DEF Step, InsertKnown, InsertThrow, InsertNew, FindMiss, FindRead,
           FindUpdate, FindErase, EraseMiss, EraseHit, ShiftKeep, ShiftMove,
           ShiftEnd, Return, CallShape
  <1> QED
    BY <1>2, <1>5, <1>6 DEF Next, vars

-----------------------------------------------------------------------------
(* The contents.  Only three steps disturb them: the insertion, the move   *)
(* of a record into the hole, and the clearing of the last hole.           *)

\* Steps that touch no key and neither enter nor leave the shifting loop.
Quiet ==
    /\ UNCHANGED key
    /\ \/ pc # "shift" /\ pc' # "shift"
       \/ pc = pc' /\ UNCHANGED hole

LEMMA StepCases ==
  ASSUME [Next]_vars
  PROVE  Quiet \/ InsertNew \/ EraseHit \/ ShiftMove \/ ShiftEnd
  <1>1. ASSUME NEW op, NEW id, NEW v, Call(op, id, v)
        PROVE  Quiet
    BY <1>1 DEF Call, FirstLoop, Quiet
  <1>2. CASE Begin
    BY <1>1, <1>2 DEF Begin, CallWithZero, Quiet
  <1>3. CASE Step
    BY <1>3 DEF Quiet, Step, ProbeOn, InsertKnown, InsertThrow, FindMiss, FindRead,
         FindUpdate, FindErase, EraseMiss, ShiftKeep, Return
  <1>4. CASE UNCHANGED vars
    BY <1>4 DEF vars, Quiet
  <1> QED
    BY <1>2, <1>3, <1>4 DEF Next

(* Which slots are live after a step, and what they hold.                  *)
LEMMA LiveAfter ==
  ASSUME TypeOK, CallShape, ShiftInv
  PROVE  /\ Quiet => \A s \in Slot : (Live(s)' <=> Live(s)) /\ key'[s] = key[s]
         /\ InsertNew => \A s \in Slot :
              /\ Live(s)' <=> Live(s) \/ s = i
              /\ key'[s] = IF s = i THEN call.id ELSE key[s]
         /\ EraseHit => \A s \in Slot :
              /\ Live(s)' <=> Live(s) /\ s # i
              /\ key'[s] = key[s]
         /\ ShiftMove => \A s \in Slot :
              /\ Live(s)' <=> (Live(s) \/ s = hole) /\ s # j
              /\ key'[s] = IF s = hole THEN key[j] ELSE key[s]
         /\ ShiftEnd => \A s \in Slot :
              /\ Live(s)' <=> Live(s)
              /\ key'[s] = IF s = hole THEN 0 ELSE key[s]
  <1>1. Quiet => \A s \in Slot : (Live(s)' <=> Live(s)) /\ key'[s] = key[s]
    BY DEF Quiet, Live
  <1>2. InsertNew => \A s \in Slot :
              /\ Live(s)' <=> Live(s) \/ s = i
              /\ key'[s] = IF s = i THEN call.id ELSE key[s]
    BY KeysAssumption DEF InsertNew, Return, Live, TypeOK, CallShape
  <1>3. EraseHit => \A s \in Slot :
              /\ Live(s)' <=> Live(s) /\ s # i
              /\ key'[s] = key[s]
    BY DEF EraseHit, Live
  <1>4. ShiftMove => \A s \in Slot :
              /\ Live(s)' <=> (Live(s) \/ s = hole) /\ s # j
              /\ key'[s] = IF s = hole THEN key[j] ELSE key[s]
    BY DEF ShiftMove, Live, TypeOK, ShiftInv
  <1>5. ShiftEnd => \A s \in Slot :
              /\ Live(s)' <=> Live(s)
              /\ key'[s] = IF s = hole THEN 0 ELSE key[s]
    BY DEF ShiftEnd, Return, Live, TypeOK
  <1> QED
    BY <1>1, <1>2, <1>3, <1>4, <1>5

LEMMA UniqueStep ==
  ASSUME IInv, [Next]_vars
  PROVE  UniqueKeys'
  <1> USE DEF IInv
  <1>1. CASE Quiet
    BY <1>1, LiveAfter DEF UniqueKeys
  <1>2. CASE InsertNew
    BY <1>2, LiveAfter, ProbeAbsent DEF UniqueKeys, InsertNew
  <1>3. CASE EraseHit
    BY <1>3, LiveAfter DEF UniqueKeys
  <1>4. CASE ShiftMove
    <2>1. Live(j) /\ hole \in Slot /\ j \in Slot
      BY <1>4 DEF ShiftMove, ShiftInv, TypeOK, Live
    <2> QED
      BY <1>4, <2>1, LiveAfter DEF UniqueKeys
  <1>5. CASE ShiftEnd
    <2>1. \A s \in Slot : Live(s) => s # hole
      BY <1>5 DEF ShiftEnd, Live
    <2> QED
      BY <1>5, <2>1, LiveAfter DEF UniqueKeys
  <1> QED
    BY <1>1, <1>2, <1>3, <1>4, <1>5, StepCases

LEMMA ReachableStep ==
  ASSUME IInv, [Next]_vars
  PROVE  Reachable'
  <1> USE DEF IInv
  <1> SUFFICES ASSUME NEW s \in Slot, NEW t \in Slot,
                      Live(s)', Before(Home(key'[s]), t, s)
               PROVE  key'[t] # 0
    BY DEF Reachable, Before, Dist, Home
  <1>1. CASE Quiet
    BY <1>1, LiveAfter DEF Reachable
  <1>2. CASE InsertNew
    <2>1. call.id # 0
      BY <1>2, KeysAssumption DEF InsertNew, CallShape
    <2>2. CASE s = i
      BY <1>2, <2>1, <2>2, LiveAfter DEF ProbeInv, InsertNew
    <2>3. CASE s # i
      BY <1>2, <2>1, <2>3, LiveAfter DEF Reachable
    <2> QED
      BY <2>2, <2>3
  <1>3. CASE EraseHit
    BY <1>3, LiveAfter DEF Reachable
  <1>4. CASE ShiftMove
    <2>1. /\ Live(j) /\ hole \in Slot /\ j \in Slot /\ hole # j
          /\ key[j] \in Keys /\ Home(key[j]) \in Slot
      BY <1>4, HomeType DEF ShiftMove, ShiftInv, TypeOK, Live
    <2>2. key[t] # 0 => key'[t] # 0
      BY <1>4, <2>1, LiveAfter DEF Live
    <2>3. CASE s = hole
      <3>1. Before(Home(key[j]), hole, j)
        BY <1>4, <2>1, StaysMeaning DEF ShiftMove
      <3>2. Before(Home(key[j]), t, hole)
        BY <1>4, <2>3, LiveAfter
      <3>3. Before(Home(key[j]), t, j)
        BY <2>1, <3>1, <3>2, BeforeTrans
      <3> QED
        BY <2>1, <2>2, <3>3 DEF Reachable
    <2>4. CASE s # hole
      BY <1>4, <2>2, <2>4, LiveAfter DEF Reachable
    <2> QED
      BY <2>3, <2>4
  <1>5. CASE ShiftEnd
    <2>1. /\ Live(s) /\ s # hole /\ key'[s] = key[s] /\ key[s] \in Keys
          /\ hole \in Slot /\ j \in Slot /\ hole # j /\ key[j] = 0
          /\ pc = "shift"
      BY <1>5, LiveAfter DEF ShiftEnd, ShiftInv, TypeOK, Live
    <2>2. Home(key[s]) \in Slot
      BY <2>1, HomeType
    <2>3. key[t] # 0
      BY <2>1 DEF Reachable
    <2>4. ~ Before(Home(key[s]), hole, s)
      <3> SUFFICES ASSUME Before(Home(key[s]), hole, s)
                   PROVE  FALSE
        OBVIOUS
      <3>1. ~ Scanned(s)
        BY <2>1 DEF ShiftInv
      <3>2. s # j
        BY <2>1 DEF Live
      <3>3. Before(Home(key[s]), j, s)
        BY <2>1, <2>2, <3>1, <3>2, BeforePast DEF Scanned
      <3> QED
        BY <2>1, <3>3 DEF Reachable
    <2> QED
      BY <1>5, <2>1, <2>3, <2>4, LiveAfter
  <1> QED
    BY <1>1, <1>2, <1>3, <1>4, <1>5, StepCases

LEMMA ShiftStep ==
  ASSUME IInv, [Next]_vars
  PROVE  ShiftInv'
  <1> USE DEF IInv
  <1>1. CASE pc' # "shift"
    BY <1>1 DEF ShiftInv
  <1>2. CASE UNCHANGED <<key, pc, call, hole, j>>
    BY <1>2 DEF ShiftInv, Live, Scanned, Before, Dist, Home
  <1>3. CASE EraseHit
    <2>1. /\ i \in Slot /\ call.id \in Keys /\ call.id # 0 /\ key[i] = call.id
          /\ hole' = i /\ j' = Succ(i) /\ key' = key /\ call' = call
          /\ pc # "shift"
      BY <1>3, KeysAssumption DEF EraseHit, TypeOK, CallShape
    <2>2. \A s \in Slot : Live(s)' => key[s] # call.id
      BY <1>3, <2>1, LiveAfter DEF UniqueKeys, Live
    <2>3. i # Succ(i)
      BY <2>1, DistType
    <2>4. \A s \in Slot : ~ Scanned(s)'
      BY <2>1, CapAssumption DEF Scanned, Dist, Succ, Slot
    <2> QED
      BY <2>1, <2>2, <2>3, <2>4 DEF ShiftInv
  <1>4. CASE ShiftKeep \/ ShiftMove
    <2>1. /\ hole \in Slot /\ j \in Slot /\ hole # j /\ key[hole] # 0
          /\ key[j] \in Keys /\ key[j] # 0 /\ j' = Succ(j) /\ Succ(j) \in Slot
          /\ pc = "shift" /\ call' = call /\ Home(key[j]) \in Slot /\ Live(j)
      BY <1>4, HomeType, SuccType
         DEF ShiftKeep, ShiftMove, ShiftInv, TypeOK, Live
    <2>2. CASE ShiftMove
      <3>1. hole' = j /\ key'[j] # 0 /\ j # Succ(j)
        BY <2>1, <2>2, DistType DEF ShiftMove, TypeOK
      <3>2. \A s \in Slot : Live(s)' => key'[s] # call.id
        BY <2>1, <2>2, LiveAfter DEF ShiftInv
      <3>3. \A s \in Slot : ~ Scanned(s)'
        BY <2>1, <3>1, CapAssumption DEF Scanned, Dist, Succ, Slot
      <3> QED
        BY <2>1, <3>1, <3>2, <3>3 DEF ShiftInv
    <2>3. CASE ShiftKeep
      <3>1. key' = key /\ hole' = hole /\ pc' = pc
        BY <2>3 DEF ShiftKeep
      <3>2. ~ Before(Home(key[j]), hole, j)
        BY <2>1, <2>3, StaysMeaning DEF ShiftKeep
      <3>3. ASSUME NEW s \in Slot, Scanned(s)'
            PROVE  Scanned(s) \/ s = j
        BY <2>1, <3>1, <3>3, CapAssumption DEF Scanned, Dist, Succ, Slot
      <3>4. \A s \in Slot :
              Scanned(s)' => key[s] # 0 /\ ~ Before(Home(key[s]), hole, s)
        BY <2>1, <3>2, <3>3 DEF ShiftInv
      <3>5. hole # Succ(j)
        <4> SUFFICES ASSUME hole = Succ(j)
                     PROVE  FALSE
          OBVIOUS
        <4>1. \A s \in Slot : s = hole \/ s = j \/ Scanned(s)
          BY <2>1, CapAssumption DEF Scanned, Dist, Succ, Slot
        <4> QED
          BY <2>1, <4>1, SomeEmpty DEF ShiftInv
      <3>6. \A s \in Slot : (Live(s)' <=> Live(s))
        BY <3>1 DEF Live
      <3> QED
        BY <2>1, <3>1, <3>4, <3>5, <3>6
           DEF ShiftInv, Before, Dist, Home
    <2> QED
      BY <1>4, <2>2, <2>3
  <1> QED
    BY <1>1, <1>2, <1>3, <1>4
       DEF Next, vars, Begin, Step, CallWithZero, Call, FirstLoop, ProbeOn,
         InsertKnown, InsertThrow, InsertNew, FindMiss, FindRead, FindUpdate,
         FindErase, EraseMiss, ShiftEnd, Return

-----------------------------------------------------------------------------
(* The invariant.                                                          *)

LEMMA InvInit == Init => IInv
  <1> SUFFICES ASSUME Init
               PROVE  IInv
    OBVIOUS
  <1>1. TypeOK
    BY TypeInit
  <1>2. /\ \A s \in Slot : key[s] = 0
        /\ pc = "idle" /\ call = NoCall /\ size = 0
    BY DEF Init
  <1>3. Occupied = {}
    BY <1>2 DEF Occupied
  <1>4. SizeCounts
    BY <1>2, <1>3, FS_EmptySet, LimitRange DEF SizeCounts
  <1>5. CallShape
    BY <1>2 DEF CallShape, NoCall
  <1> QED
    BY <1>1, <1>2, <1>4, <1>5
       DEF IInv, UniqueKeys, Reachable, ProbeInv, ShiftInv, Live

LEMMA InvStep == IInv /\ [Next]_vars => IInv'
  <1> SUFFICES ASSUME IInv, [Next]_vars
               PROVE  IInv'
    OBVIOUS
  <1>1. TypeOK' /\ SizeCounts' /\ CallShape' /\ ProbeInv'
    BY TypeStep, SizeStep, CallShapeStep, ProbeStep DEF IInv
  <1>2. UniqueKeys' /\ Reachable' /\ ShiftInv'
    BY UniqueStep, ReachableStep, ShiftStep
  <1> QED
    BY <1>1, <1>2 DEF IInv

(* In every reachable state the slots are well formed: no id is twice in   *)
(* the table, every record can be probed to from its home slot, size_      *)
(* counts the occupied slots and is at most half of them, and a running    *)
(* probe or shift has passed only what its loop assumes it has passed.     *)
THEOREM Invariance == Spec => []IInv
  <1> QED
    BY InvInit, InvStep, PTL DEF Spec

(* Type correctness.                                                       *)
THEOREM TypeCorrect == Spec => []TypeOK
  <1>1. IInv => TypeOK
    BY DEF IInv
  <1> QED
    BY <1>1, Invariance, PTL

(* Every order in the table can always be probed to.                       *)
THEOREM AlwaysReachable == Spec => []Reachable
  <1>1. IInv => Reachable
    BY DEF IInv
  <1> QED
    BY <1>1, Invariance, PTL

-----------------------------------------------------------------------------
\* What the contents are, without CHOOSE: each live slot's key and value.
ContentsBySlot ==
    /\ Contents = [k \in LiveKeys |-> Contents[k]]
    /\ \A s \in Slot : Live(s) => key[s] \in LiveKeys /\ Contents[key[s]] = val[s]
    /\ \A k \in LiveKeys : \E s \in Slot : Live(s) /\ key[s] = k
    /\ LiveKeys \subseteq Keys

(* The refinement mapping is well defined: SlotOf picks the one slot a key *)
(* is in.                                                                  *)
LEMMA ContentsFacts == IInv => ContentsBySlot
  <1> SUFFICES ASSUME IInv
               PROVE  ContentsBySlot
    OBVIOUS
  <1>1. Contents = [k \in LiveKeys |-> Contents[k]]
    BY DEF Contents
  <1>2. \A k \in LiveKeys : \E s \in Slot : Live(s) /\ key[s] = k
    BY DEF LiveKeys
  <1>3. LiveKeys \subseteq Keys
    BY DEF LiveKeys, Live, IInv, TypeOK
  <1>4. ASSUME NEW s \in Slot, Live(s)
        PROVE  key[s] \in LiveKeys /\ Contents[key[s]] = val[s]
    <2>1. key[s] \in LiveKeys
      BY <1>4 DEF LiveKeys
    <2>2. SlotOf(key[s]) \in Slot /\ Live(SlotOf(key[s])) /\ key[SlotOf(key[s])] = key[s]
      BY <1>4 DEF SlotOf
    <2>3. SlotOf(key[s]) = s
      BY <1>4, <2>2 DEF IInv, UniqueKeys
    <2> QED
      BY <2>1, <2>3 DEF Contents
  <1> QED
    BY <1>1, <1>2, <1>3, <1>4 DEF ContentsBySlot

(* Outside the shifting loop the live orders are as many as size_ says.    *)
LEMMA LiveKeysCount ==
  ASSUME IInv, pc # "shift"
  PROVE  Cardinality(LiveKeys) = size
  <1> DEFINE f == [s \in Occupied |-> key[s]]
  <1>1. \A s \in Slot : Live(s) <=> s \in Occupied
    BY DEF Live, Occupied
  <1>2. f \in Bijection(Occupied, LiveKeys)
    <2>1. f \in [Occupied -> LiveKeys]
      BY <1>1, ContentsFacts DEF Occupied, ContentsBySlot
    <2>2. \A s, t \in Occupied : f[s] = f[t] => s = t
      BY <1>1 DEF IInv, UniqueKeys, Occupied
    <2>3. \A k \in LiveKeys : \E s \in Occupied : f[s] = k
      BY <1>1, ContentsFacts DEF ContentsBySlot
    <2> QED
      BY <2>1, <2>2, <2>3 DEF Bijection, Injection, Surjection, IsInjective
  <1>3. Cardinality(LiveKeys) = Cardinality(Occupied)
    BY <1>2, SlotsFinite, FS_Bijection DEF ExistsBijection
  <1> QED
    BY <1>3 DEF IInv, SizeCounts

(* How each step changes the contents.                                     *)
LEMMA ContentsAfter ==
  ASSUME IInv, IInv', [Next]_vars
  PROVE  /\ Quiet /\ UNCHANGED val => Contents' = Contents
         /\ ShiftMove \/ ShiftEnd => Contents' = Contents
         /\ FindUpdate \/ InsertNew =>
              Contents' = [k \in LiveKeys \cup {call.id} |->
                             IF k = call.id THEN call.volume ELSE Contents[k]]
         /\ EraseHit =>
              Contents' = [k \in LiveKeys \ {call.id} |-> Contents[k]]
  <1>1. ContentsBySlot /\ ContentsBySlot'
    BY ContentsFacts, PTL
  <1>2. TypeOK /\ CallShape /\ ShiftInv /\ UniqueKeys
    BY DEF IInv
  <1>3. ASSUME Quiet, UNCHANGED val
        PROVE  Contents' = Contents
    <2>1. \A s \in Slot : (Live(s)' <=> Live(s)) /\ key'[s] = key[s] /\ val'[s] = val[s]
      BY <1>2, <1>3, LiveAfter
    <2>2. LiveKeys' = LiveKeys
      BY <1>1, <2>1 DEF ContentsBySlot
    <2>3. \A k \in LiveKeys : Contents'[k] = Contents[k]
      BY <1>1, <2>1 DEF ContentsBySlot
    <2> QED
      BY <1>1, <2>2, <2>3 DEF ContentsBySlot
  <1>4. ASSUME ShiftMove
        PROVE  Contents' = Contents
    <2>1. /\ hole \in Slot /\ j \in Slot /\ hole # j /\ Live(j) /\ ~ Live(hole)
          /\ key[j] # 0
      BY <1>2, <1>4 DEF ShiftMove, ShiftInv, TypeOK, Live
    <2>2. \A s \in Slot :
            /\ Live(s)' <=> (Live(s) \/ s = hole) /\ s # j
            /\ key'[s] = IF s = hole THEN key[j] ELSE key[s]
            /\ val'[s] = IF s = hole THEN val[j] ELSE val[s]
      BY <1>2, <1>4, LiveAfter DEF ShiftMove, TypeOK
    <2>3. LiveKeys' = LiveKeys
      BY <1>1, <2>1, <2>2 DEF ContentsBySlot
    <2>4. \A k \in LiveKeys : Contents'[k] = Contents[k]
      BY <1>1, <2>1, <2>2, <2>3 DEF ContentsBySlot
    <2> QED
      BY <1>1, <2>3, <2>4 DEF ContentsBySlot
  <1>5. ASSUME ShiftEnd
        PROVE  Contents' = Contents
    <2>1. \A s \in Slot :
            /\ Live(s)' <=> Live(s)
            /\ Live(s) => key'[s] = key[s] /\ val'[s] = val[s]
      BY <1>2, <1>5, LiveAfter DEF ShiftEnd, Live
    <2>2. LiveKeys' = LiveKeys
      BY <1>1, <2>1 DEF ContentsBySlot
    <2>3. \A k \in LiveKeys : Contents'[k] = Contents[k]
      BY <1>1, <2>1 DEF ContentsBySlot
    <2> QED
      BY <1>1, <2>2, <2>3 DEF ContentsBySlot
  <1>6. ASSUME FindUpdate \/ InsertNew
        PROVE  Contents' = [k \in LiveKeys \cup {call.id} |->
                             IF k = call.id THEN call.volume ELSE Contents[k]]
    <2>1. /\ i \in Slot
          /\ \A s \in Slot :
              /\ Live(s)' <=> Live(s) \/ s = i
              /\ key'[s] = IF s = i THEN call.id ELSE key[s]
              /\ val'[s] = IF s = i THEN call.volume ELSE val[s]
      <3>1. CASE InsertNew
        BY <1>2, <3>1, LiveAfter DEF InsertNew, TypeOK
      <3>2. CASE FindUpdate
        <4>1. i \in Slot /\ Live(i) /\ Quiet /\ key[i] = call.id
          BY <1>2, <3>2, KeysAssumption
             DEF FindUpdate, Return, TypeOK, CallShape, Live, Quiet
        <4> QED
          BY <1>2, <3>2, <4>1, LiveAfter DEF FindUpdate, TypeOK
      <3> QED
        BY <1>6, <3>1, <3>2
    <2>2. \A s \in Slot : Live(s) /\ s # i => key[s] # call.id
      <3>1. CASE InsertNew
        BY <3>1, ProbeAbsent DEF InsertNew, IInv
      <3>2. CASE FindUpdate
        BY <1>2, <2>1, <3>2, KeysAssumption DEF FindUpdate, UniqueKeys, Live, CallShape
      <3> QED
        BY <1>6, <3>1, <3>2
    <2>3. i \in Slot /\ (Live(i) => key[i] = call.id)
      BY <1>2, <1>6 DEF FindUpdate, InsertNew, TypeOK, Live
    <2>4. LiveKeys' = LiveKeys \cup {call.id}
      BY <1>1, <2>1, <2>2, <2>3 DEF ContentsBySlot
    <2>5. \A k \in LiveKeys \cup {call.id} :
            Contents'[k] = IF k = call.id THEN call.volume ELSE Contents[k]
      BY <1>1, <2>1, <2>2, <2>3 DEF ContentsBySlot
    <2> QED
      BY <1>1, <2>4, <2>5 DEF ContentsBySlot
  <1>7. ASSUME EraseHit
        PROVE  Contents' = [k \in LiveKeys \ {call.id} |-> Contents[k]]
    <2>1. /\ i \in Slot /\ key[i] = call.id /\ Live(i)
          /\ \A s \in Slot :
              /\ Live(s)' <=> Live(s) /\ s # i
              /\ key'[s] = key[s] /\ val'[s] = val[s]
      BY <1>2, <1>7, LiveAfter, KeysAssumption DEF EraseHit, TypeOK, CallShape, Live
    <2>2. \A s \in Slot : Live(s) /\ s # i => key[s] # call.id
      BY <1>2, <2>1 DEF UniqueKeys
    <2>3. LiveKeys' = LiveKeys \ {call.id}
      BY <1>1, <2>1, <2>2 DEF ContentsBySlot
    <2>4. \A k \in LiveKeys \ {call.id} : Contents'[k] = Contents[k]
      BY <1>1, <2>1, <2>2 DEF ContentsBySlot
    <2> QED
      BY <1>1, <2>3, <2>4 DEF ContentsBySlot
  <1> QED
    BY <1>3, <1>4, <1>5, <1>6, <1>7

-----------------------------------------------------------------------------
(* The steps of the loops map to steps of the dictionary.                  *)

LEMMA RefineInit == Init => Table!Init
  <1> SUFFICES ASSUME Init
               PROVE  Table!Init
    OBVIOUS
  <1>1. LiveKeys = {}
    BY DEF Init, LiveKeys, Live
  <1>2. Contents = [k \in {} |-> 0]
    BY <1>1 DEF Contents
  <1> QED
    BY <1>2 DEF Table!Init, AnswerNow, CallNow, Init, Answer, Table!Answer,
                NoCall, Table!NoCall, NoAnswer, Table!NoAnswer

\* The step at which a probe has its verdict on the id of the call.
LEMMA Verdict ==
  ASSUME IInv, pc \in {"insert", "find", "locate"}
  PROVE  /\ Table!Live = LiveKeys
         /\ CallNow = call
         /\ key[i] = 0 => call.id \notin LiveKeys
         /\ key[i] = call.id => call.id \in LiveKeys /\ Contents[call.id] = val[i]
  <1>1. ContentsBySlot
    BY ContentsFacts
  <1>2. call.id \in Keys /\ call.id # 0 /\ i \in Slot
    BY KeysAssumption DEF IInv, TypeOK, CallShape
  <1>3. Table!Live = LiveKeys
    BY <1>1 DEF ContentsBySlot, Table!Live
  <1>4. key[i] = 0 => call.id \notin LiveKeys
    BY <1>1, ProbeAbsent DEF IInv, ContentsBySlot
  <1>5. key[i] = call.id => Live(i)
    BY <1>2 DEF Live
  <1> QED
    BY <1>1, <1>2, <1>3, <1>4, <1>5 DEF ContentsBySlot, CallNow

\* A call that begins is one that the dictionary takes.
LEMMA RefineCall ==
  ASSUME IInv, IInv', Begin
  PROVE  Table!Next
  <1>1. ASSUME CallWithZero
        PROVE  Table!CallWithZero
    <2>1. /\ Quiet /\ UNCHANGED val /\ pc = "idle" /\ pc' = "idle" /\ call' = call
          /\ call = NoCall /\ answer' = Answer("ignored", 0)
      BY <1>1 DEF CallWithZero, Quiet, IInv, CallShape
    <2>2. UNCHANGED Contents
      BY <2>1, ContentsAfter DEF Next
    <2> QED
      BY <2>1, <2>2 DEF Table!CallWithZero, Table!Ignore, Table!Return, CallNow,
                        AnswerNow, NoCall, Table!NoCall, Answer, Table!Answer
  <1>2. ASSUME NEW op \in Op, NEW k \in Keys, NEW n \in Volume, Call(op, k, n),
               op = "add" => n \in 1..MaxVolume,
               op \in {"delete", "lookup", "erase"} => n = 0
        PROVE  Table!Begin
    <2>1. /\ Quiet /\ UNCHANGED val /\ pc = "idle" /\ answer' = Answer("none", 0)
          /\ pc' \in {"insert", "locate", "find"}
          /\ call = NoCall /\ call' = [op |-> op, id |-> k, volume |-> n]
      BY <1>2 DEF Call, NoAnswer, FirstLoop, Quiet, IInv, CallShape
    <2>2. UNCHANGED Contents
      BY <2>1, ContentsAfter DEF Next
    <2>3. [op |-> op, id |-> k, volume |-> n] \in Table!Calls
      BY <1>2 DEF Table!Calls, Table!Volume, Volume, Op
    <2>4. CallNow = Table!NoCall /\ CallNow' \in Table!Calls /\ AnswerNow' = Table!NoAnswer
      BY <2>1, <2>3 DEF CallNow, AnswerNow, NoCall, Table!NoCall, Answer, Table!Answer,
                        Table!NoAnswer
    <2> QED
      BY <2>2, <2>4 DEF Table!Begin
  <1>3. CASE CallWithZero
    BY <1>1, <1>3 DEF Table!Next
  <1>4. CASE \E id \in Keys : \E v \in 1..MaxVolume : Call("add", id, v)
    BY <1>2, <1>4, VolumeAssumption DEF Table!Next, Op, Volume
  <1>5. CASE \E id \in Keys : \E v \in Volume : Call("modify", id, v)
    BY <1>2, <1>5 DEF Table!Next, Op
  <1>6. CASE \E id \in Keys : \E op \in {"delete", "lookup", "erase"} : Call(op, id, 0)
    BY <1>2, <1>6, VolumeAssumption DEF Table!Next, Op, Volume
  <1> QED
    BY <1>3, <1>4, <1>5, <1>6 DEF Begin

LEMMA RefineStep ==
  ASSUME IInv, IInv', [Next]_vars
  PROVE  [Table!Next]_(Table!vars)
  <1> DEFINE id == call.id
             v == call.volume
  <1>1. /\ v \in Volume /\ TypeOK
        /\ pc = "insert" => call.op = "add"
        /\ pc = "find" => call.op \in {"lookup", "modify", "delete"}
        /\ pc = "locate" => Table!Removes
    BY DEF IInv, TypeOK, CallShape, Table!Removes, CallNow
  <1>0. \A S : Table!Cardinality(S) = Cardinality(S)
    BY DEF Table!Cardinality, Cardinality
  <1>2. ASSUME NEW w, NEW n, Return(w, n), pc # "shift"
        PROVE  Table!Return(w, n)
    BY <1>2 DEF Return, Table!Return, CallNow, AnswerNow, NoCall, Table!NoCall,
                Answer, Table!Answer
  <1>3. ASSUME Quiet, UNCHANGED <<val, call, answer>>
        PROVE  UNCHANGED Table!vars
    <2>1. AnswerNow' = AnswerNow /\ CallNow' = CallNow
      BY <1>3 DEF Quiet, AnswerNow, CallNow
    <2> QED
      BY <1>3, <2>1, ContentsAfter DEF Table!vars
  <1>4. ASSUME pc # "shift", UNCHANGED <<key, val>>, NEW w, NEW n, Return(w, n)
        PROVE  UNCHANGED Contents /\ Table!Return(w, n)
    <2>1. Quiet
      BY <1>4 DEF Quiet, Return
    <2> QED
      BY <1>2, <1>4, <2>1, ContentsAfter
  <1>5. CASE Begin
    BY <1>5, RefineCall
  <1>6. CASE InsertKnown
    <2>1. pc = "insert" /\ key[i] = id
      BY <1>6 DEF InsertKnown
    <2>2. Table!Ignore
      BY <1>4, <1>6, <2>1 DEF InsertKnown, Table!Ignore
    <2> QED
      BY <1>1, <2>1, <2>2, Verdict DEF Table!Add, Table!Next
  <1>7. CASE InsertThrow
    <2>1. pc = "insert" /\ key[i] = 0
      BY <1>7 DEF InsertThrow
    <2>2. UNCHANGED Contents /\ Table!Return("length_error", 0)
      BY <1>4, <1>7, <2>1 DEF InsertThrow
    <2>3. Cardinality(LiveKeys) = Limit
      BY <1>7, <2>1, LiveKeysCount DEF InsertThrow
    <2> QED
      BY <1>0, <1>1, <2>1, <2>2, <2>3, Verdict DEF Table!Add, Table!Next
  <1>8. CASE InsertNew
    <2>1. pc = "insert" /\ key[i] = 0
      BY <1>8 DEF InsertNew
    <2>2. Cardinality(LiveKeys) < Limit
      BY <1>1, <1>8, <2>1, LiveKeysCount, LimitRange
         DEF InsertNew, IInv, SizeCounts, TypeOK
    <2>3. Contents' = Table!With(id, v)
      BY <1>8, <2>1, ContentsAfter, Verdict DEF Table!With
    <2>4. Table!Return("done", 0)
      BY <1>2, <1>8, <2>1 DEF InsertNew
    <2> QED
      BY <1>0, <1>1, <2>1, <2>2, <2>3, <2>4, Verdict DEF Table!Add, Table!Next
  <1>9. CASE FindMiss \/ EraseMiss
    <2>1. pc \in {"find", "locate"} /\ key[i] = 0
      BY <1>9 DEF FindMiss, EraseMiss
    <2>2. Table!Ignore
      BY <1>4, <1>9, <2>1 DEF FindMiss, EraseMiss, Table!Ignore
    <2>3. id \notin Table!Live /\ CallNow = call
      BY <2>1, Verdict
    <2>4. CASE call.op = "lookup"
      BY <2>2, <2>3, <2>4 DEF Table!LookUp, Table!Next
    <2>5. CASE Table!Removes
      BY <2>2, <2>3, <2>5 DEF Table!Remove, Table!Next
    <2>6. CASE call.op = "modify" /\ v > 0
      BY <2>2, <2>3, <2>6 DEF Table!Modify, Table!Next
    <2> QED
      BY <1>1, <2>1, <2>3, <2>4, <2>5, <2>6, VolumeAssumption DEF Table!Removes, Volume
  <1>10. CASE FindRead
    <2>1. pc = "find" /\ key[i] = id /\ call.op = "lookup"
      BY <1>10 DEF FindRead
    <2>2. UNCHANGED Contents /\ Table!Return("found", val[i])
      BY <1>4, <1>10, <2>1 DEF FindRead
    <2> QED
      BY <2>1, <2>2, Verdict DEF Table!LookUp, Table!Next
  <1>11. CASE FindUpdate
    <2>1. pc = "find" /\ key[i] = id /\ call.op = "modify" /\ v > 0
      BY <1>11 DEF FindUpdate
    <2>2. Contents' = Table!With(id, v)
      BY <1>11, <2>1, ContentsAfter, Verdict DEF Table!With
    <2>3. Table!Return("done", 0)
      BY <1>2, <1>11, <2>1 DEF FindUpdate
    <2> QED
      BY <2>1, <2>2, <2>3, Verdict DEF Table!Modify, Table!Next
  <1>12. CASE EraseHit
    <2>1. pc = "locate" /\ key[i] = id
      BY <1>12 DEF EraseHit
    <2>2. Contents' = Table!Without(id)
      BY <1>12, <2>1, ContentsAfter, Verdict DEF Table!Without
    <2>3. Table!Return("done", 0)
      BY <1>12 DEF EraseHit, Table!Return, CallNow, AnswerNow, NoCall, Table!NoCall,
                   Answer, Table!Answer
    <2> QED
      BY <1>1, <2>1, <2>2, <2>3, Verdict DEF Table!Remove, Table!Next
  <1>13. CASE ShiftMove \/ ShiftEnd
    <2>1. AnswerNow' = AnswerNow /\ CallNow' = CallNow
      BY <1>13 DEF ShiftMove, ShiftEnd, Return, AnswerNow, CallNow, NoCall
    <2> QED
      BY <1>13, <2>1, ContentsAfter DEF Table!vars
  <1>14. CASE ProbeOn \/ FindErase \/ ShiftKeep \/ UNCHANGED vars
    <2>1. Quiet /\ UNCHANGED <<val, call, answer>>
      BY <1>14 DEF ProbeOn, FindErase, ShiftKeep, vars, Quiet
    <2> QED
      BY <1>3, <2>1
  <1> QED
    BY <1>5, <1>6, <1>7, <1>8, <1>9, <1>10, <1>11, <1>12, <1>13, <1>14
       DEF Next, Step

(* The open-addressing table implements the bounded dictionary: every      *)
(* answer it gives, the refusal at half load included, is the dictionary's.*)
THEOREM Implementation == Spec => ImplementsTable
  <1>1. IInv /\ IInv' /\ [Next]_vars => [Table!Next]_(Table!vars)
    BY RefineStep
  <1> QED
    BY <1>1, RefineInit, Invariance, PTL DEF Spec, ImplementsTable, Table!Spec

-----------------------------------------------------------------------------
(* Which slots are occupied.  p puts the keys ks in the slots occ, each so *)
(* that a probe from its home reaches it: that determines occ.             *)
Places(p, ks, occ) ==
    /\ p \in [ks -> Slot]
    /\ \A a, b \in ks : p[a] = p[b] => a = b
    /\ \A s : s \in occ <=> \E k \in ks : p[k] = s
    /\ \A k \in ks : \A t \in Slot : Before(Home(k), t, p[k]) => t \in occ

Placed(ks, occ) == \E p : Places(p, ks, occ)

\* t lies on the way from a to b, or is one of them.
Upto(a, t, b) == Dist(a, t) <= Dist(a, b)

LEMMA UptoBefore ==
    ASSUME NEW a \in Slot, NEW t \in Slot, NEW b \in Slot
    PROVE  /\ Upto(a, t, b) <=> Before(a, t, b) \/ t = b
           /\ Upto(a, a, b) /\ Upto(a, b, b)
  BY CapAssumption DEF Slot, Dist, Before, Upto

\* From the home h of a record at t, on the way to s: t is on the way to s,
\* or the way to s is part of the way to t.
LEMMA UptoHome ==
    ASSUME NEW h \in Slot, NEW t \in Slot, NEW s \in Slot, NEW u \in Slot,
           Upto(h, u, s)
    PROVE  Upto(h, u, t) \/ Upto(t, u, s)
  BY CapAssumption DEF Slot, Dist, Upto

LEMMA UptoPart ==
    ASSUME NEW h \in Slot, NEW t \in Slot, NEW s \in Slot, NEW u \in Slot,
           Before(h, t, s), Upto(t, u, s)
    PROVE  Upto(h, u, s)
  BY CapAssumption DEF Slot, Dist, Upto, Before

\* The slots from which a probe reaches s over occupied slots.
Run(occ, s) == {t \in Slot : \A u \in Slot : Upto(t, u, s) => u \in occ}

\* Two placements of the same keys: what one occupies, the other does.
LEMMA OnePlacement ==
    ASSUME NEW ks \in SUBSET Keys, NEW A, NEW B, Placed(ks, A), Placed(ks, B), NEW s \in A
    PROVE  s \in B
  <1>1. PICK p : Places(p, ks, A)
    BY DEF Placed
  <1>2. PICK q : Places(q, ks, B)
    BY DEF Placed
  <1>3. SUFFICES ASSUME s \notin B
                 PROVE  FALSE
    OBVIOUS
  <1>4. s \in Slot
    BY <1>1 DEF Places
  <1>5. PICK R : R = Run(A, s)
    OBVIOUS
  <1>6. R \in SUBSET Slot /\ \A t \in R : \A u \in Slot : Upto(t, u, s) => u \in A
    BY <1>5 DEF Run
  <1>7. s \in R
    <2>1. \A u \in Slot : Upto(s, u, s) => u = s
      BY <1>4, CapAssumption DEF Slot, Dist, Upto
    <2> QED
      BY <1>4, <1>5, <2>1 DEF Run
  <1>8. \A t \in R : \E k \in ks : p[k] = t
    <2>1. TAKE t \in R
    <2>2. t \in A
      BY <1>4, <1>6, UptoBefore
    <2> QED
      BY <1>1, <2>2 DEF Places
  <1>9. PICK at : at = [t \in R |-> CHOOSE k \in ks : p[k] = t]
    OBVIOUS
  <1>10. \A t \in R : at[t] \in ks /\ p[at[t]] = t
    BY <1>8, <1>9
  <1>11. ASSUME NEW t \in R
         PROVE  q[at[t]] \in R \ {s}
    <2>1. PICK k \in ks : k = at[t] /\ p[k] = t
      BY <1>10
    <2>2. PICK h \in Slot : h = Home(k)
      BY HomeType
    <2>3. t \in Slot
      BY <1>6
    <2>4. \A u \in Slot : Upto(h, u, t) => u \in A
      <3>1. \A u \in Slot : Before(h, u, t) => u \in A
        BY <1>1, <2>1, <2>2 DEF Places
      <3>2. t \in A
        BY <1>4, <1>6, <2>3, UptoBefore
      <3> QED
        BY <2>3, <3>1, <3>2, UptoBefore
    <2>5. \A u \in Slot : Upto(h, u, s) => u \in A
      BY <1>4, <1>6, <2>3, <2>4, UptoHome
    <2>6. PICK v \in Slot : v = q[k]
      BY <1>2 DEF Places
    <2>7. \A u \in Slot : Before(h, u, v) => u \in B
      BY <1>2, <2>1, <2>2, <2>6 DEF Places
    <2>8. v \in B
      BY <1>2, <2>6 DEF Places
    <2>9. v # s /\ ~ Before(h, s, v)
      BY <1>3, <1>4, <2>7, <2>8
    <2>10. Before(h, v, s)
      BY <1>4, <2>9, BeforeTotal
    <2>11. \A u \in Slot : Upto(v, u, s) => u \in A
      BY <1>4, <2>5, <2>10, UptoPart
    <2> QED
      BY <1>5, <2>1, <2>6, <2>9, <2>11 DEF Run
  <1>12. PICK f : f = [t \in R |-> q[at[t]]]
    OBVIOUS
  <1>13. f \in [R -> R \ {s}]
    BY <1>11, <1>12
  <1>14. \A t, u \in R : f[t] = f[u] => t = u
    <2> SUFFICES ASSUME NEW t \in R, NEW u \in R, f[t] = f[u]
                 PROVE  t = u
      OBVIOUS
    <2>1. q[at[t]] = q[at[u]]
      BY <1>12
    <2>2. at[t] = at[u]
      BY <1>2, <1>10, <2>1 DEF Places
    <2> QED
      BY <1>10, <2>2
  <1>15. IsFiniteSet(R) /\ Cardinality(R) \in Nat
    BY <1>6, SlotsFinite, FS_Subset, FS_CardinalityType
  <1>16. IsFiniteSet(R \ {s}) /\ Cardinality(R \ {s}) = Cardinality(R) - 1
    BY <1>7, <1>15, FS_RemoveElement
  <1>17. Cardinality(R \ {s}) < Cardinality(R)
    BY <1>15, <1>16
  <1> QED
    BY <1>13, <1>14, <1>15, <1>16, <1>17, FS_PigeonHole

\* Keys that leave a slot free.
Few(ks) == ks \in SUBSET Keys /\ IsFiniteSet(ks) /\ Cardinality(ks) < Cap

LEMMA SlotIsFree ==
    ASSUME NEW ks, Few(ks), NEW occ, Placed(ks, occ)
    PROVE  occ \in SUBSET Slot /\ occ # Slot
  <1>1. PICK p : Places(p, ks, occ)
    BY DEF Placed
  <1>2. p \in Surjection(ks, occ)
    BY <1>1 DEF Places, Surjection
  <1>3. Cardinality(occ) <= Cardinality(ks) /\ IsFiniteSet(occ)
    BY <1>2, FS_Surjection DEF Few
  <1>4. Cardinality(occ) \in Nat /\ Cardinality(ks) \in Nat
    BY <1>3, FS_CardinalityType DEF Few
  <1>5. occ # Slot
    BY <1>3, <1>4, SlotsFinite, CapAssumption DEF Few
  <1> QED
    BY <1>1, <1>5 DEF Places

-----------------------------------------------------------------------------
(* The slots that InsertOnly fills are where some placement puts the keys. *)
LEMMA LeastOf ==
    ASSUME NEW S \in SUBSET Nat, S # {}
    PROVE  \E x \in S : \A y \in S : x <= y
  <1>1. PICK x \in S : \A y \in S : ~ (<<y, x>> \in OpToRel(<, Nat))
    BY NatLessThanWellFounded, WFMin
  <1>2. OpToRel(<, Nat) = {ss \in Nat \X Nat : ss[1] < ss[2]}
    BY Zenon DEF OpToRel
  <1>3. \A y \in S : x <= y
    <2>1. TAKE y \in S
    <2>2. <<y, x>> \notin {ss \in Nat \X Nat : ss[1] < ss[2]}
      BY <1>1, <1>2, Zenon
    <2> QED
      BY <2>2
  <1> QED
    BY <1>3

\* What is wrong of some subset of S is wrong of a smallest one, and so of
\* none of the smaller sets that are left when an element goes.
LEMMA SmallestSubset ==
    ASSUME NEW S, IsFiniteSet(S), NEW Wrong \in SUBSET (SUBSET S), Wrong # {}
    PROVE  \E s \in Wrong : \A x \in s : \A t \in SUBSET (s \ {x}) : t \notin Wrong
  <1>1. \A s \in SUBSET S : IsFiniteSet(s) /\ Cardinality(s) \in Nat
    BY FS_Subset, FS_CardinalityType
  <1>2. PICK Sizes : Sizes = {Cardinality(s) : s \in Wrong}
    OBVIOUS
  <1>3. Sizes \in SUBSET Nat /\ Sizes # {}
    BY <1>1, <1>2
  <1>4. PICK c \in Sizes : \A d \in Sizes : c <= d
    BY <1>3, LeastOf
  <1>5. PICK s \in Wrong : c = Cardinality(s)
    BY <1>2, <1>4
  <1>6. ASSUME NEW x \in s, NEW t \in SUBSET (s \ {x})
        PROVE  t \notin Wrong
    <2>1. IsFiniteSet(s \ {x}) /\ Cardinality(s \ {x}) = Cardinality(s) - 1
      BY <1>1, FS_RemoveElement
    <2>2. Cardinality(t) <= Cardinality(s \ {x})
      BY <2>1, FS_Subset
    <2>3. Cardinality(t) < c
      <3>1. s \in SUBSET S /\ t \in SUBSET S
        OBVIOUS
      <3>2. Cardinality(t) \in Nat /\ Cardinality(s) \in Nat
        BY <1>1, <3>1
      <3> QED
        BY <1>5, <2>1, <2>2, <3>2
    <2>4. t \in Wrong => c <= Cardinality(t)
      BY <1>2, <1>4
    <2>5. c \in Nat /\ Cardinality(t) \in Nat
      <3>1. t \in SUBSET S
        OBVIOUS
      <3> QED
        BY <1>1, <1>3, <3>1
    <2> QED
      BY <2>3, <2>4, <2>5
  <1> QED
    BY <1>6

LEMMA FirstFreeIs ==
    ASSUME NEW occ \in SUBSET Slot, occ # Slot, NEW h \in Slot
    PROVE  /\ FirstFree(occ, h) \in Slot \ occ
           /\ \A t \in Slot : Before(h, t, FirstFree(occ, h)) => t \in occ
  <1>1. PICK D : D = {Dist(h, s) : s \in Slot \ occ}
    OBVIOUS
  <1>2. D \in SUBSET Nat
    <2>1. \A s \in Slot : Dist(h, s) \in Nat
      BY DistType, CapAssumption DEF Slot
    <2> QED
      BY <1>1, <2>1
  <1>3. D # {}
    BY <1>1
  <1>4. PICK d \in D : \A e \in D : d <= e
    BY <1>2, <1>3, LeastOf
  <1>5. PICK s \in Slot \ occ : d = Dist(h, s)
    BY <1>1
  <1>6. \A t \in Slot \ occ : Dist(h, s) <= Dist(h, t)
    BY <1>1, <1>4, <1>5
  <1>7. PICK x : x = FirstFree(occ, h)
    OBVIOUS
  <1>8. x \in Slot \ occ /\ \A t \in Slot \ occ : Dist(h, x) <= Dist(h, t)
    BY <1>5, <1>6, <1>7, Zenon DEF FirstFree
  <1>9. \A t \in Slot : Before(h, t, x) => t \in occ
    <2>1. \A t \in Slot : Dist(h, t) \in Nat
      BY DistType, CapAssumption DEF Slot
    <2> QED
      BY <1>8, <2>1 DEF Before
  <1> QED
    BY <1>7, <1>8, <1>9

\* One more key.
With(occ, k) == occ \cup {FirstFree(occ, Home(k))}

LEMMA PlaceOneMore ==
    ASSUME NEW ks, Few(ks), NEW x \in ks, NEW occ, Placed(ks \ {x}, occ)
    PROVE  Placed(ks, With(occ, x))
  <1>1. PICK less : less = ks \ {x}
    OBVIOUS
  <1>2. Few(less)
    <2>1. IsFiniteSet(less) /\ Cardinality(less) = Cardinality(ks) - 1 /\ Cardinality(ks) \in Nat
      BY <1>1, FS_RemoveElement, FS_CardinalityType DEF Few
    <2> QED
      BY <1>1, <2>1, CapAssumption DEF Few
  <1>3. occ \in SUBSET Slot /\ occ # Slot
    BY <1>1, <1>2, SlotIsFree
  <1>4. PICK h \in Slot : h = Home(x)
    BY HomeType DEF Few
  <1>5. PICK z : z = FirstFree(occ, h)
    OBVIOUS
  <1>6. z \in Slot \ occ /\ \A t \in Slot : Before(h, t, z) => t \in occ
    BY <1>3, <1>5, FirstFreeIs
  <1>7. PICK p : Places(p, less, occ)
    BY <1>1 DEF Placed
  <1>8. PICK q : q = [k \in ks |-> IF k = x THEN z ELSE p[k]]
    OBVIOUS
  <1>9. q[x] = z /\ \A k \in less : k # x /\ q[k] = p[k] /\ p[k] \in occ
    BY <1>1, <1>7, <1>8 DEF Places
  <1>10. q \in [ks -> Slot]
    BY <1>1, <1>3, <1>6, <1>8, <1>9
  <1>11. \A a, b \in ks : q[a] = q[b] => a = b
    <2> SUFFICES ASSUME NEW a \in ks, NEW b \in ks, q[a] = q[b]
                 PROVE  a = b
      OBVIOUS
    <2>1. CASE a \in less /\ b \in less
      BY <1>7, <1>9, <2>1 DEF Places
    <2>2. CASE a = x \/ b = x
      BY <1>1, <1>6, <1>9, <2>2
    <2> QED
      BY <1>1, <2>1, <2>2
  <1>12. PICK o : o = occ \cup {z}
    OBVIOUS
  <1>13. \A s : s \in o <=> \E k \in ks : q[k] = s
    <2>1. \A s : s \in occ <=> \E k \in less : p[k] = s
      BY <1>7 DEF Places
    <2> QED
      BY <1>1, <1>9, <1>12, <2>1
  <1>14. \A k \in ks : \A t \in Slot : Before(Home(k), t, q[k]) => t \in o
    <2> SUFFICES ASSUME NEW k \in ks, NEW t \in Slot, Before(Home(k), t, q[k])
                 PROVE  t \in o
      OBVIOUS
    <2>1. CASE k = x
      BY <1>4, <1>6, <1>9, <1>12, <2>1
    <2>2. CASE k # x
      <3>1. k \in less /\ Before(Home(k), t, p[k])
        BY <1>1, <1>9, <2>2
      <3>2. t \in occ
        BY <1>7, <3>1 DEF Places
      <3> QED
        BY <1>12, <3>2
    <2> QED
      BY <2>1, <2>2
  <1>15. Places(q, ks, o)
    BY <1>10, <1>11, <1>13, <1>14 DEF Places
  <1>16. o = With(occ, x)
    BY <1>4, <1>5, <1>12 DEF With
  <1> QED
    BY <1>15, <1>16 DEF Placed

LEMMA FewerAreFew ==
    ASSUME NEW S, Few(S), NEW s \in SUBSET S
    PROVE  Few(s)
  <1>1. IsFiniteSet(s) /\ Cardinality(s) <= Cardinality(S)
    BY FS_Subset DEF Few
  <1>2. Cardinality(s) \in Nat /\ Cardinality(S) \in Nat
    BY <1>1, FS_CardinalityType DEF Few
  <1> QED
    BY <1>1, <1>2, CapAssumption DEF Few

LEMMA PlacedNone == Placed({}, {})
  <1>1. PICK p : p = [k \in {} |-> 0]
    OBVIOUS
  <1>2. Places(p, {}, {})
    BY <1>1 DEF Places
  <1> QED
    BY <1>2 DEF Placed

LEMMA PlacedSome ==
    ASSUME NEW S, Few(S)
    PROVE  \E occ : Placed(S, occ)
  <1>1. PICK Wrong : Wrong = {s \in SUBSET S : ~ \E occ : Placed(s, occ)}
    OBVIOUS
  <1>2. SUFFICES ASSUME Wrong # {}
                 PROVE  FALSE
    BY <1>1
  <1>3. Wrong \in SUBSET (SUBSET S) /\ IsFiniteSet(S)
    BY <1>1 DEF Few
  <1>4. PICK s \in Wrong : \A x \in s : \A t \in SUBSET (s \ {x}) : t \notin Wrong
    BY <1>2, <1>3, SmallestSubset
  <1>5. s \in SUBSET S /\ Few(s) /\ ~ \E occ : Placed(s, occ)
    BY <1>1, FewerAreFew
  <1>6. s # {}
    BY <1>5, PlacedNone
  <1>7. PICK x \in s : TRUE
    BY <1>6
  <1>8. PICK occ : Placed(s \ {x}, occ)
    BY <1>1, <1>4, <1>5
  <1>9. Placed(s, With(occ, x))
    BY <1>5, <1>8, PlaceOneMore
  <1> QED
    BY <1>5, <1>9

LEMMA SamePlace ==
    ASSUME NEW S, Few(S), NEW A, NEW B, Placed(S, A), Placed(S, B)
    PROVE  A = B
  <1>1. S \in SUBSET Keys
    BY DEF Few
  <1>2. \A s \in A : s \in B
    BY <1>1, OnePlacement
  <1>3. \A s \in B : s \in A
    BY <1>1, OnePlacement
  <1> QED
    BY <1>2, <1>3

\* The fold of InsertOnly.
One(s) == CHOOSE x \in s : TRUE

LEMMA InsertOnlyPlaces ==
    ASSUME NEW S, Few(S)
    PROVE  Placed(S, InsertOnly(S))
  <1>1. PICK g : g = [s \in SUBSET S |-> CHOOSE occ : Placed(s, occ)]
    OBVIOUS
  <1>2. ASSUME NEW s \in SUBSET S
        PROVE  Few(s) /\ Placed(s, g[s])
    <2>1. Few(s)
      BY FewerAreFew
    <2>2. \E occ : Placed(s, occ)
      BY <2>1, PlacedSome
    <2> QED
      BY <1>1, <2>1, <2>2, Zenon
  <1>3. ASSUME NEW s \in SUBSET S
        PROVE  g[s] = IF s = {} THEN {} ELSE g[s \ {One(s)}] \cup {FirstFree(g[s \ {One(s)}], Home(One(s)))}
    <2>1. CASE s = {}
      <3>1. Placed(s, {})
        BY <2>1, PlacedNone
      <3> QED
        BY <1>2, <2>1, <3>1, SamePlace
    <2>2. CASE s # {}
      <3>1. PICK x : x = One(s) /\ x \in s
        BY <2>2 DEF One
      <3>2. Placed(s \ {x}, g[s \ {x}])
        BY <1>2
      <3>3. Placed(s, With(g[s \ {x}], x))
        BY <1>2, <3>1, <3>2, PlaceOneMore
      <3>4. g[s] = With(g[s \ {x}], x)
        BY <1>2, <3>3, SamePlace
      <3> QED
        BY <2>2, <3>1, <3>4, Zenon DEF With
    <2> QED
      BY <2>1, <2>2
  <1>4. g = [s \in SUBSET S |-> IF s = {} THEN {}
               ELSE g[s \ {One(s)}] \cup {FirstFree(g[s \ {One(s)}], Home(One(s)))}]
    BY <1>1, <1>3
  <1>5. PICK iter : iter = CHOOSE f : f =
             [s \in SUBSET S |-> IF s = {} THEN {}
               ELSE f[s \ {One(s)}] \cup {FirstFree(f[s \ {One(s)}], Home(One(s)))}]
    OBVIOUS
  <1>6. InsertOnly(S) = iter[S]
    BY <1>5, Zenon DEF InsertOnly, FoldSet, MapThenFoldSet, One
  <1>7. iter = [s \in SUBSET S |-> IF s = {} THEN {}
               ELSE iter[s \ {One(s)}] \cup {FirstFree(iter[s \ {One(s)}], Home(One(s)))}]
    BY <1>4, <1>5, Zenon
  <1>8. ASSUME NEW s \in SUBSET S, s # {}
        PROVE  \E x \in s : iter[s] = With(iter[s \ {x}], x)
    <2>1. PICK x : x = One(s) /\ x \in s
      BY <1>8 DEF One
    <2>2. iter[s] = iter[s \ {One(s)}] \cup {FirstFree(iter[s \ {One(s)}], Home(One(s)))}
      BY <1>7, <1>8
    <2> QED
      BY <2>1, <2>2, Zenon DEF With
  <1>9. PICK Wrong : Wrong = {s \in SUBSET S : ~ Placed(s, iter[s])}
    OBVIOUS
  <1>10. SUFFICES ASSUME Wrong # {}
                  PROVE  FALSE
    BY <1>6, <1>9
  <1>11. Wrong \in SUBSET (SUBSET S) /\ IsFiniteSet(S)
    BY <1>9 DEF Few
  <1>12. PICK s \in Wrong : \A x \in s : \A t \in SUBSET (s \ {x}) : t \notin Wrong
    BY <1>10, <1>11, SmallestSubset
  <1>13. s \in SUBSET S /\ ~ Placed(s, iter[s])
    BY <1>9
  <1>14. CASE s = {}
    <2>1. iter[s] = {}
      BY <1>7, <1>13, <1>14
    <2> QED
      BY <1>13, <1>14, <2>1, PlacedNone
  <1>15. CASE s # {}
    <2>1. PICK x \in s : iter[s] = With(iter[s \ {x}], x)
      BY <1>8, <1>13, <1>15
    <2>2. Placed(s \ {x}, iter[s \ {x}])
      BY <1>9, <1>12, <1>13
    <2>3. Placed(s, iter[s])
      BY <1>2, <1>13, <2>1, <2>2, PlaceOneMore
    <2> QED
      BY <1>13, <2>3
  <1> QED
    BY <1>14, <1>15

\* Between calls the table itself is a placement of its live keys.
LEMMA TablePlaces ==
    ASSUME IInv, pc = "idle"
    PROVE  Few(LiveKeys) /\ Placed(LiveKeys, Occupied)
  <1>1. \A s \in Slot : Live(s) <=> s \in Occupied
    BY DEF Live, Occupied
  <1>2. /\ \A s \in Slot : Live(s) => key[s] \in LiveKeys
        /\ \A k \in LiveKeys : \E s \in Slot : Live(s) /\ key[s] = k
        /\ LiveKeys \subseteq Keys
    BY ContentsFacts DEF ContentsBySlot
  <1>3. PICK p : p = [k \in LiveKeys |-> CHOOSE s \in Slot : Live(s) /\ key[s] = k]
    OBVIOUS
  <1>4. \A k \in LiveKeys : p[k] \in Slot /\ Live(p[k]) /\ key[p[k]] = k
    BY <1>2, <1>3
  <1>5. \A s \in Slot : Live(s) => p[key[s]] = s
    BY <1>2, <1>4 DEF IInv, UniqueKeys
  <1>6. Places(p, LiveKeys, Occupied)
    <2>1. p \in [LiveKeys -> Slot]
      BY <1>3, <1>4
    <2>2. \A a, b \in LiveKeys : p[a] = p[b] => a = b
      BY <1>4
    <2>3. \A s : s \in Occupied <=> \E k \in LiveKeys : p[k] = s
      <3>1. \A s \in Occupied : \E k \in LiveKeys : p[k] = s
        BY <1>1, <1>2, <1>5, SlotsFinite
      <3> QED
        BY <1>1, <1>4, <3>1
    <2>4. \A k \in LiveKeys : \A t \in Slot : Before(Home(k), t, p[k]) => t \in Occupied
      BY <1>4 DEF IInv, Reachable, Occupied
    <2> QED
      BY <2>1, <2>2, <2>3, <2>4 DEF Places
  <1>7. IsFiniteSet(LiveKeys)
    <2>1. PICK f : f = [s \in Occupied |-> key[s]]
      OBVIOUS
    <2>2. f \in Surjection(Occupied, LiveKeys)
      BY <1>1, <1>2, <2>1, SlotsFinite DEF Surjection
    <2> QED
      BY <2>2, SlotsFinite, FS_Surjection
  <1>8. Cardinality(LiveKeys) < Cap
    <2>1. Cardinality(LiveKeys) = size
      BY LiveKeysCount
    <2> QED
      BY <2>1, LimitRange, CapAssumption DEF IInv, SizeCounts, TypeOK
  <1> QED
    BY <1>2, <1>6, <1>7, <1>8 DEF Few, Placed

(* After any history of inserts and erases, the occupied slots are those   *)
(* of a table that has only inserted what is live: probes are never longer *)
(* for what has come and gone.                                             *)
THEOREM LeavesNoTombstones == Spec => []NoTombstones
  <1>1. IInv => NoTombstones
    <2> SUFFICES ASSUME IInv, pc = "idle"
                 PROVE  Occupied = InsertOnly(LiveKeys)
      BY DEF NoTombstones
    <2> QED
      BY TablePlaces, InsertOnlyPlaces, SamePlace
  <1> QED
    BY <1>1, Invariance, PTL
=============================================================================
