--------------------------- MODULE FlatOrderTable ---------------------------
(***************************************************************************)
(* The open-addressing order table of src/ob/OrderTable.hpp: linear        *)
(* probing, at most half full, key 0 for an empty slot, and an Erase that  *)
(* moves later records back instead of leaving a tombstone.  One action is *)
(* one iteration of one of its loops.  The calls come from TableOnlyBook   *)
(* (src/ob/TableBook.hpp) and, for Erase of an absent id, from the tests.  *)
(*                                                                         *)
(* The hash is a constant function: FlatIdentityTable and FlatMixTable     *)
(* differ in nothing else.  Cap is what Reserve chose; the code makes it a *)
(* power of two so that & mask is % Cap, which is all the model uses.      *)
(***************************************************************************)
EXTENDS Naturals, FiniteSetsExt

CONSTANTS
    Cap,        \* number of slots
    Keys,       \* the order ids in use
    Mix,        \* the hash: Mix[id], any natural number
    MaxVolume   \* bound on the volumes that calls carry

ASSUME CapAssumption == Cap \in Nat /\ Cap >= 2
ASSUME KeysAssumption == Keys \subseteq Nat \ {0}
ASSUME MixAssumption == Mix \in [Keys -> Nat]
ASSUME VolumeAssumption == MaxVolume \in Nat

VARIABLES
    key,        \* slots_[s].key; 0 marks an empty slot
    val,        \* slots_[s].value, which Erase and TryInsert do not reset
    size,       \* size_
    pc,         \* the loop that is running, "idle" between two calls
    call,       \* the call being executed: operation, id and volume
    i,          \* the index of the probe loops, and of Erase's first loop
                \* (which names it hole)
    hole, j,    \* the indices of Erase's second loop
    answer      \* what the last call answered

vars == <<key, val, size, pc, call, i, hole, j, answer>>

Slot == 0..Cap-1

Limit == Cap \div 2

Volume == 0..MaxVolume

Op == {"add", "modify", "delete", "lookup", "erase"}

NoCall == [op |-> "none", id |-> 0, volume |-> 0]

Answer(what, v) == [what |-> what, volume |-> v]

NoAnswer == Answer("none", 0)

Home(id) == Mix[id] % Cap

Succ(s) == IF s = Cap - 1 THEN 0 ELSE s + 1

\* (b - a) & mask_ : how many probes from slot a to slot b
Dist(a, b) == IF a <= b THEN b - a ELSE (b + Cap) - a

Init ==
    /\ key = [s \in Slot |-> 0]
    /\ val = [s \in Slot |-> 0]
    /\ size = 0
    /\ pc = "idle"
    /\ call = NoCall
    /\ i = 0 /\ hole = 0 /\ j = 0
    /\ answer = NoAnswer

-----------------------------------------------------------------------------
(* Calling and returning.                                                  *)

FirstLoop(op) ==
    IF op = "add" THEN "insert" ELSE IF op = "erase" THEN "locate" ELSE "find"

\* Every operation starts to probe at the home slot of the id, and has not
\* answered yet.
Call(op, id, v) ==
    /\ pc = "idle"
    /\ pc' = FirstLoop(op)
    /\ call' = [op |-> op, id |-> id, volume |-> v]
    /\ answer' = NoAnswer
    /\ i' = Home(id)
    /\ UNCHANGED <<key, val, size, hole, j>>

\* Id 0 is the empty marker: TryInsert, Find and Erase return at once.
CallWithZero ==
    /\ pc = "idle"
    /\ answer' = Answer("ignored", 0)
    /\ UNCHANGED <<key, val, size, pc, call, i, hole, j>>

\* The locals go out of scope.
Return(what, v) ==
    /\ pc' = "idle"
    /\ call' = NoCall
    /\ i' = 0 /\ hole' = 0 /\ j' = 0
    /\ answer' = Answer(what, v)

\* The three probe loops go on alike when a slot holds some other key.
ProbeOn ==
    /\ pc \in {"insert", "find", "locate"}
    /\ key[i] # call.id /\ key[i] # 0
    /\ i' = Succ(i)
    /\ UNCHANGED <<key, val, size, pc, call, hole, j, answer>>

-----------------------------------------------------------------------------
(* TryInsert, and OnAdd's assignment to the record it returns.             *)

InsertKnown ==
    /\ pc = "insert" /\ key[i] = call.id
    /\ Return("ignored", 0)
    /\ UNCHANGED <<key, val, size>>

InsertThrow ==
    /\ pc = "insert" /\ key[i] = 0
    /\ size = Limit
    /\ Return("length_error", 0)
    /\ UNCHANGED <<key, val, size>>

InsertNew ==
    /\ pc = "insert" /\ key[i] = 0
    /\ size # Limit
    /\ key' = [key EXCEPT ![i] = call.id]
    /\ val' = [val EXCEPT ![i] = call.volume]
    /\ size' = size + 1
    /\ Return("done", 0)

-----------------------------------------------------------------------------
(* Find, and what the callers do with the record it returns.               *)

FindMiss ==
    /\ pc = "find" /\ key[i] = 0
    /\ Return("ignored", 0)
    /\ UNCHANGED <<key, val, size>>

FindRead ==
    /\ pc = "find" /\ key[i] = call.id
    /\ call.op = "lookup"
    /\ Return("found", val[i])
    /\ UNCHANGED <<key, val, size>>

FindUpdate ==
    /\ pc = "find" /\ key[i] = call.id
    /\ call.op = "modify" /\ call.volume > 0
    /\ val' = [val EXCEPT ![i] = call.volume]
    /\ Return("done", 0)
    /\ UNCHANGED <<key, size>>

\* A delete, or a modify to nothing, calls Erase, which probes again.
FindErase ==
    /\ pc = "find" /\ key[i] = call.id
    /\ \/ call.op = "delete"
       \/ call.op = "modify" /\ call.volume = 0
    /\ pc' = "locate"
    /\ i' = Home(call.id)
    /\ UNCHANGED <<key, val, size, call, hole, j, answer>>

-----------------------------------------------------------------------------
(* Erase: find the hole, then move back every record of the run that the   *)
(* hole would cut off from its home slot.                                  *)

EraseMiss ==
    /\ pc = "locate" /\ key[i] = 0
    /\ Return("ignored", 0)
    /\ UNCHANGED <<key, val, size>>

EraseHit ==
    /\ pc = "locate" /\ key[i] = call.id
    /\ pc' = "shift"
    /\ hole' = i
    /\ j' = Succ(i)
    /\ i' = 0
    /\ UNCHANGED <<key, val, size, call, answer>>

\* Mutants: no case for the wrap; no record ever moved.
StaysUnwrapped(hh, jj, h) == hh < h /\ h <= jj

StaysAlways(hh, jj, h) == TRUE

Stays(hh, jj, h) ==
    IF hh < jj THEN hh < h /\ h <= jj ELSE hh < h \/ h <= jj

\* A mutant: the loop goes on without its last line.
ShiftKeepStuck ==
    /\ pc = "shift" /\ key[j] # 0
    /\ Stays(hole, j, Home(key[j]))
    /\ UNCHANGED vars

ShiftKeep ==
    /\ pc = "shift" /\ key[j] # 0
    /\ Stays(hole, j, Home(key[j]))
    /\ j' = Succ(j)
    /\ UNCHANGED <<key, val, size, pc, call, i, hole, answer>>

\* A mutant: the record's key moves without its value.
ShiftMoveKeyOnly ==
    /\ pc = "shift" /\ key[j] # 0
    /\ ~ Stays(hole, j, Home(key[j]))
    /\ key' = [key EXCEPT ![hole] = key[j]]
    /\ hole' = j
    /\ j' = Succ(j)
    /\ UNCHANGED <<val, size, pc, call, i, answer>>

ShiftMove ==
    /\ pc = "shift" /\ key[j] # 0
    /\ ~ Stays(hole, j, Home(key[j]))
    /\ key' = [key EXCEPT ![hole] = key[j]]
    /\ val' = [val EXCEPT ![hole] = val[j]]
    /\ hole' = j
    /\ j' = Succ(j)
    /\ UNCHANGED <<size, pc, call, i, answer>>

\* A mutant: size_ is not decremented.
ShiftEndUncounted ==
    /\ pc = "shift" /\ key[j] = 0
    /\ key' = [key EXCEPT ![hole] = 0]
    /\ Return("done", 0)
    /\ UNCHANGED <<val, size>>

ShiftEnd ==
    /\ pc = "shift" /\ key[j] = 0
    /\ key' = [key EXCEPT ![hole] = 0]
    /\ size' = size - 1
    /\ Return("done", 0)
    /\ UNCHANGED val

-----------------------------------------------------------------------------
Begin ==
    \/ CallWithZero
    \/ \E id \in Keys :
         \/ \E v \in 1..MaxVolume : Call("add", id, v)
         \/ \E v \in Volume : Call("modify", id, v)
         \/ \E op \in {"delete", "lookup", "erase"} : Call(op, id, 0)

Step ==
    \/ ProbeOn
    \/ InsertKnown \/ InsertThrow \/ InsertNew
    \/ FindMiss \/ FindRead \/ FindUpdate \/ FindErase
    \/ EraseMiss \/ EraseHit \/ ShiftKeep \/ ShiftMove \/ ShiftEnd

Next == Begin \/ Step

Spec == Init /\ [][Next]_vars

\* A call that has begun keeps running; nobody has to make a next call.
FairSpec == Spec /\ WF_vars(Step)

-----------------------------------------------------------------------------
(* The contents of the table.  While Erase shifts, the record at hole is   *)
(* the one being erased, or a copy already moved back.                     *)

Live(s) == key[s] # 0 /\ ~ (pc = "shift" /\ s = hole)

Occupied == {s \in Slot : key[s] # 0}

LiveKeys == {key[s] : s \in {t \in Slot : Live(t)}}

SlotOf(id) == CHOOSE s \in Slot : Live(s) /\ key[s] = id

Contents == [id \in LiveKeys |-> val[SlotOf(id)]]

\* A probe from slot a to slot b passes slot t before it reaches b.
Before(a, t, b) == Dist(a, t) < Dist(a, b)

-----------------------------------------------------------------------------
(* Safety.                                                                 *)

(* Every variable has its type; the capacity and the bound on volumes are  *)
(* the only limits.                                                        *)
TypeOK ==
    /\ key \in [Slot -> Keys \cup {0}]
    /\ val \in [Slot -> Volume]
    /\ size \in Nat
    /\ pc \in {"idle", "insert", "find", "locate", "shift"}
    /\ call \in [op : Op \cup {"none"}, id : Keys \cup {0}, volume : Volume]
    /\ i \in Slot /\ hole \in Slot /\ j \in Slot
    /\ answer \in [what : {"none", "ignored", "length_error", "done", "found"},
                   volume : Volume]

(* No id is in two slots, the copy Erase is about to overwrite aside: Find *)
(* and Erase stop at the first match and would miss the other.             *)
UniqueKeys ==
    \A s, t \in Slot : Live(s) /\ Live(t) /\ key[s] = key[t] => s = t

(* Every live record can be probed to: no slot between its home and its    *)
(* slot is empty.  Between two steps of Erase this still holds of the      *)
(* records before the hole and of those the scan has passed.               *)
Reachable ==
    \A s, t \in Slot :
        Live(s) /\ Before(Home(key[s]), t, s) => key[t] # 0

(* size_ counts the occupied slots and never passes half the capacity, so  *)
(* that every probe meets an empty slot.                                   *)
SizeCounts == size = Cardinality(Occupied) /\ size <= Limit

\* Where one more key goes, by linear probing, when occ is occupied.
FirstFree(occ, h) ==
    CHOOSE s \in Slot \ occ : \A t \in Slot \ occ : Dist(h, s) <= Dist(h, t)

\* The slots that a table which only ever inserted the keys ks would occupy.
InsertOnly(ks) ==
    FoldSet(LAMBDA k, occ : occ \cup {FirstFree(occ, Home(k))}, {}, ks)

(* Between calls the occupied slots are those of a table into which the    *)
(* live keys were inserted and nothing was ever erased: Erase leaves no    *)
(* tombstone and no displaced record behind.                               *)
NoTombstones ==
    pc = "idle" => Occupied = InsertOnly(LiveKeys)

\* A call is for a real id, and runs the loops its operation runs.
CallShape ==
    /\ pc = "idle" <=> call = NoCall
    /\ pc # "idle" => call.id \in Keys
    /\ pc = "insert" <=> call.op = "add"
    /\ pc = "insert" => call.volume > 0
    /\ pc = "find" => call.op \in {"lookup", "modify", "delete"}
    /\ pc \in {"locate", "shift"} =>
         \/ call.op \in {"erase", "delete"}
         \/ call.op = "modify" /\ call.volume = 0

\* What a probe has passed: occupied slots that hold other keys.
ProbeInv ==
    pc \in {"insert", "find", "locate"} =>
        \A t \in Slot : Before(Home(call.id), t, i) => key[t] \notin {0, call.id}

\* Slot s is strictly between the hole and the scan.
Scanned(s) == 0 < Dist(hole, s) /\ Dist(hole, s) < Dist(hole, j)

\* What Erase's scan has passed: records whose probe does not need the hole.
ShiftInv ==
    pc = "shift" =>
        /\ key[hole] # 0
        /\ hole # j
        /\ \A s \in Slot : Live(s) => key[s] # call.id
        /\ \A s \in Slot :
              Scanned(s) => key[s] # 0 /\ ~ Before(Home(key[s]), hole, s)

(* The inductive invariant that FlatOrderTableProofs establishes.          *)
IInv ==
    /\ TypeOK
    /\ UniqueKeys
    /\ Reachable
    /\ SizeCounts
    /\ CallShape
    /\ ProbeInv
    /\ ShiftInv

-----------------------------------------------------------------------------
(* The table implements the dictionary of OrderTable.  A call takes effect *)
(* at the step that answers it; an erase, at the step that finds the hole: *)
(* for the dictionary it has returned while the table still shifts.        *)

CallNow == IF pc = "shift" THEN NoCall ELSE call

AnswerNow == IF pc = "shift" THEN Answer("done", 0) ELSE answer

Table == INSTANCE OrderTable
           WITH orders <- Contents, call <- CallNow, answer <- AnswerNow

(* Every step of the loops is a stutter or one step of the dictionary: the *)
(* answers are its answers, the length_error at half load among them, and  *)
(* no record changes but by a call for its id.                             *)
ImplementsTable == Table!Spec

-----------------------------------------------------------------------------
(* Liveness: every call returns, so no probe and no shift goes round the   *)
(* slots for ever.                                                         *)
CallsReturn == (pc # "idle") ~> (pc = "idle")
=============================================================================
