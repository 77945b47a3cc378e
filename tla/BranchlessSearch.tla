-------------------------- MODULE BranchlessSearch --------------------------
(***************************************************************************)
(* The loop of BranchlessSearch::Find (src/ob/ReverseVectorBook.hpp), one  *)
(* iteration per step.  ReverseSide keeps its levels sorted worst price    *)
(* first, so the levels that the searched price p comes after are a        *)
(* prefix: the model keeps the length of that prefix, which is where       *)
(* std::lower_bound would put p, and not the prices.  Indices count from 0.*)
(***************************************************************************)
EXTENDS Naturals

CONSTANT MaxLevels  \* bound on the number of levels

ASSUME MaxLevelsAssumption == MaxLevels \in Nat

VARIABLES
    size,       \* n, the number of levels
    place,      \* how many levels p comes after
    base,       \* the first level of the window that is left
    len,        \* how many levels the window has
    pc,         \* "loop", "done"
    result      \* what Find returns

searchVars == <<size, place, base, len, pc, result>>

\* Better(p, data[k].price)
After(k) == k < place

\* (size_t)Better(...) * x
Times(flag, x) == IF flag THEN x ELSE 0

SearchInit ==
    /\ size \in 0..MaxLevels
    /\ place \in 0..size
    /\ base = 0
    /\ len = size
    /\ pc = "loop"
    /\ result = 0

Empty ==
    /\ pc = "loop" /\ size = 0
    /\ pc' = "done" /\ result' = 0
    /\ UNCHANGED <<size, place, base, len>>

\* A mutant: half is rounded up for base and down for the length.
HalveRoundedUp ==
    /\ pc = "loop" /\ len > 1
    /\ LET half == (len + 1) \div 2
       IN  /\ base' = base + Times(After(base + half), half)
           /\ len' = len - len \div 2
    /\ UNCHANGED <<size, place, pc, result>>

Halve ==
    /\ pc = "loop" /\ len > 1
    /\ LET half == len \div 2
       IN  /\ base' = base + Times(After(base + half), half)
           /\ len' = len - half
    /\ UNCHANGED <<size, place, pc, result>>

\* Mutants: the last level is not compared; the loop runs on below one level.
FinishUncompared ==
    /\ pc = "loop" /\ len = 1
    /\ pc' = "done"
    /\ result' = base
    /\ UNCHANGED <<size, place, base, len>>

FinishWhenEmpty ==
    /\ pc = "loop" /\ len = 0
    /\ pc' = "done"
    /\ result' = base
    /\ UNCHANGED <<size, place, base, len>>

Finish ==
    /\ pc = "loop" /\ len = 1
    /\ pc' = "done"
    /\ result' = base + Times(After(base), 1)
    /\ UNCHANGED <<size, place, base, len>>

SearchNext == Empty \/ Halve \/ Finish

SearchSpec == SearchInit /\ [][SearchNext]_searchVars

FairSearch == SearchSpec /\ WF_searchVars(SearchNext)

-----------------------------------------------------------------------------
(* Every variable has its type.                                            *)
TypeOK ==
    /\ size \in Nat
    /\ place \in 0..size
    /\ base \in Nat /\ len \in Nat
    /\ pc \in {"loop", "done"}
    /\ result \in Nat

(* The loop reads only levels that exist: the window [base, base + len)    *)
(* lies in the vector, and is not empty unless the vector is.              *)
WindowInside ==
    /\ base + len <= size
    /\ size > 0 => len > 0

(* The answer is in the window or right behind it: p comes after every     *)
(* level before base, and before every level behind the window.            *)
WindowHolds == base <= place /\ place <= base + len

(* Find returns what std::lower_bound returns, which LowerBoundSearch      *)
(* calls in its place.                                                     *)
FindsLowerBound == pc = "done" => result = place

(* The inductive invariant.                                                *)
SearchInv == TypeOK /\ WindowInside /\ WindowHolds /\ FindsLowerBound

(* Find returns.                                                           *)
Terminates == <>(pc = "done")
=============================================================================
