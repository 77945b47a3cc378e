---------------------------- MODULE DiffFeedProofs ----------------------------
(***************************************************************************)
(* What ob_diff reports is right for every feed, every period and depth of *)
(* comparison, and every fast book that Faults allows: nothing is used of  *)
(* the books but what they show.                                           *)
(***************************************************************************)
EXTENDS DiffFeed, TLAPS

(* Books that show the same are the same at the top.                       *)
LEMMA SameIsSameTop ==
    ASSUME NEW a
    PROVE  SameTop(a, a)
BY DEF SameTop

LEMMA InitInv == Init => ReportRight
<1> SUFFICES ASSUME Init PROVE ReportRight
    OBVIOUS
<1>1. ref = fast /\ report = "running"
    BY DEF Init
<1>2. Alike
    BY <1>1 DEF Alike
<1> QED
    BY <1>1, <1>2 DEF ReportRight, Verdict

(* One iteration: what is compared, and when.                              *)
LEMMA CompareStep ==
    ASSUME NEW u, NEW last \in BOOLEAN, Compare(u, last)
    PROVE  ReportRight'
<1> DEFINE a == DepthOf(ref')
           b == DepthOf(fast')
           same == Cardinality(DOMAIN ref') = Cardinality(DOMAIN fast')
<1>a. Alike' <=> a = b /\ same
    BY DEF Alike
<1>1. CASE ~ SameTop(a, b)
    <2>1. report' = "top differs"
        BY <1>1 DEF Compare
    <2>2. ~ Alike'
        BY <1>1, <1>a, SameIsSameTop
    <2> QED
        BY <2>1, <2>2 DEF ReportRight, Verdict
<1>2. CASE SameTop(a, b) /\ (u.id \in DOMAIN ref') # (u.id \in DOMAIN fast')
    <2>1. report' = "presence differs"
        BY <1>2 DEF Compare
    <2>2. DOMAIN ref' # DOMAIN fast'
        BY <1>2
    <2> QED
        BY <2>1, <2>2 DEF ReportRight, Verdict
<1>3. CASE SameTop(a, b) /\ ~ ((u.id \in DOMAIN ref') # (u.id \in DOMAIN fast'))
    <2> DEFINE all == ComparesAll(updates', last)
    <2>1. report' = IF all /\ ~ SameWhole(a, b) THEN "whole differs"
                    ELSE IF last THEN "ok" ELSE "running"
        BY <1>3 DEF Compare
    <2>2. SameWhole(a, b) <=> Alike'
        BY <1>a DEF SameWhole
    <2>3. last => all
        BY DEF ComparesAll
    <2> QED
        BY <2>1, <2>2, <2>3 DEF ReportRight, Verdict
<1> QED
    BY <1>1, <1>2, <1>3

LEMMA NextInv == ReportRight /\ [Next]_vars => ReportRight'
<1> SUFFICES ASSUME ReportRight, [Next]_vars PROVE ReportRight'
    OBVIOUS
<1>1. CASE Next
    BY <1>1, CompareStep DEF Next, Iterate
<1>2. CASE UNCHANGED vars
    <2>1. Alike' = Alike
        BY <1>2 DEF vars, Alike
    <2> QED
        BY <1>2, <2>1 DEF vars, ReportRight
<1> QED
    BY <1>1, <1>2

(* OK is said only of books that are alike, and a difference only of books *)
(* that differ (DiffFeed, Diff.hpp).                                       *)
THEOREM ReportIsRight == Spec => []ReportRight
    BY InitInv, NextInv, PTL DEF Spec
=============================================================================
