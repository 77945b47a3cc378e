------------------------------- MODULE MCBench -------------------------------
(***************************************************************************)
(* Small feeds and command lines for Bench: every feed of at most          *)
(* MaxUpdates updates over Orders that the validator accepts, with u64     *)
(* arithmetic of four bits.                                                *)
(***************************************************************************)
EXTENDS Bench, Functions

CONSTANTS Orders, MaxUpdates

Kinds == [type : {"Add", "Modify", "Delete"}, id : Orders, volume : {1}]

LiveSets(us) ==
    LET after[n \in 0..Len(us)] ==
          IF n = 0 THEN {}
          ELSE CASE us[n].type = "Add" -> after[n - 1] \cup {us[n].id}
                 [] us[n].type = "Modify" -> after[n - 1]
                 [] us[n].type = "Delete" -> after[n - 1] \ {us[n].id}
    IN  after

AllFeeds ==
    {f \in UNION {{[count |-> n, updates |-> us, live |-> LiveSets(us)] :
                     us \in [1..n -> Kinds]} : n \in 0..MaxUpdates} :
       \A n \in 1..f.count : (f.updates[n].type = "Add") = (f.updates[n].id \notin f.live[n - 1])}

Default == [limit |-> 0, reserve |-> 0, stride |-> 1, block |-> 1, repeat |-> 1,
            table |-> "flat", building |-> 3, adding |-> 0]

\* A stride of 8 makes of 1, 2 and 3 the ids 8, 0 and 8.  Twice 9 wraps to 2,
\* and no power of two below 16 is at least twice 5.  A block of 0 is one of 1.
\* Half of three passes' samples are more than those of the first.
SomeOptions ==
    {[Default EXCEPT !.stride = s] : s \in {3, 8}}
    \cup {[Default EXCEPT !.reserve = n] : n \in {1, 4, 5, 9}}
    \cup {[Default EXCEPT !.block = b, !.repeat = r, !.limit = l] :
            b \in {1, 2}, r \in {0, 2}, l \in {0, 3}}
    \cup {[Default EXCEPT !.block = 0, !.repeat = 3, !.limit = 2]}
    \cup {[Default EXCEPT !.adding = 1, !.block = 2, !.repeat = 2, !.limit = 3]}
    \cup {[Default EXCEPT !.table = t, !.building = 1, !.adding = 2, !.limit = 2] :
            t \in {"std", "none"}}
    \cup {[Default EXCEPT !.table = t, !.building = 0, !.block = 2, !.repeat = 0] :
            t \in {"std", "none"}}
    \cup {[Default EXCEPT !.table = "std", !.stride = 8, !.limit = 2]}
=============================================================================
