----------------------------- MODULE LevelSearch -----------------------------
(***************************************************************************)
(* How the vector books find the place of a price among the levels of a    *)
(* side (src/ob/VectorBook.hpp, src/ob/ReverseVectorBook.hpp).  Positions  *)
(* count from 1, as sequences do; the code's size_t counts from 0.         *)
(* std::lower_bound is modelled by its contract: the first position that   *)
(* does not precede.                                                       *)
(***************************************************************************)
EXTENDS Integers, FiniteSetsExt, SequencesExt

Better(side, a, b) == IF side = "Bid" THEN a > b ELSE a < b

\* ForwardSide::Find, best level first
ForwardFind(levels, side, p) ==
    Min({n \in DOMAIN levels : ~ Better(side, levels[n].price, p)}
        \cup {Len(levels) + 1})

\* LowerBoundSearch, best level last
ReverseFind(levels, side, p) ==
    Min({n \in DOMAIN levels : ~ Better(side, p, levels[n].price)}
        \cup {Len(levels) + 1})

\* The windows of n levels, from base on and len long.
Windows(n) == {w \in (0..n) \X (1..n) : w[1] + w[2] <= n}

\* A mutant: the level that the loop ends at is not compared.
BranchlessFindUnfinished(levels, side, p) ==
    LET n == Len(levels)
        After(m) == IF Better(side, p, levels[m + 1].price) THEN 1 ELSE 0
        at[w \in Windows(n)] ==
            IF w[2] <= 1 THEN w[1]
            ELSE LET half == w[2] \div 2
                 IN  at[<<w[1] + After(w[1] + half) * half, w[2] - half>>]
    IN  IF n = 0 THEN 1 ELSE 1 + at[<<0, n>>]

\* BranchlessSearch: at[<<base, len>>] is where the loop ends up from base and len
BranchlessFind(levels, side, p) ==
    LET n == Len(levels)
        After(m) == IF Better(side, p, levels[m + 1].price) THEN 1 ELSE 0
        at[w \in Windows(n)] ==
            IF w[2] <= 1 THEN w[1]
            ELSE LET half == w[2] \div 2
                 IN  at[<<w[1] + After(w[1] + half) * half, w[2] - half>>]
    IN  IF n = 0 THEN 1 ELSE 1 + at[<<0, n>>] + After(at[<<0, n>>])

\* LinearSearch, from the best level down
LinearFind(levels, side, p) ==
    1 + Max({n \in DOMAIN levels : Better(side, p, levels[n].price)} \cup {0})
=============================================================================
