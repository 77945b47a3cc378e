------------------------------ MODULE Validate ------------------------------
(***************************************************************************)
(* ValidateFeed (src/ob/Validate.hpp): the checks made on each update of a *)
(* feed before it is applied, and the crossing check after.  Its reference *)
(* book is the orders that ReferenceBook shows; that the sums which the    *)
(* validator also compares agree is CountsAgree of ReferenceBook.          *)
(***************************************************************************)
EXTENDS Integers

VARIABLES
    book,       \* the live orders: id -> side, price, volume
    verdict     \* "ok", or why the loop broke off

validator == <<book, verdict>>

Init == book = [id \in {} |-> 0] /\ verdict = "ok"

Order(u) == [side |-> u.side, price |-> u.price, volume |-> u.volume]

\* The first check that the update fails.
Complaint(u) ==
    LET known == u.id \in DOMAIN book
    IN  IF u.type = "Add" THEN
            IF known THEN "add of a live id"
            ELSE IF u.volume <= 0 \/ u.price <= 0 THEN "non positive add"
            ELSE "ok"
        ELSE IF ~ known THEN "unknown id"
        ELSE IF book[u.id].side # u.side \/ book[u.id].price # u.price
             THEN "wrong side or price"
        ELSE IF u.type = "Modify" /\ u.volume <= 0 THEN "non positive modify"
        ELSE IF u.type = "Delete" /\ u.volume # book[u.id].volume THEN "wrong delete volume"
        ELSE "ok"

\* ApplyUpdate
Applied(u) ==
    IF u.type = "Delete"
    THEN [id \in DOMAIN book \ {u.id} |-> book[id]]
    ELSE [id \in DOMAIN book \cup {u.id} |-> IF id = u.id THEN Order(u) ELSE book[id]]

Crossed(b) ==
    \E bid, ask \in DOMAIN b :
        /\ b[bid].side = "Bid" /\ b[ask].side = "Ask"
        /\ b[bid].price >= b[ask].price

Check(u) ==
    IF verdict # "ok" THEN UNCHANGED validator
    ELSE IF Complaint(u) # "ok" THEN verdict' = Complaint(u) /\ UNCHANGED book
    ELSE /\ book' = Applied(u)
         /\ verdict' = IF Crossed(book') THEN "crossed" ELSE "ok"
=============================================================================
