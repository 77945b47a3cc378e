----------------------------- MODULE OrderTable -----------------------------
(***************************************************************************)
(* What every order table promises to the books above it: a bounded        *)
(* dictionary from order ids to records.  A record is abstracted to its    *)
(* volume, the one field that changes after the insertion.  The client is  *)
(* TableOnlyBook (src/ob/TableBook.hpp), whose On* handlers use every      *)
(* operation of the table.  A call is made in one step and takes effect in *)
(* another, which also answers it.                                         *)
(* FlatOrderTable.tla is the open-addressing table that implements it.     *)
(***************************************************************************)
EXTENDS Naturals, FiniteSets

CONSTANTS
    Keys,       \* the order ids in use; id 0 is not one of them
    Limit,      \* how many orders the table takes before it throws
    MaxVolume   \* bound on the volumes that calls carry

VARIABLES
    orders,     \* the live orders: a function from their ids to volumes
    call,       \* the call that waits for its answer
    answer      \* what the last call answered

vars == <<orders, call, answer>>

Live == DOMAIN orders

Volume == 0..MaxVolume

NoCall == [op |-> "none", id |-> 0, volume |-> 0]

Calls ==
    [op : {"add"}, id : Keys, volume : 1..MaxVolume]
    \cup [op : {"modify"}, id : Keys, volume : Volume]
    \cup [op : {"delete", "lookup", "erase"}, id : Keys, volume : {0}]

Answer(what, v) == [what |-> what, volume |-> v]

NoAnswer == Answer("none", 0)

Init ==
    /\ orders = [k \in {} |-> 0]
    /\ call = NoCall
    /\ answer = NoAnswer

Begin ==
    /\ call = NoCall /\ call' \in Calls
    /\ answer' = NoAnswer
    /\ UNCHANGED orders

Return(what, v) == call' = NoCall /\ answer' = Answer(what, v)

Ignore == Return("ignored", 0) /\ UNCHANGED orders

\* Every operation returns at once for id 0.
CallWithZero == call = NoCall /\ Ignore

\* The live orders with id at volume v, added if it is not there.
With(id, v) == [k \in Live \cup {id} |-> IF k = id THEN v ELSE orders[k]]

Without(id) == [k \in Live \ {id} |-> orders[k]]

(* A known id is ignored even when the table is full. *)
Add ==
    /\ call.op = "add"
    /\ \/ call.id \in Live /\ Ignore
       \/ /\ call.id \notin Live /\ Cardinality(Live) = Limit
          /\ Return("length_error", 0)
          /\ UNCHANGED orders
       \/ /\ call.id \notin Live /\ Cardinality(Live) < Limit
          /\ orders' = With(call.id, call.volume)
          /\ Return("done", 0)

(* A modify to nothing is a delete. *)
Removes == call.op \in {"delete", "erase"} \/ (call.op = "modify" /\ call.volume = 0)

Remove ==
    /\ Removes
    /\ \/ call.id \notin Live /\ Ignore
       \/ call.id \in Live /\ orders' = Without(call.id) /\ Return("done", 0)

Modify ==
    /\ call.op = "modify" /\ call.volume > 0
    /\ \/ call.id \notin Live /\ Ignore
       \/ /\ call.id \in Live
          /\ orders' = With(call.id, call.volume)
          /\ Return("done", 0)

LookUp ==
    /\ call.op = "lookup"
    /\ \/ call.id \notin Live /\ Ignore
       \/ call.id \in Live /\ Return("found", orders[call.id]) /\ UNCHANGED orders

Next == Begin \/ CallWithZero \/ Add \/ Remove \/ Modify \/ LookUp

Spec == Init /\ [][Next]_vars
=============================================================================
