---------------------------- MODULE MCItchConverter ----------------------------
(***************************************************************************)
(* Exchanges for ItchConverter: three orders with timestamps in order, and *)
(* two with timestamps that go back, so that the window is left and        *)
(* entered again.                                                          *)
(***************************************************************************)
EXTENDS ItchConverter

BothExchanges ==
    {[ids |-> {1, 2, 3}, unordered |-> FALSE], [ids |-> {1, 2}, unordered |-> TRUE]}
=============================================================================
