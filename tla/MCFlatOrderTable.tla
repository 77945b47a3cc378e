-------------------------- MODULE MCFlatOrderTable --------------------------
(* Small instances of FlatOrderTable for TLC.                              *)
EXTENDS FlatOrderTable

CONSTANT KeySet     \* the ids; FlatIdentityTable hashes each to itself

IdentityMix == [k \in KeySet |-> k]
=============================================================================
