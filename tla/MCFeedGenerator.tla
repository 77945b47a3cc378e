---------------------------- MODULE MCFeedGenerator ----------------------------
(***************************************************************************)
(* Small configurations for FeedGenerator.                                 *)
(***************************************************************************)
EXTENDS FeedGenerator

AllTypes == {"Add", "Modify", "Delete"}

\* Three levels a side, and three updates after the seed.
Deep == [levels |-> 3, perLevel |-> 1, depth |-> 3, volume |-> 1, mid |-> 17,
         types |-> AllTypes, updates |-> 9]

\* Sides that run down to their last order.
Shallow == [levels |-> 1, perLevel |-> 2, depth |-> 2, volume |-> 1, mid |-> 14,
            types |-> AllTypes, updates |-> 10]

\* No depths to sample, and no modifies.
DepthZero == [levels |-> 1, perLevel |-> 1, depth |-> 0, volume |-> 2, mid |-> 14,
              types |-> {"Add", "Delete"}, updates |-> 6]

\* Every order is to have a volume between 1 and 0.
VolumeZero == [levels |-> 3, perLevel |-> 1, depth |-> 1, volume |-> 0, mid |-> 14,
               types |-> AllTypes, updates |-> 6]

Usual == {Deep, Shallow, DepthZero, VolumeZero}

OneLevel == {[levels |-> 1, perLevel |-> 1, depth |-> 2, volume |-> 1, mid |-> 20,
              types |-> AllTypes, updates |-> 5]}
=============================================================================
