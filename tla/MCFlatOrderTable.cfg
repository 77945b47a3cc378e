\* Eight slots, four of which may be taken; the homes of the ids are 7 7 7 6 0:
\* long runs over the wrap.
SPECIFICATION FairSpec
CONSTANTS
    Cap = 8
    KeySet = {6, 7, 8, 15, 23}
    Keys = {6, 7, 8, 15, 23}
    Mix <- IdentityMix
    MaxVolume = 2
INVARIANTS IInv Reachable NoTombstones
PROPERTIES ImplementsTable CallsReturn
