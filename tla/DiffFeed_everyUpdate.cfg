\* As DiffFeed.cfg: most updates are followed by the comparison of the top alone.
SPECIFICATION Spec
CONSTANTS
    Ids = {1, 2}
    Prices = {1, 2, 3}
    MaxVolume = 2
    Every = 2
    TopDepth = 1
    MaxUpdates = 5
    Faults = {"lost delete", "wrong price", "stale volume"}
INVARIANTS StopsAtDifference
CHECK_DEADLOCK FALSE
