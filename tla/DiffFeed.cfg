\* Everything is compared every second update, the best level of a side every time.
SPECIFICATION Spec
CONSTANTS
    Ids = {1, 2}
    Prices = {1, 2, 3}
    MaxVolume = 2
    Every = 2
    TopDepth = 1
    MaxUpdates = 5
    Faults = {"lost delete", "wrong price", "stale volume"}
INVARIANTS ReportRight
CHECK_DEADLOCK FALSE
