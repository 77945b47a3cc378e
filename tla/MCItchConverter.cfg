\* Time 0 is before the window, 1 and 2 are in it, 3 is behind it.
SPECIFICATION Spec
CONSTANTS
    Exchanges <- BothExchanges
    MaxShares = 2
    MaxPrice = 2
    From = 1
    To = 2
    MaxTime = 3
INVARIANTS Accepted ReplayGivesBook EmittedIsKnown
PROPERTIES TimeInOrder
