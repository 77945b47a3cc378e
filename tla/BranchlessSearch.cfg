\* Every vector of up to thirty-three levels, every place of the price in it.
SPECIFICATION FairSearch
CONSTANTS MaxLevels = 33
INVARIANTS WindowInside FindsLowerBound
PROPERTIES Terminates
CHECK_DEADLOCK FALSE
