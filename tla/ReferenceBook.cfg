\* Three orders over three prices, so that orders share levels.
SPECIFICATION Spec
CONSTANTS
    Ids = {1, 2, 3}
    Prices = {1, 2, 3}
    MaxVolume = 2
INVARIANTS IndexLocates NoEmptyLevel CountsAgree
PROPERTIES ImplementsBook
