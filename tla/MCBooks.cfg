\* Three orders over four prices: up to three levels on a side; one node more
\* than there are orders.
SPECIFICATION Spec2
CONSTANTS
    a = a
    b = b
    c = c
    Ids = {a, b, c}
    Prices = {1, 2, 3, 4}
    MaxVolume = 2
    Nodes = {1, 2, 3, 4}
SYMMETRY IdSymmetry
INVARIANTS OrderHasLevel SearchesAgree IteratorsValid BooksAgree
PROPERTIES ImplementsBook
