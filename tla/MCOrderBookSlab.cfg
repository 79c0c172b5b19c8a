SPECIFICATION Spec
CONSTANTS
    Prices = {2, 4, 6}
    Quantities = {0, 1, 2}
    Inputs <- MCInputs
    MaxSequence = 3
    MaxListed = 2
INVARIANTS
    TypeOK
    SlabsAreSorted
    QueriesAreExact
PROPERTY
    ImplementsLevelBook
