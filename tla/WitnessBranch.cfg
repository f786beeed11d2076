CONSTANTS
    e0 = e0
    a1 = a1
    a2 = a2
    a3 = a3
    b2 = b2
    Tree = {a1, a2, b2, a3}
    size <- MCsize
    extends <- MCextends
    Checkout = TRUE
    skew = 0
    fresh = 1
    stale = 1
    every = 2
    MaxTime = 4
    None = None
    Torn = Torn
SPECIFICATION Spec
INVARIANTS
    TypeOK
    NoForkPasses
    AliveLine
    StaleIsTold
PROPERTY
    ImplementsWitnessLog
