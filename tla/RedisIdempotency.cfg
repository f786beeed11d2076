CONSTANTS
    Caller = {c1, c2}
    Key = {k1}
    Hash = {h1, h2}
    Response = {r1, r2}
    None = None
    MaxResends = 2
SPECIFICATION FairSpec
INVARIANTS
    TypeOK
    Agreement
    AnswersItsOwnRequest
    ConflictIsReal
PROPERTIES
    ImplementsAbstract
    FirstWriterWins
    EveryResolveReturns
