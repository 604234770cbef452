SPECIFICATION Spec
CONSTANTS
    h1 = h1
    h2 = h2
    t1 = t1
    t2 = t2
    t3 = t3
    Handlers = {h1, h2}
    Types = {t1, t2, t3}
    OtherType = OtherType
    Faults = TRUE
INVARIANTS
    TypeOK
    ToldIsTrue
    RepliesAddUp
PROPERTIES
    ImplementsPromise
