SPECIFICATION Spec
CONSTANTS
    k1 = k1
    k2 = k2
    k3 = k3
    Keys <- MCKeys
    WindowSettings <- MCWindowSettings
    MaxTime = 7
    NoVerdict = NoVerdict
INVARIANTS
    TypeOK
    SeenIsRecentHistory
    SuppressedWithinWindow
    SweptAfterAccept
PROPERTIES
    SpacedByWindow
    ImplementsWindow
