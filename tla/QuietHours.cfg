SPECIFICATION Spec
CONSTANTS
    Settings <- MCSettings
    Unreadable = Unreadable
INVARIANTS
    QuietIsOneSpan
PROPERTIES
    EdgesOnlyAtSettings
