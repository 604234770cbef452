SPECIFICATION Spec
CONSTANTS
    Handlers = {h1, h2}
    Messages = {m1}
    None = None
    Locales = {"en"}
    DefaultLocale = "en"
    DefaultZone = "UTC"
    OfferedZones = {"UTC", "Europe/Kyiv"}
    Zones = {"UTC"}
INVARIANTS
    TypeOK
    MenuIsCurrent
PROPERTIES
    TapsAreAnswered
