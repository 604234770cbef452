SPECIFICATION Spec
CONSTANTS
    h1 = h1
    h2 = h2
    en = en
    pt = pt
    ja = ja
    utc = utc
    mars = mars
    venus = venus
    Handlers = {h1, h2}
    Locales = {en, pt}
    OtherLocale = ja
    Zones = {utc}
    BadZone = mars
    Blank = Blank
    DefaultLocale = en
    DefaultZone = venus
    Faults = FALSE
SYMMETRY MCSymmetry
PROPERTIES
    InitializedOnce
