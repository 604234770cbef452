SPECIFICATION Spec
CONSTANTS
    Handlers = {h1}
    Users = {u1, u2}
    NoUser = NoUser
    AllowedUser = u1
    AdminUsers = {u1}
    e1 = e1
    e2 = e2
    e3 = e3
    Ids = {e1, e2, e3}
    Types = {"auth.failed", "security.ip-blocked", "store.ingest"}
    SupportedTypes = {"auth.failed", "security.ip-blocked"}
    TypeOf <- MCTypeOf
    Asked = {0, 501}
    MaxWindow = 400
    Blocked = 600
    Retentions = {0, 1}
    MaxDay = 2
    Faults = TRUE
INVARIANTS
    TypeOK
    CountsMissNothing
    DayWithinTotal
    ListedAddUp
