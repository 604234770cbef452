SPECIFICATION FairSpec
CONSTANTS
    r1 = r1
    r2 = r2
    e1 = e1
    e2 = e2
    ipA = ipA
    ipC = ipC
    ipB = ipB
    Requests = {r1, r2}
    Events = {e1, e2}
    IPs = {ipA, ipB, ipC}
    BadIPs = {ipB}
    Retention = TRUE
INVARIANTS
    TypeOK
    CleanStop
    ServesSynced
PROPERTIES
    Stops
    ExpiredArePurged
