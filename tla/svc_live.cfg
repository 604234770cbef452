SPECIFICATION FairSpec
CONSTANTS
    o1 = o1
    o2 = o2
    o3 = o3
    o4 = o4
    o5 = o5
    o6 = o6
    u1 = u1
    u2 = u2
    r1 = r1
    r2 = r2
    ipA = ipA
    ipB = ipB
    ipC = ipC
    id1 = id1
    id2 = id2
    id4 = id4
    id5 = id5
    id6 = id6
    NoIP = NoIP
    NoOcc = NoOcc
    Users = {u1, u2}
    Requests = {r1}
    Occs <- RetryOccs
    Payload <- SinglePayload
    TypeOf <- RetryTypeOf
    IPOf <- RetryIPOf
    IdOf <- RetryIdOf
    BadIPs = {ipB}
    IgnoredIPs <- MCIgnoredIPs
    MinSeverity = "warning"
    QuietHours = FALSE
    Dedup = FALSE
    Groupings = {TRUE, FALSE}
    Faults = TRUE
    MaxRestarts = 0
PROPERTIES
    DueIsSettled
    RequestsAnswered
