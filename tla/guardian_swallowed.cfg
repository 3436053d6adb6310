SPECIFICATION PolledSpec
CONSTANTS
    c1 = c1
    c2 = c2
    s1 = s1
    s2 = s2
    w1 = w1
    w2 = w2
    Clients <- OneClient
    SessionIds <- OneSession
    Workers <- OneWorker
    Graces = {1}
    Arrivals <- NoArrival
    Geometries = {TRUE}
    EscalationDelay = 1
    AutoSos = FALSE
    Ops = {"create", "active", "location"}
    MayCrash = FALSE
    MaxTime = 3
    MaxNotices = 12
    MaxSos = 1
\* The clock and the session ids are bounded: past the bounds no request arrives.
CHECK_DEADLOCK FALSE
PROPERTIES
    MissedCheckinEscalates
