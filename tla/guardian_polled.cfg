SPECIFICATION UndisturbedSpec
CONSTANTS
    c1 = c1
    c2 = c2
    s1 = s1
    s2 = s2
    w1 = w1
    w2 = w2
    Clients <- OneClient
    SessionIds <- OneSession
    Workers <- TwoWorkers
    Graces = {1}
    Arrivals <- SomeArrival
    Geometries = {TRUE}
    EscalationDelay = 1
    AutoSos = FALSE
    Ops = {"create", "active", "checkin"}
    MayCrash = FALSE
    MaxTime = 4
    MaxNotices = 12
    MaxSos = 1
\* The clock and the session ids are bounded: past the bounds no request arrives.
CHECK_DEADLOCK FALSE
PROPERTIES
    MissedCheckinEscalates
