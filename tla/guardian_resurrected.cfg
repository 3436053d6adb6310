SPECIFICATION Spec
CONSTANTS
    c1 = c1
    c2 = c2
    s1 = s1
    s2 = s2
    w1 = w1
    w2 = w2
    Clients <- OneClient
    SessionIds <- OneSession
    Workers <- TwoWorkers
    Graces = {1}
    Arrivals <- NoArrival
    Geometries = {TRUE}
    EscalationDelay = 1
    AutoSos = FALSE
    Ops = {"create", "active", "end"}
    MayCrash = FALSE
    MaxTime = 2
    MaxNotices = 6
    MaxSos = 1
\* The clock and the session ids are bounded: past the bounds no request arrives.
CHECK_DEADLOCK FALSE
PROPERTIES
    EndedStaysEnded
