SPECIFICATION Spec
CONSTANTS
    c1 = c1
    c2 = c2
    s1 = s1
    s2 = s2
    w1 = w1
    w2 = w2
    Clients <- OneClient
    SessionIds <- TwoSessions
    Workers <- OneWorker
    Graces = {1}
    Arrivals <- NoArrival
    Geometries = {TRUE}
    EscalationDelay = 1
    AutoSos = FALSE
    Ops = {"create", "active", "get", "location", "dashboard", "checkin", "end"}
    MayCrash = TRUE
    MaxTime = 2
    MaxNotices = 3
    MaxSos = 1
SYMMETRY Symmetric
\* The clock and the session ids are bounded: past the bounds no request arrives.
CHECK_DEADLOCK FALSE
INVARIANTS
    TypeOK
    OneLivePerClient
    StageIsDue
PROPERTIES
    KeepsContract
