SPECIFICATION Spec
CONSTANTS
    o1 = o1
    o2 = o2
    r1 = r1
    r2 = r2
    r3 = r3
    g1 = g1
    g2 = g2
    w1 = w1
    w2 = w2
    Observations <- OneObservation
    Reports <- OneReport
    Segments <- OneSegment
    Types = {"poor_lighting"}
    ConflictTypes = {"poor_lighting"}
    Sources = {"user_report", "osm"}
    UserReport = "user_report"
    Lifetime <- Short
    Workers <- TwoWorkers
    FeedStates = {"REPORTED"}
    MayCrash = FALSE
    MaxTime = 2
SYMMETRY Symmetric
\* The clock and the ids are bounded: past the bounds nothing arrives.
CHECK_DEADLOCK FALSE
PROPERTIES
    StickyStates
