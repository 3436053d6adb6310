SPECIFICATION Spec
CONSTANTS
    c1 = c1
    e1 = e1
    e2 = e2
    l1 = l1
    l2 = l2
    w1 = w1
    w2 = w2
    Clients <- OneClient
    EmergencyIds <- TwoEmergencies
    SharingIds <- NoSharing
    Workers <- TwoWorkers
    TTLs = {1, 2}
    MaxTTL = 1
    Provider = "telegram"
    MayCrash = FALSE
    MaxTime = 2
SYMMETRY Symmetric
\* The clock and the session ids are bounded: past the bounds no request arrives.
CHECK_DEADLOCK FALSE
INVARIANTS
    OneActiveEmergency
