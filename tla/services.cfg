SPECIFICATION Spec
CONSTANTS
    c1 = c1
    Clients = {c1, c2}
    Devices = {c1}
    MaxRows = 2
    MaxClock = 2
    CheckinInterval = 1
    AskedPrefs <- Asked
    AlertLife = 1
    ShareTTL = 1
    CheckinGrace = 1
    EscalationDelay = 1
    SessionTTL = 1
    LegacyAllowed = TRUE
    Sources = {g, o, e}
    Government = {g}
    Excluded = {e}
    MaxVersions = 2
    MaxChanges = 1
    MaxSightings = 2
    Reporters = {c1}
    Submission <- Reports
    MayOwn = FALSE
    Limit = 1
    Window = 1
    DupWindow = 1
    MaxReports = 2
    MaxEvicted = 1
    IntakeClock = 2
    MaxBatch = 2
    MinQuality = 50
    TrainEnd = 1
    ValidationEnd = 1
    PointLimit = 1
    MaxPoints = 2
    MapClock = 1
CHECK_DEADLOCK FALSE
INVARIANTS
    CheckinBuildsAgree
    VoiceBuildsAgree
    StopIsComplete
    FakeCallsAgree
    ContactBuildsAgree
    CommunityBuildsAgree
    AlertsShownWhileAlive
    SosBuildsAgree
    GuardianBuildsAgree
    NoticesHaveRows
    UpToDateWasBuilt
    DiscreetChoiceSticks
    RepeatsOverlap
    
    RecordsAccounted
    OverlaysAgree
PROPERTIES
    EndedCheckinsStay
    DeadTokensStayDead
    
    SettingsDivergeOnlyByFailure
