SPECIFICATION MCSpec
CHECK_DEADLOCK FALSE
CONSTANTS
    Questions = {q1}
    Modules = {m1, m2}
    Finalisers = {f1, f2}
    Worker = Worker
    Readers = {r1}
    MaxCloses = 2
    MaxReads = 1
    MaxFaults = 3
    MaxCrashes = 1
    MayOpenEarly = TRUE
    MaxTries = 2
    MaxSignals = 2
    MaxDrops = 2
    MaxRefused = 1
    STABLE_SAMPLES = 2
    MaxVisits = 6
    MaxInFlight = 1
    MaxChanges = 2
    Traits <- MCTraits
    Editions <- MCEditions
    MaxAnswers = 2
    Sections <- MCSections
    Measures <- MCMeasures
    Inverted = {"empathy"}
    Abilities = {600, 1040, 1300}
    None = None
INVARIANTS
    ReportsAreWhole
    NoticesAreAccounted
    StepsKeepToThemselves
    ScoresMeanWhatTheySay
    VerdictIsFair
PROPERTIES
    CloseIsReported
    SignalsLand
    GoodEnoughPasses
