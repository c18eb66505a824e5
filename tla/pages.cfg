SPECIFICATION MCSpec
CHECK_DEADLOCK FALSE
CONSTANTS
    Pages = {p1, p2}
    NoNote = NoNote
    MaxCalls = 4
    MaxFaults = 1
    MaxCrashes = 1
    SectionCount = 3
    Slots = {s1, s2}
    OffCodes = {"off_centre", "too_far", "too_close"}
    Sustained = 2
    Mails = {e1, e2}
    MailSlots = 2
    MailAttempts = 2
    MaxRestarts = 1
    Tokens = {1, 2, 3, 4, 5, 6}
SYMMETRY Symmetry
INVARIANTS
    ToldOnce
    ToldIsOnRecord
    RetryIsOpen
    WatchFollowsThePage
    FaceSignalsAreEarned
    MailIsAccounted
