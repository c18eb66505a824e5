SPECIFICATION MCSpec
CHECK_DEADLOCK FALSE
CONSTANTS
    Handlers = {h1, h2}
    Browsers = {b1}
    Links = {l1, l2}
    Nobody = Nobody
    MaxRecent = 2
    Grace = 1
    MaxSent = 4
    Horizon = 2
    MaxRefused = 1
    Requests = {r1, r2}
    Assessments = {a}
    NoAssessment = none
    Emails = {x, y, z}
    NoEmail = none
    Cap = 1
    Kinds = {"enter", "remove", "reschedule"}
    MaxCalls = 6
    MaxFaults = 1
    Members = {founder, m1, m2}
    Founder = founder
    Clerks = {c1, c2}
    MaxOrders = 5
SYMMETRY Symmetry
INVARIANTS
    LinkWorksOnce
    UnusedTokenIsHonoured
    SessionsEnd
    CapOvershoot
    WorkspaceIsHeld
