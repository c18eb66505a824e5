CONSTANTS
    Requests = {r1}
    Assessments = {a}
    NoAssessment = none
    Emails = {x}
    NoEmail = none
    Cap = 1
    Kinds <- AllKinds
    MaxCalls = 1
    MaxFaults = 0
    Candidates = {c}
    Desks = {d1}
    Null = Null
    LastInstant = 2
    MaxDeskCalls = 1
    MaxMinted = 1
SPECIFICATION MCSpec
INVARIANTS KeepsTheirSession
CHECK_DEADLOCK FALSE
