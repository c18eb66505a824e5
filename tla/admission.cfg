\* Two companies, one address, every operation, two requests in flight; and one candidate of
\* one round over three instants, with two recruiters' requests in flight.
CONSTANTS
    Requests = {r1, r2}
    Assessments = {a, b}
    NoAssessment = none
    Emails = {x}
    NoEmail = none
    Cap = 1
    Kinds <- AllKinds
    MaxCalls = 5
    MaxFaults = 1
    Candidates = {c}
    Desks = {d1, d2}
    Null = Null
    LastInstant = 2
    MaxDeskCalls = 2
    MaxMinted = 1
SPECIFICATION MCSpec
SYMMETRY Symmetry
INVARIANTS
    AdmissionIsWhole
    NothingDangles
    PagesAgree
    RetractionsHold
PROPERTIES RecordsAreTheCompanysOwn
CHECK_DEADLOCK FALSE
