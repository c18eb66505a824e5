SPECIFICATION TrackedSpec
CHECK_DEADLOCK FALSE
CONSTANTS
    t1 = t1
    t2 = t2
    q1 = q1
    q2 = q2
    q3 = q3
    Worker = Worker
    Sweeper = Sweeper
    NoQuestion = NoQuestion
    N = 2
    Tabs = {t1}
    Questions = {q1,q2,q3}
    FirstLength = 1
    Intermission = 0
    StartGrace = 1
    AnswerGrace = 0
    SweepGrace = 1
    BlobGrace = 0
    MaxAttempts = 3
    Horizon = 4
    OpenBy = 4
    LastRequest = 3
    MaxFaults = 0
    MaxEvictions = 1
    MayRevoke = TRUE
    MaySleep = FALSE
    ModuleOf <- MCModuleOf
    QuestionCount <- MCQuestionCount
    TimeLimit <- MCTimeLimit
SYMMETRY Symmetry
CONSTRAINT NotOvertaken
INVARIANTS
    NothingSkipped
    SectionsHold
    ReplayIsExact
    InvitationFollowsAttempt
PROPERTIES
    DeadlineIsFixed
