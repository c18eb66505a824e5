SPECIFICATION MCSpec
CHECK_DEADLOCK FALSE
CONSTANTS
    t1 = t1
    t2 = t2
    q1 = q1
    q2 = q2
    q3 = q3
    Worker = Worker
    Sweeper = Sweeper
    NoQuestion = NoQuestion
    N = 1
    Tabs = {t1}
    Questions = {q1}
    FirstLength = 1
    Intermission = 1
    StartGrace = 1
    AnswerGrace = 0
    SweepGrace = 1
    BlobGrace = 1
    MaxAttempts = 3
    Horizon = 4
    OpenBy = 0
    LastRequest = 1
    MaxFaults = 1
    MaxEvictions = 0
    MayRevoke = FALSE
    MaySleep = TRUE
    ModuleOf <- MCModuleOf
    QuestionCount <- MCQuestionCount
    TimeLimit <- MCTimeLimit
    Overdue = {1, 2, 3}
    MaxPerSweep = 2
    MaxStops = 1
PROPERTIES
    OpenAttemptCloses
    SweepReachesAll
