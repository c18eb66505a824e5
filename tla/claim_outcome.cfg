SPECIFICATION Spec
CHECK_DEADLOCK FALSE
CONSTANTS
    t1 = t1
    t2 = t2
    q1 = q1
    q2 = q2
    q3 = q3
    Worker = Worker
    Sweeper = Sweeper
    NoQuestion = NoQuestion
    N = 1
    Tabs = {t1}
    Questions = {q1}
    FirstLength = 1
    Intermission = 1
    StartGrace = 1
    AnswerGrace = 0
    SweepGrace = 1
    BlobGrace = 9
    MaxAttempts = 3
    Horizon = 4
    OpenBy = 1
    LastRequest = 99
    MaxFaults = 0
    MaxEvictions = 0
    MayRevoke = FALSE
    MaySleep = FALSE
    ModuleOf <- MCModuleOf
    QuestionCount <- MCQuestionCount
    TimeLimit <- MCTimeLimit
SYMMETRY Symmetry
PROPERTIES
    FirstOutcomeStands
