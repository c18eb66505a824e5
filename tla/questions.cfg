SPECIFICATION MCSpec
CHECK_DEADLOCK FALSE
CONSTANTS
    a1 = a1
    a2 = a2
    b1 = b1
    b2 = b2
    c1 = c1
    p1 = p1
    p2 = p2
    p3 = p3
    A = A
    B = B
    C = C
    Plain = Plain
    Nothing = Nothing
    Bank = {a1, a2, b1, b2, c1, p1, p2, p3}
    Groups = {A, B, C}
    Group <- MCGroup
    Gap = 2
    MaxPairs = 2
    QuestionCount = 6
    MaxEvictions = 1
    MaxArchived = 2
    own = own
    rival = rival
    r1 = r1
    r2 = r2
    r3 = r3
    Companies = {own, rival}
    Platform = Platform
    Recruiters = {r1, r2, r3}
    CompanyOf <- MCCompanyOf
    Owner = own
    Shipped = {s1}
    Minted = {m1, m2}
    NoQuestion = NoQuestion
    Length = 2
    MaxCalls = 3
    MaxLosses = 1
    Cards = {1, 2, 3, 4, 5}
    Catalogue <- MCCatalogue
    Shapes <- MCShapes
    Likert = "none"
    ShapeOf <- MCShapeOf
    Says <- MCSays
    Enough = 2
    PaperLength = 5
    MaxGone = 1
    MaxRebuilds = 1
SYMMETRY Symmetry
INVARIANTS
    PairsAreSound
    OneVersionEach
    AnswersKeepTheirQuestion
    PaperIsEvenHanded
PROPERTIES
    OtherCompaniesKeepTheirs
    CuratedRunsFull
