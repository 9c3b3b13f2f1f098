SPECIFICATION Spec
CONSTANTS
    Sessions = {s1, s2}
    Turns = {t1, t2}
    None = None
    MaxCrashes = 2
    low = low
    high = high
    km = km
    v1 = v1
    v2 = v2
    Texts = {low, high}
    NoText = NoText
    Keys = {topic, km}
    NoKey = NoKey
    Fields = {"mileage"}
    Values = {v1, v2}
    NoValue = NoValue
    VehicleKey <- MCVehicleKey
    VehicleText <- MCVehicleText
    Lists = {"questions"}
    Notes = {n}
    q1 = q1
    q2 = q2
    Chunks = {1, 2, 3}
    Manual = {1, 2}
    Neighbors <- MCNeighbors
    Text <- MCText
    Quotes = {q1, q2}
    NoQuote = NoQuote
    Unknown = 0
    Scores = {0, 1, 2}
    Threshold = 1
    ExpansionMin = 2
    RetrievalTopK = 2
    FinalTopK = 2
    MaxNeighbors = 1
    MaxEvidence = 2
    MaxToolIterations = 2
    MaxCalls = 2
    Limit = 1
    MaxLines = 2
    Clients = {a, b}
    Items = 2
    ScenarioTurns = 2
    Grades = {pass, fail}
    Outcomes = {answered, refused}
    MaxDeaths = 1
    JournalTurns = {j1, j2}
    Keep = 4
    Names = {n1, n2, n3}
    Short = {n3}
    Size = 4
    Overlap = 1
    FixedSeparator = 2
    Lengths = {1, 2, 4}
    MaxChars = 4
    MinChars = 3
    StructuralSeparator = 1
    Sizes = {1, 3, 8}
    Blanks = {0, 2}
    Sections = {A, B}
    NoSection = NoSection
    MaxSegments = 3
    MaxSentences = 2
INVARIANTS
    TypeOK TablesAgree TasksHold FactsHold AnswersAreGrounded LoopIsHonest FailuresAreTold
    TurnIsDelivered PipelineHolds ChunksKeepText
PROPERTIES
    EvaluationHolds
SYMMETRY Symm
CHECK_DEADLOCK FALSE
