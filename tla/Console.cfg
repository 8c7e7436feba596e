SPECIFICATION Spec
CONSTANTS
    StepTypes = {"log", "http"}
    TypedKeys <- TypedKeysOf
    MaxSteps = 4
    MaxSaves = 1
    Minutes <- MinutesOf
    Periods = {1}
    Sample = 1
    Rates = {60}
    MaxTime = 1
    MaxEvents = 3
    Unknown = Unknown
    Texts <- TextsOf
    Target = 900
    Overlap = 120
    Gap = 2
    CorpusCap = 3
    Embedders = {"openai", "google"}
    NoVector = NoVector
    MaxPastes = 2
    MaxRestarts = 1
    Environments <- EnvironmentsOf
    AgentVersions <- AgentVersionsOf
    Answers <- AnswersOf
    MaxTurns = 3
    MaxChanges = 2
CHECK_DEADLOCK FALSE
INVARIANTS
    SavedIsWalked
    FiguresAgree
    RetrievalIsSound
    RequestsFit
    AdaptersAgree
