CONSTANTS
    ReadIntents = {"LOGISTICS"}
    WriteIntents = {"CANCEL"}
    L3Intents = {"CANCEL"}
    RuleIntent <- MCRuleIntent
    Texts <- MCTexts
    Slots = {"order_id"}
    StrictSlots = {"order_id"}
    Values = {"v"}
    Required <- MCRequired
    NoValue = NoValue
    NoTask = NoTask
    NoRow = NoRow
    Rows = {}
    StackMax = 1
    AsksMax = 1
    Requests <- MCRequests
    AbuseStreak = 2
    RepeatLimit = 2
    None = None
    Retries = {q1, q2, q3}
    Bodies = {b1, b2}
    Documents = {"d1", "d2"}
    Users = {"u1", "u2"}
    Rewritings = 1
    TopK = 2
    AnswersMax = 2
    Turns = {"t1", "t2"}
    Chain <- MCChain
    Reads = {"order", "track"}
    Writes = {"cancel"}
    Served = {"order", "track", "cancel", "weather"}
    Hinted = {"track", "cancel", "weather"}
    McpFallback = "fail"
    StepsMax = 1
    TurnBudget = 2
    ClientTime = 3
    DailyTokens = 2
    Tokens = 1
    ClockMax = 4
    SpentMax = 3
    Absent = Absent
    MemoryTasks = {"t1", "t2", "t3"}
    Concurrency = 2
    Window = 2
    Threshold = 3
    SummaryStep = 2
    HistoryLimit = 6
    Languages = {"default", "en"}
    Loaders = {"l1", "l2"}
    CustomerTurns = {"t1", "t2"}
    Sessions = {"s1"}
    Ladder <- MCLadder
    Cap <- MCCap
    SessionMax = 1
    Signals <- MCSignals
SPECIFICATION MessagesSpec
CHECK_DEADLOCK FALSE
INVARIANT OneAtATime
INVARIANT AnsweredOnce
INVARIANT ReplaysCommitted
INVARIANT SummaryIsPrefix
PROPERTY CursorAdvances
INVARIANT RefusalHeeded
INVARIANT ExecutesConfirmed
INVARIANT Deliverable
INVARIANT NoInventedFacts
INVARIANT WithinLimits
PROPERTY StageMovesOn
INVARIANT Grounded
INVARIANT OwnContext
