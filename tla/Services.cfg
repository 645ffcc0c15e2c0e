SPECIFICATION ServicesSpec
CONSTANTS
    Parts = {"plan", "market", "gate", "overlap", "intake", "halts", "orders", "session", "ui"}
    Quantities = {1, 100, 350, 10000}
    SizeRatios = {50, 57, 100, 120}
    LotSizes = {1, 100}
    ShortProducts <- MCShort
    Tickers = {"A", "B"}
    FeedsOf <- MCFeeds
    Times = {540, 555}
    Changes <- MCChanges
    MayRaise = {"A"}
    Strategies = {"trend", "steady"}
    Def <- MCDef
    Snapshots <- MCSnapshots
    Evaluators = {"runner", "api"}
    Overlap = TRUE
    MaxStateAge = 1
    MaxDecisionAge = 1
    EndTime = 3
    Signals = {"exit", "long"}
    Requests = {"r1", "r2", "r3"}
    IntakeFaults = {"redis", "commit", "refresh", "crash"}
    Operators = {"ui", "api"}
    UiOperators = {"ui"}
    Settlers = {"poller", "close"}
    ForgetfulSettlers = {"close"}
    DailyLimit = 1
    StreakLength = 2
    MaxHalts = 3
    Casts <- MCCasts
    HaltFaults = {"commit", "crash"}
    Quantity = 3
    LastSecond = 2
    Calls = {"a", "b", "d"}
    Operations <- MCOperations
    MaxSessions = 2
    Sessions = {"s1"}
    Handlers = {"h1", "h2"}
    PreTtl = 1
    Ttl = 2
    LastTime = 3
    MaxSecret = 2
INVARIANTS
    LargestLotAllowed ReasonsAccountForSize VerdictTellsHints
    LogMatchesSnapshot StatesConsistent AlarmsAreTriedOnce
    PassRestsOnRecentStates PassIsUnanimous
    OnePipelinePerKey ErrorsHaveCause StoredSignalIsHandled
    LossesHaltTrading DuplicatesAreBounded UiAuditIsTrue
    FilledIsHandled LiveOrderIsFollowed
    LoginsHaveReasons TakenOrderIsKept
    ServedIsVerified
PROPERTY LogoutIsFinal
CHECK_DEADLOCK FALSE
