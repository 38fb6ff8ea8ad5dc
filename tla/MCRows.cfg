CONSTANTS
    s1 = s1 s2 = s2 s3 = s3
    m1 = m1 m2 = m2 agent1 = agent1 bash = bash fetch = fetch srv = srv
    None = None
    Turns = {1, 2, 3, 4}
    Files <- MCFiles
    RowOf <- MCRow
    Home <- MCHome
    Server <- MCServer
    Rate <- MCRate
    MaxTariff = 2
    MaxWrites = 2
    Queries <- MCQueries
    HourTicks = 2
    Window = 6
    Default = 10
    Longest = 336
    Unit = 12
    Sizes = {1, 4}
    Limits = {0, 5}
    Lengths = {3, 4}
    Used = {40, 79, 90}
    BlockTurns = 4
    MaxTime = 8
    LogFiles = {1, 2, 3}
    ArchivedLogs = {3}
    LogKinds = {"codex", "pi", "amp", "opencode", "cursor", "copilot"}
    LogLines <- MCLines
    MaxLog = 3
    BuiltIn <- MCBuiltIn
    Families <- MCFamilies
    Standard <- MCStandard
    Newest <- MCNewest
    Slugs <- MCSlugs
    Offers <- MCOffers
    Overrides <- MCOverrides
    Listings <- MCListings
    Models <- MCModels
    Amounts <- MCAmounts
    PriceRuns = 3
    PricedTurns = 2
    OfficialSources <- MCOfficialSources
    Pages <- MCPages
    ListedGpt <- MCListedGpt
    ListedTools <- MCListedTools
    AllowedParts = {"code"}
    CodexModels = {"codex"}
    MaxNotes = 2
    OfficialRuns = 4
    WasteSessions = {1}
    ToolCalls <- MCCalls
    Trivial <- MCTrivial
    McpServers = {"db"}
    Agents = {"tester"}
    MinReads = 2
    MaxRereads = 1
    MinNoise = 2
    MediumBloat = 2
    HighBloat = 4
    MaxEvents = 3
SPECIFICATION Spec
INVARIANTS LedgerAddsUp BlocksSound  RepricedWhole SyncReported WasteTrue
PROPERTY FailureKeepsPrices
CHECK_DEADLOCK FALSE
