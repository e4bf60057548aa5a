CONSTANTS
    Subjects = {"limits", "swap", "load", "match", "reload", "ranges", "form"}
    Callers = {c1, c2, c3}  Slots = {s1}
    RateLimit = 1  InflightCap = 1  RateTries = 2  CapTries = 2
    LastMinute = 2  MaxCalls = 3  MaxDeaths = 1
    PerChild = TRUE  Children = {h1, h2}  Readers = {r1}  NoChild = NoChild  MaxEdits = 2  MaxForks = 1
    WarmRise = 2  HotRise = 1  NormalFall = 2
    BusyPct = {0, 65, 85}  LoadAvg = {}  LatencyMs = {1000}
    LatencyPeriod = 2  LatencyGrace = 1  Mtimes = {1, 2, 3, 4}
    MaxRestarts = 1  Bodies = {"warm"}
    MatchPatterns <- MCMatchPatterns  MatchTexts <- MCMatchTexts  Agents <- MCAgents
    Directory <- MCDirectory  TemplateUas <- MCTemplateUas
    RetiredAgents <- MCRetired  BotTokens <- MCBotTokens
    Bot <- MCBot  Addresses = {1, 2, 3, 4}  Garbage = Garbage  Missing = Missing
    FileBodies <- MCFileBodies  SideBodies <- MCSideBodies  SideAtStart <- MCSideAtStart
    Targets <- MCTargets  ClassifyArgs <- MCClassifyArgs  MaxRewrites = 2
    Scopes <- MCScopes  FormBodies <- MCFormBodies  ProviderAnswers <- MCProviderAnswers
    LongTokens <- MCLongTokens  Pendings <- MCPendings
    NowSecond = 10  MaxBody = 3  MaxAnswer = 2  NoToken = NoToken
SPECIFICATION BackgroundSpec
INVARIANTS InflightExact RateKept NoUseAfterFree HysteresisKept MatchersAgree JudgedByWholeFiles VouchedFor
PROPERTIES CallsEnd RefreshReachesAll LoadSettles
CHECK_DEADLOCK FALSE
