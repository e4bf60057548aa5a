CONSTANTS
    Subjects = {"ring", "bots", "safeguard", "visitor", "robots", "policy", "config", "rules"}
    Writers = {w1, w2}  RingSize = 2  HourMinutes = 2  LastRingMinute = 3
    MaxEvents = 3  MaxWriterDeaths = 1
    Slugs = {"a", "b"}  Late = {"z"}  BotgroupOf <- MCBotgroupOf  Configs <- MCConfigs
    PoolSize = 10  Workers = {v1, v2}  MaxAsks = 2  NoLimit = NoLimit
    Ka = k1  Kb = k2  Kc = k3
    Keys = {k1, k2, k3}  Home <- MCHome  Capacity = 2  ProbeLimit = 2
    Threshold = 2  Window = 2  Grant = 2  FallbackSpan = 2
    Guards = {g1, g2}  LastSecond = 3  MaxVisits = 4  NoKey = NoKey
    Tabs = {t1, t2}  CookieTtl = 1  BootTtl = 0  PendingTtl = 0  Sites <- MCSites
    LastHour = 3  MaxPages = 2  MaxLost = 1  NoCookie = NoCookie
    RobotsLines <- MCRobotsLines  Inlines <- MCInlines  Tokens <- MCTokens
    Crawlers = {"c1", "c2"}  Paths <- MCPaths
    MaxRobotsLines = 5  MaxGroups = 2  MaxAgents = 2  MaxRules = 2
    Ladders <- MCLadders  Kinds = {"k1", "k2"}  Events <- MCEvents
    ScoreMax = 2  StrikesMax = 1  MaxRequests = 3
    Scopes = {"main", "vhost", "outer", "inner"}  Directives <- MCDirectives
    MaxDirectives = 3  Unset = Unset
    BlockFiles <- MCBlockFiles  Visits <- MCVisits  SessionOnly = {"human"}
    RateSlots = 2  Crawled = 2
SPECIFICATION RequestsSpec
INVARIANTS WindowCounts RightRule CeilingHolds ValveEarned LoopBroken StandingLapses
    SolvedNotAsked ReadsAsWritten ObserveFaithful AsWritten RulesSayTheirBlocks
CHECK_DEADLOCK FALSE
