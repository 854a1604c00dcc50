SPECIFICATION MCSpec
CONSTANTS
    Parts = {"accounts", "licenses", "limiter", "fleet", "alerts", "monitor", "terminals", "copies", "databases", "plans"}
    MaxUsers = 4
    Sites = {1, 2, 3}
    Tokens = {1, 2}
    Plans = {1, 2}
    Orders = {1}
    Requests = {r1, r2}
    Workloads <- MCWorkloads
    Keys = {"k1", "k2", "k3"}
    LicenseRequests = {c1, c2}
    MaxLicenseCalls = 4
    Addresses = {"a1"}
    Rate = 2
    Interval = 3
    MaxTicks = 12
    MaxAllowed = 8
    Channels = {1, 2}
    Configs <- MCConfigs
    Environments <- MCEnvironments
    SendSlots = {1, 2}
    AlertLoads <- MCAlertLoads
    Servers = {1, 2}
    Hosts = {"h1", "h2"}
    RegTokens = {"t1"}
    Edits = {1}
    FleetLoads <- MCFleetLoads
    Paths = {"p1", "p2"}
    Hashes = {"h0", "h1"}
    Remotes = {"c1", "c2"}
    Accounts = {"eve"}
    Burst = 2
    LogLimit = 5
    MonitorLoads <- MCMonitorLoads
    TermUsers = {"u1", "u2"}
    Hints <- MCHints
    TicketIds = {1, 2, 3}
    Conns = {1, 2}
    Shells = {1, 2}
    TicketTTL = 1
    PtyIdle = 0
    MaxPTY = 1
    PendingMax = 1
    MaxTick = 3
    TermLoads <- MCTermLoads
    Ids = {1, 2, 3}
    CopyProviders = {"own", "default"}
    KeepLast = 1
    KeepOldest = 2
    MaxTries = 2
    CopyLoads <- MCCopyLoads
    DatabaseSites = {1}
    Bases = {"shop"}
    Logins <- MCLogins
    MaxRows = 2
    MaxPasswords = 2
    MaxFaults = 2
    DbWorkloads <- MCDbWorkloads
    Minutes = 2
    Hours = 2
    Days = 2
    Months = 2
    Week = 3
    Horizon = 2
    CronExprs <- MCCronExprs
    CronGrid <- MCCronGrid
    SiteIds = {1}
    DbSites = {1}
    PlanProviders = {1}
    PlanIds = {1}
    PlanWorkloads <- MCPlanWorkloads
    ZoneAhead = 1
INVARIANTS
    QuotaBound
    LoneActivationWins
    WindowBound
    TokenMakesOneServer
    NoticeFollowsHealth
    
    FoundIsTold
    OwnShellOnly
    RunningIsListed
    CompletedHasCopy
    SiteHasData
    
    OneFaultTolerated
    NextRunIsEarliest
    
CHECK_DEADLOCK FALSE
