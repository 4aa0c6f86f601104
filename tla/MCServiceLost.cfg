SPECIFICATION ServiceSpec
CONSTANTS
    None = None
    CANONICAL_ROUTES <- MCRoutes
    CanonicalAccounts <- MCAccounts
    CanonicalDefaults <- MCDefaults
    MAX_ACCOUNTS = 2
    SIMPLE_CAP = 2
    Editors = {e1, e2}
    Requests <- MCRequests
    OfferedModels = {"new"}
    ProfileFiles <- MCFiles
    MaxVersions = 2
    MaxCrashes = 1
    Threads = {h1, h2}
    Models = {m1, m2}
    ServiceRefreshers = {s}
    CliRefreshers = {c}
    ListBound = 1
    catalog_refresh_ms = 1
    LastRefresh = 2
    LastMinute = 3
    Loads = {l1, l2}
    MaxChanges = 1
    MaxSaves = 1
    MaxRebuilds = 0
    MaxDrops = 1
    MaxFailures = 0
    Emails = {ann, bob}
    KeepFor = 1
    LongestCheck = 1
    GoalIds = {g1, g2}
    MaxLaunches = 2
    Accounts = {a1}
    Terminals = {t1, t2}
    MaxRestarts = 1
INVARIANTS NoLostUpdates
