SPECIFICATION MCSpec
CONSTANTS
    CANONICAL_ROUTES <- MCRoutes
    CanonicalAccounts <- MCAccounts
    CanonicalDefaults <- MCDefaults
    Doc <- MCDoc
    MalformedKeys = {}
    Routes <- MCLegs
    FreeRoutes <- MCFreeLegs
    None = None
    EventIds = {e}
    Goals = {}
    Attempts = {}
    FreeReset = 2
    SubscriptionReset = 1
    Launchers = {p}
    StrategiesAsked = {"free-first"}
    Outcomes = {"ok", "quota", "quota.known", "auth", "transient", "capability"}
    Rechecked <- MCRechecked
    RecheckOutcomes = {"ok", "quota.named"}
    Resets = {1, 2}
    OverrideLengths = {0, 1}
    OverrideIds = {o}
    LastReport = 2
    MaxTime = 4
    MaxDeaths = 1
INVARIANTS SubscriptionComesLast CellTellsTheDecision ExpiriesAreKept
    ExportsTellTheDecision LauncherPaysNoSooner
PROPERTIES QuotaLegComesBack
CHECK_DEADLOCK FALSE
