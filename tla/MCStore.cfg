SPECIFICATION StorySpec
CONSTANTS
    e1 = e1  e2 = e2  e3 = e3  e4 = e4  e5 = e5
    free = free  sub = sub
    g1 = g1  g2 = g2  a1 = a1  a2 = a2
    None = None
    EventIds = {e1, e2, e3, e4, e5}
    MalformedKeys = {}
    Routes = {free, sub}
    FreeRoutes = {free}
    Goals = {g1, g2}
    Attempts = {a1, a2}
    FreeReset = 3
    SubscriptionReset = 1
    Events <- MCEvents
INVARIANTS TablesAreSound LatestEvidenceWins RetryBudget OnePendingPerRoute
    SettlementNeedsClaim AttemptCountExact FreeOnlyPinned
PROPERTIES ImplementsLatestEvidence RequestsMoveForward
