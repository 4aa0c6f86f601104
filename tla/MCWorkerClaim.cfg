SPECIFICATION Spec
CONSTANTS
    q1 = q1  q2 = q2  q3 = q3  w = w
    free = free  sub = sub  toy = toy  blank = blank
    None = None
    EventIds = {q1, q2, q3, w}
    WorkerId = w
    MalformedKeys = {}
    Leftover = {}
    Truncated = {}
    Routes = {free, sub}
    FreeRoutes = {free}
    Goals = {}
    Attempts = {}
    FreeReset = 3
    SubscriptionReset = 1
    ProbeAnswers = {"none"}
    ProbeResets = {0}
    RECHECK_TIMEOUT = 1
    STALE_RUNNING = 2
    RECHECK_COOLDOWN = 3
    LastRequest = 2
    MaxTime = 11
    MaxDown = 3
    MaxAborts = 1
PROPERTY SettlesItsClaim
