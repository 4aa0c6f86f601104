SPECIFICATION MaintenanceSpec
CONSTANTS
    None = None
    Runs = {r1, r2}
    Files <- MCFiles
    Keys <- MCKeys
    Times = {1}
    Rows <- MCRows
    MaxTime = 2
    MaxVersion = 2
    MaxRuns = 4
    MaxKills = 2
    e1 = e1  e2 = e2  e3 = e3  f1 = f1  f2 = f2
    leg = leg  toy = toy  blank = blank  g = g  a = a
    EventIds = {e1, e2, e3, f1, f2}
    MalformedKeys = {blank}
    FixtureIds = {f1}
    Truncated = {toy}
    KeyOnReplay <- MCKeyOnReplay
    Routes = {leg, toy}
    FreeRoutes = {leg, toy}
    Goals = {g}
    Attempts = {a}
    Events <- LiveEvents
    Legacy <- MCLegacy
    FreeReset = 3
    SubscriptionReset = 1
    Named = {n}
    Undated = {u}
    Anonymous = {}
    Refused = {r}
    Junk = {j}
    Drains = {d1, d2}
    Payloads <- MCPayloads
    Writers = {w1, w2}
    MaxWrites = 2
    MaxIngests = 1
    MaxSaves = 1
    MaxFailures = 1
    MaxDeaths = 2
    MaxLogons = 2
    MaxStops = 1
INVARIANTS OneEventPerRow ReceiptMeansImported OnlyTimelessRowsConflict
    RebuildIsFaithful DrainsAreExact ExportSetIsWhole
PROPERTIES ReplayAgreesWithArrival PromotionIsHonest
