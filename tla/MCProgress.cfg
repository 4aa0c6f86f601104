SPECIFICATION ProgressSpec
CONSTANTS
    Renewers = {r1, r2}
    Pi = Pi
    None = None
    Orphan = Orphan
    MaxToken = 3
    MaxOther = 2
    Threads = {h1, h2}
    GoalIds = {g1}
    MaxLaunches = 2
    Accounts = {a1}
    Terminals = {t1, t2}
    MaxRestarts = 0
    Loads = {l1, l2}
    MaxChanges = 1
    MaxSaves = 0
    MaxRebuilds = 1
    MaxDrops = 1
    MaxFailures = 1
INVARIANTS MutualExclusion SavedTokenIsValid
PROPERTIES OthersPreserved LocksComeFree PageKeepsUp
