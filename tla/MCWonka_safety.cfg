SPECIFICATION WonkaSafeSpec
CONSTANTS
    Agents <- MCAgents
    Keys <- MCKeys
    Seed <- MCSeed
    Requests <- MCEverything
    Calls = {h1, h2, h3}
    PoolSize = 3
    NoCall = NoCall
    NoRequest = NoRequest
    Items <- MCItems
    Batches <- MCBatches
    FirstBatch <- MCFirst
    Stock <- MCStock
    MaxBatches = 1
    k1 = k1
    k2 = k2
    gem = gem
    g1 = g1
SYMMETRY CallSymmetry
INVARIANTS KeyIsSpentOnce DeadlocksShareAKey
PROPERTY SpendersNeverOverdraw
