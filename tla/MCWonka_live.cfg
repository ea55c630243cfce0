SPECIFICATION WonkaSpec
CONSTANTS
    Agents <- MCAgents
    Keys <- MCKeys
    Seed <- MCSeed
    Requests <- MCShared
    Calls = {h1, h2, h3}
    PoolSize = 2
    NoCall = NoCall
    NoRequest = NoRequest
    Items <- MCItems
    Batches <- MCBatches
    FirstBatch <- MCFirst
    Stock <- MCStock
    MaxBatches = 0
    k1 = k1
    k2 = k2
    gem = gem
    g1 = g1
PROPERTY AllCallsAnswered
