SPECIFICATION CandySpec
CONSTANTS
    Agents <- MCAgents
    Keys <- MCKeys
    Seed <- MCSeed
    Requests <- MCOneKey
    Calls = {h1, h2}
    PoolSize = 2
    NoCall = NoCall
    NoRequest = NoRequest
    k1 = k1
    k2 = k2
    k3 = k3
INVARIANT TransferDuplicateMeansPaid
