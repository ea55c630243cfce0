SPECIFICATION CandySpec
CONSTANTS
    Agents <- MCAgents
    Keys <- MCKeys
    Seed <- MCSeed
    Requests <- MCAll
    Calls = {h1, h2, h3}
    PoolSize = 3
    NoCall = NoCall
    NoRequest = NoRequest
    k1 = k1
    k2 = k2
    k3 = k3
SYMMETRY CallSymmetry
INVARIANTS TypeOK DoubleEntry OneRowPerKey AnswersAreTrue Isolation NoWaitCycle
PROPERTIES TransfersNeverOverdraw BookRefined
