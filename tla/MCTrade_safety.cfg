SPECIFICATION TradeSpec
CONSTANTS
    Agents <- MCAgents
    Keys <- MCKeys
    Seed <- MCSeed
    Requests <- MCTrades
    Calls = {h1, h2}
    PoolSize = 2
    NoCall = NoCall
    NoRequest = NoRequest
    Items <- MCItems
    Batches <- MCBatches
    FirstBatch <- MCFirst
    Stock <- MCStock
    MaxBatches = 2
    k1 = k1
    k2 = k2
    tea = tea
    gem = gem
    fig = fig
    g1 = g1
    g2 = g2
    h1 = h1
INVARIANTS TradeTypeOK GoodsAreBooked
PROPERTIES NoStalePrice TradesAreBooked
