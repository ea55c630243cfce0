SPECIFICATION ReadsSpec
CONSTANTS
    Agents <- MCAgents
    Items <- MCItems
    Trades = {t1, t2}
    Batches <- MCBatches
    NoTrade = NoTrade
    Seed <- MCSeed
    FirstBatch <- MCFirst
    Stock <- MCStock
    Me = 1
    SoldBefore <- MCSoldBefore
    Asks = {0, 1, 2, 3}
    MaxLimit = 2
    DefaultLimit = 1
    MaxBatches = 2
    tea = tea
    g1 = g1
    s1 = s1
    s2 = s2
    s3 = s3
    before = before
CHECK_DEADLOCK FALSE
INVARIANTS SnapshotMissesNoGood EventIsNotOlder ChangeIsFromEarlier PagingMissesNothing
