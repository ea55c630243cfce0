SPECIFICATION SafeSpec
CONSTANTS
    Items <- MCOneItem
    Jobs = {j1, j2}
    FirstAnchor <- MCOneAnchor
    Flows <- MCOneFlow
    NoJob = NoJob
    tea = tea
    gem = gem
INVARIANT MarketShowsEachItemOnce
