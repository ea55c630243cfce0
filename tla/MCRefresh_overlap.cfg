SPECIFICATION SafeSpec
CONSTANTS
    Items <- MCItems
    Jobs = {j1, j2}
    FirstAnchor <- MCAnchor
    Flows <- MCFlows
    NoJob = NoJob
    tea = tea
    gem = gem
SYMMETRY JobSymmetry
INVARIANTS RefreshTypeOK NeverPartial HistoryIsListings  AnchorWithinPrices
PROPERTY HourlyMoveIsSmall
