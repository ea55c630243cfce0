SPECIFICATION Spec
CONSTANTS
    Items <- MCOneItem
    Jobs = {j1, j2, j3}
    FirstAnchor <- MCLowAnchor
    Flows <- MCOneFlow
    NoJob = NoJob
    tea = tea
    gem = gem
PROPERTY EveryRefreshEnds
