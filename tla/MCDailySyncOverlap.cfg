SPECIFICATION Spec
CONSTANTS
    Plan = {p1, p2}
    Proc = {i1, i2}
    LastDate = 2
    Factor = adj_factor
    Required = {adj_factor}
    Optional = {}
    Lookback = 1
    Catchup = 2
    MaxVersion = 3
    MaxRevisions = 2
    MaxPit = 0
    MaxKills = 1
    MaxFailures = 1
    BadVersions <- Third
    PublishOnSync = TRUE
    Resumption = "any"
    KillAt <- AllPoints
INVARIANTS IndexNeverAhead OnlyValidated PublishedOnce
PROPERTIES BronzeMonotone ImplementsPublication
SYMMETRY PlanSymmetry
CHECK_DEADLOCK FALSE
