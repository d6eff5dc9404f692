SPECIFICATION Spec
CONSTANTS
    Plan = {p1, p2}
    Proc = {i1}
    LastDate = 2
    Factor = adj_factor
    Required = {adj_factor}
    Optional = {suspend_d}
    Lookback = 2
    Catchup = 2
    MaxVersion = 2
    MaxRevisions = 1
    MaxPit = 1
    MaxKills = 1
    MaxFailures = 0
    BadVersions <- None
    PublishOnSync = TRUE
    Resumption = "abandon"
    KillAt <- HandoverPoints
INVARIANTS NothingForgotten
PROPERTIES PublishIsComplete
SYMMETRY PlanSymmetry
CHECK_DEADLOCK FALSE
