SPECIFICATION FairSpec
CONSTANTS
    Plan = {p1, p2}
    Proc = {i1}
    LastDate = 2
    Factor = adj_factor
    Required = {adj_factor}
    Optional = {}
    Lookback = 2
    Catchup = 2
    MaxVersion = 2
    MaxRevisions = 1
    MaxPit = 1
    MaxKills = 1
    MaxFailures = 0
    BadVersions <- None
    PublishOnSync = FALSE
    Resumption = "finish"
    KillAt <- ResumablePoints
PROPERTIES PromotedIsPublishedUnlessRewritten
CHECK_DEADLOCK FALSE
