SPECIFICATION FairSpec
CONSTANTS
    Plan = {p1, p2}
    NoRegression = {p2}
    Rerun = {}
    Proc = {i1}
    LastSession = 2
    NonTrading <- Open
    Early <- Second
    NoOne = NoOne
    MaxVersion = 2
    MaxApplies = 2
    MaxTrouble = 1
    MaxKills = 1
PROPERTIES
    RunsFinish
    IncidentsEnd
CHECK_DEADLOCK FALSE
