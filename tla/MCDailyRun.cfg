SPECIFICATION Spec
CONSTANTS
    Plan = {p1, p2}
    NoRegression = {}
    Rerun = {p1, p2}
    Proc = {i1, i2}
    LastSession = 3
    NonTrading <- LastClosed
    Early <- Open
    NoOne = NoOne
    MaxVersion = 2
    MaxApplies = 2
    MaxTrouble = 2
    MaxKills = 0
SYMMETRY ProcSymmetry
INVARIANTS
    SucceededEvidence
    ResearchGated
    OpenedOnce
CHECK_DEADLOCK FALSE
