SPECIFICATION Spec
CONSTANTS
    r1 = r1  r2 = r2
    Sessions = 11  TrainDays = 2  ValidDays = 1  TestDays = 1
    Purge = 0  Embargo = 1  Buffer = 1  Lookahead = 1
    MinRolling = 2  MinHoldout = 2
    Proc = {p1, p2}
    Namespace = {n1, n2}
    Recipe = {r1, r2}
    Bars = {1}
    RollingQuality <- Rolling
    HoldoutQuality <- Final
    MaxStarts = 2
    MaxKills = 1
    MaxAlterations = 1
SYMMETRY Symmetric
INVARIANTS HoldoutAfterLock PromotedOnce TrainedOnce
CHECK_DEADLOCK FALSE
