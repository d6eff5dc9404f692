SPECIFICATION Spec
CONSTANTS
    v1 = v1  v2 = v2  v3 = v3  r1 = r1  r2 = r2
    Version = {v1, v2, v3}
    Release = {r1, r2}
    Alias = {current}
    Ref = current
    Proc = {p1, p2}
    None = None
    BoundTo <- Bound
    Imported <- Import
    Parents <- Derived
    Standalone = TRUE
    MaxStarts = 4
    MaxLeft = 1
    MaxLosses = 1
SYMMETRY Symmetric
INVARIANTS NamedIsInPlace PointersAgree SnapshotBound
PROPERTIES RebuildRestores
CHECK_DEADLOCK FALSE
