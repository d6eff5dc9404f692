SPECIFICATION Spec
CONSTANTS
    Model = {m1, m2}
    Proc = {i1, i2}
    Operator = {o1}
    LastSession = 2
    Asked = {1}
    Ends <- TwoEnds
    Content <- TwoContents
    NoModel = none
    MaxRuns = 2
    MaxSyncs = 1
    MaxOutside = 2
INVARIANTS OnlyLatestPasses FilesBackPass AnnouncedIsRegistered
PROPERTIES SignalsOfLiveModel RollbackOfRetired
SYMMETRY Symmetry
CHECK_DEADLOCK FALSE
