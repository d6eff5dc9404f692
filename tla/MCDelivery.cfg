SPECIFICATION FairSpec
CONSTANTS
    w1 = w1
    w2 = w2
    k1 = k1
    Worker = {w1, w2}
    Key = {k1}
    MaxAttempts = 2
    MaxCalls = 2
INVARIANTS OnceUnlessDisturbed OneSender
PROPERTIES SentIsFinal NeverStuck
CHECK_DEADLOCK FALSE
