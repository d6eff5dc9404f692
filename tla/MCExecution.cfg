SPECIFICATION Spec
CONSTANTS
    Request = {q1}
    Thread = {t1, t2}
    Backend = {"local", "worker"}
    MaxConcurrency = 1
    MaxCalls = 4
    MaxFailures = 1
    MaxInterrupts = 1
INVARIANTS RunsOnce
PROPERTIES TerminalStands DeliveredSettles
CHECK_DEADLOCK FALSE
