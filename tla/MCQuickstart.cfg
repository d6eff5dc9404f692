SPECIFICATION Spec
CONSTANTS
    c1 = c1  i1 = i1  i2 = i2
    Proc = {i1, i2}
    Cell = {c1}
    NoCell = NoCell
    Recipes = 2
    Versions = 2
    Request <- Requests
    MaxAsked = 2
    MaxMishaps = 1
INVARIANTS OneWriter ResultOfItsInput ReportsIntact
PROPERTIES AttemptsRemain NotRepeated
CHECK_DEADLOCK FALSE
