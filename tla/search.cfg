\* search_allowed on every ranking of five rows; retrieve on every index of
\* three.
SPECIFICATION SearchOrRetrieve
CONSTANTS
    MaxTotal = 5
    MaxWant = 2
    Visibilities = {"PUBLIC", "INTERNAL"}
    Allowed = {"PUBLIC"}
    Repos = {r1, r2}
    Bundles = {b1, b2}
    MaxRows = 3
    r1 = r1
    b1 = b1
    Requests <- MCRequests
    Nothing = Nothing
INVARIANT ExactResult
INVARIANT NoOverreach
INVARIANT AnswersWithinScope
INVARIANT AnswersAreBest
PROPERTY Terminates
CHECK_DEADLOCK FALSE
