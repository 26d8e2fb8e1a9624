\* The Ask page, a user who waits for the stream to close or does not; the Search
\* page, with searches that overtake each other.
SPECIFICATION PagesSpec
CONSTANTS
    c1 = c1
    Questions = {q1, q2}
    Chunks <- MCChunks
    MaxContext = 1
    Null = Null
    Searches = {d1, d2, d3}
    None = None
CHECK_DEADLOCK FALSE
INVARIANT PatientIsInStep
INVARIANT ShownIsVerified
INVARIANT NoAbandonedSpinner
PROPERTY AnswerStays
PROPERTY PagesSettle
INVARIANT ShowsTheLastSearch
INVARIANT OneOutcome
