\* The Ask page, a second question before the first stream has closed.
SPECIFICATION PagesSpec
CONSTANTS
    c1 = c1
    Questions = {q1, q2}
    Chunks <- MCChunks
    MaxContext = 1
    Null = Null
    Searches = {d1, d2, d3}
    None = None
CHECK_DEADLOCK FALSE
INVARIANT PendingShowsSearching
