\* The Ask handler, with the entailment check on and off, and the discovery
\* handlers beside it while the catalog is replaced.
SPECIFICATION ApiSpec
CONSTANTS
    c1 = c1
    c2 = c2
    n1 = n1
    k1 = k1
    k2 = k2
    Questions = {q1}
    Chunks <- MCChunks
    Names <- MCNames
    Numbers <- MCNumbers
    ExampleOnly <- MCExampleOnly
    Excerpt <- MCExcerpt
    MaxContext = 2
    MaxDocs = 3
    Attempts = 3
    Null = Null
    s1 = s1
    s2 = s2
    a1 = a1
    a2 = a2
    Services = {s1, s2}
    Apis = {a1, a2}
    OwnerOf <- MCOwnerOf
    Visibility = {"PUBLIC", "INTERNAL"}
    AuthEnabled = TRUE
    Tokens = {reader, stranger, foreign}
    Known = {reader, stranger}
    Granted = {reader, foreign}
    MaxReplaced = 1
    Unreadable = Unreadable
    Malformed = Malformed
    Odd = Odd
    Nothing = Nothing
INVARIANT GroundedIsSupported
INVARIANT CitationIsWhatWasRead
INVARIANT EdgesAreRestrictive
INVARIANT FailuresAreFailures
PROPERTY KeepsPromise
PROPERTY EveryAskEnds
CHECK_DEADLOCK FALSE
