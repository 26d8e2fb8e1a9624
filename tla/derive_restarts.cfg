\* One derivation at a time, killed and rerun, and promotions of the results.
SPECIFICATION Spec
CONSTANTS
  d1 = d1
  d2 = d2
  d3 = d3
  d4 = d4
  i1 = i1
  r1 = r1
  r2 = r2
  r3 = r3
  r4 = r4
  None = None
  Docs = {d1, d2, d3, d4, i1}
  Public = {d1, d2, d3, d4}
  Routes = {r1, r2, r3, r4}
  Route <- MCRoute
  Mixed <- MCMixed
  Sitemaps = {{r1, r2, r4}, {r1, r3, r4}}
  Derivers = {A}
  MaxRuns = 6
INVARIANTS
  VerifiedBeforeUse
  DerivedIsWhole
  NothingPublishedIsLost
CHECK_DEADLOCK FALSE
