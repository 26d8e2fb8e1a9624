\* Commands may also be pointed at an index that served before.
\* lifecycle.py:183 says that a promotion cut short is labelled CANDIDATE.
SPECIFICATION Spec
CONSTANTS
  old = old
  b1 = b1
  b2 = b2
  mix = mix
  bad = bad
  None = None
  Contents <- MCContents
  Kind <- MCKind
  Published = {b1}
  Operators = {o1}
  MountNames <- MCMountNames
  Shelf <- MCShelf
  InitialCurrent <- MCInitial
  Corrupt <- MCCorrupt
  MaxTime = 1
  MaxCommands = 4
  MaxRacing = 0
  Repromote = TRUE
INVARIANT
  CutShortIsCandidate
CHECK_DEADLOCK FALSE
