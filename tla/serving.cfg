\* Commands one after another and two at a time, with crashes, ordinary
\* failures, damage to retained directories and recovery by hand, beside
\* container starts at any moment in sound and unsound environments.
SPECIFICATION ServingSpec
CONSTANTS
  old = old
  b1 = b1
  b2 = b2
  mix = mix
  bad = bad
  o1 = o1
  o2 = o2
  None = None
  Contents <- MCContents
  Kind <- MCKind
  Published = {}
  Operators <- MCOperators
  MountNames <- MCMountNames
  Shelf <- MCShelf
  InitialCurrent <- MCInitialServing
  Corrupt <- MCCorrupt
  MaxTime = 1
  MaxCommands = 3
  MaxRacing = 2
  Repromote = FALSE
  Settings <- MCSettings
INVARIANTS
  TypeOK
  NoIndexLost
  MissingCurrentIsRecoverable
  OfferedRollbackIsUndo
  PromotedIsStartable
  ServesVerified
PROPERTIES
  ImplementsStore
  ServiceComesUp
ACTION_CONSTRAINT FirstFree
CHECK_DEADLOCK FALSE
