\* Three builds under one build id: killed, retried, and run at once by two processes.
SPECIFICATION Spec
CONSTANTS
  docs = docs
  tools = tools
  d1 = d1
  d2 = d2
  t1 = t1
  Torn = Torn
  None = None
  Repos = {docs, tools}
  Chunks = {d1, d2, t1}
  Corpus <- MCCorpus
  Visibility <- MCVisibility
  RepoLists <- MCLists
  BuildIds = {i1}
  Builders = {A, B}
  MaxBuilds = 3
INVARIANTS
  EmbeddingAccounted
  PromotableIsComplete
  RowsAligned
PROPERTY
  ValidatedIsFrozen
CHECK_DEADLOCK FALSE
