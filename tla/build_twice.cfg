\* A repository is named twice: test_build_trusted_index.py:181 expects its chunks to be indexed once.
SPECIFICATION Spec
CONSTANTS
  docs = docs
  tools = tools
  d1 = d1
  d2 = d2
  t1 = t1
  Torn = Torn
  None = None
  Repos = {docs, tools}
  Chunks = {d1, d2, t1}
  Corpus <- MCCorpus
  Visibility <- MCVisibility
  RepoLists <- MCListsTwice
  BuildIds = {i1}
  Builders = {A}
  MaxBuilds = 2
INVARIANT
  CompleteBuildIsAccepted
CHECK_DEADLOCK FALSE
