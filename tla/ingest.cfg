\* A pass over a docs checkout that may be pulled meanwhile and a tool's; then
\* every text of a few tokens is cut into chunks of eight characters.
SPECIFICATION IngestSpec
CONSTANTS
  docsrepo = docsrepo
  tools = tools
  page = page
  readme = readme
  draft = draft
  artifact = artifact
  Repos = {docsrepo, tools}
  Configured <- MCConfigured
  DocsRepo = docsrepo
  Dirs <- MCDirs
  Paths = {page, readme, draft, artifact}
  DirOf <- MCDirOf
  NameOf <- MCNameOf
  SkipDirs = {"build"}
  SkipSegments = {"work"}
  Texts = {"a", "b", "long"}
  Histories <- MCHistories
  Missing = Missing
  Malformed = Malformed
  None = None
  MaxChars = 8
  HeaderLen = 2
  FenceLen = 4
  Contents <- MCContents
INVARIANTS
  TypeOK
  OneCommit
  PublicSinceRevision
  EveryFileAccounted
  ChunksKeepTheText
  ChunksFit
  CrumbsOfWellNested
CHECK_DEADLOCK FALSE
