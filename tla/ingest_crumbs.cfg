\* Breadcrumbs of texts whose headings may skip a level or start below H1.
SPECIFICATION IngestSpec
CONSTANTS
  docsrepo = docsrepo
  tools = tools
  page = page
  readme = readme
  draft = draft
  artifact = artifact
  Repos = {docsrepo, tools}
  Configured <- MCConfigured
  DocsRepo = docsrepo
  Dirs <- MCDirs
  Paths = {page, readme, draft, artifact}
  DirOf <- MCDirOf
  NameOf <- MCNameOf
  SkipDirs = {"build"}
  SkipSegments = {"work"}
  Texts = {"a", "b", "long"}
  Histories <- MCHistories
  Missing = Missing
  Malformed = Malformed
  None = None
  MaxChars = 8
  HeaderLen = 2
  FenceLen = 4
  Contents <- MCContents
INVARIANT CrumbsAreAncestry
CHECK_DEADLOCK FALSE
