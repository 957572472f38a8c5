SPECIFICATION Spec
CONSTANTS
  NULL = NULL
  Url <- MCUrl
  Href <- MCHref
  HttpUrl <- MCHttp
  site <- MCSite
  buildURI <- MCBuildURI
  Root = "r"
  work <- MCWork
  NThreads = 3
  MaxResults = 1
  MaxSpurious = 1
INVARIANTS
  StuckOnlyWhenFull
PROPERTIES
  FrozenOnceDone
  Settles
CHECK_DEADLOCK FALSE
