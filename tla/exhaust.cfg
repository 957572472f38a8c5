SPECIFICATION Spec
CONSTANTS
  NULL = NULL
  Url <- MCUrl
  Href <- MCHref
  HttpUrl <- MCHttp
  site <- MCSite
  buildURI <- MCBuildURI
  Root = "r"
  work <- MCWork
  NThreads = 3
  MaxResults = 0
  MaxSpurious = 1
INVARIANTS
  TypeOK
  QuietWhenExhausted
  WorkedOnce
  NoSleeperWhileWork
  NothingMissed
  MainAlone
PROPERTIES
  ImplementsCrawl
  Terminates
