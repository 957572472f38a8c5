SPECIFICATION Spec
CONSTANTS
  NULL = NULL
  Url <- MCUrl
  Href <- MCHref
  HttpUrl <- MCHttp
  site <- MCSite
  buildURI <- MCBuildURI
  Root = "r"
  work <- MCWork
  max_conntions = 3
  MaxResults = 2
  MaxWaitFailures = 1
INVARIANTS
  FetchedOnce
  ResultsCounted
  NothingMissed
PROPERTIES
  ImplementsCrawl
  Terminates
