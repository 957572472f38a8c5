SPECIFICATION Spec
CONSTANTS
  NULL = NULL
  Url <- MCUrl
  Href <- MCHref
  HttpUrl <- MCHttp
  site <- MCSite
  buildURI <- MCBuildURI
  Root = "r"
  work <- MCWork
  NThreads = 2
  MaxResults = 1
  MaxSpurious = 0
PROPERTIES
  Terminates
CHECK_DEADLOCK FALSE
