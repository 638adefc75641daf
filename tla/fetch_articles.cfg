SPECIFICATION FetchSpec
CONSTANTS
  Urls = {u1, u2}
  u1 = u1
  u2 = u2
  NoId = noid
  None = none
  none = none
  a = a
  b = b
  c = c
  Items = {a, b, c}
  Values <- MCValues
  Redirects <- MCRedirects
  Document <- MCDocument
  ErrorKinds = {"permission", "network"}
  Named = {TRUE}
  Workers = {w1, w2}
  MaxFailures = 0
  MaxRead = 1
INVARIANTS
  FetchTypeOK
  TagTellsContent
  OverlappingRunsAgree
PROPERTIES
  RowsKeepTheirArticle
  NoSecondRow
SYMMETRY MCWorkers
