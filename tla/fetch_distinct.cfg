SPECIFICATION FetchSpec
CONSTANTS
  Urls = {u1, u2}
  u1 = u1
  u2 = u2
  NoId = noid
  None = none
  none = none
  a = a
  b = b
  c = c
  Items = {a, b, c}
  Values <- MCValues
  Redirects <- MCRedirects
  Document <- SharedSummary
  ErrorKinds = {"permission", "network"}
  Named = {TRUE, FALSE}
  Workers = {w1}
  MaxFailures = 1
  MaxRead = 0
INVARIANTS
  DistinctArticlesKept
