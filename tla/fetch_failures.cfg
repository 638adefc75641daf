SPECIFICATION FetchSpec
CONSTANTS
  Urls = {u1, u2}
  u1 = u1
  u2 = u2
  NoId = noid
  None = none
  none = none
  a = a
  b = b
  c = c
  Items = {a, b, c}
  Values <- MCValues
  Redirects <- MCRedirects
  Document <- OneEntry
  ErrorKinds = {"permission", "network"}
  Named = {TRUE, FALSE}
  Workers = {w1, w2}
  MaxFailures = 4
  MaxRead = 0
INVARIANTS
  HealthIsConsistent
SYMMETRY MCWorkers
