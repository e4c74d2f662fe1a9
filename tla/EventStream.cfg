\* Two sessions that emit, four ids between them, on either database, and one
\* client that loses its connection or its page twice.
CONSTANTS
  s1 = s1
  s2 = s2
  browser = browser
  Databases = {"sqlite", "postgresql"}
  Session = {s1, s2}
  Client = {browser}
  MaxId = 4
  MaxLosses = 2
SPECIFICATION FairSpec
INVARIANTS
  TypeOK
  InOrderOnce
  OnlyOvertakenIsMissed
PROPERTIES
  EveryEventArrives
