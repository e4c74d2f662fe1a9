\* Two generations of the same migration, one with the model and one with
\* fallback=true, over two files, in four deployments; one may be lost.
CONSTANTS
  s1 = s1
  s2 = s2
  id = id
  number = number
  start = start
  empid = empid
  hired = hired
  unheard = unheard
  Session = {s1, s2}
  Asking = {s1}
  Header <- TwoFiles
  Target = {empid, hired}
  NoTarget = NoTarget
  NoName = NoName
  Evidence <- EvidenceOf
  Broad = {number, start}
  Ambiguous = {start}
  DateTarget = {hired}
  Opinions <- Saying
  Settings <- Deployed
  MaxLost = 1
SPECIFICATION FairSpec
INVARIANTS
  TypeOK
  TargetsAreDistinct
  AppliedNameIsKnown
  DegradedNeedsHuman
  NamedAnswersStay
PROPERTIES
  UsedSetStands
  EveryGenerationEnds
CHECK_DEADLOCK FALSE
