\* Two reviewers who decide on different records at the same time, and transforms
\* at any time; mapping decisions are made alone.
CONSTANTS
  a = a
  b = b
  c = c
  email = email
  name = name
  f1 = f1
  r1 = r1
  r2 = r2
  r3 = r3
  i1 = i1
  i2 = i2
  i3 = i3
  s1 = s1
  s2 = s2
  Session = {s1, s2}
  Column = {a, b, c}
  File = {f1}
  FileOf <- OneFile
  Target = {email, name}
  NoTarget = NoTarget
  Suggested <- Proposed
  Automatic = {c}
  Record = {r1, r2, r3}
  Field = {"employee_id", "hire_date"}
  IdField = "employee_id"
  Id = {i1, i2, i3}
  NoId = NoId
  Conflict = "conflict"
  Overlap = "independent"
SYMMETRY Renaming
CHECK_DEADLOCK FALSE
SPECIFICATION Spec
INVARIANTS
  TypeOK
  
  EveryRecordDecided
  
  MappingsDecided
PROPERTIES
  DecisionsStand
