\* Two requests of any kind at the same time, but for two retries; a process is
\* lost at any point.
CONSTANTS
  s1 = s1
  s2 = s2
  sent = sent
  late = late
  refused = refused
  Session = {s1, s2}
  Record = {sent, late, refused}
  Fate <- FateOf
  Kinds = {"push", "direct", "retry", "undo", "cancel"}
  RetriesMeet = FALSE
  MaxCrashes = 1
SYMMETRY Renaming
SPECIFICATION Spec
INVARIANTS
  TypeOK
PROPERTIES
  StopIsSeen
  EachRecordIsDeliveredOnce
