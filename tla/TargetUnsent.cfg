\* A push is lost with its process, and the person retries what failed.
CONSTANTS
  s1 = s1
  s2 = s2
  sent = sent
  late = late
  refused = refused
  Session = {s1}
  Record = {sent, late}
  Fate <- FateOf
  Kinds = {"push", "retry"}
  RetriesMeet = FALSE
  MaxCrashes = 1
SPECIFICATION Spec
INVARIANTS
  CompletedMeansSent
