\* Autopilot: a pass and next to it two requests; no polls, no stop, and an
\* undo of what was sent, as the frontend offers it.  A process is lost with
\* its pass at any stage, or with a request.  The system stops when nobody
\* asks for more.
CONSTANTS
  pool = pool
  q1 = q1
  q2 = q2
  Pass = pool
  Request = {q1, q2}
  Uploader = q1
  Modes = {"AUTOPILOT"}
  Kinds = {"run", "resolve", "undo"}
  UndoWhen = {"SENT", "FAILED"}
  CrashAt = {"analyze", "review", "preview", "push", "request"}
  MaxCrashes = 1
SPECIFICATION FairSpec
INVARIANTS
  
  DecisionIsTakenUp
  
PROPERTIES
  DecidedIsDelivered
CHECK_DEADLOCK FALSE
