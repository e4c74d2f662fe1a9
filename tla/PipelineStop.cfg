\* Both modes: a pass and next to it one request of any kind but an undo; a
\* process is lost at any point.
CONSTANTS
  pool = pool
  q1 = q1
  q2 = q2
  Pass = pool
  Request = {q1}
  Uploader = q1
  Modes = {"AUTOPILOT", "HUMAN_IN_LOOP"}
  Kinds = {"poll", "run", "push", "decline", "cancel", "resolve", "guide"}
  UndoWhen = {"NONE", "SENT", "FAILED", "UNDONE"}
  CrashAt = {"analyze", "review", "preview", "push", "request"}
  MaxCrashes = 1
SPECIFICATION Spec
INVARIANTS
  TypeOK
  

  
