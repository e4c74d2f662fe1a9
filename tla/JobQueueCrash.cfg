\* Two processes whose dispatchers keep their period, two threads in the
\* first, two migrations; a crash or a database error at any point.
CONSTANTS
  p1 = p1
  p2 = p2
  b1 = b1
  b2 = b2
  Proc = {p1, p2}
  Worker <- TwoAndOne
  Owner <- OwnerOf
  Batch = {b1, b2}
  NoWorker = NoWorker
  LeaseTicks = 2
  Faults = {"crash", "dberror"}
  MaxFaults = 1
  MaxGeneration = 2
SPECIFICATION Spec
INVARIANTS
  TypeOK
  OnePassPerBatch
PROPERTIES
  ClaimEndsByHolder
  ImplementsPassQueue
