\* Two processes and one migration under every kind of fault: crashes,
\* database errors, shutdowns that let passes run on, stalled dispatchers.
CONSTANTS
  p1 = p1
  p2 = p2
  b1 = b1
  b2 = b2
  Proc = {p1, p2}
  Worker <- OneThreadEach
  Owner <- OwnerOf
  Batch = {b1}
  NoWorker = NoWorker
  LeaseTicks = 2
  Faults = {"crash", "dberror", "stop", "stall"}
  MaxFaults = 3
  MaxGeneration = 2
SPECIFICATION FairSpec
INVARIANTS
  RestMeansServed
PROPERTIES
  EveryJobSettles
