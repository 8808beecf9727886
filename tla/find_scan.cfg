SPECIFICATION MCSpec
CONSTANTS
  Tasks = {t1, t2}
  Requests = {r1}
  Worker = Worker
  Scanners = {Worker, r1}
  MaxVersion = 2
  NoTask = NoTask
  NoActor = NoActor
SYMMETRY Symmetry
INVARIANTS OneTaskPerVersion
