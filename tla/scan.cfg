SPECIFICATION MCSpec
CONSTANTS
  Tasks = {t1, t2}
  Requests = {r1, r2}
  Worker = Worker
  Scanners = {Worker}
  MaxVersion = 2
  NoTask = NoTask
  NoActor = NoActor
INVARIANTS OneTaskPerVersion LinkedIsSeenAlone
PROPERTIES NewestIsTaskedAlone
