SPECIFICATION Spec
CONSTANTS
  Tasks = {t1}
  Clients = {c1}
  MaxVersion = 1
  Size <- SizeOne
  Concurrency = 1
  DeleteSource = TRUE
  Ops = {"cancel", "pause", "resume", "retry", "delete", "clear", "interrupt", "cleanup"}
  ApiMayCrash = TRUE
  MaxStale = 0
  NoTask = NoTask
INVARIANTS NoOrphanRunning SourceOrTarget CompletedHasTarget
PROPERTIES MoveSpec
