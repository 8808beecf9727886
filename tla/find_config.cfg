SPECIFICATION Spec
CONSTANTS
  Tasks = {t1}
  Clients = {c1}
  MaxVersion = 1
  Size <- SizeOne
  Concurrency = 1
  DeleteSource = TRUE
  Ops = {"interrupt"}
  ApiMayCrash = FALSE
  MaxStale = 0
  NoTask = NoTask
PROPERTIES NoRemovalAfterConfigChange
