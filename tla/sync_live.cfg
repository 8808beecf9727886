SPECIFICATION FairSpec
CONSTANTS
  Tasks = {t1}
  Clients = {c1}
  MaxVersion = 2
  Size <- SizeShrink
  Concurrency = 1
  DeleteSource = TRUE
  Ops = {"pause", "resume", "retry"}
  ApiMayCrash = FALSE
  MaxStale = 0
  NoTask = NoTask
 
PROPERTIES RunningEnds 
