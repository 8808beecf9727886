SPECIFICATION MCSpec
CONSTANTS
  None = None
  c1 = c1  c2 = c2  pa = pa  pb = pb
  Plugins = {pa, pb}
  WorkerPlugins = {pb}
  Commits = {c1, c2}
  Contains <- MCContains
  i1 = i1  i2 = i2
  RepoIds = {i1, i2}
  RacingIds = {i1}
  Clients = {r1}
  Workers = {w}
  Api = api
  Names = {1, 2, 3}
  Ops = {"add", "update", "rollback", "enable", "config", "load", "disable", "remove", "restart"}
INVARIANTS ActiveIsLocked  ActiveIsEnabledAlone CodeIsCommitAlone
 
