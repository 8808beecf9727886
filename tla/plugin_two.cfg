SPECIFICATION MCSpec
CONSTANTS
  None = None
  c1 = c1  c2 = c2  pa = pa  pb = pb
  Plugins = {pa, pb}
  WorkerPlugins = {pb}
  Commits = {c1, c2}
  Contains <- MCContainsEach
  i1 = i1  i2 = i2
  RepoIds = {i1, i2}
  RacingIds = {i1, i2}
  Clients = {r1, r2}
  Workers = {}
  Api = api
  Names = {1, 2, 3}
  Ops = {"add", "update", "disable", "remove"}
INVARIANTS Coordinated OneVersion RollbackPossible
PROPERTY SwitchSpec
SYMMETRY Symmetry
CHECK_DEADLOCK FALSE
