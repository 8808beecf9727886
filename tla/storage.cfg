SPECIFICATION MCSpec
CONSTANTS
  p1 = p1 p2 = p2 media = media
  Requests = {1, 2}
  Writers = {w1, w2, w3}
  Configs <- MCConfigs
  MaxConnections = 1
  MaxErrorCount = 1
  MaxIdle = 1
  MaxAge = 2
  CheckInterval = 1
  Root = Root
  NoWriter = NoWriter
  a = a b = b x = x y = y z = z Up = Up
  Nodes <- MCNodes
  Lengths = {0, 1}
  BasePath <- MCBase
  RawPaths <- MCRaw
  Disputed <- MCDisputed
  movie = movie
  Conns = {c1}
  Locals = {l1}
  Remotes = {r1}
  Bindings = {r1}
  Types = {movie, series}
  None = None
INVARIANTS Bounded HandedOutMatches SuccessMeansDone 
PROPERTIES ExpiredLeaves SeenGoesWithLibrary
