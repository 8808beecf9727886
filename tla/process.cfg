SPECIFICATION Spec
CONSTANTS
  Pids = {p1, p2, p3, p4}
  Commands = {c1, c2}
  Kinds = {"start", "stop", "restart", "run"}
  MaxBegun = 2
  None = None
  Half = Half
SYMMETRY Symmetry
PROPERTIES  StartOwnsAll StopStops
