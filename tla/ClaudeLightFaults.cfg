SPECIFICATION Spec
CONSTANTS
  p1 = p1
  p2 = p2
  s1 = s1
  s2 = s2
  Proc = {p1, p2}
  Session = {s1}
  Commands = {"off", "working", "focus"}
  Faults = {"crash", "stall", "denied", "save", "unlink", "write", "expire"}
  MaxFaults = 2
INVARIANT
  LightFollowsFile
PROPERTY
  HookEnds
