SPECIFICATION Spec
CONSTANTS
  p1 = p1
  p2 = p2
  s1 = s1
  s2 = s2
  Proc = {p1, p2}
  Session = {s1, s2}
  Commands = {"on", "off", "working", "idle", "sessionend", "focus", "unfocus"}
  Faults = {"save", "write", "expire"}
  MaxFaults = 1
SYMMETRY MCSymmetry
INVARIANTS
  MutualExclusion
  LightFollowsFile
PROPERTY
  StateIsAtomic
