SPECIFICATION Spec
CONSTANTS
  Proc = {p1, p2}
  Task = {t1, t2}
  MaxRetries = 1
  UmnicoRetries = 0
  MaxGen = 2
  Kinds = {"private"}
  Faults = {"crash", "persist", "timeout", "expire"}
SYMMETRY CallsAndProcesses
INVARIANTS PairKept
PROPERTIES DiskMonotone
