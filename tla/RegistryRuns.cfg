SPECIFICATION FairSpec
CONSTANTS
  NProfiles = 2
  Wanted = wanted
  SafeRows = {wanted, old}
  UnsafeRows = {locked}
  Absent = absent
  MaxRuns = 2
  MaxFaults = 2
  Faults = {"command", "misstore", "crash"}
INVARIANTS Repairable
PROPERTIES KeepsPromise InvocationEnds
CHECK_DEADLOCK FALSE
