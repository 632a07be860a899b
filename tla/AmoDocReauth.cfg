SPECIFICATION Spec
CONSTANTS
  Proc = {p1}
  Task = {t1, t2}
  MaxRetries = 1
  UmnicoRetries = 0
  MaxGen = 2
  Kinds = {"private"}
  Faults = {"expire"}
INVARIANTS ReauthOnlyWhenExpired
