SPECIFICATION Spec
CONSTANTS
  f1 = f1
  r1 = r1
  r2 = r2
  Run = {r1}
  File = {f1}
  Text = {"a", "b", "new"}
  Own = "own"
  Original <- TwoTexts
  Payloads <- Plain
  MaxNow = 0
CHECK_DEADLOCK FALSE
INVARIANTS PartialShown
