SPECIFICATION Spec
CONSTANTS
  f1 = f1
  r1 = r1
  r2 = r2
  Run = {r1, r2}
  File = {f1}
  Text = {"a", "b", "new"}
  Own = "own"
  Original <- TwoTexts
  Payloads <- Inputs
  MaxNow = 1
CHECK_DEADLOCK FALSE
SYMMETRY AnyRun
INVARIANTS Gated ArtifactsTrue FilesKept
