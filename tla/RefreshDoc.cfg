SPECIFICATION RefreshSpec
CONSTANTS
  NoMail = NoMail
  Nobody = Nobody
  Specialist = {s1}
  Client = {c1, c2}
  Result = {r1}
  Mail = {m1, m2}
  MaxRuns = 1
  MaxChanges = 0
  MaxUsers = 0
SYMMETRY Symmetry
INVARIANT AllLoaded
CHECK_DEADLOCK FALSE
