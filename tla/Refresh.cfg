SPECIFICATION RefreshSpec
CONSTANTS
  NoMail = NoMail
  Nobody = Nobody
  Specialist = {s1}
  Client = {c1, c2}
  Result = {r1}
  Mail = {m1, m2}
  MaxRuns = 2
  MaxChanges = 1
  MaxUsers = 2
SYMMETRY Symmetry
INVARIANTS UsersWhole LoadTrue
CHECK_DEADLOCK FALSE
