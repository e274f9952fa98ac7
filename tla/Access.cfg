SPECIFICATION AccessSpec
CHECK_DEADLOCK FALSE
SYMMETRY MCSymmetry
CONSTANTS
  Callers = {p1, p2, p3}
  Roles = {r1}
  Organizations = {o1}
  Users = {u1, u2}
  Forms = {f1, f2}
  Labels = {"old", "new"}
  Scenes <- MCScenes
  None = None
  MaxCalls = 5
  MaxBreaks = 1
INVARIANTS
  AccessInv
  ListedAtOneMoment
