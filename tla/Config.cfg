SPECIFICATION ConfigSpec
CHECK_DEADLOCK FALSE
SYMMETRY MCSymmetry
CONSTANTS
  Callers = {p1, p2, p3}
  Values = {v1, v2}
  Given = {given}
  Generated = {n1, n2}
  Keys = {k1, k2}
  None = None
  Scenes <- MCScenes
  OwnerOf <- MCOwnerOf
  MaxCalls = 4
  MaxBreaks = 1
INVARIANTS
  ConfigInv
  ReadsOneMoment
  RevokedStays
