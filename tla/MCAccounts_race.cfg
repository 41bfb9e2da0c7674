SPECIFICATION Spec
CONSTANTS
  w1 = w1
  w2 = w2
  v1 = v1
  v2 = v2
  p1 = p1
  p2 = p2
  t1 = t1
  t2 = t2
  noProfile = noProfile
  NoProfile = noProfile
  Field <- MCField
  Value = {v1, v2}
  Password = {p1, p2}
  Token = {t1, t2}
  Checked <- MCChecked
  Keyed <- UniqueUsername
  Worker = {w1, w2}
  Fails = FALSE
  MaxUsers = 2
  MaxRequests = 2
  MaxExits = 1
SYMMETRY Symmetry
INVARIANT SignupAnswered
CHECK_DEADLOCK FALSE
