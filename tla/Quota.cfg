SPECIFICATION Spec
CONSTANTS
  Clients = {c1}
  Usernames = {u1}
  Passwords = {p1}
  Names = {k1, k2, k3, k4, k5, k6}
  NoUser = NoUser
  NoPassword = NoPassword
  NoName = NoName
  NULL = NULL
  Free = Free
  Abandoned = Abandoned
  LEVEL_MAX = 1
  levelsExp <- MCOneLevel
  LIMIT_TOSAVE = 0
  MaxExp = 0
CHECK_DEADLOCK FALSE
SYMMETRY MCNameSymmetry
INVARIANT AtMostMaxCharacters
