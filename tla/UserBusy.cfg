SPECIFICATION Spec
CONSTANTS
  Clients = {c1, c2}
  Usernames = {u1}
  Passwords = {p1}
  Names = {}
  NoUser = NoUser
  NoPassword = NoPassword
  NoName = NoName
  NULL = NULL
  Free = Free
  Abandoned = Abandoned
  LEVEL_MAX = 1
  levelsExp <- MCOneLevel
  LIMIT_TOSAVE = 0
  MaxExp = 0
CHECK_DEADLOCK FALSE
SYMMETRY MCClientSymmetry
PROPERTIES BusyMeansLogged
