SPECIFICATION FairRestartSpec
CONSTANTS
  Clients = {c1}
  Usernames = {u1}
  Passwords = {p1}
  Names = {k1}
  NoUser = NoUser
  NoPassword = NoPassword
  NoName = NoName
  NULL = NULL
  Free = Free
  Abandoned = Abandoned
  LEVEL_MAX = 3
  levelsExp <- MCLevels
  LIMIT_TOSAVE = 2
  MaxExp = 3
  MaxFaults = 2
CHECK_DEADLOCK FALSE
INVARIANTS ExperienceConsistent UnsavedBoundedWhileUp
PROPERTIES CallsReturnOrStranded InterruptFreesClients
