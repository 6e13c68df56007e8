SPECIFICATION ServiceSpec
CONSTANTS
  Usernames = {u1, u2}
  Passwords = {p1}
  Names = {k1, k2}
  NoUser = NoUser
  NoPassword = NoPassword
  NoName = NoName
  NULL = NULL
  LEVEL_MAX = 1
  levelsExp <- MCLevels
  LIMIT_TOSAVE = 1
  RequestSet <- MCRequestSet
PROPERTIES OwnersNeverChange BusyCharacterKept
