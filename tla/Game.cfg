SPECIFICATION Spec
CONSTANTS
  Clients = {c1, c2}
  Usernames = {u1}
  Passwords = {p1}
  Names = {k1}
  NoUser = NoUser
  NoPassword = NoPassword
  NoName = NoName
  NULL = NULL
  Free = Free
  Abandoned = Abandoned
  LEVEL_MAX = 2
  levelsExp <- MCShortLevels
  LIMIT_TOSAVE = 0
  MaxExp = 1
CHECK_DEADLOCK FALSE
SYMMETRY MCClientSymmetry
INVARIANTS TypeInvariant CallInvariant PlayedCharacterHeld AnswersMatchCalls SessionEndStrandsNobody
PROPERTIES ProgressNeverLost
