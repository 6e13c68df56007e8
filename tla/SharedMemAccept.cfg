SPECIFICATION FairSpec
CONSTANT MaxSem = 2
PROPERTY ServerGetsToAccept
CHECK_DEADLOCK FALSE
