SPECIFICATION MCSpec
CONSTANTS
  Sessions = {s1, s2}
  DB = DB
  NoSession = NoSession
  Garbage = Garbage
  MaxInterrupts = 1
  MaxStarts = 2
  Clients = {c1, c2, c3, c4}
  OpenMax = 7
  Bases = {1, 2}
  PerClient = 2
  Hung = Hung
CHECK_DEADLOCK FALSE
INVARIANTS AnswerIsOwn CallsBeforeGivingUp GivingUpHangsDatabase
PROPERTIES ImplementsRendezvous RaceHasAWinner DatabaseComesBack
