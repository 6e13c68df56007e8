SPECIFICATION ProgramsSpec
CONSTANTS
  Loggers = {p1, p2}
  NoLogger = NoLogger
  Capacity = 2
  MaxMessages = 1
  MaxKills = 1
  MaxSem = 2
  Clients = {c1, c2}
  Main = Main
  ThreadCapacity = 1
  MAX_THREADS = 1
CHECK_DEADLOCK FALSE
INVARIANTS MixturesNeedTwoLoggers TypedMessageIsWhole InterruptEndsOnlyBeforeLogging
PROPERTIES ImplementsLog SendReturns InterruptEnds MessageReachesDaemon MainGetsThrough
