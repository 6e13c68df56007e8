SPECIFICATION MCSpec
CONSTANTS
  BUFFERSIZE = 6
  CANT_ARGS = 4
  MaxInput = 6
  MaxPoints = 3
  AddressNames = {AddressSV}
  KeyNames = {KeyQ1}
  Keys = {k1}
  Addresses = {a1, a2}
  None = None
  Junk = Junk
  MaxLines = 4
CHECK_DEADLOCK FALSE
INVARIANTS LeavesOnQuitOnly PointsWereTyped ReturnsFirstEntry
PROPERTIES ParserIsExact
