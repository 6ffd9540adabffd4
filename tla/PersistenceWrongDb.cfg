\* A wrong database is configured, then the right one.
SPECIFICATION Spec
CONSTANTS
  Canonics <- MCTwoNames
  Words = {lamp, temp, w1, w2}
  Blank = Blank
  Times <- MCTimes
  DstShift = 0
  Values <- MCOneWord
  Length <- MCLength
  SizeofString = 1
  SizeofTime = 1
  LineOverhead = 3
  Kilo = 5
  Modulus = 40
  Configs <- WrongThenRight
  NoConfig = NoConfig
  Unset = Unset
  Sizes <- MCSizes
  DiskOutcomes = {"ok"}
  MaxReadings = 2
  lamp = lamp
  temp = temp
  w1 = w1
  w2 = w2
INVARIANTS ConfiguredDaemonSurvives
