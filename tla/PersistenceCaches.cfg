\* Every kind of setting in any order, with crashes, full disks and a clock that moves.
SPECIFICATION FairSpec
CONSTANTS
  Canonics <- MCOneName
  Words = {lamp, temp, w1, w2}
  Blank = Blank
  Times <- MCTimes
  DstShift = 0
  Values <- MCOneWord
  Length <- MCLength
  SizeofString = 1
  SizeofTime = 1
  LineOverhead = 3
  Kilo = 5
  Modulus = 40
  Configs <- AllSettings
  NoConfig = NoConfig
  Unset = Unset
  Sizes <- MCSizes
  DiskOutcomes = {"ok", "full"}
  MaxReadings = 4
  lamp = lamp
  temp = temp
  w1 = w1
  w2 = w2
INVARIANTS TypeOK Conservation QuerySeesEverything CachesWithinLimits
PROPERTIES LogSpec CallsAdvance CallsReturn
