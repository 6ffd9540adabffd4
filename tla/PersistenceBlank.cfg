\* A value with a blank goes through the cache file.
SPECIFICATION Spec
CONSTANTS
  Canonics <- MCTwoNames
  Words = {lamp, temp, w1, w2}
  Blank = Blank
  Times <- MCTimes
  DstShift = 0
  Values <- MCTwoWords
  Length <- MCLength
  SizeofString = 1
  SizeofTime = 1
  LineOverhead = 3
  Kilo = 5
  Modulus = 40
  Configs <- TwoLevelSetting
  NoConfig = NoConfig
  Unset = Unset
  Sizes <- MCSizes
  DiskOutcomes = {"ok"}
  MaxReadings = 2
  lamp = lamp
  temp = temp
  w1 = w1
  w2 = w2
INVARIANTS RecordsDeviceAndValue
