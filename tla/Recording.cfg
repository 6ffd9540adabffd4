\* A database file that others lock, caches of every kind, crashes and full disks.
SPECIFICATION RecordingSpec
CONSTANTS
  Canonics <- MCOneName
  Words = {temp, w1, w2, odd}
  Blank = Blank
  Times <- MCTimes
  DstShift = 0
  Values <- MCValues
  Quotable <- MCQuotable
  Unknown = Unknown
  Length <- MCLength
  SizeofString = 1
  SizeofTime = 1
  LineOverhead = 3
  Kilo = 5
  Modulus = 40
  Configs <- MCSettings
  NoConfig = NoConfig
  Unset = Unset
  Sizes <- MCSizes
  DiskOutcomes = {"ok", "full"}
  MaxReadings = 2
  temp = temp
  w1 = w1
  w2 = w2
  odd = odd
SYMMETRY MCSymmetry
PROPERTIES DiesOnlyUnopened
INVARIANTS Coupled Recorded AnsweredFromAll RowsAreReadings
