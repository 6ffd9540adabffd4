\* Configuration, heartbeats and messages, with crashes, pauses and a clock that is set back.
SPECIFICATION FairSpec
CONSTANTS
  Blank = Blank
  Instances = {home, office}
  Rejected = {tooLong}
  Intervals = {0, 1, 4}
  Groups = {g1, g2}
  All = All
  Default = home
  HBMin = 1
  HBMax = 2
  Minute = 1
  ConfigBeat = 1
  HubPort = 3865
  Ports = {3865, 49152}
  Messages <- MCMessages
  NoFile = NoFile
  NoBeat = NoBeat
  MaxBatch = 2
  MaxLag = 1
  MaxGap = 3
  home = home
  office = office
  tooLong = tooLong
  g1 = g1
  g2 = g2
INVARIANTS TypeOK BeatTellsTheTruth NoGhosts SettingsInUse CurrentSurvivesRestart StartsAgain NeverAsksAgain ListenersWaitNoLonger HeardFirst
PROPERTIES BeatsForever
