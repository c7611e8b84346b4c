CONSTANTS
  MaxTracks = 2
  MaxAge = 2
  LostAfter = 1
  MaxDistance = 1
  MaxDetections = 2
  MaxId = 3
  MaxHist = 4
  MaxCalib = 3
  CalibAt = 3
  MinGap = 1
  MaxGap = 1
  MinPeriod = 1
  MaxCycles = 2
  Levels = {"SAFE", "DANGER"}
  MaxLate = 1
  MaxTime = 3
  Followed = {3}
SPECIFICATION ProcSpec
INVARIANTS TypeOK ReportedTracksFresh MatchStable HistoriesBounded CyclesInOrder SwingsOfOwnTracks CommandsOfFreshTracks
PROPERTY TracksSettle
