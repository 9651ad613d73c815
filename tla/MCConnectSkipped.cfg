CONSTANTS
  Uris <- MCUris
  MaxNext = 2
  MaxPrev = 2
  Content <- MCContent
  Stations <- MCStations
  Transfers <- MCTransfers
  Scenes <- BackScenes
  MaxEvents = 3
  MaxSent = 2
  MaxVolume = 1
SPECIFICATION SpircSpec
INVARIANTS NothingSkipped
CHECK_DEADLOCK FALSE
