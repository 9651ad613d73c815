CONSTANTS
  Uris <- MCUris
  MaxNext = 2
  MaxPrev = 2
  Content <- MCContent
  Stations <- MCStations
  Transfers <- MCTransfers
  Scenes <- MCScenes
  MaxEvents = 3
  MaxSent = 4
  MaxVolume = 1
SPECIFICATION SpircSpec
INVARIANTS TypeOK WindowOrdered PlayingIsShown
PROPERTIES QueueSurvives OverlongShrinks
\* The task may have ended, or all inputs may have been given.
CHECK_DEADLOCK FALSE
