SPECIFICATION Spec
CONSTANTS
  t1 = t1
  t2 = t2
  NoTrack = NoTrack
  Tracks <- MCTracks
  Explicit <- MCExplicit
  Duration = 1
  PreloadMargin = 1
  MaxId = 3
  MaxBacklog = 1
INVARIANTS
  TypeOK
  ListenerAgrees
  DeviceReleased
  OnlyRefusedLoadsDiverge
PROPERTIES
  IdsNeverGoBack
  Protocol
CHECK_DEADLOCK FALSE
