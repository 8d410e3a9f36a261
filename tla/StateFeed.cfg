SPECIFICATION FeedSpec
CONSTANTS
  Fields = {"zoom", "ai", "polled", "enabled", "exposure", "color"}
  Top = 1
  MaxTaps = 2
  MaxOthers = 1
  MaxTimeouts = 1
  WireRoom = 1
INVARIANTS FeedTypeOK SnapshotTrue
PROPERTIES DragPinned ClientConverges
CHECK_DEADLOCK FALSE
