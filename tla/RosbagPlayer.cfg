SPECIFICATION FairSpec
CONSTANTS
  Playlists <- SomePlaylists
  Settings <- SomeSettings
  Speed = 1
  Timeout = 1
  MaxPause = 2
INVARIANTS
  TypeOK
  PlaybackIsExact
  LateAtMostOne
PROPERTIES
  NoFastForward
  PlaybackAdvances
  PlaybackFinishes
