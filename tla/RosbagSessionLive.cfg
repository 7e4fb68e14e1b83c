SPECIFICATION FairSpec
CONSTANTS
  Playlists <- FewPlaylists
  Settings <- SomeSettings
  Speed = 0
  Timeout = 0
  MaxPause = 0
  MaxClouds = 3
  Unusable = {4}
PROPERTY BatchEnds
