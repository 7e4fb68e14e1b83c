SPECIFICATION Spec
CONSTANTS
  Playlists <- SomePlaylists
  Settings <- SomeSettings
  Speed = 0
  Timeout = 0
  MaxPause = 0
  MaxClouds = 3
  Unusable = {4}
INVARIANT BagsReachTheDump
PROPERTY NodeSpec
