SPECIFICATION FairSpec
CONSTANTS
  Setups <- OneSetup
  MaxClouds = 1
  MaxSubmaps = 2
  MaxUpdates = 2
  Period = 1
PROPERTY MapEveryTenSeconds
