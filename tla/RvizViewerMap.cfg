SPECIFICATION FairSpec
CONSTANTS
  Setups <- OneSetup
  MaxClouds = 0
  MaxSubmaps = 4
  MaxUpdates = 4
  Period = 2
INVARIANT MapFollowsUpdates
PROPERTY DestructorReturns
