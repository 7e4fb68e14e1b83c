SPECIFICATION Spec
CONSTANTS
  Setups <- OneSetup
  MaxClouds = 1
  MaxSubmaps = 1
  MaxUpdates = 1
  Period = 1
INVARIANT LidarTransformAgrees
