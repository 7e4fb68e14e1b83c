SPECIFICATION Spec
CONSTANTS
  Setups <- SomeSetups
  MaxClouds = 2
  MaxSubmaps = 1
  MaxUpdates = 2
  Period = 1
INVARIANTS
  TypeOK
  LidarIdDetected
  TransformAgreesWithPose
  TransformsFormAChain
