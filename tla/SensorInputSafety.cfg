SPECIFICATION Spec
CONSTANTS
  Norms <- SomeNorms
  Scales <- SomeScales
  MaxData = 3
  MaxClouds = 2
INVARIANTS
  TypeOK
  DataComesFirst
  StagesAgree
  UnitsRight
