SPECIFICATION Spec
CONSTANTS
  ProfileNames <- SomeNames
  Depths <- SomeDepths
  IntMax = 127
  SizeMax = 65535
INVARIANTS
  SettingsAsWritten
  DefaultWhenUnconfigured
