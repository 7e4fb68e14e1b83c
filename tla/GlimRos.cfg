SPECIFICATION FairSpec
CONSTANTS
  Mains <- AllMains
  MaxClouds = 3
INVARIANTS
  TypeOK
  InFlightIsARun
  NothingLost
  DumpsComplete
  MapQuietDuringSave
  UnloadIsQuiet
  WaitIsNeverStuck
PROPERTIES
  ServiceSpec
  ShutdownAdvances
  ShutdownCompletes
