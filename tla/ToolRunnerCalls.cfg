\* Every tool on every DNA, with every relation of the two time-outs.
SPECIFICATION FairSpec
CHECK_DEADLOCK FALSE  \* a call ends
CONSTANTS
  None = None
  Names <- AllNames
  Days <- SomeDays
  QuarterOf <- Quarters
  CountryOf <- Countries
  PortNameOf <- PortTexts
  Prices <- Benchmarks
  Schedules <- Voyages
  Capitals <- Ships
  Within <- Parts
  Registry <- Companies
  NameForm <- Normal
  SdnList <- Listed
  Ratio <- Ratios
  Threshold = 82
  Dnas <- SomeDnas
  Limits <- SomeLimits
INVARIANTS TypeOK TypedUnlessSqueezed ClearExactlyIfDissimilar
PROPERTIES ToolCallSpec CallEnds
