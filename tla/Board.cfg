SPECIFICATION Spec
CONSTANTS
  BootPins <- Routings
  BootPll <- LoaderPll
  BootAclk = 1
  BootPll2Source = 1
  PllRequests <- Requests
  SD_TIMEMOUT_COUNT = 2
  Cards = {"empty", "v1", "sdsc", "sdhc"}
  MaxSectors = 2
  MaxCalls = 1
INVARIANTS OneOwner SlowUntilReady CpuHasClock PllSound PllBest
PROPERTY KernInitEnds
CHECK_DEADLOCK FALSE
