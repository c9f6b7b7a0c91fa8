\* The platform's mode and reset: delivery under fairness.
SPECIFICATION FairSpec
CONSTANTS
  Control <- PlatformMode
  Command <- PlatformReset
  Field = {}
  Reading = {}
  Blank = blank
  MaxPending = 1
  MaxReads = 1
  MaxBars = 1
  MaxLeaked = 0
PROPERTIES
  ChoiceArrives
  InfoCatchesUp
