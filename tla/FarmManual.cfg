\* A switch over a queue of two writes, with a second tab bar.
SPECIFICATION Spec
CONSTANTS
  Control <- OneSwitch
  Command = {}
  Field = {}
  Reading = {}
  Blank = blank
  MaxPending = 2
  MaxReads = 1
  MaxBars = 2
  MaxLeaked = 1
INVARIANTS
  TypeOK
  LastChoiceWins
  ManualHonest
  LoginShowsChoices
PROPERTIES
  PanelSpec
