\* Two accounts, two login windows, two overlapping chains.
SPECIFICATION FairSpec
CONSTANTS
  Account = {ann, bob}
  NoUser = noUser
  MaxWin = 2
  Slot = {s1, s2}
INVARIANTS
  TypeOK
  TabsSignedIn
  TabsLoaded
  TabsOwn
PROPERTIES
  LoginLeadsToTabs
  AccessSpec
