\* The login window leaves the stack before the plants arrive.
SPECIFICATION Spec
CONSTANTS
  Account = {ann}
  NoUser = noUser
  MaxWin = 1
  Slot = {s1}
INVARIANT
  ChainSetsUpTabs
