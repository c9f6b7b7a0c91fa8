\* Two plants, one of them called 0, and a forced sign-out: the list catches up.
SPECIFICATION FairSpec
CONSTANTS
  Plant = {basil, zero}
  Nested = {}
  Parent <- OneParent
  Whole = {}
  Operator = {}
  Digit = {zero}
  BadName = badName
  Trait = {noTrait}
  NoTrait = noTrait
  Null = null
  LastIx <- OneRecipe
  MaxPending = 1
  MaxReads = 1
  MaxLogins = 1
  CanExpire = TRUE
INVARIANT
  ListCurrent
PROPERTY
  ListCatchesUp
