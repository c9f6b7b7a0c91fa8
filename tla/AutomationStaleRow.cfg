\* A refresh under an open drop-down.
SPECIFICATION Spec
CONSTANTS
  Plant = {basil, mint}
  Nested = {}
  Parent <- OneParent
  Whole = {}
  Operator = {}
  Digit = {}
  BadName = badName
  Trait = {noTrait}
  NoTrait = noTrait
  Null = null
  LastIx <- OneRecipe
  MaxPending = 1
  MaxReads = 1
  MaxLogins = 1
  CanExpire = FALSE
PROPERTY
  TapSelectsShown
