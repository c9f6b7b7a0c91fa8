\* A plant and the name "/", a second window over the first.
SPECIFICATION Spec
CONSTANTS
  Plant = {basil}
  Nested = {}
  Parent <- OneParent
  Whole = {slash}
  Operator = {}
  Digit = {}
  BadName = badName
  Trait = {noTrait}
  NoTrait = noTrait
  Null = null
  LastIx <- OneRecipe
  MaxPending = 1
  MaxReads = 2
  MaxLogins = 2
  CanExpire = FALSE
INVARIANTS
  TypeOK
  SelectionSafe
  StartSafe
  RowsCurrent
