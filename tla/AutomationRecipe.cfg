\* Delivery of a started recipe; the user writes no plant, others write nested ones.
SPECIFICATION FairSpec
CONSTANTS
  Plant = {basil}
  Nested = {basilSweet}
  Parent <- OneParent
  Whole = {}
  Operator = {}
  Digit = {}
  BadName = badName
  Trait = {noTrait}
  NoTrait = noTrait
  Null = null
  LastIx <- TwoRecipes
  MaxPending = 4
  MaxReads = 0
  MaxLogins = 1
  CanExpire = FALSE
INVARIANT
  RecipeHeld
PROPERTIES
  StartedAsShown
  RecipeArrives
  PanelSpec
