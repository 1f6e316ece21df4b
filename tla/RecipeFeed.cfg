SPECIFICATION Spec
CONSTANTS
  Recipes <- FourRecipes
  Limit = 2
  MaxDate = 3
INVARIANTS
  FeedComplete
  FeedWithoutRepeats
