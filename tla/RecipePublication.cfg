SPECIFICATION Spec
CONSTANTS
  q1 = q1
  q2 = q2
  q3 = q3
  soup = soup
  Requests <- ThreeRequests
  Recipes <- OneRecipe
  MaxClock = 4
SYMMETRY Symmetry
INVARIANTS
  AloneTakesEffect
  AnswerWasTrue
