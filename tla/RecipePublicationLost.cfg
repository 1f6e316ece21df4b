SPECIFICATION Spec
CONSTANTS
  q1 = q1
  q2 = q2
  q3 = q3
  soup = soup
  Requests <- TwoRequests
  Recipes <- OneRecipe
  MaxClock = 2
PROPERTIES
  PublishPublishes
