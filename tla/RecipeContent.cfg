SPECIFICATION ContentSpec
CONSTANTS
  Files <- TestFiles
  Answers <- TestAnswers
  Configured <- OutputSize
  MaxInteger = 70000
CHECK_DEADLOCK FALSE
INVARIANTS
  FindsFrame
  ConformingIsStored
  ShownAsAnswered
PROPERTIES
  Advances
