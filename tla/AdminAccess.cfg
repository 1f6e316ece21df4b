SPECIFICATION AccessSpec
CONSTANTS
  a1 = a1
  a2 = a2
  a3 = a3
  t1 = t1
  t2 = t2
  Weak = Weak
  NoToken = NoToken
  Garbled = Garbled
  Requests <- ThreeRequests
  Tokens <- TwoTokens
  Watched = "watched"
  Cases <- SomeCases
  Limit = 1
  Window = 2
  LastMinute = 1
SYMMETRY Symmetry
CHECK_DEADLOCK FALSE
INVARIANTS
  WindowLimit
  KeysGetTimeouts
  RefusedByEntitled
  AnswersTellEffects
