SPECIFICATION Spec
CONSTANTS
  Workers = {w1, w2}
  Requests <- MCRequestSet
  MaxCache = 1
  MaxSent = 3
CHECK_DEADLOCK FALSE
INVARIANTS
  EffectOnce
  AnswerIsTrue
  EvictionFindsEntry
  AnsweredInOrder
PROPERTIES
  ArrivedIsAnswered
