SPECIFICATION Spec
CONSTANTS
  Requests = {r1, r2, r3}
  Slots = {s1, s2}
  CacheSize = 1
  MaxActive = 2
  TimesOut = FALSE
  AnswersLost = FALSE
  NoSlot = NoSlot
  NoAnswer = NoAnswer
CHECK_DEADLOCK FALSE
INVARIANT OwnAnswer
