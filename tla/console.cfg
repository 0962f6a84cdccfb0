SPECIFICATION FairSpec
CONSTANTS
  Tabs = {b1, b2}
  Calls = {q1, q2}
  MaxTokens = 2
  MaxPushes = 3
  Faults = {"expire", "redis"}
CHECK_DEADLOCK FALSE
INVARIANTS TypeOK NewestTokensKept
PROPERTIES NoTokenNoPage LiveSessionsStay DeadSessionsEnd
