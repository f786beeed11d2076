SPECIFICATION FairSpec
CONSTANTS
  k1 = k1
  None = None
  Pin = {k1}
  Line <- Lines
  Post <- Posts
  configured = "2025-11-25"
  MaxCalls = 2
  MaxLines = 2
INVARIANTS
  TypeOK
  PinnedOnce
  AnswersAreTrue
  NoMisrouting
  UsageBounds
PROPERTIES
  ImplementsLineServer
  EveryLineAnswered
CHECK_DEADLOCK FALSE
