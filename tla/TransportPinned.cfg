SPECIFICATION Spec
CONSTANTS
  k1 = k1
  None = None
  Pin = {k1}
  Line <- ArguedLines
  Post <- NoPosts
  configured = "2025-11-25"
  MaxCalls = 2
  MaxLines = 2
INVARIANTS
  ArgumentPinnedOnce
CHECK_DEADLOCK FALSE
