SPECIFICATION Spec
CONSTANTS
  t1 = t1  t2 = t2  p1 = p1  p2 = p2  s1 = s1  s2 = s2
  None = None
  Terms <- MCTerms
  Secret = {s1, s2}
  TTL = 2
  Second = 2
  MaxTime = 3
  MaxReleases = 3
  MaxCopies = 1
SYMMETRY Symmetry
INVARIANTS
  ToldWhatChanged
  SevenDays
