\* Up to two commands at a time.  They end, and with them the behaviour.
CONSTANTS
  t0 = t0
  t1 = t1
  t3 = t3
  c1 = c1
  c2 = c2
  Runs = {t0, t1, t3}
  Home <- MCHome
  Commands = {c1, c2}
  Cases <- MCCases
  NoEffect = NoEffect
  NoInterval = NoInterval
  NoCost = NoCost
  Minimum = 3
  Rate = 1
  Shared = 1
  Unit = 60
  MinRepeats = 3
  MinSuccesses = 6
SPECIFICATION Spec
SYMMETRY Symmetry
CHECK_DEADLOCK FALSE
INVARIANTS
  WinnerIsBetter
  OrderOfNamingIsFree
  ClaimsArePublishable
  NewestEmbedded
