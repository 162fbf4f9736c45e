\* More requests than permits, two repeats with one warm-up each.
CONSTANTS
  Concurrency = 2
  Requests = 4
  Repeats = 2
  Warmups = 1
SPECIFICATION FairSpec
INVARIANTS
  PermitsConserved
  RepeatsApart
  RecordsComplete
  ClientReleased
PROPERTY CommandEnds
