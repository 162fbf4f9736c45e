\* One build and two publishers race for one run.  The commands end, and with
\* them the behaviour.
CONSTANTS
  Builders = {b1}
  Publishers = {p1, p2}
  b1 = b1
  p1 = p1
  p2 = p2
SPECIFICATION Spec
SYMMETRY Symmetry
CHECK_DEADLOCK FALSE
INVARIANTS
  CompletedMeansMeasured
  PublishedAtOnce
PROPERTIES
  PublishedOnce
  FinalManifestKept
