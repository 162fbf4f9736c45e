\* Two builds and two publishers of one run, in good order.  The commands end, and with
\* them the behaviour.
CONSTANTS
  Builders = {b1, b2}
  Publishers = {p1, p2}
  b1 = b1
  b2 = b2
  p1 = p1
  p2 = p2
SPECIFICATION OrderlySpec
SYMMETRY Symmetry
CHECK_DEADLOCK FALSE
INVARIANTS
  PublishedIsOneBuild
