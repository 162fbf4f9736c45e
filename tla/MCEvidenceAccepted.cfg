\* One build and one publisher, in good order.  The commands end, and with
\* them the behaviour.
CONSTANTS
  Builders = {b1}
  Publishers = {p1}
  b1 = b1
  p1 = p1
SPECIFICATION OrderlySpec
CHECK_DEADLOCK FALSE
INVARIANTS
  PublishedWasAccepted
