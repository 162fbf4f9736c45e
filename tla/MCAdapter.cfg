\* Every call and every answer of a few events.  A call ends, and with it the
\* behaviour.
CONSTANT MaxEvents = 4
SPECIFICATION Spec
CHECK_DEADLOCK FALSE
INVARIANTS
  StreamWellFormed
  FirstFailureDecides
  BilledAsReported
