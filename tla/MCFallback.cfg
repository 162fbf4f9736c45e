\* The executor: both modes, mis-built decisions, late timers.
CONSTANTS
  private = private
  managed = managed
  Providers <- MCProviders
  External <- MCExternal
  Decisions <- MCDecisions
  NeverCross = TRUE
  MaxAttempts = 2
  FallbackOn <- MCFallbackOn
  HeaderTimeout = 2
  IdleTimeout = 1
  AttemptTimeout = 3
  Deadline = 4
  Hints <- MCHints
  NoHint = noHint
  MaxChunks = 3
  Lag = 1
  Horizon = 5
SPECIFICATION FairSpec
INVARIANTS
  RestrictedStaysPrivate
  PartialOutputIsTold
  AttemptsFollowRoute
  DeadlineSpansAttempts
  RetryAfterRespected
  LogTellsAttempts
  AdapterReleased
PROPERTIES
  NoReplayAfterOutput
  Termination
  ImplementsContract
