\* The handler around the executor, which does not strip by itself.
CONSTANTS
  private = private
  managed = managed
  public = public
  generic = generic
  economy = economy
  Restricted = restricted
  Wildcard = any
  Denied = denied
  NoHeader = noHeader
  NoHint = noHint
  Providers <- MCProviders
  External <- MCExternal
  DataClasses <- MCDataClasses
  Tiers <- MCTiers
  Workloads <- MCWorkloads
  Allowlist <- MCWorkloads
  Policies <- MCPolicies
  Decisions <- MCDecisions
  NeverCross = FALSE
  MaxAttempts = 2
  FallbackOn <- MCFallbackOn
  HeaderTimeout = 1
  IdleTimeout = 1
  AttemptTimeout = 2
  Deadline = 3
  Hints <- MCHints
  MaxChunks = 2
  Lag = 0
  Horizon = 4
SPECIFICATION GFairSpec
INVARIANTS
  CountedTruthfully
  HeaderTellsServer
  FailuresAttributed
  BodyWellFormed
  UsageRecordedOnce
  UpstreamReleased
  RestrictedStaysInside
PROPERTY GTermination
