\* Every one- and two-rule policy over the small vocabulary of MCRouting.
CONSTANTS
  private = private
  managed = managed
  unknown = unknown
  listed = listed
  unlisted = unlisted
  public = public
  economy = economy
  premium = premium
  Restricted = restricted
  Any = any
  NoDecision = noDecision
  Denied = denied
  DataClasses <- MCDataClasses
  Tiers <- MCTiers
  Workloads <- MCWorkloads
  Allowlist <- MCAllowlist
  Providers <- MCProviders
  External <- MCExternal
  Documents <- MCDocuments
SPECIFICATION Spec
INVARIANTS
  RestrictedFailsClosed
  ValidationMakesStrippingIdle
  FirstMatchWins
\* one decision is taken per behaviour
CHECK_DEADLOCK FALSE
