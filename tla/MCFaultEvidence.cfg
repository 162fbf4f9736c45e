\* Two commands, one of which may be killed.  Deadlock is checked: nothing but
\* the end of all commands may stop them.
CONSTANTS
  Commands = {c1, c2}
  c1 = c1
  c2 = c2
  Services <- MCServices
  Sequence <- MCSequence
  Mortal = {c1}
  Stretches <- MCStretches
  Ports = {1, 2}
  MaxPolls = 2
SPECIFICATION Spec
INVARIANTS
  EvidenceTellsFaults
  TableHolds
