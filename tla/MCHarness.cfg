SPECIFICATION Spec
CONSTANTS
  Entries = 8
  Hosts <- MCHosts
  Faults <- MCFaults
CHECK_DEADLOCK FALSE
INVARIANTS VerdictSound SkipExplained
