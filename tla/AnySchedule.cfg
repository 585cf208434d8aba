SPECIFICATION Spec
CONSTANTS
  c1 = c1
  c2 = c2
  c3 = c3
  Callers <- ThreeCallers
  Preemptive = TRUE
  BlockingReads = TRUE
  IdleRuns = FALSE
SYMMETRY CallerSymmetry
CHECK_DEADLOCK FALSE
INVARIANTS
  FlagsAreOwned
