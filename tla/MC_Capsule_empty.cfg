\* An empty update file and no failures: push_capsule returns before the
\* delete, so the file is found again at every power-on.
CONSTANTS
  CapsuleFiles = {"empty"}
  MaxFaults = 0
SPECIFICATION Spec
CHECK_DEADLOCK FALSE
PROPERTIES
  ReachesDecision
