\* An update file that fits, one the firmware rejects as too large, or none,
\* with up to four transient failures.  The loader stops at "decide": the
\* rest of the boot is BootDecision's.
CONSTANTS
  CapsuleFiles = {"fits", "toolarge"}
  MaxFaults = 4
SPECIFICATION Spec
CHECK_DEADLOCK FALSE
INVARIANTS
  InstalledAtMostOnce
PROPERTIES
  ReachesDecision
