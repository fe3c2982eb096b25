CONSTANTS
  Clock <- MCClockNewYear
  ResetSources <- MCResetSources
  CrashMenuSettings = {TRUE}
  StoreFaults = TRUE
  ClockMonotonic = TRUE
SPECIFICATION Spec
INVARIANTS
  MenuOnlyAfterConsecutiveWatchdogs
