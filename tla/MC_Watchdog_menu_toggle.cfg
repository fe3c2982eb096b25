CONSTANTS
  Clock <- MCClockNewYear
  ResetSources <- MCResetSources
  CrashMenuSettings = {TRUE, FALSE}
  StoreFaults = FALSE
  ClockMonotonic = TRUE
SPECIFICATION Spec
INVARIANTS
  MenuOnlyAfterConsecutiveWatchdogs
