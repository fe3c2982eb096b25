CONSTANTS
  Clock <- MCClockNewYear
  ResetSources <- MCResetSources
  CrashMenuSettings = {TRUE}
  StoreFaults = FALSE
  ClockMonotonic = FALSE
SPECIFICATION Spec
INVARIANTS
  TypeOK
  MenuOnlyAfterConsecutiveWatchdogs
  MenuWithinMeasuredWindow
