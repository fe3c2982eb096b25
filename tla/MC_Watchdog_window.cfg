CONSTANTS
  Clock <- MCClockSameMonth
  ResetSources <- MCResetSources
  CrashMenuSettings = {TRUE}
  StoreFaults = FALSE
  ClockMonotonic = TRUE
SPECIFICATION Spec
INVARIANTS
  MenuOnlyWithinDelay
