---------------------------- MODULE MC_Watchdog ----------------------------
(* Model values for the Watchdog specification.                            *)
EXTENDS Watchdog

T(y, mo, d, h, mi, s) ==
  [Year |-> y, Month |-> mo, Day |-> d, Hour |-> h, Minute |-> mi, Second |-> s]

\* Boots around a year boundary, a few minutes apart, then a week later.
MCClockNewYear ==
  << T(2015, 12, 31, 23, 55, 0), T(2015, 12, 31, 23, 58, 0),
     T(2016, 1, 1, 0, 2, 0), T(2016, 1, 1, 0, 4, 0), T(2016, 1, 9, 0, 6, 0),
     T(2016, 1, 9, 0, 9, 0) >>

\* Boots days apart in one month, at nearly the same time of day.
MCClockSameMonth ==
  << T(2016, 1, 5, 10, 0, 0), T(2016, 1, 12, 10, 2, 0), T(2016, 1, 20, 10, 4, 0) >>

MCResetSources == {"RESET_KERNEL_WATCHDOG", "RESET_SECURITY_WATCHDOG", "RESET_COLD"}
=============================================================================
