------------------------------ MODULE Watchdog ------------------------------
(***************************************************************************)
(* The watchdog escalation tracker of kernelflinger.c (check_watchdog and *)
(* efi_time_to_ctime).  A persisted pair (counter, time reference) counts  *)
(* consecutive watchdog resets; when more than WATCHDOG_COUNTER_MAX of     *)
(* them happen within WATCHDOG_DELAY seconds of the first, the crash event *)
(* menu is shown and the counter is reset.                                 *)
(*                                                                         *)
(* The stand-alone specification below runs check_watchdog once per boot  *)
(* over a sequence of boots; BootDecision reuses CheckWatchdog as the      *)
(* first step of choose_boot_target.                                       *)
(***************************************************************************)
EXTENDS Integers, Sequences, FiniteSets, FiniteSetsExt, Functions

CONSTANTS
  Clock,             \* EFI_TIME values RT->GetTime may return, in real-time order
  ResetSources,      \* reset causes rsci_get_reset_source() may report
  CrashMenuSettings, \* values get_current_crash_event_menu() may have at a boot
  StoreFaults,       \* TRUE: any variable-store write may fail
  ClockMonotonic     \* FALSE: the RTC may be set back between two boots

ASSUME Clock \in Seq([Year : Nat, Month : 1..12, Day : 1..31,
                      Hour : 0..23, Minute : 0..59, Second : 0..59])
ASSUME Len(Clock) > 0
ASSUME CrashMenuSettings \subseteq BOOLEAN /\ CrashMenuSettings # {}
ASSUME StoreFaults \in BOOLEAN /\ ClockMonotonic \in BOOLEAN

\* kernelflinger.c lines 92 and 96.
WATCHDOG_COUNTER_MAX == 2
WATCHDOG_DELAY == 10 * 60

\* The two reset sources check_watchdog counts (lines 363-364).
WatchdogResets == {"RESET_KERNEL_WATCHDOG", "RESET_SECURITY_WATCHDOG"}

\* The variable-store writes check_watchdog makes; a boot may see any
\* subset of them fail when StoreFaults holds.
StoreWrites == {"reset_watchdog_status", "set_watchdog_time_reference",
                "set_watchdog_counter"}
WriteFaultSets == IF StoreFaults THEN SUBSET StoreWrites ELSE {{}}

-----------------------------------------------------------------------------
(* efi_time_to_ctime, as written.                                          *)

IsALeapYear(year) == (year % 4 = 0 /\ year % 100 # 0) \/ year % 400 = 0

\* The year loop adds 365 days for a leap year and 366 otherwise.
DaysBeforeYear(year) ==
  MapThenSumSet(LAMBDA y : IF IsALeapYear(y) THEN 365 ELSE 366, 1970 .. year - 1)

DAY_OF_MONTH(year) ==
  <<31, IF IsALeapYear(year) THEN 29 ELSE 28, 31, 30, 31, 30, 31, 31, 30, 31, 30, 31>>

\* Days of the months before time.Month; time.Day is never added.
DaysBeforeMonth(time) == SumFunctionOnSet(DAY_OF_MONTH(time.Year), 1 .. time.Month - 1)

EfiTimeToCtime(time) ==
  (DaysBeforeYear(time.Year) + DaysBeforeMonth(time)) * 24 * 3600
    + time.Hour * 3600 + time.Minute * 60 + time.Second

(* Reference: seconds since 1970-01-01 00:00:00 of an EFI_TIME.            *)
RefDaysBeforeYear(year) ==
  MapThenSumSet(LAMBDA y : IF IsALeapYear(y) THEN 366 ELSE 365, 1970 .. year - 1)

RefSeconds(time) ==
  (RefDaysBeforeYear(time.Year) + DaysBeforeMonth(time) + time.Day - 1) * 24 * 3600
    + time.Hour * 3600 + time.Minute * 60 + time.Second

-----------------------------------------------------------------------------
(* check_watchdog: the persisted status after one call and whether the     *)
(* crash event menu was shown.  reset_watchdog_status (vars.c, not in this *)
(* repository) is taken to zero the counter and keep the time reference.   *)

\* A faulty variant, used to confirm that the properties detect it: the
\* counter is not reset when another reset source is reported.
CounterAfterOtherResetKept(cnt, failed) == cnt

\* Lines 363-372: another reset source clears a non-zero counter.
CounterAfterOtherReset(cnt, failed) ==
  IF cnt # 0 /\ "reset_watchdog_status" \notin failed THEN 0 ELSE cnt

\* A faulty variant: the escalation test off by one.
BelowMaxOffByOne(c) == c <= WATCHDOG_COUNTER_MAX + 1

\* Line 398: the incremented counter is stored while it does not exceed
\* WATCHDOG_COUNTER_MAX; above it the menu is shown.
BelowMax(c) == c <= WATCHDOG_COUNTER_MAX

\* A faulty variant of OutsideWindow that trusts a clock set back.
OutsideWindowForwardOnly(elapsed) == elapsed > WATCHDOG_DELAY

\* Line 384: the run is over when the time went back or WATCHDOG_DELAY passed.
OutsideWindow(elapsed) == elapsed < 0 \/ elapsed > WATCHDOG_DELAY

CheckWatchdog(cnt, ref, menuOn, reset, now, failed) ==
  LET elapsed  == EfiTimeToCtime(now) - EfiTimeToCtime(ref)
      c0       == IF cnt > 0 /\ OutsideWindow(elapsed) THEN 0 ELSE cnt
      c1       == c0 + 1
      ref1     == IF c0 = 0 THEN now ELSE ref
      Ok(w)    == w \notin failed
      Result(c, r, p) == [counter |-> c, timeRef |-> r, prompt |-> p]
  IN CASE ~menuOn
            -> Result(cnt, ref, FALSE)
       [] reset \notin WatchdogResets
            -> Result(CounterAfterOtherReset(cnt, failed), ref, FALSE)
       [] c0 = 0 /\ ~Ok("set_watchdog_time_reference")
            -> Result(cnt, ref, FALSE)
       [] BelowMax(c1)
            -> Result(IF Ok("set_watchdog_counter") THEN c1 ELSE cnt, ref1, FALSE)
       [] OTHER
            -> Result(IF Ok("reset_watchdog_status") THEN 0 ELSE cnt, ref1, TRUE)

-----------------------------------------------------------------------------
(* Boots over time.                                                        *)

VARIABLES
  counter,   \* persisted watchdog counter (UINT8)
  timeRef,   \* persisted watchdog time reference (EFI_TIME)
  clk,       \* index in Clock of the current boot's time
  prompted,  \* whether the current boot showed the crash event menu
  recent     \* history: Clock indices of the last watchdog resets in a row,
             \* at most WATCHDOG_COUNTER_MAX + 1 of them

vars == <<counter, timeRef, clk, prompted, recent>>

Init ==
  /\ counter = 0
  /\ timeRef = Clock[1]
  /\ clk = 1
  /\ prompted = FALSE
  /\ recent = <<>>

\* History update: a watchdog reset extends the run, any other reset ends it.
Window(s) == IF Len(s) > WATCHDOG_COUNTER_MAX + 1 THEN Tail(s) ELSE s

\* One boot: the firmware reports the reset source, the clock has moved
\* forward (or anywhere, when the RTC may be set back), and
\* choose_boot_target calls check_watchdog first.
Boot ==
  \E i \in IF ClockMonotonic THEN clk .. Len(Clock) ELSE 1 .. Len(Clock), r \in ResetSources, m \in CrashMenuSettings,
     f \in WriteFaultSets :
    LET out == CheckWatchdog(counter, timeRef, m, r, Clock[i], f)
    IN /\ clk' = i
       /\ counter' = out.counter
       /\ timeRef' = out.timeRef
       /\ prompted' = out.prompt
       /\ recent' = IF r \in WatchdogResets THEN Window(Append(recent, i)) ELSE <<>>

Next == Boot

Spec == Init /\ [][Next]_vars

-----------------------------------------------------------------------------
TypeOK ==
  /\ counter \in 0 .. WATCHDOG_COUNTER_MAX
  /\ timeRef \in Range(Clock)
  /\ clk \in 1 .. Len(Clock)
  /\ prompted \in BOOLEAN
  /\ recent \in Seq(1 .. Len(Clock)) /\ Len(recent) <= WATCHDOG_COUNTER_MAX + 1

(* The crash event menu (check_watchdog, line 411) is shown only after     *)
(* more than WATCHDOG_COUNTER_MAX watchdog resets in a row: no other reset *)
(* source was reported in between.                                         *)
MenuOnlyAfterConsecutiveWatchdogs ==
  prompted => Len(recent) = WATCHDOG_COUNTER_MAX + 1

(* The crash event menu is shown only when the first and the last of those *)
(* resets lie at most WATCHDOG_DELAY real seconds apart (the comment above *)
(* check_watchdog, lines 341-343, and the window test of lines 382-386).   *)
MenuOnlyWithinDelay ==
  prompted =>
    /\ Len(recent) = WATCHDOG_COUNTER_MAX + 1
    /\ RefSeconds(Clock[recent[Len(recent)]]) - RefSeconds(Clock[recent[1]])
         <= WATCHDOG_DELAY

(* The window test of lines 382-386 as the code measures time: the menu is *)
(* shown only when the last of the consecutive watchdog resets reads, by   *)
(* efi_time_to_ctime, between 0 and WATCHDOG_DELAY seconds after the first, *)
(* also when the RTC is set back between boots.                            *)
MenuWithinMeasuredWindow ==
  prompted =>
    LET d == EfiTimeToCtime(Clock[recent[Len(recent)]]) - EfiTimeToCtime(Clock[recent[1]])
    IN  recent # <<>> /\ 0 <= d /\ d <= WATCHDOG_DELAY
=============================================================================
