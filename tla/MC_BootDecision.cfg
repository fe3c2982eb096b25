CONSTANTS
  USER = FALSE
  USERDEBUG = TRUE
  USERFASTBOOT = FALSE
  Clock <- MCClock
  ResetSources = {"RESET_SECURITY_WATCHDOG", "RESET_COLD"}
  CrashMenuSettings = {TRUE, FALSE}
  StoreFaults = TRUE
  CrashMenuChoices = {"POWER_OFF"}
  ArgVectors <- MCArgVectorsFastboot
  Keys <- MCKeysShort
  TimeoutVars = {NoVar, 100, 1500}
  WakeSources = {"WAKE_BATTERY_INSERTED", "WAKE_ACDC_CHARGER_INSERTED"}
  OffModeCharge = {TRUE, FALSE}
  BcbArgs <- MCBcbArgs
  OneShotNames = {"charging", "bogus"}
  EspFiles <- MCEspFilesSentinel
  BcbReadFaults = TRUE
  BcbWriteFaults = FALSE
  MaxBoots = 2
  NoKey = NoKey
  NoVar = NoVar
  NoValue = NoValue
  NoPath = NoPath
  NoAddress = NoAddress
SPECIFICATION Spec
INVARIANTS
  TypeOK
  BootonceActedOnAtMostOnce
PROPERTIES
  ImplementsBootPolicy
  EspFileDeletedOnlyForBootonce
