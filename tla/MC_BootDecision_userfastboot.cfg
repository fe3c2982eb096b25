CONSTANTS
  USER = FALSE
  USERDEBUG = TRUE
  USERFASTBOOT = TRUE
  Clock <- MCClock
  ResetSources = {"RESET_KERNEL_WATCHDOG", "RESET_COLD"}
  CrashMenuSettings = {TRUE}
  StoreFaults = FALSE
  CrashMenuChoices = {"NORMAL_BOOT", "RECOVERY"}
  ArgVectors <- MCArgVectors
  Keys <- MCKeys
  TimeoutVars = {NoVar}
  WakeSources = {"WAKE_POWER_BUTTON_PRESSED", "WAKE_USB_CHARGER_INSERTED"}
  OffModeCharge = {TRUE}
  BcbArgs <- MCBcbArgs
  OneShotNames = {"charging"}
  EspFiles <- MCEspFiles
  BcbReadFaults = FALSE
  BcbWriteFaults = FALSE
  MaxBoots = 3
  NoKey = NoKey
  NoVar = NoVar
  NoValue = NoValue
  NoPath = NoPath
  NoAddress = NoAddress
SPECIFICATION Spec
INVARIANTS
  BootonceActedOnAtMostOnce
PROPERTIES
  ImplementsBootPolicy
  EspFileDeletedOnlyForBootonce
