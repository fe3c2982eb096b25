CONSTANTS
  USER = FALSE
  USERDEBUG = TRUE
  USERFASTBOOT = TRUE
  NO_DEVICE_UNLOCK = FALSE
  BootTargets = {"NORMAL_BOOT", "RECOVERY", "CHARGER", "ESP_BOOTIMAGE", "FASTBOOT",
                 "TDOS", "ESP_EFI_BINARY", "POWER_OFF", "EXIT_SHELL"}
  BootImages <- MCBootImages
  RecoveryImages <- MCRecoveryImages
  FileImages <- MCFileImages
  Resets = TRUE
  FlashFaults = FALSE
  MaxBoots = 3
  NoImage = NoImage
SPECIFICATION Spec
INVARIANTS
  OemVarsRefreshed
