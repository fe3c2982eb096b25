CONSTANTS
  USER = TRUE
  USERDEBUG = TRUE
  USERFASTBOOT = FALSE
  NO_DEVICE_UNLOCK = TRUE
  BootTargets = {"NORMAL_BOOT", "RECOVERY", "CHARGER", "ESP_BOOTIMAGE", "FASTBOOT",
                 "TDOS", "ESP_EFI_BINARY", "POWER_OFF", "EXIT_SHELL"}
  BootImages <- MCBootImages
  RecoveryImages <- MCRecoveryImages
  FileImages <- MCFileImages
  Resets = TRUE
  FlashFaults = TRUE
  MaxBoots = 3
  NoImage = NoImage
SPECIFICATION Spec
INVARIANTS
  NoUnlockBootsOnlyGreen
