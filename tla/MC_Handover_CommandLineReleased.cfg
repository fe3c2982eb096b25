CONSTANTS
  Images <- MCImages
  CmdLens <- MCCmdLens
  BootStates = {"GREEN", "ORANGE"}
  USER = FALSE
  HAL_AUTODETECT = TRUE
  CmdlineKeys <- MCCmdlineKeys
  Environments <- MCEnvironments
  RebootReasons <- MCRebootReasons
SPECIFICATION Spec
\* android_image_start_buffer either jumps or returns; there is no next step.
CHECK_DEADLOCK FALSE
INVARIANTS
  CommandLineReleased
