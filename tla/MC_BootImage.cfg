CONSTANTS
  WIDTH = 10
  BOOT_SIGNATURE_MAX_SIZE = 64
  Headers <- MCSaneHeaders
  FileSlack = {0}
  RetryAllocFaults = FALSE
SPECIFICATION Spec
\* A loader runs once; the image is then handed on.
CHECK_DEADLOCK FALSE
INVARIANTS
  LayoutMatchesReference
  SectionsInsideBuffer
