\* Three threads share two devices; four failing calls make two cameras
\* without a pipe possible.
CONSTANTS
  Thread = {t1, t2, t3}
  NoThread = NoThread
  Capacity = 2
  MaxFaults = 4

SPECIFICATION Spec
INVARIANTS
  OpenCameraIsEnabled
  LeftoversCostFaults
  NoErrorWithoutFault
PROPERTY UsesResourceManager
