\* Two threads, one device, two failing calls: SetDevBindPipe, and DisableDev
\* in the cleanup after it.
CONSTANTS
  Thread = {t1, t2}
  NoThread = NoThread
  Capacity = 1
  MaxFaults = 2

SPECIFICATION Spec
INVARIANT CameraHasPipe
