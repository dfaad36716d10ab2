\* Three threads compete for two ids, so ids are reused while other threads
\* tear down; two native calls may fail.
CONSTANTS
  Thread = {t1, t2, t3}
  NoThread = NoThread
  Capacity = 2
  Source = {vi}
  NoSource = NoSource
  MaxFaults = 2

SPECIFICATION Spec
INVARIANTS
  HandleOwnsChannel
  StateAgrees
  NoChannelLost
  BindsFollowHandles
  NoErrorWithoutFault
PROPERTIES
  UsesResourceManager
