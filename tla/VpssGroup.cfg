\* Two threads take the only group id in turns; its three channels come and go
\* in every order, and three calls fail.
CONSTANTS
  Thread = {t1, t2}
  NoThread = NoThread
  Capacity = 1
  ChnNum = 3
  Source = {vi}
  NoSource = NoSource
  MaxFaults = 3

SPECIFICATION Spec
INVARIANTS
  GroupOutlivesParts
  ObjectsAgree
  LeftoversCostFaults
PROPERTY UsesResourceManager
