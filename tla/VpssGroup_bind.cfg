\* One failing call, UnBind: the group is destroyed and its id reused.
CONSTANTS
  Thread = {t1, t2}
  NoThread = NoThread
  Capacity = 1
  ChnNum = 1
  Source = {vi}
  NoSource = NoSource
  MaxFaults = 1

SPECIFICATION Spec
INVARIANT FreshGroupIsUnbound
