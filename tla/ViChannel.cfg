\* Three threads create two channels in two sizes; two native calls fail.
CONSTANTS
  Thread = {t1, t2, t3}
  Chn = {c1, c2}
  Size = {small, large}
  NoChn = NoChn
  NoSize = NoSize
  NoThread = NoThread
  MaxFaults = 2

SPECIFICATION Spec
INVARIANTS
  ChannelIsExclusive
  LeftoversCostFaults
PROPERTY OpenChannelKeepsSize
