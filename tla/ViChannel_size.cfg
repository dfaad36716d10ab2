\* Two threads create one channel in two sizes, with no failing call.
CONSTANTS
  Thread = {t1, t2}
  Chn = {c1}
  Size = {small, large}
  NoChn = NoChn
  NoSize = NoSize
  NoThread = NoThread
  MaxFaults = 0

SPECIFICATION Spec
INVARIANT ChannelHasItsSize
