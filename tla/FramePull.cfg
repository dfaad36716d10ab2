\* One thread gets frames of all sinks while others send more frames than the
\* queues hold; the clock leaves room for a pause of three periods.
CONSTANTS
  Thread = {t1}
  c1 = c1
  Chn = {c1, c2}
  Vi = Vi
  Venc = Venc
  Unbound = Unbound
  Depth <- MCDepth
  InputDepth = 1
  Period = 1
  Timeouts = {1}
  MaxTime = 3
  MaxSends = 2

SPECIFICATION Spec
INVARIANTS FramesInOrder NewestIsKept PacedFrames
PROPERTIES NoBurst
