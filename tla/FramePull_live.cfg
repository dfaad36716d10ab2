\* Two threads compete for VI frames, directly and through the binds.
CONSTANTS
  Thread = {t1, t2}
  c1 = c1
  Chn = {c1, c2}
  Vi = Vi
  Venc = Venc
  Unbound = Unbound
  Depth <- MCDepth
  InputDepth = 1
  Period = 2
  Timeouts = {1}
  MaxTime = 2
  MaxSends = 0

SPECIFICATION FairSpec
INVARIANTS NoLostWakeup
PROPERTIES CallsReturn WantedFramesAreTaken
