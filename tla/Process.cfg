\* Three threads open, share and close up to four sessions, with up to two
\* failing native calls; one AIQ context with up to two of its own (contexts
\* share nothing but the count of failures).
CONSTANTS
  Thread = {t1, t2, t3}
  NoThread = NoThread
  MaxInits = 4
  MaxHandles = 2
  MaxFaults = 2
  Ctx = {c1}
  MaxAiqFaults = 2

SPECIFICATION ProcessSpec
INVARIANTS
  LiveSessionIsInitialized
  CellAccounted
  ContextsAgree
PROPERTY ReinitPossible
\* Every handle may be dropped and every init spent.
CHECK_DEADLOCK FALSE
