\* Three threads and five ids: one holder can own several guards, ids run
\* out, and freed ids are handed out again in a different order.
CONSTANTS
  Capacity = 5
  Holder = {h1, h2, h3}
  NoHolder = NoHolder

SPECIFICATION Spec
INVARIANTS
  Exclusive
  Conserved
PROPERTY ImplementsLease
