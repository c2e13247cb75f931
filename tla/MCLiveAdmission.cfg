\* Two slots for three connections: one reader is always at risk of refusal.
SPECIFICATION Spec
CONSTANTS
  c1 = c1
  c2 = c2
  c3 = c3
  Conn <- MCConn
  Limit = 2
INVARIANTS WithinCapacity SlotCoversWorker
PROPERTIES DrainEnds
