CONSTANTS
  Writers = {w1, w2}
  Readers = {r1, r2}
  Stalled = {r2}
  Cap = 1
  MaxChanges = 2
SPECIFICATION FairSpec
INVARIANTS TypeOK StreamSound
PROPERTIES BroadcastEnds ChangesShown
CHECK_DEADLOCK FALSE
