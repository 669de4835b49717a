CONSTANTS
  Processes = {p1, p2}
  Conversations = {c1}
  MemoryIds = {m1}
  Interval = 1
  MaxEvents = 1
  MaxMemories = 1
  Settings = {"consent", "switch", "items"}
  Switchers = {s1, s2}
  MaxTime = 4
SPECIFICATION FairSpec
INVARIANTS
    ReadOnceAndAllowed
PROPERTIES
    ConsentKept
    WithdrawalEnds
CHECK_DEADLOCK FALSE
