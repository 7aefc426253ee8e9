CONSTANTS
  Clients = {a, b, c, d, e}
  MaxQueueSize = 3
SPECIFICATION FairLockSpec
INVARIANTS
  MutualExclusion
  QueueIsServed
PROPERTIES
  NoOvertaking
  WaitersLeaveQueue
