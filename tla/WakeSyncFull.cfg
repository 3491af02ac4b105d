\* One connection and two wakes, with room for one entry: the second wake may
\* find the queue full, or come while a pass or a sync for the first goes on.
CONSTANTS
  Clients = {c1}
  MaxWakes = 2
  MaxSignals = 1
  Room = 1
  None = None
SPECIFICATION SyncSpec
PROPERTY WakeIsServed
CHECK_DEADLOCK FALSE
