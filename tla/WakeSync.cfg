\* Two opens of the driver, so one restart of the daemon, which may meet the
\* pass of a wake at any of its steps.  The driver may fail to start,
\* and the daemon runs out of user clients: the system may stop.
CONSTANTS
  Clients = {c1, c2}
  MaxWakes = 1
  MaxSignals = 1
  Room = 2
  None = None
SPECIFICATION SyncSpec
INVARIANTS SyncTypeOK DrainsLiveQueue QuietMeansServed
PROPERTY WakeIsServed
CHECK_DEADLOCK FALSE
