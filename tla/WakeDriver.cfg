\* Two processes open the service, and two wakes meet them and a teardown.
\* The machine may stop: a driver that failed to start, was unloaded or
\* panicked does nothing more.
CONSTANTS
  Clients = {c1, c2}
  MaxWakes = 2
SPECIFICATION Spec
INVARIANT GateOutlivesPass
PROPERTIES UndisturbedPassReachesAll WakesAreAnnounced
CHECK_DEADLOCK FALSE
