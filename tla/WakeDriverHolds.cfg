CONSTANTS
  Clients = {c1, c2}
  MaxWakes = 1
SPECIFICATION Spec
INVARIANT HoldsAllConnected
CHECK_DEADLOCK FALSE
