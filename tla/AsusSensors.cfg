\* Three presses of Fn + A and two writes of BDVT meet the poller, the start and
\* the stop of the driver at any of their steps.  In the end the driver may be
\* stopped, or have failed to start, and do nothing more.
CONSTANTS
  Lux = {7}
  Speeds = {68136}
  WordSize = 65536
  MaxKeys = 3
  MaxWrites = 2
SPECIFICATION Spec
INVARIANTS TypeOK PollerOutlivesPoll BatteryFollowsKey
PROPERTY SensorGoesQuiet
CHECK_DEADLOCK FALSE
