\* Two interfaces, images of three and two blocks with a short last one, and
\* endpoints that state a packet size or none.  The device may be unplugged
\* for good.
CONSTANTS
  Ifaces = {i0, i1}
  Device = Device
  None = None
  HeaderSize = 1
  MainLen = 6
  RampLen = 4
  Packets = {0, 2}
  DefaultChunk = 3
SPECIFICATION Spec
INVARIANTS TypeOK MarkedMeansLoaded UploadsExclusively FailedStartLeavesNothing
PROPERTY StartReturns
CHECK_DEADLOCK FALSE
