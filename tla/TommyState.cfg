\* Two samples may wait for the main queue, behind redraws, while the user
\* switches an item on and off and the program is ended and started again.
\* The load has three steps, so that it can jump by two.
CONSTANTS
  Items = {"fan"}
  Speeds = {2600}
  WordSize = 65536
  MaxLoad = 2
  FirstLoad = 1
  MaxDelta = 1
  MaxWaiting = 2
  None = None
  Hidden = Hidden
SPECIFICATION Spec
INVARIANTS TypeOK MenuFollows
PROPERTIES UndelayedIsSmooth ChoiceIsSaved FollowsGauge
CHECK_DEADLOCK FALSE
