SPECIFICATION Spec
CONSTANTS
  Sessions = {s1, s2}
  NoSession = NoSession
  Cap = 2
  PageLimit = 2
  MaxChunks = 3
  MaxClicks = 4
INVARIANTS TypeOK NothingSkipped InputReachesItsSession
PROPERTIES ScreenSpec FollowsOutput
CHECK_DEADLOCK FALSE
