SPECIFICATION Spec
CONSTANTS
  Tabs = {b1, b2}
  AdminPath = {b2}
  Tokens = {t1, t2}
  Admins = {t2}
  NoToken = NoToken
  MaxCalls = 1
INVARIANTS TypeOK TabsFollowStorage EndedStaysEnded
PROPERTIES ExpiredSignsOut SignedOutEverywhere
CHECK_DEADLOCK FALSE
