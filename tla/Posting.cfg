SPECIFICATION FairSpec
CONSTANTS
  Users = {u1, u2}
  u1 = u1
  u2 = u2
  Workers = 1
  RoomCap = 1
  Configs <- MCConfigs
INVARIANT RateBound
PROPERTY DispatcherGoesOn
PROPERTY SendEnds
