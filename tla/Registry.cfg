SPECIFICATION FairSpec
CONSTANTS
  c1 = c1
  c2 = c2
  c3 = c3
  Conns = {c1, c2}
  NoConn = NoConn
  NoName = "-"
  Names <- MCNames
  Keys <- MCKeys
  Trim <- MCTrim
  Fold <- MCFold
  Invalid <- MCInvalid
  RoomCap = 1
  ChanCap = 1
  Events = {"reset", "close", "lock", "silence"}
  Lines <- SameUser
  MaxLines = 1
  MaxConnections = 2
INVARIANT TypeOK
INVARIANT RegistryConsistent
INVARIANT UnauthHearsNothing
INVARIANT UniqueUsernames
PROPERTY OnlyOwnerRemoves
PROPERTY DisconnectCleansUp
