SPECIFICATION FairSpec
CONSTANTS
  c1 = c1
  c2 = c2
  c3 = c3
  Conns = {c1}
  NoConn = NoConn
  NoName = "-"
  Names <- MCNames
  Keys <- MCKeys
  Trim <- MCTrim
  Fold <- MCFold
  Invalid <- MCInvalid
  RoomCap = 1
  ChanCap = 1
  Events = {"split", "stall", "close", "reset", "acceptError", "lock", "silence"}
  Lines <- AnyLines
  MaxLines = 3
  MaxConnections = 1
INVARIANT AnsweredOnce
PROPERTY DisconnectCleansUp
