SPECIFICATION Spec
CONSTANTS
  c1 = c1
  c2 = c2
  c3 = c3
  Conns = {c1}
  NoConn = NoConn
  NoName = "-"
  Names <- MCNames
  Keys <- MCKeys
  Trim <- MCTrim
  Fold <- MCFold
  Invalid <- MCInvalid
  RoomCap = 1
  ChanCap = 1
  Events = {"split"}
  Lines <- RoomLines
  MaxLines = 2
  MaxConnections = 1
INVARIANT NoLineLost
