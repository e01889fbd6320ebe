SPECIFICATION AllFairSpec
CONSTANTS
  me = me
  guest = guest
  Conns = {me, guest}
  NoConn = NoConn
  NoName = "-"
  Names <- MCNames
  Keys <- MCNames
  Trim <- MCIdentity
  Fold <- MCIdentity
  Invalid = {}
  RoomCap = 1
  ChanCap = 1
  Events = {"close", "silence", "acceptError"}
  Lines <- MCLines
  MaxLines = 2
  MaxConnections = 1
  UserName = "alice"
  MaxGuest = 1
  CmdCap = 1
  MaxInput = 1
  MaxTalk = 20
  Faults = {"drop", "readline"}
INVARIANT ConnectionLimit
INVARIANT Agreement
PROPERTY ClientIsServed
PROPERTY InterruptExits
