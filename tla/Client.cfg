SPECIFICATION EnterSpec
CONSTANTS
  CmdCap = 2
  MaxInput = 4
  MaxTalk = 2
  Faults = {"refuse", "drop", "readline"}
INVARIANT SentIsTyped
PROPERTY DisconnectExits
CHECK_DEADLOCK FALSE
