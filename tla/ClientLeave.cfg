SPECIFICATION FairSpec
CONSTANTS
  CmdCap = 2
  MaxInput = 2
  MaxTalk = 2
  Faults = {}
PROPERTY LeaveExits
