SPECIFICATION FairSpec
CONSTANTS
  MaxName = 2
  BufSize = 5
  SkipSize = 1
  MaxCuts = 1
  Streams <- MCStreams
INVARIANT ReadsLines
INVARIANT Relayed
INVARIANT KeysIgnoreCase
PROPERTY SkipEnds
