SPECIFICATION Spec
CONSTANTS
  SeqMod = 2
  UIntMod = 65536
  MsgLen = 36
  MaxRounds = 2
  DumpLen = 2
  MaxChunk = 2
  BufMsgs = 2
  FilterResults <- MCFilterMayFail
  MaxLag = 1
  MaxCalls = 2
  MaxFaults = 0
PROPERTY SkippedNotFiltered
CHECK_DEADLOCK FALSE
