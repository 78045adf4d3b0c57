SPECIFICATION Spec
CONSTANTS
  SeqMod = 2
  UIntMod = 65536
  MsgLen = 36
  MaxRounds = 2
  DumpLen = 2
  MaxChunk = 2
  BufMsgs = 1
  FilterResults <- MCFilterOk
  MaxLag = 1
  MaxCalls = 2
  MaxFaults = 0
INVARIANT DumpIsComplete
CHECK_DEADLOCK FALSE
