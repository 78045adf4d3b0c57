SPECIFICATION Spec
CONSTANTS
  SeqMod = 2
  UIntMod = 65536
  MsgLen = 36
  MaxRounds = 2
  DumpLen = 2
  MaxChunk = 2
  BufMsgs = 2
  FilterResults <- MCFilterOk
  MaxLag = 1
  MaxCalls = 2
  MaxFaults = 1
INVARIANT AnswerModeAfterSend
CHECK_DEADLOCK FALSE
