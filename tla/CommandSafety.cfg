SPECIFICATION FairSpec
CONSTANTS
  SeqMod = 2
  UIntMod = 65536
  MsgLen = 36
  MaxRounds = 2
  DumpLen = 2
  MaxChunk = 2
  BufMsgs = 2
  FilterResults <- MCFilterOk
  MaxLag = 1
  MaxCalls = 4
  MaxFaults = 2
INVARIANTS TypeOK AnswerIsOwn DumpIsComplete SentOnce Inv
PROPERTIES ImplementsKernelCall CallsReturn
CHECK_DEADLOCK FALSE
