------------------------ MODULE NetlinkCommandProofs ------------------------
(***************************************************************************)
(* Theorems about NetlinkCommand, for every value of its constants that    *)
(* satisfies ConstantsAssumption.                                          *)
(***************************************************************************)
EXTENDS NetlinkCommand, SequenceTheorems, TLAPS

-------------------------------------------------------------------------------
(* Types. *)

(* The number after an unsigned short is an unsigned short. *)
LEMMA NextSeqType == \A s \in Seqnos : NextSeq(s) \in Seqnos
  BY ConstantsAssumption DEF Seqnos, NextSeq

(* What Leave does to the variables it sets. *)
LEMMA LeaveShape ==
  ASSUME TypeOK, Shape, NEW r \in {"ok", "refused", "failed"}, Leave(r)
  PROVE  /\ pc' \in {"idle", "compose"} /\ todo' \in 0 .. MaxRounds
         /\ result' = r /\ buf' = <<>>
         /\ UNCHANGED <<kind, checks, skip>>
         /\ todo' <= todo
         /\ pc' = "compose" => todo' >= 1
         /\ pc' = "idle" => todo' = 0
  BY ConstantsAssumption DEF Leave, TypeOK, Shape

(* The empty sequence is a sequence of anything. *)
LEMMA EmptyInSeq == \A S : <<>> \in Seq(S)
  OBVIOUS

(* A datagram cut to the buffer is still a sequence of messages. *)
LEMMA FitBufferType == \A s \in Seq(Message) : FitBuffer(s) \in Seq(Message)
  <1> SUFFICES ASSUME NEW s \in Seq(Message) PROVE FitBuffer(s) \in Seq(Message)
    OBVIOUS
  <1>1. CASE Len(s) > BufMsgs
    <2>1. \A i \in 1 .. BufMsgs : s[i] \in Message
      BY <1>1, ElementOfSeq, ConstantsAssumption
    <2> QED BY <1>1, <2>1, SubSeqProperties, ConstantsAssumption DEF FitBuffer
  <1>2. CASE ~(Len(s) > BufMsgs)
    BY <1>2 DEF FitBuffer
  <1> QED BY <1>1, <1>2

(* A message from the kernel answers a request it has taken. *)
LEMMA ReplyType ==
  \A r, t : r.id \in Ids /\ r.seq \in Seqnos
            /\ t \in {"ACK", "ERROR", "DONE", "DATA"}
              => Reply(r, t) \in Message
  BY ConstantsAssumption DEF Reply, Message

(* A failure is counted within its bound. *)
LEMMA FaultType == TypeOK /\ Fault => faults' \in 0 .. MaxFaults
  BY ConstantsAssumption DEF Fault, TypeOK

(* An answer of the kernel is a datagram, or is lost and counted. *)
LEMMA AnswerType ==
  ASSUME TypeOK, NEW r \in Request, NEW t \in {"ACK", "ERROR", "DONE"},
         Answer(r, t)
  PROVE  /\ rcvq' \in Seq(Datagram) /\ overrun' \in BOOLEAN
         /\ faults' \in 0 .. MaxFaults
  <1>1. Reply(r, t) \in Message
    BY ReplyType DEF Request
  <1>2. Packet(<<Reply(r, t)>>) \in Datagram
    BY <1>1 DEF Packet, Datagram
  <1>3. rcvq \in Seq(Datagram) /\ overrun \in BOOLEAN /\ faults \in 0 .. MaxFaults
    BY DEF TypeOK
  <1>4. rcvq' \in Seq(Datagram)
    BY <1>2, <1>3 DEF Answer
  <1>5. overrun' \in BOOLEAN
    BY <1>3 DEF Answer
  <1>6. faults' \in 0 .. MaxFaults
    BY <1>3, FaultType DEF Answer
  <1> QED BY <1>4, <1>5, <1>6

(* A request that is sent joins the kernel's queue. *)
LEMMA HandToKernelType ==
  ASSUME TypeOK, calls >= 1, HandToKernel
  PROVE  /\ inbox' \in Seq(Request)
         /\ fate' \in [Ids -> {"unsent", "queued", "done", "refused"}]
  <1>1. calls \in Ids /\ seqno \in Seqnos /\ kind \in Kinds
    BY ConstantsAssumption DEF TypeOK, Ids
  <1>2. [id |-> calls, seq |-> seqno, kind |-> kind, live |-> TRUE] \in Request
    BY <1>1 DEF Request
  <1>3. inbox' \in Seq(Request)
    BY <1>2 DEF HandToKernel, TypeOK
  <1>4. fate' \in [Ids -> {"unsent", "queued", "done", "refused"}]
    BY <1>1 DEF HandToKernel, TypeOK
  <1> QED BY <1>3, <1>4

(* The requests left in the kernel when the socket goes away. *)
LEMMA OrphanType ==
  ASSUME TypeOK,
         inbox' = [i \in DOMAIN inbox |-> [inbox[i] EXCEPT !.live = FALSE]]
  PROVE  inbox' \in Seq(Request)
  <1>1. inbox \in Seq(Request)
    BY DEF TypeOK
  <1>2. \A r \in Request : [r EXCEPT !.live = FALSE] \in Request
    BY DEF Request
  <1>3. \A i \in DOMAIN inbox : inbox[i] \in Request
    BY <1>1
  <1>4. \A i \in DOMAIN inbox : [inbox[i] EXCEPT !.live = FALSE] \in Request
    BY <1>2, <1>3
  <1> QED BY <1>1, <1>4

(* The queues lose their first element. *)
LEMMA HeadType ==
  /\ TypeOK /\ buf # <<>> => Head(buf) \in Message /\ Tail(buf) \in Seq(Message)
  /\ TypeOK /\ inbox # <<>> => Head(inbox) \in Request /\ Tail(inbox) \in Seq(Request)
  /\ TypeOK /\ rcvq # <<>> => Head(rcvq) \in Datagram /\ Tail(rcvq) \in Seq(Datagram)
  BY HeadTailProperties DEF TypeOK

(* The messages of a chunk of the dump being served. *)
LEMMA ChunkMessages ==
  ASSUME TypeOK, NEW n \in 0 .. DumpLen, NEW last \in BOOLEAN,
         KernelDumpsChunk(n, last)
  PROVE  /\ dump \in ActiveDump
         /\ \A k \in 1 .. n : DataItem(k) \in Message
         /\ Reply(dump, "DONE") \in Message
  <1> USE ConstantsAssumption
  <1>1. dump \in ActiveDump
    BY DEF TypeOK, KernelDumpsChunk
  <1>2. /\ dump.id \in Ids /\ dump.seq \in Seqnos /\ dump.next \in 1 .. DumpLen + 1
    BY <1>1 DEF ActiveDump
  <1>3. \A k \in 1 .. n : DataItem(k) \in Message
    <2> TAKE k \in 1 .. n
    <2>1. dump.next + n <= DumpLen + 1
      BY DEF KernelDumpsChunk
    <2>2. dump.next + k - 1 \in 0 .. DumpLen
      BY <1>2, <2>1
    <2> QED BY <1>2, <2>2 DEF DataItem, Reply, Message
  <1> QED BY <1>1, <1>2, <1>3, ReplyType

(* A chunk of a dump is a well-typed datagram, and the dump goes on or is
   done. *)
LEMMA ChunkType ==
  ASSUME TypeOK, NEW n \in 0 .. DumpLen, NEW last \in BOOLEAN,
         KernelDumpsChunk(n, last)
  PROVE  /\ rcvq' \in Seq(Datagram)
         /\ dump' \in ActiveDump \cup {NoDump}
         /\ fate' \in [Ids -> {"unsent", "queued", "done", "refused"}]
  <1> USE ConstantsAssumption
  <1> DEFINE data == [k \in 1 .. n |-> DataItem(k)]
  <1>1. dump \in ActiveDump
    BY ChunkMessages
  <1>2. /\ dump.id \in Ids /\ dump.next \in 1 .. DumpLen + 1
    BY <1>1 DEF ActiveDump
  <1>3. \A k \in 1 .. n : DataItem(k) \in Message
    BY ChunkMessages
  <1>4. data \in Seq(Message)
    BY <1>3
  <1>5. Reply(dump, "DONE") \in Message
    BY ChunkMessages
  <1>6. Append(data, Reply(dump, "DONE")) \in Seq(Message)
    BY <1>4, <1>5
  <1>7. (IF last THEN Append(data, Reply(dump, "DONE")) ELSE data) \in Seq(Message)
    BY <1>4, <1>6
  <1>8. Packet(IF last THEN Append(data, Reply(dump, "DONE")) ELSE data) \in Datagram
    BY <1>7 DEF Packet, Datagram
  <1>9. rcvq' \in Seq(Datagram)
    BY <1>8 DEF KernelDumpsChunk, TypeOK
  <1>10. dump' \in ActiveDump \cup {NoDump}
    <2>1. dump.next + n \in 1 .. DumpLen + 1
      BY <1>2 DEF KernelDumpsChunk
    <2>2. [dump EXCEPT !.next = @ + n] \in ActiveDump
      BY <1>1, <2>1 DEF ActiveDump
    <2> QED BY <2>2 DEF KernelDumpsChunk
  <1>11. fate' \in [Ids -> {"unsent", "queued", "done", "refused"}]
    BY <1>2 DEF KernelDumpsChunk, TypeOK
  <1> QED BY <1>9, <1>10, <1>11

(* The state kernel_setup leaves behind is well typed. *)
LEMMA TypeInit == Init => TypeOK
  <1> SUFFICES ASSUME Init PROVE TypeOK
    OBVIOUS
  <1>1. /\ sock \in BOOLEAN /\ checks \in BOOLEAN /\ skip \in BOOLEAN
        /\ overrun \in BOOLEAN /\ seqno \in Seqnos
    BY DEF Init
  <1>2. /\ buf \in Seq(Message) /\ delivered \in Seq(Message)
        /\ inbox \in Seq(Request) /\ rcvq \in Seq(Datagram)
    BY DEF Init
  <1>3. /\ pc \in {"idle", "open", "compose", "send", "sendwait",
                   "recv", "wait", "scan"}
        /\ kind \in Kinds /\ result \in {"none", "ok", "refused", "failed"}
    BY DEF Init, Kinds
  <1>4. /\ todo \in 0 .. MaxRounds /\ calls \in 0 .. MaxCalls
        /\ faults \in 0 .. MaxFaults
    BY ConstantsAssumption DEF Init
  <1>5. fate \in [Ids -> {"unsent", "queued", "done", "refused"}]
    BY DEF Init
  <1>6. dump \in ActiveDump \cup {NoDump}
    BY DEF Init
  <1> QED BY <1>1, <1>2, <1>3, <1>4, <1>5, <1>6 DEF TypeOK

(* Every step keeps the types. *)
LEMMA TypeNext == TypeOK /\ Shape /\ [Next]_vars => TypeOK'
  <1> SUFFICES ASSUME TypeOK, Shape, [Next]_vars PROVE TypeOK'
    OBVIOUS
  <1> USE ConstantsAssumption
  <1>1. ASSUME NEW k \in Kinds, NEW c \in BOOLEAN, NEW rounds \in 1 .. MaxRounds,
               Call(k, c, rounds)
        PROVE  TypeOK'
    BY <1>1 DEF Call, TypeOK, socketVars, kernelVars
  <1>2. CASE OpenCommandSocket
    BY <1>2 DEF OpenCommandSocket, TypeOK, kernelVars
  <1>3. CASE OpenCommandSocketFails
    BY <1>3, LeaveShape, FaultType, EmptyInSeq
       DEF OpenCommandSocketFails, TypeOK, kernelVars
  <1>4. CASE Compose
    <2>1. seqno' \in Seqnos
      BY <1>4, NextSeqType DEF Compose, TypeOK
    <2>2. calls' \in 0 .. MaxCalls /\ todo' \in 0 .. MaxRounds
      BY <1>4 DEF Compose, TypeOK, Shape
    <2> QED BY <1>4, <2>1, <2>2, EmptyInSeq DEF Compose, TypeOK, kernelVars
  <1>5. CASE Send
    <2>1. calls >= 1
      BY <1>5 DEF Send, Shape, Busy
    <2> QED BY <1>5, <2>1, HandToKernelType
            DEF Send, HandToKernel, TypeOK, socketVars
  <1>6. CASE SendFails
    <2>1. faults' \in 0 .. MaxFaults
      BY <1>6, FaultType DEF SendFails, TypeOK
    <2> QED BY <1>6, <2>1, LeaveShape, EmptyInSeq
            DEF SendFails, NotSent, TypeOK, socketVars, kernelVars
  <1>7. CASE SendAgain
    BY <1>7, FaultType DEF SendAgain, TypeOK, socketVars, kernelVars
  <1>8. CASE SendAfterWait
    <2>1. calls >= 1
      BY <1>8 DEF SendAfterWait, Shape, Busy
    <2> QED BY <1>8, <2>1, HandToKernelType
            DEF SendAfterWait, HandToKernel, TypeOK, socketVars
  <1>9. CASE SendWaitFails
    BY <1>9, LeaveShape, EmptyInSeq
       DEF SendWaitFails, NotSent, TypeOK, socketVars, kernelVars
  <1>10. CASE Receive
    <2>1. buf' \in Seq(Message)
      <3>1. Head(rcvq).msgs \in Seq(Message)
        BY <1>10, HeadType DEF Receive, Datagram
      <3> QED BY <1>10, <3>1, FitBufferType DEF Receive
    <2> QED BY <1>10, <2>1, HeadType DEF Receive, TypeOK, socketVars
  <1>11. CASE ReceiveForeign
    BY <1>11, LeaveShape, HeadType, EmptyInSeq
       DEF ReceiveForeign, TypeOK, socketVars
  <1>12. CASE ReceiveOverrun
    BY <1>12, LeaveShape, EmptyInSeq DEF ReceiveOverrun, TypeOK, socketVars
  <1>13. CASE ReceiveClosed
    BY <1>13, LeaveShape, EmptyInSeq
       DEF ReceiveClosed, TypeOK, socketVars, kernelVars
  <1>14. CASE ReceiveBroken
    BY <1>14, LeaveShape, FaultType, OrphanType, EmptyInSeq
       DEF ReceiveBroken, TypeOK
  <1>15. CASE StartWait
    BY <1>15 DEF StartWait, TypeOK, socketVars, kernelVars
  <1>16. CASE WaitTimeout
    BY <1>16, LeaveShape, EmptyInSeq
       DEF WaitTimeout, TypeOK, socketVars, kernelVars
  <1>17. CASE WaitInterrupted
    BY <1>17, LeaveShape, FaultType, EmptyInSeq
       DEF WaitInterrupted, TypeOK, socketVars, kernelVars
  <1>18. CASE ScanStale
    BY <1>18, HeadType DEF ScanStale, Scan, TypeOK, socketVars, kernelVars
  <1>19. CASE ScanAnswer
    BY <1>19, LeaveShape, EmptyInSeq
       DEF ScanAnswer, TypeOK, socketVars, kernelVars
  <1>20. CASE ScanData
    <2>1. Head(buf) \in Message /\ buf' \in Seq(Message)
      BY <1>20, HeadType DEF ScanData, Scan
    <2>2. delivered' = Append(delivered, Head(buf)) \/ delivered' = delivered
      BY <1>20 DEF ScanData
    <2>3. delivered' \in Seq(Message)
      <3>1. delivered \in Seq(Message)
        BY DEF TypeOK
      <3>2. Append(delivered, Head(buf)) \in Seq(Message)
        BY <2>1, <3>1
      <3> QED BY <2>2, <3>1, <3>2
    <2>4. skip' \in BOOLEAN
      BY <1>20 DEF ScanData, TypeOK
    <2> QED BY <1>20, <2>1, <2>3, <2>4
            DEF ScanData, TypeOK, socketVars, kernelVars
  <1>21. CASE ScanEnd
    BY <1>21 DEF ScanEnd, TypeOK, socketVars, kernelVars
  <1>22. CASE KernelCarriesOut
    <2>1. Head(inbox) \in Request /\ inbox' \in Seq(Request)
      BY <1>22, HeadType DEF KernelCarriesOut
    <2>2. fate' \in [Ids -> {"unsent", "queued", "done", "refused"}]
      BY <1>22, <2>1 DEF KernelCarriesOut, TypeOK, Request
    <2>3. /\ rcvq' \in Seq(Datagram) /\ overrun' \in BOOLEAN
          /\ faults' \in 0 .. MaxFaults
      BY <1>22, <2>1, AnswerType DEF KernelCarriesOut
    <2> QED BY <1>22, <2>1, <2>2, <2>3
            DEF KernelCarriesOut, TypeOK, daemonVars, socketVars
  <1>23. CASE KernelRefuses
    <2>1. Head(inbox) \in Request /\ inbox' \in Seq(Request)
      BY <1>23, HeadType DEF KernelRefuses
    <2>2. fate' \in [Ids -> {"unsent", "queued", "done", "refused"}]
      BY <1>23, <2>1 DEF KernelRefuses, TypeOK, Request
    <2>3. /\ rcvq' \in Seq(Datagram) /\ overrun' \in BOOLEAN
          /\ faults' \in 0 .. MaxFaults
      BY <1>23, <2>1, AnswerType DEF KernelRefuses
    <2> QED BY <1>23, <2>1, <2>2, <2>3
            DEF KernelRefuses, TypeOK, daemonVars, socketVars
  <1>24. CASE KernelStartsDump
    <2>1. Head(inbox) \in Request /\ inbox' \in Seq(Request)
      BY <1>24, HeadType DEF KernelStartsDump
    <2>2. dump' \in ActiveDump \cup {NoDump}
      BY <1>24, <2>1 DEF KernelStartsDump, TypeOK, Request, ActiveDump
    <2> QED BY <1>24, <2>1, <2>2
            DEF KernelStartsDump, TypeOK, daemonVars, socketVars
  <1>25. ASSUME NEW n \in 0 .. DumpLen, NEW last \in BOOLEAN,
                KernelDumpsChunk(n, last)
         PROVE  TypeOK'
    <2>1. /\ rcvq' \in Seq(Datagram)
          /\ dump' \in ActiveDump \cup {NoDump}
          /\ fate' \in [Ids -> {"unsent", "queued", "done", "refused"}]
      BY <1>25, ChunkType
    <2>2. UNCHANGED <<daemonVars, socketVars, inbox, overrun, calls, faults>>
      BY <1>25 DEF KernelDumpsChunk
    <2> QED BY <2>1, <2>2 DEF TypeOK, daemonVars, socketVars
  <1>26. CASE ForeignDatagram
    <2>1. [from |-> "user", msgs |-> <<>>] \in Datagram
      BY EmptyInSeq DEF Datagram
    <2>2. rcvq' \in Seq(Datagram)
      BY <1>26, <2>1 DEF ForeignDatagram, TypeOK
    <2> QED BY <1>26, <2>2, FaultType
            DEF ForeignDatagram, TypeOK, daemonVars, socketVars
  <1>27. CASE UNCHANGED vars
    BY <1>27 DEF vars, daemonVars, socketVars, kernelVars, TypeOK
  <1> QED
    BY <1>1, <1>2, <1>3, <1>4, <1>5, <1>6, <1>7, <1>8, <1>9, <1>10, <1>11,
       <1>12, <1>13, <1>14, <1>15, <1>16, <1>17, <1>18, <1>19, <1>20, <1>21,
       <1>22, <1>23, <1>24, <1>25, <1>26, <1>27
    DEF Next, Calls, Daemon, Kernel
-------------------------------------------------------------------------------
(* Shape and Socket. *)

(* Every step keeps the daemon's place in the code and its work in step. *)
LEMMA ShapeNext == TypeOK /\ Shape /\ [Next]_vars => Shape'
  <1> SUFFICES ASSUME TypeOK, Shape, [Next]_vars PROVE Shape'
    OBVIOUS
  <1> USE ConstantsAssumption
  <1>1. ASSUME NEW k \in Kinds, NEW c \in BOOLEAN, NEW rounds \in 1 .. MaxRounds,
               Call(k, c, rounds)
        PROVE  Shape'
    BY <1>1 DEF Call, TypeOK, Shape, Busy, Reading
  <1>2. CASE OpenCommandSocket
    BY <1>2 DEF OpenCommandSocket, TypeOK, Shape, Busy, Reading
  <1>3. CASE Compose
    BY <1>3 DEF Compose, TypeOK, Shape, Busy, Reading
  <1>4. CASE Send \/ SendAgain \/ SendAfterWait
    BY <1>4 DEF Send, SendAgain, SendAfterWait, HandToKernel, TypeOK, Shape,
                Busy, Reading
  <1>5. ASSUME NEW r \in {"ok", "refused", "failed"}, Leave(r), calls' = calls,
               r \in {"ok", "refused"} => calls >= 1
        PROVE  Shape'
    <2>1. /\ pc' \in {"idle", "compose"} /\ todo' <= todo /\ todo' \in 0 .. MaxRounds
          /\ pc' = "compose" => todo' >= 1
          /\ pc' = "idle" => todo' = 0
      BY <1>5, LeaveShape
    <2>2. calls' + todo' <= MaxCalls
      <3>1. calls \in Nat /\ todo \in Nat /\ calls + todo <= MaxCalls
        BY DEF TypeOK, Shape
      <3>2. todo' \in Nat /\ todo' <= todo /\ calls' = calls
        BY <1>5, <2>1
      <3>3. \A a, b, c \in Nat : a + b <= MaxCalls /\ c <= b => a + c <= MaxCalls
        OBVIOUS
      <3> QED BY <3>1, <3>2, <3>3
    <2> QED BY <1>5, <2>1, <2>2, LeaveShape DEF Shape, Busy, Reading
  <1>6. CASE \/ OpenCommandSocketFails \/ ReceiveForeign \/ ReceiveOverrun
             \/ ReceiveClosed \/ ReceiveBroken \/ WaitTimeout \/ WaitInterrupted
             \/ ScanAnswer \/ SendFails \/ SendWaitFails
    <2>1. CASE SendFails \/ SendWaitFails
      <3>1. calls' = calls /\ pc \in {"send", "sendwait"}
        BY <2>1 DEF SendFails, SendWaitFails, NotSent
      <3>2. \E rc \in {0, -1} : NotSent(rc)
        BY <2>1 DEF SendFails, SendWaitFails
      <3>3. Leave("failed") \/ (pc' = "recv" /\ todo' = todo)
        BY <3>2 DEF NotSent
      <3>4. CASE pc' = "recv" /\ todo' = todo
        BY <3>1, <3>4 DEF Shape, Busy, Reading
      <3> QED BY <3>1, <3>3, <3>4, <1>5
    <2>2. CASE ~(SendFails \/ SendWaitFails)
      <3>1. \/ Leave("failed")
            \/ Leave("ok") /\ calls >= 1
            \/ Leave("refused") /\ calls >= 1
        BY <1>6, <2>2
        DEF Shape, Busy, Reading, Scan, OpenCommandSocketFails, ReceiveForeign,
            ReceiveOverrun, ReceiveClosed, ReceiveBroken, WaitTimeout,
            WaitInterrupted, ScanAnswer
      <3>2. calls' = calls
        BY <1>6, <2>2
        DEF OpenCommandSocketFails, ReceiveForeign, ReceiveOverrun,
            ReceiveClosed, ReceiveBroken, WaitTimeout, WaitInterrupted, ScanAnswer
      <3> QED BY <3>1, <3>2, <1>5
    <2> QED BY <2>1, <2>2
  <1>7. CASE Receive \/ StartWait \/ ScanStale \/ ScanData \/ ScanEnd
    BY <1>7 DEF Receive, StartWait, ScanStale, ScanData, ScanEnd, Scan, TypeOK,
                Shape, Busy, Reading
  <1>8. CASE UNCHANGED <<pc, todo, calls, result>>
    BY <1>8 DEF Shape, Busy, Reading
  <1>9. CASE Kernel \/ UNCHANGED vars
    BY <1>8, <1>9 DEF Kernel, KernelCarriesOut, KernelRefuses, KernelStartsDump,
                      KernelDumpsChunk, ForeignDatagram, vars, daemonVars
  <1> QED
    BY <1>1, <1>2, <1>3, <1>4, <1>6, <1>7, <1>9 DEF Next, Calls, Daemon

(* What the kernel has, and what has arrived, are requests and messages. *)
LEMMA SetsType == TypeOK => Pending \subseteq Request /\ Arrived \subseteq Message
  <1> SUFFICES ASSUME TypeOK
               PROVE  Pending \subseteq Request /\ Arrived \subseteq Message
    OBVIOUS
  <1>1. inbox \in Seq(Request) /\ buf \in Seq(Message) /\ rcvq \in Seq(Datagram)
    BY DEF TypeOK
  <1>2. \A i \in DOMAIN inbox : inbox[i] \in Request
    BY <1>1
  <1>3. \A i \in DOMAIN buf : buf[i] \in Message
    BY <1>1
  <1>4. \A i \in DOMAIN rcvq : rcvq[i].msgs \in Seq(Message)
    <2>1. \A d \in Datagram : d.msgs \in Seq(Message)
      BY DEF Datagram
    <2>2. \A i \in DOMAIN rcvq : rcvq[i] \in Datagram
      BY <1>1
    <2> QED BY <2>1, <2>2
  <1>5. \A i \in DOMAIN rcvq : \A j \in DOMAIN rcvq[i].msgs : rcvq[i].msgs[j] \in Message
    BY <1>4
  <1> QED BY <1>2, <1>3, <1>5 DEF Pending, Arrived

(* How the sets change when the queues do. *)
LEMMA PendingTail ==
  ASSUME TypeOK, inbox # <<>>, inbox' = Tail(inbox)
  PROVE  /\ Head(inbox) \in Pending
         /\ Pending' \subseteq Pending
         /\ SentOnce => \A r \in Pending' : r.id # Head(inbox).id
  <1>1. inbox \in Seq(Request) /\ Head(inbox) = inbox[1] /\ 1 \in DOMAIN inbox
    BY DEF TypeOK
  <1>2. \A i \in DOMAIN inbox' : i + 1 \in DOMAIN inbox /\ inbox'[i] = inbox[i + 1] /\ i + 1 # 1
    BY <1>1, HeadTailProperties
  <1>3. Pending' \subseteq Pending
    BY <1>2 DEF Pending
  <1>4. ASSUME SentOnce, NEW i \in DOMAIN inbox'
        PROVE  inbox'[i].id # Head(inbox).id
    BY <1>1, <1>2, <1>4 DEF SentOnce
  <1> QED BY <1>1, <1>3, <1>4 DEF Pending

(* A request that is sent joins the pending ones. *)
LEMMA PendingAppend ==
  ASSUME TypeOK, NEW r, inbox' = Append(inbox, r)
  PROVE  Pending' = Pending \cup {r}
  <1>1. inbox \in Seq(Request)
    BY DEF TypeOK
  <1>2. /\ DOMAIN inbox' = 1 .. Len(inbox) + 1 /\ DOMAIN inbox = 1 .. Len(inbox)
        /\ inbox'[Len(inbox) + 1] = r
        /\ \A i \in 1 .. Len(inbox) : inbox'[i] = inbox[i]
    BY <1>1
  <1>3. Len(inbox) \in Nat
    BY <1>1
  <1> QED BY <1>2, <1>3 DEF Pending

(* Scanning a message takes it away. *)
LEMMA ArrivedScan ==
  ASSUME TypeOK, buf # <<>>, buf' = Tail(buf), rcvq' = rcvq
  PROVE  Head(buf) \in Arrived /\ Arrived' \subseteq Arrived
  <1>1. buf \in Seq(Message) /\ Head(buf) = buf[1] /\ 1 \in DOMAIN buf
    BY DEF TypeOK
  <1>2. \A i \in DOMAIN buf' : i + 1 \in DOMAIN buf /\ buf'[i] = buf[i + 1]
    BY <1>1, HeadTailProperties
  <1> QED BY <1>1, <1>2 DEF Arrived

(* Leaving the read drops the rest of its datagram, and perhaps more. *)
LEMMA ArrivedDrop ==
  ASSUME TypeOK, buf' = <<>>,
         \/ rcvq' = rcvq
         \/ rcvq # <<>> /\ rcvq' = Tail(rcvq)
         \/ rcvq' = <<>>
  PROVE  Arrived' \subseteq Arrived
  <1>1. rcvq \in Seq(Datagram)
    BY DEF TypeOK
  <1>2. \A i \in DOMAIN rcvq' : \E k \in DOMAIN rcvq : rcvq'[i] = rcvq[k]
    <2>1. CASE rcvq # <<>> /\ rcvq' = Tail(rcvq)
      <3>1. \A i \in DOMAIN rcvq' : i + 1 \in DOMAIN rcvq /\ rcvq'[i] = rcvq[i + 1]
        BY <1>1, <2>1, HeadTailProperties
      <3> QED BY <3>1
    <2>2. CASE rcvq' = rcvq \/ rcvq' = <<>>
      BY <2>2
    <2> QED BY <2>1, <2>2
  <1>3. DOMAIN buf' = {}
    OBVIOUS
  <1> QED BY <1>2, <1>3 DEF Arrived

(* Receiving a datagram brings nothing new. *)
LEMMA ArrivedReceive ==
  ASSUME TypeOK, rcvq # <<>>, buf' = FitBuffer(Head(rcvq).msgs),
         rcvq' = Tail(rcvq)
  PROVE  Arrived' \subseteq Arrived
  <1>1. rcvq \in Seq(Datagram) /\ Head(rcvq) = rcvq[1] /\ 1 \in DOMAIN rcvq
    BY DEF TypeOK
  <1>2. \A i \in DOMAIN rcvq' : i + 1 \in DOMAIN rcvq /\ rcvq'[i] = rcvq[i + 1]
    BY <1>1, HeadTailProperties
  <1>3. rcvq[1].msgs \in Seq(Message)
    <2>1. rcvq[1] \in Datagram
      BY <1>1
    <2> QED BY <2>1 DEF Datagram
  <1>4. \A i \in DOMAIN buf' : i \in DOMAIN rcvq[1].msgs /\ buf'[i] = rcvq[1].msgs[i]
    <2>1. CASE Len(rcvq[1].msgs) > BufMsgs
      BY <1>1, <1>3, <2>1, ConstantsAssumption DEF FitBuffer
    <2>2. CASE ~(Len(rcvq[1].msgs) > BufMsgs)
      BY <1>1, <1>3, <2>2 DEF FitBuffer
    <2> QED BY <2>1, <2>2
  <1> QED BY <1>1, <1>2, <1>4 DEF Arrived

(* A datagram that is queued brings its own messages. *)
LEMMA ArrivedAppend ==
  ASSUME TypeOK, NEW d, rcvq' = Append(rcvq, d), buf' = buf
  PROVE  Arrived' \subseteq Arrived \cup {d.msgs[j] : j \in DOMAIN d.msgs}
  <1>1. rcvq \in Seq(Datagram)
    BY DEF TypeOK
  <1>2. /\ DOMAIN rcvq' = 1 .. Len(rcvq) + 1 /\ DOMAIN rcvq = 1 .. Len(rcvq)
        /\ rcvq'[Len(rcvq) + 1] = d
        /\ \A i \in 1 .. Len(rcvq) : rcvq'[i] = rcvq[i]
    BY <1>1
  <1>3. \A i \in DOMAIN rcvq' : \/ i \in DOMAIN rcvq /\ rcvq'[i] = rcvq[i]
                               \/ rcvq'[i] = d
    BY <1>1, <1>2
  <1> QED BY <1>3 DEF Arrived

(* Closing the socket cuts the pending requests off from it. *)
LEMMA PendingOrphan ==
  ASSUME TypeOK,
         inbox' = [i \in DOMAIN inbox |-> [inbox[i] EXCEPT !.live = FALSE]]
  PROVE  /\ DOMAIN inbox' = DOMAIN inbox
         /\ \A i \in DOMAIN inbox : inbox'[i].id = inbox[i].id
         /\ \A r \in Pending' : ~r.live /\ \E q \in Pending : q.id = r.id
  <1>1. \A r \in Request : LET o == [r EXCEPT !.live = FALSE]
                           IN  o.id = r.id /\ o.live = FALSE
    BY DEF Request
  <1>2. \A i \in DOMAIN inbox : inbox[i] \in Request
    BY DEF TypeOK
  <1>3. /\ DOMAIN inbox' = DOMAIN inbox
        /\ \A i \in DOMAIN inbox : inbox'[i] = [inbox[i] EXCEPT !.live = FALSE]
    OBVIOUS
  <1>4. \A i \in DOMAIN inbox : inbox'[i].id = inbox[i].id /\ inbox'[i].live = FALSE
    BY <1>1, <1>2, <1>3
  <1> QED BY <1>3, <1>4 DEF Pending

(* Every step keeps a closed socket silent. *)
LEMMA SocketNext == TypeOK /\ Shape /\ Socket /\ [Next]_vars => Socket'
  <1> SUFFICES ASSUME TypeOK, Shape, Socket, [Next]_vars PROVE Socket'
    OBVIOUS
  <1>1. ASSUME NEW k \in Kinds, NEW c \in BOOLEAN, NEW rounds \in 1 .. MaxRounds,
               Call(k, c, rounds)
        PROVE  Socket'
    BY <1>1 DEF Call, Socket, Pending, socketVars, kernelVars
  <1>2. CASE OpenCommandSocket
    BY <1>2 DEF OpenCommandSocket, Socket, Pending, kernelVars
  <1>3. CASE Compose
    BY <1>3 DEF Compose, Socket, Pending, kernelVars
  <1>4. CASE Send \/ SendAfterWait
    BY <1>4 DEF Send, SendAfterWait, HandToKernel, Socket, socketVars
  <1>5. CASE SendAgain
    BY <1>5 DEF SendAgain, Socket, Pending, socketVars, kernelVars
  <1>6. CASE SendFails \/ SendWaitFails
    <2>1. pc' \in {"idle", "compose", "recv"} /\ buf' = <<>>
      BY <1>6, LeaveShape DEF SendFails, SendWaitFails, NotSent, Socket
    <2> QED BY <1>6, <2>1 DEF SendFails, SendWaitFails, NotSent, Socket, Pending,
                              socketVars, kernelVars
  <1>7. CASE ReceiveBroken
    <2>1. pc' \in {"idle", "compose"} /\ buf' = <<>>
      BY <1>7, LeaveShape DEF ReceiveBroken
    <2>2. \A r \in Pending' : ~r.live
      BY <1>7, PendingOrphan DEF ReceiveBroken
    <2> QED BY <1>7, <2>1, <2>2 DEF ReceiveBroken, Socket
  <1>8. CASE \/ OpenCommandSocketFails \/ ReceiveClosed \/ WaitTimeout
             \/ WaitInterrupted \/ ScanAnswer \/ ReceiveForeign \/ ReceiveOverrun
    <2>1. pc' \in {"idle", "compose"} /\ buf' = <<>>
      BY <1>8, LeaveShape
      DEF OpenCommandSocketFails, ReceiveForeign, ReceiveOverrun, ReceiveClosed,
          WaitTimeout, WaitInterrupted, ScanAnswer
    <2>2. /\ UNCHANGED <<sock, inbox, dump>>
          /\ sock \/ rcvq' = rcvq
      BY <1>8
      DEF OpenCommandSocketFails, ReceiveForeign, ReceiveOverrun, ReceiveClosed,
          WaitTimeout, WaitInterrupted, ScanAnswer, socketVars, kernelVars
    <2> QED BY <2>1, <2>2 DEF Socket, Pending
  <1>9. CASE Receive \/ StartWait \/ ScanStale \/ ScanData \/ ScanEnd
    BY <1>9 DEF Receive, StartWait, ScanStale, ScanData, ScanEnd, Scan, Socket,
                Pending, socketVars, kernelVars
  <1>10. CASE KernelCarriesOut \/ KernelRefuses \/ KernelStartsDump
    <2>1. Head(inbox) \in Pending /\ Pending' \subseteq Pending
      BY <1>10, PendingTail DEF KernelCarriesOut, KernelRefuses, KernelStartsDump
    <2>2. ~sock => ~Head(inbox).live
      BY <2>1 DEF Socket
    <2>3. ~sock => UNCHANGED <<rcvq, dump>>
      BY <1>10, <2>2 DEF KernelCarriesOut, KernelRefuses, KernelStartsDump, Answer
    <2>4. UNCHANGED <<sock, pc, buf>>
      BY <1>10 DEF KernelCarriesOut, KernelRefuses, KernelStartsDump,
                   daemonVars, socketVars
    <2> QED BY <2>1, <2>3, <2>4 DEF Socket
  <1>11. ASSUME NEW n \in 0 .. DumpLen, NEW last \in BOOLEAN,
                KernelDumpsChunk(n, last)
         PROVE  Socket'
    <2>1. sock /\ UNCHANGED <<sock, pc, buf>>
      BY <1>11 DEF KernelDumpsChunk, Socket, daemonVars, socketVars
    <2> QED BY <2>1 DEF Socket
  <1>12. CASE ForeignDatagram
    BY <1>12 DEF ForeignDatagram, Socket, Pending, daemonVars, socketVars
  <1>13. CASE UNCHANGED vars
    BY <1>13 DEF vars, daemonVars, socketVars, kernelVars, Socket, Pending
  <1> QED
    BY <1>1, <1>2, <1>3, <1>4, <1>5, <1>6, <1>7, <1>8, <1>9, <1>10, <1>11,
       <1>12, <1>13
    DEF Next, Calls, Daemon, Kernel

-------------------------------------------------------------------------------
(* Numbering. *)

(* A step that leaves the counter alone leaves the numbering alone. *)
LEMMA NumberedStays ==
  ASSUME TypeOK, NEW id \in Ids, NEW seq, Numbered(id, seq),
         seqno' = seqno, calls' = calls, todo' \in Nat, todo' <= todo
  PROVE  Numbered(id, seq)'
  <1>1. Back(calls - id)' = Back(calls - id)
    BY DEF Back
  <1>2. calls' + todo' - id < SeqMod
    <2>1. calls \in Nat /\ todo \in Nat /\ id \in Nat /\ SeqMod \in Nat
      BY ConstantsAssumption DEF TypeOK, Ids
    <2>2. calls + todo - id < SeqMod
      BY DEF Numbered
    <2>3. \A a, b, c, i \in Nat : a + b - i < SeqMod /\ c <= b => a + c - i < SeqMod
      BY <2>1
    <2> QED BY <2>1, <2>2, <2>3
  <1> QED BY <1>1, <1>2 DEF Numbered

(* The next request takes the next number: every other one is one further
   behind, and none so far that its number comes round again. *)
LEMMA NumberedCompose ==
  ASSUME TypeOK, Shape, Compose, NEW id \in Ids, NEW seq, Numbered(id, seq)
  PROVE  Numbered(id, seq)'
  <1> DEFINE d == calls - id
  <1>1. /\ calls \in Nat /\ todo \in Nat /\ id \in Nat /\ SeqMod \in Nat
        /\ seqno \in 0 .. SeqMod - 1
    BY ConstantsAssumption DEF TypeOK, Ids, Seqnos
  <1>2. /\ calls' = calls + 1 /\ todo' = todo - 1 /\ todo >= 1
        /\ seqno' = IF seqno = SeqMod - 1 THEN 0 ELSE seqno + 1
    BY DEF Compose, Shape, NextSeq
  <1>3. /\ id <= calls /\ calls + todo - id < SeqMod
        /\ seq = IF seqno >= d THEN seqno - d ELSE seqno - d + SeqMod
    BY DEF Numbered, Back
  <1>4. d \in Nat /\ d + 1 < SeqMod /\ calls' - id = d + 1
    BY <1>1, <1>2, <1>3
  <1>5. seq = IF seqno' >= d + 1 THEN seqno' - (d + 1) ELSE seqno' - (d + 1) + SeqMod
    BY <1>1, <1>2, <1>3, <1>4
  <1>6. id <= calls' /\ calls' + todo' - id < SeqMod
    BY <1>1, <1>2, <1>3
  <1> QED BY <1>4, <1>5, <1>6 DEF Numbered, Back

(* The request just composed has the number seqno. *)
LEMMA NumberedNew ==
  ASSUME TypeOK, Shape, calls \in Ids, todo < SeqMod
  PROVE  Numbered(calls, seqno)
  BY ConstantsAssumption DEF TypeOK, Numbered, Back, Seqnos, Ids

(* An answer that matches seqno answers the last request. *)
LEMMA MatchIsOwn ==
  ASSUME TypeOK, NEW id \in Ids, Numbered(id, seqno)
  PROVE  id = calls
  BY ConstantsAssumption DEF TypeOK, Numbered, Back, Seqnos, Ids

(* Steps that only read what has arrived. *)
LEMMA NumberingQuiet ==
  ASSUME TypeOK, Numbering, UNCHANGED <<seqno, calls, inbox, dump>>,
         todo' \in Nat, todo' <= todo, Arrived' \subseteq Arrived
  PROVE  Numbering'
  <1>1. Arrived \subseteq Message /\ Pending \subseteq Request
    BY SetsType
  <1>2. Pending' = Pending
    BY DEF Pending
  <1>3. \A m \in Arrived' : Numbered(m.id, m.seq)'
    BY <1>1, NumberedStays DEF Numbering, Message
  <1>4. \A r \in Pending : r.live => Numbered(r.id, r.seq)'
    BY <1>1, NumberedStays DEF Numbering, Request
  <1>5. dump # NoDump => Numbered(dump.id, dump.seq)'
    BY NumberedStays DEF Numbering, ActiveDump, TypeOK
  <1> QED BY <1>2, <1>3, <1>4, <1>5 DEF Numbering

(* What the daemon's steps between a request and the next do to the numbers
   and to what has arrived. *)
Waits == \/ SendFails \/ SendAgain \/ SendWaitFails \/ ReceiveClosed
         \/ StartWait \/ WaitTimeout \/ WaitInterrupted \/ ScanEnd
Reads == \/ Receive \/ ReceiveForeign \/ ReceiveOverrun
         \/ ScanStale \/ ScanAnswer \/ ScanData

(* A wait or a read composes nothing, sends nothing, decides nothing. *)
LEMMA ReadingQuiet ==
  ASSUME TypeOK, Shape, Waits \/ Reads
  PROVE  UNCHANGED <<seqno, calls, inbox, dump, fate>> /\ todo' <= todo
  <1>1. UNCHANGED <<seqno, calls, inbox, dump, fate>>
    BY DEF Waits, Reads, SendFails, SendAgain, SendWaitFails, NotSent,
           ReceiveClosed, StartWait, WaitTimeout, WaitInterrupted, ScanEnd,
           Receive, ReceiveForeign, ReceiveOverrun, ScanStale, ScanAnswer,
           ScanData, socketVars, kernelVars
  <1>2. todo' = todo \/ \E r \in {"ok", "refused", "failed"} : Leave(r)
    BY DEF Waits, Reads, SendFails, SendAgain, SendWaitFails, NotSent,
           ReceiveClosed, StartWait, WaitTimeout, WaitInterrupted, ScanEnd,
           Receive, ReceiveForeign, ReceiveOverrun, ScanStale, ScanAnswer,
           ScanData
  <1>3. todo' <= todo
    BY <1>2, LeaveShape DEF TypeOK
  <1> QED BY <1>1, <1>3

(* A wait or a read brings no message. *)
LEMMA ReadingArrived ==
  ASSUME TypeOK, Shape, Socket, Waits \/ Reads
  PROVE  Arrived' \subseteq Arrived
  <1>1. CASE Waits
    <2>1. rcvq' = rcvq /\ (buf' = buf \/ buf' = <<>>)
      BY <1>1, LeaveShape
      DEF Waits, SendFails, SendAgain, SendWaitFails, NotSent, ReceiveClosed,
          StartWait, WaitTimeout, WaitInterrupted, ScanEnd, kernelVars
    <2>2. CASE buf' = buf
      BY <2>1, <2>2 DEF Arrived
    <2> QED BY <2>1, <2>2, ArrivedDrop
  <1>2. CASE Receive
    BY <1>2, ArrivedReceive DEF Receive
  <1>3. CASE ReceiveForeign \/ ReceiveOverrun \/ ScanAnswer
    <2>1. buf' = <<>>
      BY <1>3, LeaveShape DEF ReceiveForeign, ReceiveOverrun, ScanAnswer
    <2> QED BY <1>3, <2>1, ArrivedDrop
            DEF ReceiveForeign, ReceiveOverrun, ScanAnswer, kernelVars
  <1>4. CASE ScanStale \/ ScanData
    BY <1>4, ArrivedScan DEF ScanStale, ScanData, Scan, kernelVars
  <1> QED BY <1>1, <1>2, <1>3, <1>4 DEF Reads

(* What an answer, and a chunk of a dump, add to what has arrived. *)
LEMMA ArrivedAnswer ==
  ASSUME TypeOK, NEW r, NEW t, Answer(r, t), buf' = buf,
         NEW m \in Arrived', m \notin Arrived
  PROVE  r.live /\ m = Reply(r, t)
  <1>1. CASE rcvq' = rcvq
    BY <1>1 DEF Arrived
  <1>2. CASE rcvq' # rcvq
    <2>1. r.live /\ rcvq' = Append(rcvq, Packet(<<Reply(r, t)>>))
      BY <1>2 DEF Answer
    <2>2. m \in {Packet(<<Reply(r, t)>>).msgs[j] : j \in DOMAIN Packet(<<Reply(r, t)>>).msgs}
      BY <2>1, ArrivedAppend
    <2> QED BY <2>1, <2>2 DEF Packet
  <1> QED BY <1>1, <1>2

(* A chunk brings messages of its dump, the last one the verdict. *)
LEMMA ArrivedChunk ==
  ASSUME TypeOK, NEW n \in 0 .. DumpLen, NEW last \in BOOLEAN,
         KernelDumpsChunk(n, last), NEW m \in Arrived', m \notin Arrived
  PROVE  /\ m \in Message /\ m.id = dump.id /\ m.seq = dump.seq
         /\ m.type = "DATA" \/ (last /\ m.type = "DONE")
  <1> DEFINE data == [k \in 1 .. n |-> DataItem(k)]
             msgs == IF last THEN Append(data, Reply(dump, "DONE")) ELSE data
  <1>1. rcvq' = Append(rcvq, Packet(msgs)) /\ buf' = buf
    BY DEF KernelDumpsChunk, daemonVars
  <1>2. m \in {msgs[j] : j \in DOMAIN msgs}
    <2>1. Packet(msgs).msgs = msgs
      BY DEF Packet
    <2> HIDE DEF msgs
    <2>2. m \in {Packet(msgs).msgs[j] : j \in DOMAIN Packet(msgs).msgs}
      BY <1>1, ArrivedAppend
    <2> QED BY <2>1, <2>2
  <1>3. \A j \in DOMAIN msgs : \/ msgs[j] \in {DataItem(k) : k \in 1 .. n}
                               \/ last /\ msgs[j] = Reply(dump, "DONE")
    <2>1. data \in Seq({DataItem(k) : k \in 1 .. n})
      OBVIOUS
    <2>2. CASE last
      BY <2>1, <2>2
    <2>3. CASE ~last
      BY <2>1, <2>3
    <2> QED BY <2>2, <2>3
  <1>4. \/ m \in {DataItem(k) : k \in 1 .. n}
        \/ last /\ m = Reply(dump, "DONE")
    <2> HIDE DEF msgs
    <2>1. PICK j \in DOMAIN msgs : m = msgs[j]
      BY <1>2
    <2>2. \/ msgs[j] \in {DataItem(k) : k \in 1 .. n}
          \/ last /\ msgs[j] = Reply(dump, "DONE")
      BY <1>3, <2>1
    <2> QED BY <2>1, <2>2
  <1>5. m \in Message
    BY <1>4, ChunkMessages
  <1>6. \A k \in 1 .. n : /\ DataItem(k).id = dump.id /\ DataItem(k).seq = dump.seq
                         /\ DataItem(k).type = "DATA"
    BY DEF DataItem, Reply
  <1>7. CASE m \in {DataItem(k) : k \in 1 .. n}
    BY <1>5, <1>6, <1>7
  <1>8. CASE last /\ m = Reply(dump, "DONE")
    BY <1>5, <1>8 DEF Reply
  <1> QED BY <1>4, <1>7, <1>8

(* Every step keeps what is outstanding in order behind seqno. *)
LEMMA NumberingNext ==
  TypeOK /\ TypeOK' /\ Shape /\ Shape' /\ Socket /\ Numbering /\ [Next]_vars
    => Numbering'
  <1> SUFFICES ASSUME TypeOK, TypeOK', Shape, Shape', Socket, Numbering,
                      [Next]_vars
               PROVE  Numbering'
    OBVIOUS
  <1> USE ConstantsAssumption
  <1>a. /\ Arrived \subseteq Message /\ Pending \subseteq Request
        /\ dump # NoDump => dump.id \in Ids /\ dump.seq \in Seqnos
    BY SetsType DEF TypeOK, ActiveDump
  <1>b. todo \in Nat /\ todo' \in Nat
    BY DEF TypeOK
  <1>1. ASSUME NEW k \in Kinds, NEW c \in BOOLEAN, NEW rounds \in 1 .. MaxRounds,
               Call(k, c, rounds)
        PROVE  Numbering'
    <2>1. /\ UNCHANGED <<calls, seqno, inbox, buf, rcvq, dump>> /\ todo' = rounds
          /\ \A i \in Outstanding : calls + rounds - i <= MaxLag
      BY <1>1 DEF Call, socketVars, kernelVars
    <2>2. Arrived' = Arrived /\ Pending' = Pending
      BY <2>1 DEF Arrived, Pending
    <2>3. ASSUME NEW id \in Ids, NEW seq, Numbered(id, seq), id \in Outstanding
          PROVE  Numbered(id, seq)'
      <3>1. calls' + todo' - id < SeqMod
        <4>1. calls + rounds - id <= MaxLag
          BY <2>1, <2>3
        <4>2. calls \in Nat /\ rounds \in Nat /\ id \in Nat
          BY DEF TypeOK, Ids
        <4> QED BY <2>1, <4>1, <4>2
      <3>2. Back(calls - id)' = Back(calls - id)
        BY <2>1 DEF Back
      <3> QED BY <2>1, <2>3, <3>1, <3>2 DEF Numbered
    <2>4. /\ \A m \in Arrived : m.id \in Outstanding
          /\ \A r \in Pending : r.live => r.id \in Outstanding
          /\ dump # NoDump => dump.id \in Outstanding
      BY DEF Outstanding
    <2>5. \A m \in Arrived : Numbered(m.id, m.seq)'
      BY <1>a, <2>3, <2>4 DEF Numbering, Message
    <2>6. \A r \in Pending : r.live => Numbered(r.id, r.seq)'
      BY <1>a, <2>3, <2>4 DEF Numbering, Request
    <2>7. dump # NoDump => Numbered(dump.id, dump.seq)'
      BY <1>a, <2>1, <2>3, <2>4 DEF Numbering
    <2> QED BY <2>1, <2>2, <2>5, <2>6, <2>7 DEF Numbering
  <1>2. CASE OpenCommandSocket \/ OpenCommandSocketFails
    <2>1. ~sock /\ buf = <<>> /\ rcvq = <<>> /\ dump = NoDump
          /\ \A r \in Pending : ~r.live
      BY <1>2 DEF OpenCommandSocket, OpenCommandSocketFails, Socket
    <2>2. UNCHANGED <<rcvq, dump, inbox>> /\ buf' = <<>>
      BY <1>2, <2>1, LeaveShape
      DEF OpenCommandSocket, OpenCommandSocketFails, kernelVars
    <2>3. Arrived' = {}
      BY <2>1, <2>2 DEF Arrived
    <2>4. Pending' = Pending
      BY <2>2 DEF Pending
    <2> QED BY <2>1, <2>2, <2>3, <2>4 DEF Numbering
  <1>3. CASE Compose
    <2>1. UNCHANGED <<buf, rcvq, inbox, dump>>
      BY <1>3 DEF Compose, kernelVars
    <2>2. Arrived' = Arrived /\ Pending' = Pending
      BY <2>1 DEF Arrived, Pending
    <2>3. \A m \in Arrived : Numbered(m.id, m.seq)'
      BY <1>3, <1>a, NumberedCompose DEF Numbering, Message
    <2>4. \A r \in Pending : r.live => Numbered(r.id, r.seq)'
      BY <1>3, <1>a, NumberedCompose DEF Numbering, Request
    <2>5. dump # NoDump => Numbered(dump.id, dump.seq)'
      BY <1>3, <1>a, <2>1, NumberedCompose DEF Numbering
    <2> QED BY <2>1, <2>2, <2>3, <2>4, <2>5 DEF Numbering
  <1>4. CASE Send \/ SendAfterWait
    <2>1. /\ HandToKernel /\ pc \in {"send", "sendwait"}
      BY <1>4 DEF Send, SendAfterWait
    <2>2. /\ UNCHANGED <<calls, seqno, todo, buf, rcvq, dump>>
          /\ inbox' = Append(inbox, [id |-> calls, seq |-> seqno, kind |-> kind,
                                     live |-> TRUE])
      BY <2>1 DEF HandToKernel, socketVars
    <2>3. Pending' = Pending \cup {[id |-> calls, seq |-> seqno, kind |-> kind,
                                    live |-> TRUE]}
      BY <2>2, PendingAppend
    <2>4. Arrived' = Arrived
      BY <2>2 DEF Arrived
    <2>5. Numbered(calls, seqno)'
      <3>1. calls \in Ids
        BY <2>1 DEF Shape, Busy, TypeOK, Ids
      <3>2. todo < SeqMod
        BY <2>1 DEF Shape, Busy, TypeOK
      <3>3. Numbered(calls, seqno)
        BY <3>1, <3>2, NumberedNew
      <3> QED BY <2>2, <3>1, <3>3, <1>b, NumberedStays
    <2>6. \A m \in Arrived : Numbered(m.id, m.seq)'
      BY <2>2, <1>a, <1>b, NumberedStays DEF Numbering, Message
    <2>7. \A r \in Pending : r.live => Numbered(r.id, r.seq)'
      BY <2>2, <1>a, <1>b, NumberedStays DEF Numbering, Request
    <2>8. dump # NoDump => Numbered(dump.id, dump.seq)'
      BY <2>2, <1>a, <1>b, NumberedStays DEF Numbering
    <2>9. \A r \in Pending' : r.live => Numbered(r.id, r.seq)'
      <3>1. \A r \in Pending' \ Pending : r.id = calls /\ r.seq = seqno
        BY <2>3
      <3> QED BY <2>2, <2>5, <2>7, <3>1
    <2> QED BY <2>2, <2>4, <2>6, <2>8, <2>9 DEF Numbering
  <1>5. CASE Waits \/ Reads
    <2>1. Arrived' \subseteq Arrived
      BY <1>5, ReadingArrived
    <2>2. UNCHANGED <<seqno, calls, inbox, dump>> /\ todo' <= todo
      BY <1>5, ReadingQuiet
    <2> QED BY <2>1, <2>2, <1>b, NumberingQuiet
  <1>6. CASE ReceiveBroken
    <2>1. /\ seqno' = seqno /\ calls' = calls /\ dump' = NoDump
          /\ buf' = <<>> /\ rcvq' = <<>>
      BY <1>6, LeaveShape DEF ReceiveBroken
    <2>2. \A r \in Pending' : ~r.live
      BY <1>6, PendingOrphan DEF ReceiveBroken
    <2>3. Arrived' = {}
      BY <2>1 DEF Arrived
    <2> QED BY <2>1, <2>2, <2>3 DEF Numbering
  <1>7. CASE KernelCarriesOut \/ KernelRefuses
    <2>1. PICK t \in {"ACK", "ERROR", "DONE"} : Answer(Head(inbox), t)
      BY <1>7 DEF KernelCarriesOut, KernelRefuses
    <2>2. /\ Head(inbox) \in Pending /\ Head(inbox) \in Request
          /\ Pending' \subseteq Pending
      BY <1>7, <1>a, PendingTail DEF KernelCarriesOut, KernelRefuses
    <2>3. UNCHANGED <<seqno, calls, todo, dump, buf>>
      BY <1>7 DEF KernelCarriesOut, KernelRefuses, daemonVars, socketVars
    <2>4. ASSUME NEW m \in Arrived', m \notin Arrived
          PROVE  Head(inbox).live /\ m = Reply(Head(inbox), t)
      BY <2>1, <2>3, <2>4, ArrivedAnswer
    <2>5. \A m \in Arrived' : m \in Message /\ Numbered(m.id, m.seq)
      <3> TAKE m \in Arrived'
      <3>1. CASE m \in Arrived
        BY <3>1, <1>a DEF Numbering
      <3>2. CASE m \notin Arrived
        <4>1. Head(inbox).live /\ m = Reply(Head(inbox), t)
          BY <3>2, <2>4
        <4>2. m \in Message /\ m.id = Head(inbox).id /\ m.seq = Head(inbox).seq
          BY <4>1, <2>1, <2>2, ReplyType DEF Reply, Request
        <4> QED BY <4>1, <4>2, <2>2 DEF Numbering
      <3> QED BY <3>1, <3>2
    <2>6. \A m \in Arrived' : Numbered(m.id, m.seq)'
      BY <2>3, <2>5, <1>b, NumberedStays DEF Message
    <2>7. \A r \in Pending' : r.live => Numbered(r.id, r.seq)'
      BY <2>2, <2>3, <1>a, <1>b, NumberedStays DEF Numbering, Request
    <2>8. dump # NoDump => Numbered(dump.id, dump.seq)'
      BY <2>3, <1>a, <1>b, NumberedStays DEF Numbering
    <2> QED BY <2>3, <2>6, <2>7, <2>8 DEF Numbering
  <1>8. CASE KernelStartsDump
    <2>1. /\ Head(inbox) \in Pending /\ Head(inbox) \in Request
          /\ Pending' \subseteq Pending
      BY <1>8, <1>a, PendingTail DEF KernelStartsDump
    <2>2. UNCHANGED <<seqno, calls, todo, buf, rcvq>>
      BY <1>8 DEF KernelStartsDump, daemonVars, socketVars
    <2>3. Arrived' = Arrived
      BY <2>2 DEF Arrived
    <2>4. \A m \in Arrived : Numbered(m.id, m.seq)'
      BY <2>2, <1>a, <1>b, NumberedStays DEF Numbering, Message
    <2>5. \A r \in Pending' : r.live => Numbered(r.id, r.seq)'
      BY <2>1, <2>2, <1>a, <1>b, NumberedStays DEF Numbering, Request
    <2>6. ASSUME NEW id \in Ids, NEW seq, Numbered(id, seq)
          PROVE  Numbered(id, seq)'
      BY <2>2, <2>6, <1>b, NumberedStays
    <2>7. dump' # NoDump => \E id \in Ids : \E seq \in Seqnos :
            dump'.id = id /\ dump'.seq = seq /\ Numbered(id, seq)
      <3>1. CASE Head(inbox).live
        <4>1. dump' = [id |-> Head(inbox).id, seq |-> Head(inbox).seq, next |-> 1]
          BY <1>8, <3>1 DEF KernelStartsDump
        <4> QED BY <4>1, <3>1, <2>1 DEF Numbering, Request
      <3>2. CASE ~Head(inbox).live
        BY <1>8, <3>2, <1>a DEF KernelStartsDump, Numbering
      <3> QED BY <3>1, <3>2
    <2>8. dump' # NoDump => Numbered(dump.id, dump.seq)'
      BY <2>6, <2>7
    <2> QED BY <2>3, <2>4, <2>5, <2>8 DEF Numbering
  <1>9. ASSUME NEW n \in 0 .. DumpLen, NEW last \in BOOLEAN,
               KernelDumpsChunk(n, last)
        PROVE  Numbering'
    <2>1. dump # NoDump /\ Numbered(dump.id, dump.seq)
      BY <1>9 DEF KernelDumpsChunk, Numbering
    <2>2. UNCHANGED <<seqno, calls, todo, inbox>>
      BY <1>9 DEF KernelDumpsChunk, daemonVars, socketVars
    <2>3. \A m \in Arrived' : m \in Message /\ Numbered(m.id, m.seq)
      <3> TAKE m \in Arrived'
      <3>1. CASE m \in Arrived
        BY <3>1, <1>a DEF Numbering
      <3>2. CASE m \notin Arrived
        <4>1. m \in Message /\ m.id = dump.id /\ m.seq = dump.seq
          BY <1>9, <3>2, ArrivedChunk
        <4> QED BY <2>1, <4>1
      <3> QED BY <3>1, <3>2
    <2>4. \A m \in Arrived' : Numbered(m.id, m.seq)'
      BY <2>2, <2>3, <1>b, NumberedStays DEF Message
    <2>5. \A r \in Pending : r.live => Numbered(r.id, r.seq)'
      BY <2>2, <1>a, <1>b, NumberedStays DEF Numbering, Request
    <2>6. Pending' = Pending
      BY <2>2 DEF Pending
    <2>7. ASSUME NEW id \in Ids, NEW seq, Numbered(id, seq)
          PROVE  Numbered(id, seq)'
      BY <2>2, <2>7, <1>b, NumberedStays
    <2>8. dump' # NoDump => dump'.id = dump.id /\ dump'.seq = dump.seq
      BY <1>9, <1>a DEF KernelDumpsChunk, TypeOK, ActiveDump
    <2>9. dump' # NoDump => Numbered(dump.id, dump.seq)'
      <3> DEFINE id == dump.id
                 seq == dump.seq
      <3>1. \E i \in Ids : \E s \in Seqnos : id = i /\ seq = s /\ Numbered(i, s)
        BY <2>1, <1>a
      <3>2. dump' # NoDump => \E i \in Ids : \E s \in Seqnos :
              dump'.id = i /\ dump'.seq = s /\ Numbered(i, s)
        BY <3>1, <2>8
      <3> QED BY <2>7, <3>2
    <2> QED BY <2>4, <2>5, <2>6, <2>9 DEF Numbering
  <1>10. CASE ForeignDatagram
    <2>1. /\ UNCHANGED <<seqno, calls, todo, inbox, dump, buf>>
          /\ rcvq' = Append(rcvq, [from |-> "user", msgs |-> <<>>])
      BY <1>10 DEF ForeignDatagram, daemonVars, socketVars
    <2>2. Arrived' \subseteq Arrived
      BY <2>1, ArrivedAppend
    <2> QED BY <2>1, <2>2, <1>b, NumberingQuiet
  <1>11. CASE UNCHANGED vars
    <2>1. UNCHANGED <<seqno, calls, todo, inbox, dump, buf, rcvq>>
      BY <1>11 DEF vars, daemonVars, socketVars, kernelVars
    <2>2. Arrived' = Arrived
      BY <2>1 DEF Arrived
    <2> QED BY <2>1, <2>2, <1>b, NumberingQuiet
  <1> QED
    BY <1>1, <1>2, <1>3, <1>4, <1>5, <1>6, <1>7, <1>8, <1>9, <1>10, <1>11
    DEF Next, Calls, Daemon, Kernel, Waits, Reads

-------------------------------------------------------------------------------
(* Truth, Fates and SentOnce. *)

(* A decision stands: no step takes back "done" or "refused". *)
LEMMA DecisionsStand ==
  ASSUME TypeOK, Shape, Fates, SentOnce, [Next]_vars, NEW i \in Ids,
         fate[i] \in {"done", "refused"}
  PROVE  fate'[i] = fate[i]
  <1>1. CASE Send \/ SendAfterWait
    <2>1. fate[calls] = "unsent" /\ fate' = [fate EXCEPT ![calls] = "queued"]
      BY <1>1 DEF Send, SendAfterWait, HandToKernel, Fates
    <2> QED BY <2>1 DEF TypeOK
  <1>2. CASE KernelCarriesOut \/ KernelRefuses
    <2>1. fate[Head(inbox).id] = "queued"
      <3>1. inbox # <<>> /\ 1 \in DOMAIN inbox /\ Head(inbox) = inbox[1]
        BY <1>2 DEF KernelCarriesOut, KernelRefuses, TypeOK
      <3> QED BY <3>1 DEF SentOnce
    <2>2. \E v \in {"done", "refused"} : fate' = [fate EXCEPT ![Head(inbox).id] = v]
      BY <1>2 DEF KernelCarriesOut, KernelRefuses
    <2> QED BY <2>1, <2>2 DEF TypeOK
  <1>3. ASSUME NEW n \in 0 .. DumpLen, NEW last \in BOOLEAN,
               KernelDumpsChunk(n, last)
        PROVE  fate'[i] = fate[i]
    <2>1. fate[dump.id] = "queued"
      BY <1>3 DEF KernelDumpsChunk, Fates
    <2>2. fate' = fate \/ fate' = [fate EXCEPT ![dump.id] = "done"]
      BY <1>3 DEF KernelDumpsChunk
    <2> QED BY <2>1, <2>2 DEF TypeOK
  <1>4. CASE Waits \/ Reads
    BY <1>4, ReadingQuiet
  <1>5. CASE \/ Calls \/ OpenCommandSocket \/ OpenCommandSocketFails \/ Compose
             \/ ReceiveBroken \/ KernelStartsDump \/ ForeignDatagram
             \/ UNCHANGED vars
    BY <1>5 DEF Calls, Call, OpenCommandSocket, OpenCommandSocketFails, Compose,
                ReceiveBroken, KernelStartsDump, ForeignDatagram, vars
  <1> QED
    BY <1>1, <1>2, <1>3, <1>4, <1>5 DEF Next, Daemon, Kernel, Waits, Reads

(* Every step keeps what has arrived, or adds the verdict it records. *)
LEMMA ArrivedNext ==
  ASSUME TypeOK, Shape, Socket, [Next]_vars, NEW m \in Arrived', m \notin Arrived
  PROVE  m \in Message /\ Truthful(m)'
  <1>1. CASE KernelCarriesOut \/ KernelRefuses
    <2>1. PICK t \in {"ACK", "ERROR"} :
            /\ Answer(Head(inbox), t)
            /\ fate' = [fate EXCEPT ![Head(inbox).id] = IF t = "ACK" THEN "done"
                                                        ELSE "refused"]
      BY <1>1 DEF KernelCarriesOut, KernelRefuses
    <2>2. m = Reply(Head(inbox), t) /\ Head(inbox) \in Request
      <3>1. buf' = buf /\ inbox # <<>>
        BY <1>1 DEF KernelCarriesOut, KernelRefuses, daemonVars
      <3> QED BY <2>1, <3>1, ArrivedAnswer, HeadType
    <2>3. m \in Message /\ m.id = Head(inbox).id /\ m.type = t
      BY <2>2, ReplyType DEF Reply, Request
    <2>4. Head(inbox).id \in Ids
      BY <2>2 DEF Request
    <2>5. fate'[m.id] = IF t = "ACK" THEN "done" ELSE "refused"
      BY <2>1, <2>3, <2>4 DEF TypeOK
    <2> QED BY <2>1, <2>3, <2>5 DEF Truthful
  <1>2. ASSUME NEW n \in 0 .. DumpLen, NEW last \in BOOLEAN,
               KernelDumpsChunk(n, last)
        PROVE  m \in Message /\ Truthful(m)'
    <2>1. /\ m \in Message /\ m.id = dump.id
          /\ m.type = "DATA" \/ (last /\ m.type = "DONE")
      BY <1>2, ArrivedChunk
    <2>2. dump.id \in Ids
      BY <1>2, ChunkMessages DEF ActiveDump
    <2>3. last => fate'[m.id] = "done"
      BY <1>2, <2>1, <2>2 DEF KernelDumpsChunk, TypeOK
    <2> QED BY <2>1, <2>3 DEF Truthful
  <1>3. CASE Waits \/ Reads
    BY <1>3, ReadingArrived
  <1>4. CASE OpenCommandSocketFails \/ ReceiveBroken
    <2>1. buf' = <<>> /\ (rcvq' = rcvq \/ rcvq' = <<>>)
      BY <1>4, LeaveShape DEF OpenCommandSocketFails, ReceiveBroken, kernelVars
    <2> QED BY <2>1, ArrivedDrop
  <1>5. CASE ForeignDatagram
    BY <1>5, ArrivedAppend DEF ForeignDatagram, daemonVars
  <1>6. CASE \/ Calls \/ OpenCommandSocket \/ Compose \/ Send \/ SendAfterWait
             \/ KernelStartsDump \/ UNCHANGED vars
    <2>1. UNCHANGED <<buf, rcvq>>
      BY <1>6 DEF Calls, Call, OpenCommandSocket, Compose, Send, SendAfterWait,
                  HandToKernel, KernelStartsDump, vars, daemonVars, kernelVars
    <2> QED BY <2>1 DEF Arrived
  <1> QED
    BY <1>1, <1>2, <1>3, <1>4, <1>5, <1>6 DEF Next, Daemon, Kernel, Waits, Reads

(* Every step keeps the messages that have arrived truthful. *)
LEMMA TruthNext ==
  TypeOK /\ Shape /\ Socket /\ Fates /\ SentOnce /\ Truth /\ [Next]_vars => Truth'
  <1> SUFFICES ASSUME TypeOK, Shape, Socket, Fates, SentOnce, Truth, [Next]_vars,
                      NEW m \in Arrived'
               PROVE  Truthful(m)'
    BY DEF Truth
  <1>1. CASE m \in Arrived
    <2>1. m \in Message /\ m.id \in Ids /\ Truthful(m)
      BY <1>1, SetsType DEF Truth, Message
    <2>2. fate[m.id] \in {"done", "refused"} => fate'[m.id] = fate[m.id]
      BY <2>1, DecisionsStand
    <2> QED BY <2>1, <2>2 DEF Truthful
  <1>2. CASE m \notin Arrived
    BY <1>2, ArrivedNext
  <1> QED BY <1>1, <1>2

(* Every step keeps each request in one place, undecided until taken. *)
LEMMA FatesNext ==
  TypeOK /\ Shape /\ Socket /\ Fates /\ SentOnce /\ [Next]_vars
    => Fates' /\ SentOnce'
  <1> SUFFICES ASSUME TypeOK, Shape, Socket, Fates, SentOnce, [Next]_vars
               PROVE  Fates' /\ SentOnce'
    OBVIOUS
  <1> USE ConstantsAssumption
  <1>a. /\ Pending \subseteq Request /\ calls \in Nat
        /\ dump # NoDump => dump.id \in Ids
        /\ inbox \in Seq(Request)
        /\ fate \in [Ids -> {"unsent", "queued", "done", "refused"}]
    BY SetsType DEF TypeOK, ActiveDump
  <1>1. ASSUME UNCHANGED <<calls, fate, inbox, dump>>,
               pc' \in {"send", "sendwait"} => pc \in {"send", "sendwait"}
        PROVE  Fates' /\ SentOnce'
    <2>1. Pending' = Pending
      BY <1>1 DEF Pending
    <2> QED BY <1>1, <2>1 DEF Fates, SentOnce
  <1>2. CASE Waits \/ Reads \/ Calls \/ OpenCommandSocket
             \/ OpenCommandSocketFails \/ ForeignDatagram \/ UNCHANGED vars
    <2>1. CASE Waits \/ Reads
      <3>1. pc' \in {"send", "sendwait"} => pc \in {"send", "sendwait"}
        BY <2>1, LeaveShape
        DEF Waits, Reads, SendFails, SendAgain, SendWaitFails, NotSent,
            ReceiveClosed, StartWait, WaitTimeout, WaitInterrupted, ScanEnd,
            Receive, ReceiveForeign, ReceiveOverrun, ScanStale, ScanAnswer,
            ScanData
      <3> QED BY <2>1, <3>1, <1>1, ReadingQuiet
    <2>2. CASE Calls \/ OpenCommandSocket \/ ForeignDatagram \/ UNCHANGED vars
      BY <2>2, <1>1 DEF Calls, Call, OpenCommandSocket, ForeignDatagram,
                        kernelVars, daemonVars, vars
    <2>3. CASE OpenCommandSocketFails
      BY <2>3, <1>1, LeaveShape DEF OpenCommandSocketFails, kernelVars
    <2> QED BY <1>2, <2>1, <2>2, <2>3
  <1>3. CASE Compose
    <2>1. /\ UNCHANGED <<fate, inbox, dump>> /\ calls' = calls + 1
          /\ calls' \in Ids
      BY <1>3, <1>a DEF Compose, kernelVars, Shape, TypeOK, Ids
    <2>2. Pending' = Pending
      BY <2>1 DEF Pending
    <2>3. fate'[calls'] = "unsent"
      BY <2>1, <1>a DEF Fates
    <2>4. \A r \in Pending : r.id <= calls'
      BY <2>1, <1>a DEF Fates, Request, Ids
    <2>5. dump # NoDump => dump.id <= calls'
      BY <2>1, <1>a DEF Fates, Ids
    <2>6. \A i \in Ids : i > calls' => fate[i] = "unsent"
      BY <2>1, <1>a DEF Fates, Ids
    <2> QED BY <2>1, <2>2, <2>3, <2>4, <2>5, <2>6 DEF Fates, SentOnce
  <1>4. CASE Send \/ SendAfterWait
    <2> DEFINE r == [id |-> calls, seq |-> seqno, kind |-> kind, live |-> TRUE]
    <2>1. /\ UNCHANGED <<calls, dump>> /\ pc' = "recv" /\ fate[calls] = "unsent"
          /\ fate' = [fate EXCEPT ![calls] = "queued"]
          /\ inbox' = Append(inbox, r)
          /\ calls \in Ids
      BY <1>4, <1>a DEF Send, SendAfterWait, HandToKernel, socketVars, Fates,
                        Shape, Busy, TypeOK, Ids
    <2>2. Pending' = Pending \cup {r} /\ r.id = calls
      BY <2>1, PendingAppend
    <2>3. \A q \in Pending : q.id # calls
      BY <2>1, <1>a DEF SentOnce, Pending
    <2>4. dump # NoDump => dump.id # calls
      BY <2>1 DEF Fates
    <2>5. /\ fate'[calls] = "queued"
          /\ \A i \in Ids : i # calls => fate'[i] = fate[i]
      BY <2>1, <1>a
    <2>6. Fates'
      <3>1. \A q \in Pending' : q.id <= calls
        BY <2>2, <1>a DEF Fates
      <3>2. dump # NoDump => /\ dump.id <= calls /\ fate'[dump.id] = "queued"
                             /\ \A q \in Pending' : q.id # dump.id
        BY <2>2, <2>4, <2>5, <1>a DEF Fates
      <3>3. \A i \in Ids : i > calls => fate'[i] = "unsent"
        BY <2>5, <1>a DEF Fates, Ids
      <3> QED BY <2>1, <3>1, <3>2, <3>3 DEF Fates
    <2>7. SentOnce'
      <3>1. /\ DOMAIN inbox' = 1 .. Len(inbox) + 1 /\ DOMAIN inbox = 1 .. Len(inbox)
            /\ inbox'[Len(inbox) + 1].id = calls
            /\ \A i \in DOMAIN inbox : /\ inbox'[i] = inbox[i] /\ inbox[i].id \in Ids
                                       /\ inbox[i].id # calls
        <4>1. \A i \in DOMAIN inbox : inbox[i] \in Pending
          BY DEF Pending
        <4> QED BY <2>1, <2>3, <1>a, <4>1 DEF Request
      <3>2. \A i \in DOMAIN inbox' : i \in DOMAIN inbox \/ i = Len(inbox) + 1
        BY <3>1, <1>a
      <3>3. \A i, j \in DOMAIN inbox' : inbox'[i].id = inbox'[j].id => i = j
        BY <3>1, <3>2 DEF SentOnce
      <3>4. \A i \in DOMAIN inbox' : fate'[inbox'[i].id] = "queued"
        BY <3>1, <3>2, <2>5 DEF SentOnce
      <3> QED BY <3>3, <3>4 DEF SentOnce
    <2> QED BY <2>6, <2>7
  <1>5. CASE ReceiveBroken
    <2>1. /\ UNCHANGED <<calls, fate>> /\ dump' = NoDump
          /\ pc' \in {"idle", "compose"}
      BY <1>5, LeaveShape DEF ReceiveBroken
    <2>2. /\ DOMAIN inbox' = DOMAIN inbox
          /\ \A i \in DOMAIN inbox : inbox'[i].id = inbox[i].id
          /\ \A r \in Pending' : \E q \in Pending : q.id = r.id
      BY <1>5, PendingOrphan DEF ReceiveBroken
    <2>3. Fates'
      BY <2>1, <2>2 DEF Fates
    <2>4. SentOnce'
      BY <2>1, <2>2 DEF SentOnce
    <2> QED BY <2>3, <2>4
  <1>6. CASE KernelCarriesOut \/ KernelRefuses \/ KernelStartsDump
    <2>1. /\ inbox # <<>> /\ inbox' = Tail(inbox) /\ UNCHANGED <<calls, pc>>
      BY <1>6 DEF KernelCarriesOut, KernelRefuses, KernelStartsDump, daemonVars
    <2>2. /\ Head(inbox) \in Pending /\ Pending' \subseteq Pending
          /\ \A r \in Pending' : r.id # Head(inbox).id
      BY <2>1, PendingTail
    <2>3. /\ Head(inbox).id \in Ids /\ Head(inbox).id <= calls
          /\ fate[Head(inbox).id] = "queued"
      <3>1. Head(inbox) = inbox[1] /\ 1 \in DOMAIN inbox
        BY <2>1, <1>a
      <3> QED BY <2>2, <3>1, <1>a DEF Request, Fates, SentOnce
    <2>4. \A i \in Ids : i # Head(inbox).id => fate'[i] = fate[i]
      BY <1>6, <1>a DEF KernelCarriesOut, KernelRefuses, KernelStartsDump
    <2>5. \/ dump' = dump /\ (dump # NoDump => dump.id # Head(inbox).id)
          \/ /\ dump' = [id |-> Head(inbox).id, seq |-> Head(inbox).seq, next |-> 1]
             /\ fate' = fate
      BY <1>6, <2>2 DEF KernelCarriesOut, KernelRefuses, KernelStartsDump, Fates
    <2>6. Fates'
      <3>1. \A r \in Pending' : r.id <= calls'
        BY <2>1, <2>2 DEF Fates
      <3>2. dump' # NoDump => /\ dump'.id <= calls' /\ fate'[dump'.id] = "queued"
                              /\ \A r \in Pending' : r.id # dump'.id
        <4>1. CASE dump' = dump /\ (dump # NoDump => dump.id # Head(inbox).id)
          BY <4>1, <2>1, <2>2, <2>4, <1>a DEF Fates
        <4>2. CASE /\ dump' = [id |-> Head(inbox).id, seq |-> Head(inbox).seq, next |-> 1]
                   /\ fate' = fate
          BY <4>2, <2>1, <2>2, <2>3
        <4> QED BY <2>5, <4>1, <4>2
      <3>3. \A i \in Ids : i > calls' => fate'[i] = "unsent"
        BY <2>1, <2>3, <2>4, <1>a DEF Fates, Ids
      <3>4. pc' \in {"send", "sendwait"} => fate'[calls'] = "unsent"
        <4>1. pc \in {"send", "sendwait"} => calls \in Ids /\ fate[calls] = "unsent"
          BY <1>a DEF Fates, Shape, Busy, TypeOK, Ids
        <4> QED BY <4>1, <2>1, <2>3, <2>4
      <3> QED BY <3>1, <3>2, <3>3, <3>4 DEF Fates
    <2>7. SentOnce'
      <3>1. \A i \in DOMAIN inbox' : i \in Nat /\ i + 1 \in DOMAIN inbox
                                     /\ inbox'[i] = inbox[i + 1]
        BY <2>1, <1>a, HeadTailProperties
      <3>2. \A i \in DOMAIN inbox' : inbox'[i] \in Pending' /\ inbox'[i].id \in Ids
        BY <2>2, <1>a DEF Pending, Request
      <3>3. \A i, j \in DOMAIN inbox' : inbox'[i].id = inbox'[j].id => i = j
        BY <3>1 DEF SentOnce
      <3>4. \A i \in DOMAIN inbox' : fate'[inbox'[i].id] = "queued"
        BY <3>1, <3>2, <2>2, <2>4 DEF SentOnce
      <3> QED BY <3>3, <3>4 DEF SentOnce
    <2> QED BY <2>6, <2>7
  <1>7. ASSUME NEW n \in 0 .. DumpLen, NEW last \in BOOLEAN,
               KernelDumpsChunk(n, last)
        PROVE  Fates' /\ SentOnce'
    <2>1. /\ UNCHANGED <<calls, pc, inbox>> /\ dump # NoDump
          /\ \/ dump' = NoDump /\ fate' = [fate EXCEPT ![dump.id] = "done"]
             \/ dump' = [dump EXCEPT !.next = @ + n] /\ fate' = fate
      BY <1>7 DEF KernelDumpsChunk, daemonVars
    <2>2. Pending' = Pending
      BY <2>1 DEF Pending
    <2>3. /\ dump.id \in Ids /\ dump.id <= calls /\ fate[dump.id] = "queued"
          /\ \A r \in Pending : r.id # dump.id
      BY <2>1, <1>a DEF Fates
    <2>4. \A i \in Ids : i # dump.id => fate'[i] = fate[i]
      BY <2>1, <1>a
    <2>5. dump' # NoDump => dump'.id = dump.id /\ fate' = fate
      <3>1. dump \in ActiveDump
        BY <2>1 DEF TypeOK
      <3> QED BY <2>1, <3>1 DEF ActiveDump
    <2>6. \A i \in Ids : i > calls' => fate'[i] = "unsent"
      BY <2>1, <2>3, <2>4, <1>a DEF Fates, Ids
    <2>7. pc' \in {"send", "sendwait"} => fate'[calls'] = "unsent"
      <3>1. pc \in {"send", "sendwait"} => calls \in Ids /\ fate[calls] = "unsent"
        BY <1>a DEF Fates, Shape, Busy, TypeOK, Ids
      <3> QED BY <3>1, <2>1, <2>3, <2>4
    <2>8. Fates'
      BY <2>1, <2>2, <2>3, <2>5, <2>6, <2>7 DEF Fates
    <2>9. \A i \in DOMAIN inbox : inbox[i] \in Pending /\ inbox[i].id \in Ids
      BY <1>a DEF Pending, Request
    <2>10. SentOnce'
      BY <2>1, <2>3, <2>4, <2>9 DEF SentOnce
    <2> QED BY <2>8, <2>10
  <1> QED
    BY <1>2, <1>3, <1>4, <1>5, <1>6, <1>7
    DEF Next, Daemon, Kernel, Waits, Reads

-------------------------------------------------------------------------------
(* AnswerIsOwn. *)

(* Every step keeps the answers to callers about their own requests. *)
LEMMA AnswerIsOwnNext == Inv /\ [Next]_vars => AnswerIsOwn'
  <1> SUFFICES ASSUME Inv, [Next]_vars PROVE AnswerIsOwn'
    OBVIOUS
  <1>a. /\ TypeOK /\ Shape /\ Socket /\ Numbering /\ Truth /\ Fates /\ SentOnce
        /\ AnswerIsOwn
    BY DEF Inv
  <1>b. result \in {"ok", "refused"} /\ ~Busy => calls \in Ids
    BY <1>a DEF Shape, TypeOK, Ids
  <1>1. CASE ScanAnswer
    <2>1. /\ buf # <<>> /\ Matches(Head(buf)) /\ UNCHANGED <<calls, fate>>
          /\ \/ Head(buf).type \in {"DONE", "ACK"} /\ result' = "ok"
             \/ Head(buf).type = "ERROR" /\ result' = "refused"
      BY <1>1 DEF ScanAnswer, Scan, Leave
    <2>2. Head(buf) \in Arrived /\ Head(buf) \in Message
      BY <2>1, <1>a, HeadType DEF Arrived, TypeOK
    <2>3. Numbered(Head(buf).id, seqno) /\ Truthful(Head(buf))
      BY <2>1, <2>2, <1>a DEF Numbering, Truth, Matches
    <2>4. Head(buf).id = calls
      BY <2>2, <2>3, <1>a, MatchIsOwn DEF Message
    <2> QED BY <2>1, <2>3, <2>4 DEF AnswerIsOwn, Truthful
  <1>2. CASE result' \in {"none", "failed"}
    BY <1>2 DEF AnswerIsOwn
  <1>3. CASE UNCHANGED <<result, calls>> /\ (Busy' <=> Busy)
    <2>1. calls \in Ids /\ fate[calls] \in {"done", "refused"}
            => fate'[calls] = fate[calls]
      BY <1>a, DecisionsStand
    <2> QED BY <1>3, <2>1, <1>a, <1>b DEF AnswerIsOwn
  <1>4. CASE Busy'
    BY <1>4 DEF AnswerIsOwn
  <1>5. CASE Waits \/ Reads
    <2>1. CASE Leave("failed")
      BY <2>1, <1>2 DEF Leave
    <2>2. CASE SendFails \/ SendWaitFails
      <3>1. Leave("failed") \/ pc' = "recv"
        BY <2>2 DEF SendFails, SendWaitFails, NotSent
      <3> QED BY <3>1, <2>1, <1>4 DEF Busy, Reading
    <2>3. CASE \/ ReceiveForeign \/ ReceiveOverrun \/ ReceiveClosed
               \/ WaitTimeout \/ WaitInterrupted
      BY <2>1, <2>3 DEF ReceiveForeign, ReceiveOverrun, ReceiveClosed,
                        WaitTimeout, WaitInterrupted
    <2>4. CASE \/ SendAgain \/ StartWait \/ ScanEnd \/ Receive \/ ScanStale
               \/ ScanData
      <3>1. pc' \in {"sendwait", "wait", "recv", "scan"}
        BY <2>4 DEF SendAgain, StartWait, ScanEnd, Receive, ScanStale, ScanData,
                    Scan
      <3> QED BY <3>1, <1>4 DEF Busy, Reading
    <2> QED BY <1>1, <1>5, <2>2, <2>3, <2>4 DEF Waits, Reads
  <1>6. CASE OpenCommandSocketFails \/ ReceiveBroken \/ Calls
    BY <1>2, <1>6 DEF OpenCommandSocketFails, ReceiveBroken, Leave, Calls, Call
  <1>7. CASE Compose \/ Send \/ SendAfterWait
    BY <1>4, <1>7 DEF Compose, Send, SendAfterWait, HandToKernel, Busy, Reading
  <1>8. CASE OpenCommandSocket \/ Kernel \/ UNCHANGED vars
    BY <1>3, <1>8
    DEF OpenCommandSocket, Kernel, KernelCarriesOut, KernelRefuses,
        KernelStartsDump, KernelDumpsChunk, ForeignDatagram, daemonVars, vars,
        Busy, Reading
  <1> QED BY <1>1, <1>5, <1>6, <1>7, <1>8 DEF Next, Daemon, Waits, Reads

-------------------------------------------------------------------------------
(* The inductive invariant and what follows from it. *)

(* The inductive invariant holds at first. *)
LEMMA InvInit == Init => Inv
  <1> SUFFICES ASSUME Init PROVE Inv
    OBVIOUS
  <1>1. TypeOK
    BY TypeInit
  <1>2. Arrived = {} /\ Pending = {}
    BY DEF Init, Arrived, Pending
  <1>3. Shape
    BY ConstantsAssumption DEF Init, Shape, Busy, Reading
  <1>4. Socket /\ Numbering /\ Truth
    BY <1>2 DEF Init, Socket, Numbering, Truth
  <1>5. Fates /\ SentOnce
    BY <1>2 DEF Init, Fates, SentOnce
  <1>6. AnswerIsOwn
    BY DEF Init, AnswerIsOwn
  <1> QED BY <1>1, <1>3, <1>4, <1>5, <1>6 DEF Inv

(* Every step preserves the inductive invariant. *)
LEMMA InvNext == Inv /\ [Next]_vars => Inv'
  <1> SUFFICES ASSUME Inv, [Next]_vars PROVE Inv'
    OBVIOUS
  <1>1. /\ TypeOK /\ Shape /\ Socket /\ Numbering /\ Truth /\ Fates /\ SentOnce
    BY DEF Inv
  <1>2. TypeOK' /\ Shape' /\ Socket'
    BY <1>1, TypeNext, ShapeNext, SocketNext
  <1>3. Numbering' /\ Truth' /\ Fates' /\ SentOnce'
    BY <1>1, <1>2, NumberingNext, TruthNext, FatesNext
  <1>4. AnswerIsOwn'
    BY AnswerIsOwnNext
  <1> QED BY <1>2, <1>3, <1>4 DEF Inv

(* Every reachable state of the channel satisfies the inductive invariant:
   what is outstanding is numbered backwards from nl_command.seqno, by less
   than a full turn of the counter, and tells the truth. *)
THEOREM Invariance == Spec => []Inv
  BY InvInit, InvNext, PTL DEF Spec

(* The variables of the channel keep their types: in particular the counter
   stays an unsigned short, and no request is composed beyond those its call
   was made for (netlink_talk, kernel_dump). *)
THEOREM TypeCorrect == Spec => []TypeOK
  <1>1. Inv => TypeOK
    BY DEF Inv
  <1> QED BY <1>1, Invariance, PTL

(* netlink_read never takes the answer to another request, abandoned earlier,
   for the answer to its own, for any size of the counter and any number of
   requests, provided fewer calls than the counter distinguishes are made
   while an answer is outstanding. *)
THEOREM AnswersAreOwn == Spec => []AnswerIsOwn
  <1>1. Inv => AnswerIsOwn
    BY DEF Inv
  <1> QED BY <1>1, Invariance, PTL

(* No request is before the kernel twice, and none is processed twice, retry
   after the wait for room included (netlink_talk). *)
THEOREM RequestsSentOnce == Spec => []SentOnce
  <1>1. Inv => SentOnce
    BY DEF Inv
  <1> QED BY <1>1, Invariance, PTL

-------------------------------------------------------------------------------
(* The channel implements the abstract remote call: every step of it is a step
   of KernelCall, or a stutter. *)

(* What KernelCall sees of the fates. *)
Seen(f) == IF f \in {"done", "refused"} THEN f ELSE "open"

(* A step that changes nothing KernelCall sees. *)
LEMMA CallStutter ==
  ASSUME Busy' = Busy, UNCHANGED <<calls, result>>,
         \A i \in Ids : Seen(fate'[i]) = Seen(fate[i])
  PROVE  UNCHANGED KC!callVars
  BY DEF KC!callVars, Seen

(* The read, or the attempt to send, fails. *)
LEMMA CallFails ==
  ASSUME TypeOK, Busy, Leave("failed"), UNCHANGED <<calls, fate>>
  PROVE  KC!Next
  <1>1. ~Busy' /\ result' = "failed"
    BY DEF Leave, Busy, Reading
  <1>2. KC!Answer("failed")
    BY <1>1 DEF KC!Answer
  <1> QED BY <1>2 DEF KC!Next

(* The kernel decides a request that it has. *)
LEMMA CallDecided ==
  ASSUME TypeOK, NEW i \in Ids, i <= calls, fate[i] = "queued",
         NEW v \in {"done", "refused"}, fate' = [fate EXCEPT ![i] = v],
         UNCHANGED <<pc, calls, result>>
  PROVE  KC!Next
  <1>1. Busy' = Busy
    BY DEF Busy, Reading
  <1>2. \A j \in Ids : fate'[j] = IF j = i THEN v ELSE fate[j]
    BY DEF TypeOK
  <1>3. KC!Decide(i, v)
    BY <1>1, <1>2 DEF KC!Decide
  <1> QED BY <1>3 DEF KC!Next, KC!Ids, Ids, KC!Verdicts

(* Every step of the channel is a step of the abstract call, or none. *)
LEMMA CallNext == Inv /\ Inv' /\ [Next]_vars => [KC!Next]_(KC!callVars)
  <1> SUFFICES ASSUME Inv, Inv', [Next]_vars
               PROVE  KC!Next \/ UNCHANGED KC!callVars
    OBVIOUS
  <1>a. TypeOK /\ Shape /\ Socket /\ Fates /\ SentOnce /\ AnswerIsOwn'
    BY DEF Inv
  <1>1. ASSUME NEW k \in Kinds, NEW c \in BOOLEAN, NEW rounds \in 1 .. MaxRounds,
               Call(k, c, rounds)
        PROVE  KC!Next
    <2>1. ~Busy /\ Busy' = Busy /\ result' = "none" /\ UNCHANGED <<calls, fate>>
      BY <1>1 DEF Call, Busy, Reading
    <2>2. KC!Begin
      BY <2>1 DEF KC!Begin
    <2> QED BY <2>2 DEF KC!Next
  <1>2. CASE OpenCommandSocketFails
    <2>1. ~Busy /\ Busy' = Busy /\ result' = "failed" /\ UNCHANGED <<calls, fate>>
      BY <1>2 DEF OpenCommandSocketFails, Leave, Busy, Reading
    <2>2. KC!GiveUp
      BY <2>1 DEF KC!GiveUp
    <2> QED BY <2>2 DEF KC!Next
  <1>3. CASE Compose
    <2>1. ~Busy /\ Busy' /\ calls' = calls + 1 /\ UNCHANGED <<result, fate>>
      BY <1>3 DEF Compose, Busy, Reading
    <2>2. calls < MaxCalls
      BY <1>3, <1>a, ConstantsAssumption DEF Compose, Shape, TypeOK
    <2>3. KC!Issue
      BY <2>1, <2>2 DEF KC!Issue
    <2> QED BY <2>3 DEF KC!Next
  <1>4. CASE Send \/ SendAfterWait
    <2>1. /\ Busy /\ Busy' /\ UNCHANGED <<calls, result>>
          /\ fate' = [fate EXCEPT ![calls] = "queued"]
      BY <1>4 DEF Send, SendAfterWait, HandToKernel, Busy, Reading
    <2>2. fate[calls] = "unsent"
      BY <1>4, <1>a DEF Send, SendAfterWait, Fates
    <2>3. \A i \in Ids : Seen(fate'[i]) = Seen(fate[i])
      BY <2>1, <2>2, <1>a DEF Seen, TypeOK
    <2> QED BY <2>1, <2>3, CallStutter
  <1>5. CASE SendFails \/ SendWaitFails
    <2>1. /\ Busy /\ UNCHANGED <<calls, fate>>
          /\ Leave("failed") \/ (pc' = "recv" /\ UNCHANGED result)
      BY <1>5 DEF SendFails, SendWaitFails, NotSent, Busy
    <2>2. CASE pc' = "recv" /\ UNCHANGED result
      BY <2>1, <2>2, CallStutter DEF Busy, Reading
    <2> QED BY <2>1, <2>2, <1>a, CallFails
  <1>6. CASE \/ ReceiveForeign \/ ReceiveOverrun \/ ReceiveClosed
             \/ ReceiveBroken \/ WaitTimeout \/ WaitInterrupted
    <2>1. Busy /\ Leave("failed") /\ UNCHANGED <<calls, fate>>
      BY <1>6 DEF ReceiveForeign, ReceiveOverrun, ReceiveClosed, ReceiveBroken,
                  WaitTimeout, WaitInterrupted, Busy, Reading
    <2> QED BY <2>1, <1>a, CallFails
  <1>7. CASE ScanAnswer
    <2>1. PICK r \in {"ok", "refused"} :
            Busy /\ Leave(r) /\ UNCHANGED <<calls, fate>>
      BY <1>7 DEF ScanAnswer, Scan, Busy, Reading
    <2>2. ~Busy' /\ result' = r
      BY <2>1 DEF Leave, Busy, Reading
    <2>3. /\ r = "ok" => fate[calls] = "done"
          /\ r = "refused" => fate[calls] = "refused"
      BY <2>1, <2>2, <1>a DEF AnswerIsOwn
    <2>4. calls \in Ids
      BY <2>1, <1>a DEF Shape, TypeOK, Ids
    <2>5. KC!Answer(r)
      BY <2>1, <2>2, <2>3, <2>4 DEF KC!Answer
    <2> QED BY <2>5 DEF KC!Next
  <1>8. CASE KernelCarriesOut \/ KernelRefuses
    <2>1. PICK v \in {"done", "refused"} :
            /\ inbox # <<>> /\ fate' = [fate EXCEPT ![Head(inbox).id] = v]
            /\ UNCHANGED <<pc, calls, result>>
      BY <1>8 DEF KernelCarriesOut, KernelRefuses, daemonVars
    <2>2. 1 \in DOMAIN inbox /\ Head(inbox) = inbox[1] /\ inbox[1] \in Request
      BY <2>1, <1>a DEF TypeOK
    <2>3. /\ inbox[1].id \in Ids /\ inbox[1].id <= calls
          /\ fate[inbox[1].id] = "queued"
      BY <2>2, <1>a DEF Request, Pending, Fates, SentOnce
    <2> QED BY <2>1, <2>2, <2>3, <1>a, CallDecided
  <1>9. ASSUME NEW n \in 0 .. DumpLen, NEW last \in BOOLEAN,
               KernelDumpsChunk(n, last)
        PROVE  KC!Next \/ UNCHANGED KC!callVars
    <2>1. /\ UNCHANGED <<pc, calls, result>> /\ dump # NoDump
          /\ fate' = fate \/ fate' = [fate EXCEPT ![dump.id] = "done"]
      BY <1>9 DEF KernelDumpsChunk, daemonVars
    <2>2. dump.id \in Ids /\ dump.id <= calls /\ fate[dump.id] = "queued"
      BY <2>1, <1>a DEF TypeOK, ActiveDump, Fates
    <2>3. CASE fate' = fate
      BY <2>1, <2>3, CallStutter DEF Busy, Reading
    <2> QED BY <2>1, <2>2, <2>3, <1>a, CallDecided
  <1>10. CASE \/ OpenCommandSocket \/ SendAgain \/ Receive \/ StartWait
              \/ ScanStale \/ ScanData \/ ScanEnd
              \/ KernelStartsDump \/ ForeignDatagram \/ UNCHANGED vars
    <2>1. Busy' = Busy /\ UNCHANGED <<calls, result, fate>>
      BY <1>10 DEF OpenCommandSocket, SendAgain, Receive, StartWait, ScanStale,
                   ScanData, ScanEnd, KernelStartsDump, ForeignDatagram, vars,
                   daemonVars, Busy, Reading, Scan
    <2> QED BY <2>1, CallStutter
  <1> QED
    BY <1>1, <1>2, <1>3, <1>4, <1>5, <1>6, <1>7, <1>8, <1>9, <1>10
    DEF Next, Calls, Daemon, Kernel

(* What the callers of netlink_talk and netlink_send_dump rely on: one request
   at a time, decided once, and no answer but the truth about the caller's own
   request. *)
THEOREM ChannelImplementsCall == Spec => ImplementsKernelCall
  <1>1. Init => KC!Init
    BY DEF Init, KC!Init, Busy, Reading, KC!Ids, Ids
  <1> QED
    BY <1>1, CallNext, Invariance, PTL DEF Spec, ImplementsKernelCall, KC!Spec

-------------------------------------------------------------------------------
(* Dumps are complete.  The invariant follows the messages that belong to the
   table of the request in progress, from the kernel through the queue and the
   buffer to the filter: each is where the one before it leaves off. *)

Dumping == Busy /\ kind = "dump"

(* A part of the table, or its end, and its place in it. *)
Part(m) == m.id = calls /\ m.type \in {"DATA", "DONE"}
Rank(m) == IF m.type = "DATA" THEN m.item ELSE DumpLen + 1
Consecutive(s, first) ==
  \A j \in DOMAIN s : Part(s[j]) /\ Rank(s[j]) = first + j - 1
NoParts(s) == \A j \in DOMAIN s : ~Part(s[j])

(* The place that comes after what has been received. *)
Expected == Len(delivered) + 1 + (IF NoParts(buf) THEN 0 ELSE Len(buf))

(* The datagrams with parts of the table, their first place and the one after
   their last. *)
Own(i) == ~NoParts(rcvq[i].msgs)
First(i) == Rank(rcvq[i].msgs[1])
After(i) == First(i) + Len(rcvq[i].msgs)

(* The request in progress is of the call's kind, and nothing of its answer is
   there before the kernel has taken it; a dump is not acknowledged. *)
OwnRequest ==
  Busy => \A r \in Pending : r.id = calls => r.kind = kind
NotYetAnswered ==
  Busy /\ (pc \in {"send", "sendwait"} \/ \E r \in Pending : r.id = calls) =>
    delivered = <<>> /\ (\A m \in Arrived : m.id # calls) /\ dump.id # calls
NotAcknowledged == Dumping => \A m \in Arrived : m.id = calls => m.type # "ACK"

(* The kernel fills datagrams up to MaxChunk, and never mixes answers. *)
Datagrams ==
  \A i \in DOMAIN rcvq : Len(rcvq[i].msgs) <= MaxChunk
OwnDatagrams ==
  Dumping => \A i \in DOMAIN rcvq : Own(i) => Consecutive(rcvq[i].msgs, First(i))

Filtered ==
  Dumping => \A k \in DOMAIN delivered :
               delivered[k].id = calls /\ delivered[k].item = k
Buffered == Dumping /\ ~NoParts(buf) => Consecutive(buf, Len(delivered) + 1)
Linked ==
  Dumping => \A i \in DOMAIN rcvq : Own(i) =>
    \/ First(i) = Expected
    \/ \E k \in DOMAIN rcvq : k < i /\ Own(k) /\ First(i) = After(k)
Rising ==
  Dumping => \A i, k \in DOMAIN rcvq :
               i < k /\ Own(i) /\ Own(k) => First(i) < First(k)
Served ==
  Dumping /\ dump.id = calls =>
    /\ \/ dump.next = Expected
       \/ \E k \in DOMAIN rcvq : Own(k) /\ dump.next = After(k)
    /\ \A k \in DOMAIN rcvq : Own(k) => First(k) < dump.next

(* The way of the table from the kernel to the filter. *)
Table ==
  /\ OwnDatagrams /\ Filtered /\ Buffered /\ Linked /\ Rising /\ Served

DumpInv ==
  /\ OwnRequest /\ NotYetAnswered /\ NotAcknowledged
  /\ Datagrams /\ Table
  /\ DumpIsComplete

(* Nothing that a dump passes on moves, and the call goes on. *)
Pauses ==
  /\ UNCHANGED <<buf, rcvq, delivered, dump, calls, kind, inbox>>
  /\ Busy /\ Busy'
  /\ pc' \in {"send", "sendwait"} => pc \in {"send", "sendwait"}

(* The steps, as far as they matter to a dump. *)
LEMMA DumpSteps ==
  ASSUME Inv, [Next]_vars
  PROVE  \/ ~Busy'
         \/ Pauses
         \/ Compose
         \/ Send \/ SendAfterWait
         \/ Receive \/ ScanStale \/ ScanData
         \/ Busy /\ UNCHANGED daemonVars /\ calls' = calls /\ Kernel
  <1> USE DEF Busy, Reading
  <1>a. TypeOK /\ Shape
    BY DEF Inv
  <1>1. CASE Calls \/ OpenCommandSocket
    BY <1>1 DEF Calls, Call, OpenCommandSocket
  <1>2. CASE \E r \in {"ok", "refused", "failed"} : Leave(r)
    BY <1>2 DEF Leave
  <1>3. CASE \/ OpenCommandSocketFails \/ ReceiveForeign \/ ReceiveOverrun
             \/ ReceiveClosed \/ ReceiveBroken \/ WaitTimeout \/ WaitInterrupted
             \/ ScanAnswer
    BY <1>2, <1>3
    DEF OpenCommandSocketFails, ReceiveForeign, ReceiveOverrun, ReceiveClosed,
        ReceiveBroken, WaitTimeout, WaitInterrupted, ScanAnswer
  <1>4. CASE SendFails \/ SendWaitFails
    <2>1. CASE pc' = "recv"
      BY <1>4, <2>1 DEF SendFails, SendWaitFails, NotSent, Pauses, kernelVars, Leave
    <2> QED BY <1>2, <1>4, <2>1 DEF SendFails, SendWaitFails, NotSent
  <1>5. CASE SendAgain \/ StartWait \/ ScanEnd
    BY <1>5 DEF SendAgain, StartWait, ScanEnd, Pauses, kernelVars
  <1>6. CASE Kernel
    BY <1>6 DEF Kernel, KernelCarriesOut, KernelRefuses, KernelStartsDump,
                KernelDumpsChunk, ForeignDatagram, daemonVars
  <1>7. CASE UNCHANGED vars
    BY <1>7 DEF vars, daemonVars, kernelVars, Pauses
  <1> QED BY <1>1, <1>3, <1>4, <1>5, <1>6, <1>7 DEF Next, Daemon

(* What the kernel adds to the queue is one datagram, of at most MaxChunk
   messages. *)
LEMMA OneDatagram ==
  ASSUME TypeOK, Kernel
  PROVE  \/ rcvq' = rcvq
         \/ \E d \in Datagram : rcvq' = Append(rcvq, d) /\ Len(d.msgs) <= MaxChunk
  <1> USE ConstantsAssumption
  <1>1. CASE KernelCarriesOut \/ KernelRefuses
    <2>1. PICK t \in {"ACK", "ERROR"} : Answer(Head(inbox), t)
      BY <1>1 DEF KernelCarriesOut, KernelRefuses
    <2>2. Head(inbox) \in Request
      BY <1>1, HeadType DEF KernelCarriesOut, KernelRefuses
    <2>3. Reply(Head(inbox), t) \in Message
      BY <2>2, ReplyType DEF Request
    <2>4. /\ Packet(<<Reply(Head(inbox), t)>>) \in Datagram
          /\ Len(Packet(<<Reply(Head(inbox), t)>>).msgs) <= MaxChunk
      BY <2>3 DEF Packet, Datagram
    <2> QED BY <2>1, <2>4 DEF Answer
  <1>2. CASE KernelStartsDump
    BY <1>2 DEF KernelStartsDump
  <1>3. ASSUME NEW n \in 0 .. DumpLen, NEW last \in BOOLEAN,
               KernelDumpsChunk(n, last)
        PROVE  \E d \in Datagram : rcvq' = Append(rcvq, d) /\ Len(d.msgs) <= MaxChunk
    <2> DEFINE data == [k \in 1 .. n |-> DataItem(k)]
               msgs == IF last THEN Append(data, Reply(dump, "DONE")) ELSE data
    <2>1. data \in Seq(Message) /\ Len(data) = n /\ Reply(dump, "DONE") \in Message
      BY <1>3, ChunkMessages
    <2>2. msgs \in Seq(Message) /\ Len(msgs) = n + (IF last THEN 1 ELSE 0)
      BY <2>1
    <2>3. Len(msgs) <= MaxChunk
      BY <1>3, <2>2 DEF KernelDumpsChunk
    <2>4. rcvq' = Append(rcvq, Packet(msgs))
      BY <1>3 DEF KernelDumpsChunk
    <2> HIDE DEF msgs
    <2> QED BY <2>2, <2>3, <2>4 DEF Packet, Datagram
  <1>4. CASE ForeignDatagram
    <2>1. /\ [from |-> "user", msgs |-> <<>>] \in Datagram
          /\ Len([from |-> "user", msgs |-> <<>>].msgs) <= MaxChunk
      BY EmptyInSeq DEF Datagram
    <2> QED BY <1>4, <2>1 DEF ForeignDatagram
  <1> QED BY <1>1, <1>2, <1>3, <1>4 DEF Kernel

(* Datagrams stay short enough. *)
LEMMA DatagramsNext ==
  ASSUME Inv, Datagrams, [Next]_vars
  PROVE  Datagrams'
  <1>a. TypeOK /\ rcvq \in Seq(Datagram)
    BY DEF Inv, TypeOK
  <1>1. CASE Kernel
    <2>1. CASE rcvq' = rcvq
      BY <2>1 DEF Datagrams
    <2>2. ASSUME NEW d \in Datagram, rcvq' = Append(rcvq, d), Len(d.msgs) <= MaxChunk
          PROVE  Datagrams'
      <3>1. \A i \in DOMAIN rcvq' : \/ i \in DOMAIN rcvq /\ rcvq'[i] = rcvq[i]
                                   \/ rcvq'[i] = d
        BY <1>a, <2>2
      <3> QED BY <3>1, <2>2 DEF Datagrams
    <2> QED BY <1>1, <1>a, <2>1, <2>2, OneDatagram
  <1>2. CASE rcvq' \in {rcvq, <<>>}
    BY <1>2 DEF Datagrams
  <1>3. CASE rcvq # <<>> /\ rcvq' = Tail(rcvq)
    <2>1. \A i \in DOMAIN rcvq' : i + 1 \in DOMAIN rcvq /\ rcvq'[i] = rcvq[i + 1]
      BY <1>a, <1>3, HeadTailProperties
    <2> QED BY <2>1 DEF Datagrams
  <1>4. CASE Calls \/ Daemon \/ UNCHANGED vars
    BY <1>2, <1>3, <1>4
    DEF Calls, Call, Daemon, OpenCommandSocket, OpenCommandSocketFails, Compose,
        Send, SendFails, SendAgain, SendAfterWait, SendWaitFails, HandToKernel,
        NotSent, Receive, ReceiveForeign, ReceiveOverrun, ReceiveClosed,
        ReceiveBroken, StartWait, WaitTimeout, WaitInterrupted, ScanStale,
        ScanAnswer, ScanData, ScanEnd, kernelVars, vars
  <1> QED BY <1>1, <1>4 DEF Next

(* While the request is being sent, the kernel does not have it. *)
LEMMA UnsentNotPending ==
  ASSUME Inv, pc \in {"send", "sendwait"}, NEW r \in Pending
  PROVE  r.id # calls
  <1>1. \A i \in DOMAIN inbox : fate[inbox[i].id] = "queued"
    BY DEF Inv, SentOnce
  <1>2. fate[r.id] = "queued"
    BY <1>1 DEF Pending
  <1>3. fate[calls] = "unsent"
    BY DEF Inv, Fates
  <1> QED BY <1>2, <1>3

(* What arrives during a call, and is of its request, is an answer of its
   kind. *)
LEMMA ArrivedOwn ==
  ASSUME Inv, Busy, UNCHANGED daemonVars, calls' = calls, Kernel,
         NEW m \in Arrived', m \notin Arrived, m.id = calls
  PROVE  \/ /\ \E r \in Pending : r.id = calls /\ (m.type = "ACK" => r.kind = "talk")
            /\ \A r \in Pending' : r.id # calls
            /\ dump' = dump
            /\ m.type \in {"ACK", "ERROR"}
         \/ /\ dump.id = calls /\ Pending' = Pending /\ m.type \in {"DATA", "DONE"}
            /\ dump'.id \in {calls, 0}
  <1>a. TypeOK /\ SentOnce /\ buf' = buf
    BY DEF Inv, daemonVars
  <1>1. CASE KernelCarriesOut \/ KernelRefuses
    <2>1. PICK t \in {"ACK", "ERROR"} :
            /\ Answer(Head(inbox), t)
            /\ t = "ACK" => Head(inbox).kind = "talk"
      BY <1>1 DEF KernelCarriesOut, KernelRefuses
    <2>2. m = Reply(Head(inbox), t)
      BY <2>1, <1>a, ArrivedAnswer
    <2>3. m.id = Head(inbox).id /\ m.type = t
      BY <2>2 DEF Reply
    <2>4. Head(inbox) \in Pending /\ \A r \in Pending' : r.id # Head(inbox).id
      BY <1>1, <1>a, PendingTail DEF KernelCarriesOut, KernelRefuses
    <2>5. dump' = dump
      BY <1>1 DEF KernelCarriesOut, KernelRefuses
    <2> QED BY <2>1, <2>3, <2>4, <2>5
  <1>2. CASE KernelStartsDump
    BY <1>2, <1>a DEF KernelStartsDump, Arrived
  <1>3. ASSUME NEW n \in 0 .. DumpLen, NEW last \in BOOLEAN,
               KernelDumpsChunk(n, last)
        PROVE  /\ dump.id = calls /\ Pending' = Pending /\ m.type \in {"DATA", "DONE"}
               /\ dump'.id \in {calls, 0}
    <2>1. m.id = dump.id /\ m.type \in {"DATA", "DONE"}
      BY <1>3, <1>a, ArrivedChunk
    <2>2. dump \in ActiveDump
      BY <1>3, <1>a, ChunkMessages
    <2>3. [dump EXCEPT !.next = @ + n].id = dump.id
      BY <2>2 DEF ActiveDump
    <2> QED BY <1>3, <2>1, <2>3 DEF KernelDumpsChunk, Pending, NoDump
  <1>4. CASE ForeignDatagram
    <2>1. Arrived' \subseteq Arrived \cup {<<>>[j] : j \in DOMAIN <<>>}
      BY <1>4, <1>a, ArrivedAppend DEF ForeignDatagram
    <2>2. DOMAIN <<>> = {}
      OBVIOUS
    <2> QED BY <2>1, <2>2
  <1> QED BY <1>1, <1>2, <1>3, <1>4 DEF Kernel

(* Outside the kernel's steps nothing of the answer arrives. *)
LEMMA ArrivedCall ==
  ASSUME Inv, [Next]_vars, ~Kernel
  PROVE  Arrived' \subseteq Arrived
  <1>a. TypeOK /\ Shape /\ Socket
    BY DEF Inv
  <1>1. CASE Waits \/ Reads
    BY <1>1, <1>a, ReadingArrived
  <1>2. CASE OpenCommandSocketFails \/ ReceiveBroken
    BY <1>2, <1>a, ArrivedDrop
    DEF OpenCommandSocketFails, ReceiveBroken, Leave, kernelVars
  <1>3. CASE \/ Calls \/ OpenCommandSocket \/ Compose \/ Send \/ SendAfterWait
             \/ UNCHANGED vars
    BY <1>3 DEF Calls, Call, OpenCommandSocket, Compose, Send, SendAfterWait,
                HandToKernel, Arrived, kernelVars, daemonVars, vars
  <1> QED BY <1>1, <1>2, <1>3 DEF Next, Daemon, Waits, Reads

(* The kernel takes requests away, and starts dumps for those it takes. *)
LEMMA KernelTakes ==
  ASSUME Inv, Kernel
  PROVE  /\ Pending' \subseteq Pending
         /\ \/ dump'.id \in {dump.id, 0}
            \/ /\ \E r \in Pending : r.id = dump'.id
               /\ \A r \in Pending' : r.id # dump'.id
  <1>a. TypeOK /\ SentOnce
    BY DEF Inv
  <1>1. CASE KernelCarriesOut \/ KernelRefuses
    BY <1>1, <1>a, PendingTail DEF KernelCarriesOut, KernelRefuses
  <1>2. CASE KernelStartsDump
    <2>1. /\ Head(inbox) \in Pending /\ Pending' \subseteq Pending
          /\ \A r \in Pending' : r.id # Head(inbox).id
      BY <1>2, <1>a, PendingTail DEF KernelStartsDump
    <2>2. dump' = dump \/ dump'.id = Head(inbox).id
      BY <1>2 DEF KernelStartsDump
    <2> QED BY <2>1, <2>2
  <1>3. ASSUME NEW n \in 0 .. DumpLen, NEW last \in BOOLEAN,
               KernelDumpsChunk(n, last)
        PROVE  Pending' = Pending /\ dump'.id \in {dump.id, 0}
    <2>1. dump \in ActiveDump
      BY <1>3, <1>a, ChunkMessages
    <2>2. [dump EXCEPT !.next = @ + n].id = dump.id
      BY <2>1 DEF ActiveDump
    <2> QED BY <1>3, <2>2 DEF KernelDumpsChunk, Pending, NoDump
  <1>4. CASE ForeignDatagram
    BY <1>4 DEF ForeignDatagram, Pending
  <1> QED BY <1>1, <1>2, <1>3, <1>4 DEF Kernel

(* A request just composed is new: nothing anywhere has its number. *)
LEMMA ComposedIsNew ==
  ASSUME Inv, Compose
  PROVE  /\ Pending' = Pending /\ Arrived' = Arrived
         /\ \A r \in Pending : r.id # calls'
         /\ \A m \in Arrived : m.id # calls'
         /\ dump'.id # calls'
         /\ delivered' = <<>> /\ buf' = <<>>
  <1>a. TypeOK /\ Fates /\ Numbering /\ Socket
    BY DEF Inv
  <1>b. calls \in Nat /\ calls' = calls + 1
    BY <1>a DEF Compose, TypeOK
  <1>c. Pending \subseteq Request /\ Arrived \subseteq Message
    BY <1>a, SetsType
  <1>1. Pending' = Pending /\ Arrived' = Arrived
    BY DEF Compose, kernelVars, Pending, Arrived
  <1>2. \A r \in Pending : r.id # calls'
    <2>1. \A r \in Pending : r.id \in Nat /\ r.id <= calls
      BY <1>a, <1>c DEF Fates, Request, Ids
    <2> QED BY <1>b, <2>1
  <1>3. \A m \in Arrived : m.id # calls'
    <2>1. \A m \in Arrived : m.id \in Nat /\ m.id <= calls
      BY <1>a, <1>c DEF Numbering, Numbered, Message, Ids
    <2> QED BY <1>b, <2>1
  <1>4. dump'.id # calls'
    <2>1. dump' = dump
      BY DEF Compose, kernelVars
    <2>2. dump.id \in Nat /\ dump.id <= calls
      BY <1>a, <1>b DEF Fates, TypeOK, ActiveDump, NoDump, Ids
    <2> QED BY <1>b, <2>1, <2>2
  <1>5. buf' = <<>> /\ delivered' = <<>>
    BY <1>a DEF Compose, Socket
  <1> QED BY <1>1, <1>2, <1>3, <1>4, <1>5

(* Every step keeps what the kernel has of the call's request of its kind. *)
LEMMA OwnRequestNext ==
  ASSUME Inv, OwnRequest, [Next]_vars
  PROVE  OwnRequest'
  <1>1. CASE ~Busy'
    BY <1>1 DEF OwnRequest
  <1>2. CASE Pauses
    BY <1>2 DEF OwnRequest, Pauses, Pending
  <1>3. CASE Compose
    BY <1>3, ComposedIsNew DEF OwnRequest
  <1>4. CASE Send \/ SendAfterWait
    <2> DEFINE r == [id |-> calls, seq |-> seqno, kind |-> kind, live |-> TRUE]
    <2>1. Pending' = Pending \cup {r}
      BY <1>4, PendingAppend DEF Inv, Send, SendAfterWait, HandToKernel
    <2>2. Busy /\ UNCHANGED <<calls, kind>>
      BY <1>4 DEF Send, SendAfterWait, HandToKernel, Busy
    <2> QED BY <2>1, <2>2 DEF OwnRequest
  <1>5. CASE Receive \/ ScanStale \/ ScanData
    BY <1>5 DEF Receive, ScanStale, ScanData, Scan, OwnRequest, Pending, Busy,
                Reading, kernelVars
  <1>6. CASE Busy /\ UNCHANGED daemonVars /\ calls' = calls /\ Kernel
    <2>1. Pending' \subseteq Pending /\ Busy /\ UNCHANGED <<calls, kind>>
      BY <1>6, KernelTakes DEF daemonVars
    <2> QED BY <2>1 DEF OwnRequest
  <1> QED BY <1>1, <1>2, <1>3, <1>4, <1>5, <1>6, DumpSteps

(* Every step keeps the answer out of the way until the kernel has the
   request. *)
LEMMA NotYetAnsweredNext ==
  ASSUME Inv, NotYetAnswered, [Next]_vars
  PROVE  NotYetAnswered'
  <1>a. TypeOK /\ Shape /\ Numbering
    BY DEF Inv
  <1>1. CASE ~Busy'
    BY <1>1 DEF NotYetAnswered
  <1>2. CASE Pauses
    BY <1>2 DEF NotYetAnswered, Pauses, Pending, Arrived
  <1>3. CASE Compose
    BY <1>3, ComposedIsNew DEF NotYetAnswered
  <1>4. CASE Send \/ SendAfterWait
    <2>1. /\ Busy /\ pc \in {"send", "sendwait"}
          /\ UNCHANGED <<calls, delivered, dump, buf, rcvq>>
      BY <1>4 DEF Send, SendAfterWait, HandToKernel, Busy
    <2>2. Arrived' = Arrived
      BY <2>1 DEF Arrived
    <2> QED BY <2>1, <2>2 DEF NotYetAnswered
  <1>5. CASE Receive \/ ScanStale \/ ScanData
    <2>1. /\ Busy /\ pc' = "scan" /\ Pending' = Pending /\ UNCHANGED <<calls, dump>>
          /\ delivered' = delivered \/ ScanData
      BY <1>5 DEF Receive, ScanStale, ScanData, Scan, Pending, Busy, Reading,
                  kernelVars
    <2>2. Arrived' \subseteq Arrived
      BY <1>5, <1>a, ReadingArrived DEF Inv, Reads
    <2>3. ASSUME ScanData
          PROVE  \A r \in Pending : r.id # calls
      <3>1. Head(buf) \in Arrived /\ Head(buf) \in Message /\ Matches(Head(buf))
        BY <2>3, <1>a, HeadType DEF ScanData, Scan, Arrived, TypeOK
      <3>2. Head(buf).id = calls
        BY <1>a, <3>1, MatchIsOwn DEF Numbering, Matches, Message
      <3> QED BY <2>1, <3>1, <3>2 DEF NotYetAnswered
    <2> QED BY <2>1, <2>2, <2>3 DEF NotYetAnswered
  <1>6. CASE Busy /\ UNCHANGED daemonVars /\ calls' = calls /\ Kernel
    <2> SUFFICES ASSUME pc' \in {"send", "sendwait"} \/ \E r \in Pending' : r.id = calls
                 PROVE  /\ delivered' = <<>> /\ (\A m \in Arrived' : m.id # calls)
                        /\ dump'.id # calls
      BY <1>6 DEF NotYetAnswered
    <2>1. pc' = pc /\ delivered' = delivered /\ calls >= 1
      BY <1>6, <1>a DEF daemonVars, Shape
    <2>2. /\ Pending' \subseteq Pending
          /\ \/ dump'.id \in {dump.id, 0}
             \/ /\ \E r \in Pending : r.id = dump'.id
                /\ \A r \in Pending' : r.id # dump'.id
      BY <1>6, KernelTakes
    <2>3. /\ delivered = <<>> /\ (\A m \in Arrived : m.id # calls)
          /\ dump.id # calls
      BY <1>6, <2>1, <2>2 DEF NotYetAnswered
    <2>4. dump'.id # calls
      BY <2>1, <2>2, <2>3, UnsentNotPending
    <2>5. ASSUME NEW m \in Arrived' PROVE m.id # calls
      BY <1>6, <2>1, <2>3, UnsentNotPending, ArrivedOwn
    <2> QED BY <2>1, <2>3, <2>4, <2>5
  <1> QED BY <1>1, <1>2, <1>3, <1>4, <1>5, <1>6, DumpSteps

(* Every step keeps acknowledgements away from dumps. *)
LEMMA NotAcknowledgedNext ==
  ASSUME Inv, OwnRequest, NotAcknowledged, [Next]_vars
  PROVE  NotAcknowledged'
  <1>1. CASE ~Busy'
    BY <1>1 DEF NotAcknowledged, Dumping
  <1>2. CASE Compose
    BY <1>2, ComposedIsNew DEF NotAcknowledged
  <1>3. CASE Pauses \/ Send \/ SendAfterWait \/ Receive \/ ScanStale \/ ScanData
    <2>1. Arrived' \subseteq Arrived
      <3>1. CASE Pauses \/ Send \/ SendAfterWait
        BY <3>1 DEF Pauses, Send, SendAfterWait, HandToKernel, Arrived
      <3>2. CASE Receive \/ ScanStale \/ ScanData
        BY <3>2, ReadingArrived DEF Inv, Reads
      <3> QED BY <1>3, <3>1, <3>2
    <2>2. Busy /\ UNCHANGED <<calls, kind>>
      BY <1>3 DEF Pauses, Send, SendAfterWait, HandToKernel, Receive, ScanStale,
                  ScanData, Scan, Busy, Reading
    <2> QED BY <2>1, <2>2 DEF NotAcknowledged, Dumping
  <1>4. CASE Busy /\ UNCHANGED daemonVars /\ calls' = calls /\ Kernel
    <2>1. kind' = kind
      BY <1>4 DEF daemonVars
    <2>2. ASSUME kind = "dump", NEW m \in Arrived', m.id = calls
          PROVE  m.type # "ACK"
      BY <1>4, <2>2, ArrivedOwn DEF NotAcknowledged, Dumping, OwnRequest
    <2> QED BY <1>4, <2>1, <2>2 DEF NotAcknowledged, Dumping
  <1> QED BY <1>1, <1>2, <1>3, <1>4, DumpSteps

(* Places are numbers, and a datagram with parts of the table moves on. *)
LEMMA Places ==
  ASSUME TypeOK
  PROVE  /\ \A s \in Seq(Message) :
              ~NoParts(s) => s # <<>> /\ Len(s) \in Nat \ {0} /\ Rank(s[1]) \in Nat
         /\ \A i \in DOMAIN rcvq : rcvq[i].msgs \in Seq(Message)
         /\ \A i \in DOMAIN rcvq :
              Own(i) => /\ First(i) \in Nat /\ After(i) \in Nat
                        /\ First(i) < After(i)
         /\ Expected \in Nat
  <1> USE ConstantsAssumption
  <1>1. \A m \in Message : Rank(m) \in Nat
    BY DEF Message, Rank
  <1>2. ASSUME NEW s \in Seq(Message), ~NoParts(s)
        PROVE  s # <<>> /\ Len(s) \in Nat \ {0} /\ Rank(s[1]) \in Nat
    <2>1. PICK j \in DOMAIN s : Part(s[j])
      BY <1>2 DEF NoParts
    <2>2. Len(s) \in Nat \ {0} /\ 1 \in DOMAIN s /\ s # <<>>
      BY <2>1
    <2>3. s[1] \in Message
      BY <2>2
    <2> QED BY <1>1, <2>2, <2>3
  <1>3. \A i \in DOMAIN rcvq : rcvq[i].msgs \in Seq(Message)
    <2>1. \A d \in Datagram : d.msgs \in Seq(Message)
      BY DEF Datagram
    <2>2. \A i \in DOMAIN rcvq : rcvq[i] \in Datagram
      BY DEF TypeOK
    <2> QED BY <2>1, <2>2
  <1>4. ASSUME NEW i \in DOMAIN rcvq, Own(i)
        PROVE  First(i) \in Nat /\ After(i) \in Nat /\ First(i) < After(i)
    <2>1. Len(rcvq[i].msgs) \in Nat \ {0} /\ Rank(rcvq[i].msgs[1]) \in Nat
      BY <1>2, <1>3, <1>4 DEF Own
    <2> QED BY <2>1 DEF First, After
  <1>5. Expected \in Nat
    <2>1. Len(delivered) \in Nat /\ Len(buf) \in Nat
      BY DEF TypeOK
    <2>2. (IF NoParts(buf) THEN 0 ELSE Len(buf)) \in Nat
      BY <2>1
    <2>3. \A a, b \in Nat : a + 1 + b \in Nat
      OBVIOUS
    <2> QED BY <2>1, <2>2, <2>3 DEF Expected
  <1> QED BY <1>2, <1>3, <1>4, <1>5

(* A datagram that stays the same, in its place or another, keeps its parts. *)
LEMMA SameDatagram ==
  ASSUME calls' = calls, NEW i, NEW k, rcvq'[i] = rcvq[k]
  PROVE  /\ Own(i)' <=> Own(k)
         /\ First(i)' = First(k) /\ After(i)' = After(k)
         /\ NoParts(rcvq[i].msgs)' <=> NoParts(rcvq[k].msgs)
         /\ \A f : Consecutive(rcvq[i].msgs, f)' <=> Consecutive(rcvq[k].msgs, f)
  <1>1. NoParts(rcvq[i].msgs)' <=> NoParts(rcvq[k].msgs)
    BY DEF NoParts, Part
  <1>2. First(i)' = First(k) /\ After(i)' = After(k)
    BY DEF First, After, Rank
  <1>3. ASSUME NEW f
        PROVE  Consecutive(rcvq[i].msgs, f)' <=> Consecutive(rcvq[k].msgs, f)
    BY DEF Consecutive, Part, Rank
  <1> QED BY <1>1, <1>2, <1>3 DEF Own

(* What was passed on stays when nothing of it moves. *)
LEMMA PassedStands ==
  ASSUME Table, Dumping, Dumping', UNCHANGED <<calls, buf, delivered>>
  PROVE  Expected' = Expected /\ Filtered' /\ Buffered'
  <1>1. NoParts(buf)' <=> NoParts(buf)
    BY DEF NoParts, Part
  <1>2. Expected' = Expected
    BY <1>1 DEF Expected
  <1>3. Filtered'
    BY DEF Table, Filtered
  <1>4. Buffered'
    BY <1>1 DEF Table, Buffered, Consecutive, Part, Rank
  <1> QED BY <1>2, <1>3, <1>4

(* The table stands when the queue gains nothing that belongs to it. *)
LEMMA TableStands ==
  ASSUME TypeOK, Table, Dumping, Dumping', calls' = calls,
         Expected' = Expected, Filtered', Buffered',
         \A i \in DOMAIN rcvq : i \in DOMAIN rcvq' /\ rcvq'[i] = rcvq[i],
         \A i \in DOMAIN rcvq' : i \in DOMAIN rcvq \/ ~Own(i)',
         dump' = dump \/ dump'.id # calls
  PROVE  Table'
  <1>1. \A i \in DOMAIN rcvq : /\ Own(i)' <=> Own(i)
                              /\ First(i)' = First(i) /\ After(i)' = After(i)
                              /\ \A f : Consecutive(rcvq[i].msgs, f)'
                                          <=> Consecutive(rcvq[i].msgs, f)
    BY SameDatagram
  <1>2. OwnDatagrams'
    <2> SUFFICES ASSUME NEW i \in DOMAIN rcvq', Own(i)'
                 PROVE  Consecutive(rcvq[i].msgs, First(i))'
      BY DEF OwnDatagrams
    <2>1. i \in DOMAIN rcvq /\ Own(i) /\ First(i)' = First(i)
      BY <1>1
    <2>2. Consecutive(rcvq[i].msgs, First(i))
      BY <2>1 DEF Table, OwnDatagrams
    <2> HIDE DEF First
    <2> QED BY <1>1, <2>1, <2>2 DEF Consecutive
  <1>3. Linked'
    BY <1>1 DEF Table, Linked
  <1>4. Rising'
    BY <1>1 DEF Table, Rising
  <1>5. Served'
    BY <1>1 DEF Table, Served
  <1> QED BY <1>2, <1>3, <1>4, <1>5 DEF Table

(* There is no part of the table on the way before the dump begins. *)
LEMMA TableEmpty ==
  ASSUME Dumping', \A m \in Arrived' : m.id # calls', delivered' = <<>>,
         dump'.id # calls' \/ dump'.next = 1
  PROVE  Table'
  <1>1. NoParts(buf)'
    BY DEF NoParts, Part, Arrived
  <1>2. \A i \in DOMAIN rcvq' : ~Own(i)'
    BY DEF Own, NoParts, Part, Arrived
  <1>3. Expected' = 1
    BY <1>1 DEF Expected
  <1>4. Filtered'
    <2>1. DOMAIN delivered' = {}
      OBVIOUS
    <2> QED BY <2>1 DEF Filtered
  <1>5. Buffered' /\ OwnDatagrams' /\ Linked' /\ Rising'
    BY <1>1, <1>2 DEF Buffered, OwnDatagrams, Linked, Rising
  <1>6. Served'
    BY <1>2, <1>3 DEF Served
  <1> QED BY <1>4, <1>5, <1>6 DEF Table

(* The dump goes on where the last datagram of the table left off. *)
LEMMA TableGrows ==
  ASSUME TypeOK, Table, Dumping, Dumping', UNCHANGED <<calls, buf, delivered>>,
         NEW d, d.msgs \in Seq(Message), d.msgs # <<>>, rcvq' = Append(rcvq, d),
         dump \in ActiveDump, dump.id = calls, Consecutive(d.msgs, dump.next),
         \/ dump'.id # calls
         \/ dump'.id = calls /\ dump'.next = dump.next + Len(d.msgs)
  PROVE  Table'
  <1> USE ConstantsAssumption
  <1>1. PICK n \in Nat \ {0} :
          /\ DOMAIN rcvq = 1 .. n - 1
          /\ DOMAIN rcvq' = 1 .. n /\ rcvq'[n] = d
          /\ \A i \in DOMAIN rcvq : rcvq'[i] = rcvq[i] /\ i < n
    <2>1. Len(rcvq) + 1 \in Nat \ {0}
      BY DEF TypeOK
    <2>2. /\ DOMAIN rcvq = 1 .. Len(rcvq) + 1 - 1
          /\ DOMAIN rcvq' = 1 .. Len(rcvq) + 1 /\ rcvq'[Len(rcvq) + 1] = d
          /\ \A i \in DOMAIN rcvq : rcvq'[i] = rcvq[i] /\ i < Len(rcvq) + 1
      BY DEF TypeOK
    <2> QED BY <2>1, <2>2
  <1>2. \A i \in DOMAIN rcvq : /\ Own(i)' <=> Own(i)
                              /\ First(i)' = First(i) /\ After(i)' = After(i)
                              /\ \A f : Consecutive(rcvq[i].msgs, f)'
                                          <=> Consecutive(rcvq[i].msgs, f)
    BY <1>1, SameDatagram
  <1>3. Expected' = Expected /\ Filtered' /\ Buffered'
    BY PassedStands
  <1>4. dump.next \in Nat /\ Len(d.msgs) \in Nat \ {0} /\ 1 \in DOMAIN d.msgs
    BY DEF ActiveDump
  <1>5. Part(d.msgs[1]) /\ Rank(d.msgs[1]) = dump.next
    BY <1>4 DEF Consecutive
  <1>6. PICK next \in Nat : next = dump.next
    BY <1>4
  <1>7. /\ Own(n)'
        /\ First(n)' = next
        /\ After(n)' = next + Len(d.msgs)
        /\ Consecutive(rcvq[n].msgs, next)'
    <2>1. Own(n)'
      BY <1>1, <1>4, <1>5 DEF Own, NoParts, Part
    <2>2. First(n)' = next
      BY <1>1, <1>5, <1>6 DEF First, Rank
    <2>3. After(n)' = next + Len(d.msgs)
      BY <1>1, <2>2 DEF After
    <2>4. Consecutive(rcvq[n].msgs, next)'
      BY <1>1, <1>6 DEF Consecutive, Part, Rank
    <2> QED BY <2>1, <2>2, <2>3, <2>4
  <1>8. \A i \in DOMAIN rcvq' : i = n \/ i \in DOMAIN rcvq
    BY <1>1
  <1>9. /\ \/ dump.next = Expected
           \/ \E k \in DOMAIN rcvq : Own(k) /\ dump.next = After(k)
        /\ \A k \in DOMAIN rcvq : Own(k) => First(k) < dump.next
    BY DEF Table, Served
  <1>10. \A k \in DOMAIN rcvq : k \in DOMAIN rcvq' /\ k < n
    BY <1>1
  <1>11. n \in DOMAIN rcvq'
    BY <1>1
  <1>12. OwnDatagrams'
    <2> SUFFICES ASSUME NEW i \in DOMAIN rcvq', Own(i)'
                 PROVE  Consecutive(rcvq[i].msgs, First(i))'
      BY DEF OwnDatagrams
    <2>1. CASE i = n
      BY <1>7, <2>1 DEF Consecutive
    <2>2. CASE i \in DOMAIN rcvq
      <3>1. Consecutive(rcvq[i].msgs, First(i)) /\ First(i)' = First(i)
        BY <1>2, <2>2 DEF Table, OwnDatagrams
      <3> QED BY <1>2, <2>2, <3>1 DEF Consecutive
    <2> QED BY <1>8, <2>1, <2>2
  <1>13. Linked'
    <2> SUFFICES ASSUME NEW i \in DOMAIN rcvq', Own(i)'
                 PROVE  \/ First(i)' = Expected'
                        \/ \E k \in DOMAIN rcvq' : k < i /\ Own(k)' /\ First(i)' = After(k)'
      BY DEF Linked
    <2>1. CASE i = n
      BY <1>2, <1>3, <1>6, <1>7, <1>9, <1>10, <2>1
    <2>2. CASE i \in DOMAIN rcvq
      BY <1>2, <1>3, <1>10, <2>2 DEF Table, Linked
    <2> QED BY <1>8, <2>1, <2>2
  <1>14. Rising'
    <2> SUFFICES ASSUME NEW i \in DOMAIN rcvq', NEW k \in DOMAIN rcvq',
                        i < k, Own(i)', Own(k)'
                 PROVE  First(i)' < First(k)'
      BY DEF Rising
    <2>1. i \in DOMAIN rcvq
      BY <1>1
    <2>2. CASE k = n
      BY <1>2, <1>6, <1>7, <1>9, <2>1, <2>2
    <2>3. CASE k \in DOMAIN rcvq
      BY <1>2, <2>1, <2>3 DEF Table, Rising
    <2> QED BY <1>8, <2>2, <2>3
  <1>15. Served'
    <2> SUFFICES ASSUME dump'.id = calls
                 PROVE  /\ \E k \in DOMAIN rcvq' : Own(k)' /\ dump'.next = After(k)'
                        /\ \A k \in DOMAIN rcvq' : Own(k)' => First(k)' < dump'.next
      BY DEF Served
    <2>1. dump'.next = dump.next + Len(d.msgs)
      OBVIOUS
    <2>2. \A k \in DOMAIN rcvq : Own(k) => First(k) \in Nat
      BY Places
    <2>3. \A k \in DOMAIN rcvq : Own(k) => First(k) < dump'.next
      BY <1>4, <1>9, <2>1, <2>2
    <2>4. First(n)' < dump'.next
      BY <1>4, <1>6, <1>7, <2>1
    <2> QED BY <1>2, <1>6, <1>7, <1>8, <1>11, <2>1, <2>3, <2>4
  <1> QED BY <1>3, <1>12, <1>13, <1>14, <1>15 DEF Table

(* recvmsg takes the first datagram: if it has parts of the table, they go on
   where the filter is.  The buffer must hold every datagram of the kernel. *)
LEMMA TableReceived ==
  ASSUME MaxChunk <= BufMsgs, Inv, Table, Datagrams, Dumping, Dumping', Receive
  PROVE  Table'
  <1> USE ConstantsAssumption
  <1>a. TypeOK /\ rcvq \in Seq(Datagram) /\ buf = <<>>
    BY DEF Inv, TypeOK, Socket, Receive
  <1>b. UNCHANGED <<calls, delivered, dump>>
    BY DEF Receive
  <1>1. /\ 1 \in DOMAIN rcvq /\ Head(rcvq) = rcvq[1]
        /\ \A i \in DOMAIN rcvq' : i + 1 \in DOMAIN rcvq /\ rcvq'[i] = rcvq[i + 1]
        /\ \A i \in DOMAIN rcvq : i \in Nat /\ (i > 1 => i - 1 \in DOMAIN rcvq')
        /\ \A i \in DOMAIN rcvq : i = 1 \/ (i > 1 /\ i - 1 + 1 = i)
        /\ \A i \in DOMAIN rcvq' : i \in Nat \ {0}
    BY <1>a, HeadTailProperties DEF Receive
  <1>2. buf' = rcvq[1].msgs
    <2>1. rcvq[1].msgs \in Seq(Message) /\ Len(rcvq[1].msgs) <= MaxChunk
      BY <1>a, <1>1, Places DEF Datagrams
    <2>2. ~(Len(rcvq[1].msgs) > BufMsgs)
      BY <2>1
    <2> QED BY <1>1, <2>2 DEF Receive, FitBuffer
  <1>3. NoParts(buf)' <=> ~Own(1)
    BY <1>b, <1>2 DEF Own, NoParts, Part
  <1>4. Expected = Len(delivered) + 1
    <2>1. DOMAIN buf = {}
      BY <1>a
    <2>2. NoParts(buf)
      BY <2>1 DEF NoParts
    <2>3. Len(delivered) \in Nat
      BY <1>a DEF TypeOK
    <2> QED BY <2>2, <2>3 DEF Expected
  <1>5. Own(1) => First(1) = Expected
    BY <1>1 DEF Table, Linked
  <1>6. Expected' = IF Own(1) THEN After(1) ELSE Expected
    <2>1. CASE Own(1)
      BY <1>b, <1>2, <1>3, <1>4, <1>5, <2>1 DEF Expected, After
    <2>2. CASE ~Own(1)
      BY <1>b, <1>3, <1>4, <2>2, <1>a DEF Expected, TypeOK
    <2> QED BY <2>1, <2>2
  <1>7. \A i \in DOMAIN rcvq' :
          /\ Own(i)' <=> Own(i + 1)
          /\ First(i)' = First(i + 1) /\ After(i)' = After(i + 1)
          /\ \A f : Consecutive(rcvq[i].msgs, f)' <=> Consecutive(rcvq[i + 1].msgs, f)
    BY <1>1, <1>b, SameDatagram
  <1>8. Filtered'
    BY <1>b DEF Table, Filtered
  <1>9. Buffered'
    <2>1. Own(1) => Consecutive(rcvq[1].msgs, First(1))
      BY <1>1 DEF Table, OwnDatagrams
    <2> QED BY <1>b, <1>2, <1>3, <1>4, <1>5, <2>1
            DEF Buffered, Consecutive, Part, Rank
  <1>10. OwnDatagrams'
    <2> SUFFICES ASSUME NEW i \in DOMAIN rcvq', Own(i)'
                 PROVE  Consecutive(rcvq[i].msgs, First(i))'
      BY DEF OwnDatagrams
    <2>1. Consecutive(rcvq[i + 1].msgs, First(i + 1)) /\ First(i)' = First(i + 1)
      BY <1>1, <1>7 DEF Table, OwnDatagrams
    <2> QED BY <1>7, <2>1 DEF Consecutive
  <1>11. Linked'
    <2> SUFFICES ASSUME NEW i \in DOMAIN rcvq', Own(i)'
                 PROVE  \/ First(i)' = Expected'
                        \/ \E k \in DOMAIN rcvq' : k < i /\ Own(k)' /\ First(i)' = After(k)'
      BY DEF Linked
    <2>1. i + 1 \in DOMAIN rcvq /\ Own(i + 1) /\ First(i)' = First(i + 1) /\ 1 < i + 1
      BY <1>1, <1>7
    <2>2. First(i + 1) \in Nat
      BY <1>a, <2>1, Places
    <2>3. CASE First(i + 1) = Expected
      <3>1. Own(1) => First(1) < First(i + 1)
        BY <1>1, <2>1 DEF Table, Rising
      <3> QED BY <1>5, <1>6, <2>1, <2>2, <2>3, <3>1
    <2>4. ASSUME NEW k \in DOMAIN rcvq, k < i + 1, Own(k), First(i + 1) = After(k)
          PROVE  \/ First(i)' = Expected'
                 \/ \E j \in DOMAIN rcvq' : j < i /\ Own(j)' /\ First(i)' = After(j)'
      <3>1. CASE k = 1
        BY <1>6, <2>1, <2>4, <3>1
      <3>2. CASE k # 1
        <4>1. k - 1 \in DOMAIN rcvq' /\ k - 1 < i /\ k - 1 + 1 = k
          BY <1>1, <2>1, <2>4, <3>2
        <4> QED BY <1>7, <2>1, <2>4, <4>1
      <3> QED BY <3>1, <3>2
    <2> QED BY <2>1, <2>3, <2>4 DEF Table, Linked
  <1>12. Rising'
    <2>1. \A i, k \in DOMAIN rcvq' : i < k => i + 1 < k + 1
      BY <1>1
    <2> QED BY <1>1, <1>7, <2>1 DEF Table, Rising
  <1>13. Served'
    <2> SUFFICES ASSUME dump.id = calls
                 PROVE  /\ \/ dump.next = Expected'
                           \/ \E k \in DOMAIN rcvq' : Own(k)' /\ dump.next = After(k)'
                        /\ \A k \in DOMAIN rcvq' : Own(k)' => First(k)' < dump.next
      BY <1>b DEF Served
    <2>1. /\ \/ dump.next = Expected
             \/ \E k \in DOMAIN rcvq : Own(k) /\ dump.next = After(k)
          /\ \A k \in DOMAIN rcvq : Own(k) => First(k) < dump.next
      BY DEF Table, Served
    <2>2. \A k \in DOMAIN rcvq' : Own(k)' => First(k)' < dump.next
      BY <1>1, <1>7, <2>1
    <2>3. CASE dump.next = Expected
      <3>1. ~Own(1)
        <4> SUFFICES ASSUME Own(1) PROVE FALSE
          OBVIOUS
        <4>1. First(1) < dump.next /\ First(1) = dump.next /\ First(1) \in Nat
          BY <1>1, <1>5, <1>a, <2>1, <2>3, Places
        <4> QED BY <4>1
      <3> QED BY <1>6, <2>2, <2>3, <3>1
    <2>4. ASSUME NEW k \in DOMAIN rcvq, Own(k), dump.next = After(k)
          PROVE  \/ dump.next = Expected'
                 \/ \E j \in DOMAIN rcvq' : Own(j)' /\ dump.next = After(j)'
      <3>1. CASE k = 1
        BY <1>6, <2>4, <3>1
      <3>2. CASE k # 1
        <4>1. k - 1 \in DOMAIN rcvq' /\ k - 1 + 1 = k
          BY <1>1, <3>2
        <4> QED BY <1>7, <2>4, <4>1
      <3> QED BY <3>1, <3>2
    <2> QED BY <2>1, <2>2, <2>3, <2>4
  <1> QED BY <1>8, <1>9, <1>10, <1>11, <1>12, <1>13 DEF Table

(* A message that matches the counter is of the call's request. *)
LEMMA ScannedIsOwn ==
  ASSUME Inv, Scan
  PROVE  /\ Head(buf) \in Message /\ Head(buf) \in Arrived
         /\ Head(buf) = buf[1] /\ 1 \in DOMAIN buf
         /\ Matches(Head(buf)) <=> Head(buf).id = calls
  <1>a. TypeOK /\ Shape /\ Numbering
    BY DEF Inv
  <1>1. /\ Head(buf) \in Message /\ Head(buf) \in Arrived
        /\ Head(buf) = buf[1] /\ 1 \in DOMAIN buf
    BY <1>a, HeadType DEF Scan, Arrived, TypeOK
  <1>2. Numbered(Head(buf).id, Head(buf).seq) /\ Head(buf).id \in Ids
    BY <1>a, <1>1 DEF Numbering, Message
  <1>3. Matches(Head(buf)) => Head(buf).id = calls
    BY <1>a, <1>2, MatchIsOwn DEF Matches
  <1>4. Head(buf).id = calls => Matches(Head(buf))
    <2>1. calls \in Nat /\ seqno \in Nat
      BY <1>a DEF TypeOK, Seqnos
    <2>2. Back(0) = seqno /\ calls - calls = 0
      BY <2>1 DEF Back
    <2> QED BY <1>2, <2>2 DEF Numbered, Matches
  <1> QED BY <1>1, <1>3, <1>4

(* A stale message was not part of the table. *)
LEMMA StaleSkipped ==
  ASSUME Inv, Table, Dumping, Dumping', ScanStale
  PROVE  Table'
  <1>a. TypeOK /\ buf \in Seq(Message) /\ buf # <<>>
    BY DEF Inv, TypeOK, ScanStale, Scan
  <1>1. UNCHANGED <<calls, delivered, dump, rcvq>>
    BY DEF ScanStale, kernelVars
  <1>2. NoParts(buf)
    <2>1. ~Part(buf[1]) /\ 1 \in DOMAIN buf
      BY ScannedIsOwn DEF ScanStale, Part
    <2> QED BY <2>1 DEF Table, Buffered, Consecutive
  <1>3. \A j \in DOMAIN buf' : j + 1 \in DOMAIN buf /\ buf'[j] = buf[j + 1]
    BY <1>a, HeadTailProperties DEF ScanStale
  <1>4. NoParts(buf)'
    BY <1>1, <1>2, <1>3 DEF NoParts, Part
  <1>5. Expected' = Expected
    BY <1>1, <1>2, <1>4 DEF Expected
  <1>6. Filtered' /\ Buffered'
    BY <1>1, <1>4 DEF Table, Filtered, Buffered
  <1>7. \A i \in DOMAIN rcvq' : i \in DOMAIN rcvq /\ rcvq'[i] = rcvq[i]
    BY <1>1
  <1> QED BY <1>a, <1>1, <1>5, <1>6, <1>7, TableStands

(* A part of the table goes from the buffer to the filter. *)
LEMMA PartFiltered ==
  ASSUME Inv, Table, Dumping, Dumping', ScanData
  PROVE  Table'
  <1> DEFINE len == Len(delivered)
  <1>a. TypeOK /\ buf \in Seq(Message) /\ buf # <<>> /\ delivered \in Seq(Message)
    BY DEF Inv, TypeOK, ScanData, Scan
  <1>1. /\ UNCHANGED <<calls, dump, rcvq>> /\ buf' = Tail(buf)
        /\ delivered' = Append(delivered, buf[1])
    BY ScannedIsOwn DEF ScanData, Dumping, kernelVars
  <1>2. 1 \in DOMAIN buf /\ buf[1].id = calls /\ buf[1].type = "DATA"
    BY ScannedIsOwn DEF ScanData
  <1>3. Part(buf[1])
    BY <1>2 DEF Part
  <1>4. ~NoParts(buf) /\ Consecutive(buf, len + 1)
    BY <1>2, <1>3 DEF Table, Buffered, NoParts
  <1>5. len \in Nat /\ Len(buf) \in Nat \ {0}
    BY <1>a
  <1>6. buf[1].item = len + 1
    BY <1>2, <1>4, <1>5 DEF Consecutive, Rank
  <1>7. /\ \A j \in DOMAIN buf' : j \in Nat /\ j + 1 \in DOMAIN buf /\ buf'[j] = buf[j + 1]
        /\ Len(buf') = Len(buf) - 1 /\ DOMAIN buf' = 1 .. Len(buf) - 1
    BY <1>a, <1>1, HeadTailProperties
  <1>8. /\ Len(delivered') = len + 1 /\ delivered'[len + 1] = buf[1]
        /\ \A k \in DOMAIN delivered' : k \in DOMAIN delivered \/ k = len + 1
        /\ \A k \in DOMAIN delivered : delivered'[k] = delivered[k]
    BY <1>a, <1>1
  <1> HIDE DEF len
  <1>9. Filtered'
    BY <1>1, <1>2, <1>6, <1>8 DEF Table, Filtered
  <1>10. \A j \in DOMAIN buf' : Part(buf'[j]) /\ Rank(buf'[j]) = len + 1 + j
    <2> TAKE j \in DOMAIN buf'
    <2>1. Part(buf[j + 1]) /\ Rank(buf[j + 1]) = (len + 1) + (j + 1) - 1
      BY <1>4, <1>7 DEF Consecutive
    <2>2. (len + 1) + (j + 1) - 1 = len + 1 + j
      BY <1>5, <1>7
    <2> QED BY <1>7, <2>1, <2>2
  <1>11. Buffered'
    <2>1. \A j \in DOMAIN buf' : len + 1 + j = Len(delivered') + 1 + j - 1
      BY <1>5, <1>7, <1>8
    <2> QED BY <1>1, <1>10, <2>1 DEF Buffered, Consecutive, Part, Rank
  <1>12. Expected' = Expected
    <2>1. Expected = len + 1 + Len(buf)
      BY <1>4 DEF Expected, len
    <2>2. NoParts(buf)' => DOMAIN buf' = {}
      BY <1>1, <1>10 DEF NoParts, Part
    <2>3. (IF NoParts(buf)' THEN 0 ELSE Len(buf')) = Len(buf) - 1
      BY <1>5, <1>7, <2>2
    <2>4. Expected' = len + 1 + 1 + (Len(buf) - 1)
      BY <1>8, <2>3 DEF Expected
    <2> QED BY <1>5, <2>1, <2>4
  <1>13. \A i \in DOMAIN rcvq' : i \in DOMAIN rcvq /\ rcvq'[i] = rcvq[i]
    BY <1>1
  <1> QED BY <1>a, <1>1, <1>9, <1>11, <1>12, <1>13, TableStands

(* A datagram without parts of the table changes nothing of its way. *)
LEMMA OthersQueued ==
  ASSUME TypeOK, Table, Dumping, Dumping', UNCHANGED <<calls, buf, delivered>>,
         dump' = dump \/ dump'.id # calls,
         \/ rcvq' = rcvq
         \/ \E d : /\ rcvq' = Append(rcvq, d)
                   /\ \A j \in DOMAIN d.msgs : ~Part(d.msgs[j])
  PROVE  Table'
  <1>1. Expected' = Expected /\ Filtered' /\ Buffered'
    BY PassedStands
  <1>2. CASE rcvq' = rcvq
    BY <1>1, <1>2, TableStands
  <1>3. ASSUME NEW d, rcvq' = Append(rcvq, d),
               \A j \in DOMAIN d.msgs : ~Part(d.msgs[j])
        PROVE  Table'
    <2>1. /\ \A i \in DOMAIN rcvq : i \in DOMAIN rcvq' /\ rcvq'[i] = rcvq[i]
          /\ \A i \in DOMAIN rcvq' : i \in DOMAIN rcvq \/ rcvq'[i] = d
      BY <1>3 DEF TypeOK
    <2>2. \A i \in DOMAIN rcvq' : i \in DOMAIN rcvq \/ ~Own(i)'
      BY <1>3, <2>1 DEF Own, NoParts, Part
    <2> QED BY <1>1, <2>1, <2>2, TableStands
  <1> QED BY <1>2, <1>3

(* The messages of a chunk are consecutive parts of the dump's table. *)
LEMMA ChunkConsecutive ==
  ASSUME TypeOK, NEW n \in 0 .. DumpLen, NEW last \in BOOLEAN,
         KernelDumpsChunk(n, last)
  PROVE  \E d : /\ rcvq' = Append(rcvq, d)
                /\ d.msgs \in Seq(Message) /\ d.msgs # <<>>
                /\ Len(d.msgs) = n + (IF last THEN 1 ELSE 0)
                /\ \A j \in DOMAIN d.msgs : d.msgs[j].id = dump.id
                /\ dump.id = calls => Consecutive(d.msgs, dump.next)
  <1> USE ConstantsAssumption
  <1> DEFINE data == [k \in 1 .. n |-> DataItem(k)]
             done == Reply(dump, "DONE")
             msgs == IF last THEN Append(data, done) ELSE data
  <1>1. /\ dump \in ActiveDump /\ dump.next \in Nat /\ done \in Message
        /\ data \in Seq(Message) /\ Len(data) = n
    BY ChunkMessages DEF ActiveDump
  <1>2. msgs \in Seq(Message) /\ Len(msgs) = n + (IF last THEN 1 ELSE 0)
    BY <1>1
  <1>3. msgs # <<>>
    BY <1>2 DEF KernelDumpsChunk
  <1>4. \A k \in 1 .. n : /\ DataItem(k).id = dump.id /\ DataItem(k).type = "DATA"
                         /\ DataItem(k).item = dump.next + k - 1
    BY DEF DataItem, Reply
  <1>5. done.id = dump.id /\ done.type = "DONE"
    BY DEF Reply
  <1>6. last => dump.next + n = DumpLen + 1
    BY DEF KernelDumpsChunk
  <1>7. \A j \in DOMAIN msgs : \/ j \in 1 .. n /\ msgs[j] = DataItem(j)
                               \/ last /\ j = n + 1 /\ msgs[j] = done
    <2> HIDE DEF done
    <2>1. CASE last
      BY <1>1, <2>1
    <2>2. CASE ~last
      BY <1>1, <2>2
    <2> QED BY <2>1, <2>2
  <1>8. rcvq' = Append(rcvq, Packet(msgs)) /\ Packet(msgs).msgs = msgs
    BY DEF KernelDumpsChunk, Packet
  <1> HIDE DEF msgs, data, done
  <1>9. \A j \in DOMAIN msgs : msgs[j].id = dump.id
    BY <1>4, <1>5, <1>7
  <1>10. ASSUME dump.id = calls PROVE Consecutive(msgs, dump.next)
    <2> SUFFICES ASSUME NEW j \in DOMAIN msgs
                 PROVE  Part(msgs[j]) /\ Rank(msgs[j]) = dump.next + j - 1
      BY DEF Consecutive
    <2>1. CASE j \in 1 .. n /\ msgs[j] = DataItem(j)
      BY <1>4, <1>10, <2>1 DEF Part, Rank
    <2>2. CASE last /\ j = n + 1 /\ msgs[j] = done
      <3>1. Part(msgs[j]) /\ Rank(msgs[j]) = DumpLen + 1
        BY <1>5, <1>10, <2>2 DEF Part, Rank
      <3>2. dump.next + j - 1 = dump.next + n
        BY <1>1, <2>2
      <3> QED BY <1>6, <2>2, <3>1, <3>2
    <2> QED BY <1>7, <2>1, <2>2
  <1> QED BY <1>2, <1>3, <1>8, <1>9, <1>10

(* The kernel's steps keep the table on its way. *)
LEMMA TableServed ==
  ASSUME Inv, Table, NotYetAnswered, Dumping, Dumping',
         UNCHANGED daemonVars, calls' = calls, Kernel
  PROVE  Table'
  <1>a. TypeOK /\ SentOnce /\ UNCHANGED <<calls, buf, delivered>>
    BY DEF Inv, daemonVars
  <1>1. CASE KernelCarriesOut \/ KernelRefuses
    <2>1. PICK t \in {"ACK", "ERROR"} : Answer(Head(inbox), t)
      BY <1>1 DEF KernelCarriesOut, KernelRefuses
    <2> DEFINE d == Packet(<<Reply(Head(inbox), t)>>)
    <2>2. \A j \in DOMAIN d.msgs : ~Part(d.msgs[j])
      BY DEF Packet, Reply, Part
    <2>3. rcvq' = rcvq \/ rcvq' = Append(rcvq, d)
      BY <2>1 DEF Answer
    <2>4. dump' = dump
      BY <1>1 DEF KernelCarriesOut, KernelRefuses
    <2> HIDE DEF d
    <2> QED BY <1>a, <2>2, <2>3, <2>4, OthersQueued
  <1>2. CASE KernelStartsDump
    <2>1. rcvq' = rcvq /\ Head(inbox) \in Pending
      BY <1>2, <1>a, PendingTail DEF KernelStartsDump
    <2>2. CASE dump' = dump \/ dump'.id # calls
      BY <1>a, <2>1, <2>2, OthersQueued
    <2>3. CASE dump' # dump /\ dump'.id = calls
      <3>1. dump'.next = 1 /\ Head(inbox).id = calls
        BY <1>2, <2>3 DEF KernelStartsDump
      <3>2. delivered = <<>> /\ \A m \in Arrived : m.id # calls
        BY <2>1, <3>1 DEF NotYetAnswered, Dumping
      <3>3. Arrived' = Arrived
        BY <1>a, <2>1 DEF Arrived
      <3> QED BY <1>a, <3>1, <3>2, <3>3, TableEmpty
    <2> QED BY <2>2, <2>3
  <1>3. ASSUME NEW n \in 0 .. DumpLen, NEW last \in BOOLEAN,
               KernelDumpsChunk(n, last)
        PROVE  Table'
    <2>1. PICK d : /\ rcvq' = Append(rcvq, d)
                   /\ d.msgs \in Seq(Message) /\ d.msgs # <<>>
                   /\ Len(d.msgs) = n + (IF last THEN 1 ELSE 0)
                   /\ \A j \in DOMAIN d.msgs : d.msgs[j].id = dump.id
                   /\ dump.id = calls => Consecutive(d.msgs, dump.next)
      BY <1>3, <1>a, ChunkConsecutive
    <2>2. dump \in ActiveDump
      BY <1>3, <1>a, ChunkMessages
    <2>3. IF last THEN dump' = NoDump
          ELSE dump'.id = dump.id /\ dump'.next = dump.next + n
      BY <1>3, <2>2 DEF KernelDumpsChunk, ActiveDump
    <2>4. NoDump.id # calls
      BY <1>a DEF Inv, Shape, Dumping, NoDump, TypeOK
    <2>5. CASE dump.id = calls
      <3>1. last \/ (dump'.id = calls /\ dump'.next = dump.next + Len(d.msgs))
        BY <2>1, <2>3, <2>5
      <3>2. dump'.id # calls \/ (dump'.id = calls /\ dump'.next = dump.next + Len(d.msgs))
        BY <2>3, <2>4, <3>1
      <3> QED BY <1>a, <2>1, <2>2, <2>5, <3>2, TableGrows
    <2>6. CASE dump.id # calls
      <3>1. dump'.id # calls
        BY <2>3, <2>4, <2>6
      <3>2. \A j \in DOMAIN d.msgs : ~Part(d.msgs[j])
        BY <2>1, <2>6 DEF Part
      <3> QED BY <1>a, <2>1, <3>1, <3>2, OthersQueued
    <2> QED BY <2>5, <2>6
  <1>4. CASE ForeignDatagram
    <2> DEFINE d == [from |-> "user", msgs |-> <<>>]
    <2>1. rcvq' = Append(rcvq, d) /\ dump' = dump
      BY <1>4 DEF ForeignDatagram
    <2>2. DOMAIN d.msgs = {}
      OBVIOUS
    <2> HIDE DEF d
    <2> QED BY <1>a, <2>1, <2>2, OthersQueued
  <1> QED BY <1>1, <1>2, <1>3, <1>4 DEF Kernel

(* Every step keeps the table on its way, in order and without a gap. *)
LEMMA TableNext ==
  ASSUME MaxChunk <= BufMsgs, Inv, Table, NotYetAnswered, Datagrams, [Next]_vars
  PROVE  Table'
  <1>a. TypeOK
    BY DEF Inv
  <1>1. CASE ~Dumping'
    BY <1>1 DEF Table, OwnDatagrams, Filtered, Buffered, Linked, Rising, Served
  <1>2. CASE Dumping' /\ Compose
    <2>1. /\ \A m \in Arrived' : m.id # calls'
          /\ delivered' = <<>> /\ dump'.id # calls'
      BY <1>2, ComposedIsNew
    <2> QED BY <1>2, <2>1, TableEmpty
  <1>3. CASE Dumping' /\ (Pauses \/ Send \/ SendAfterWait)
    <2>1. UNCHANGED <<calls, buf, delivered, rcvq, dump, kind>> /\ Busy
      BY <1>3 DEF Pauses, Send, SendAfterWait, HandToKernel, Busy
    <2>2. Dumping
      BY <1>3, <2>1 DEF Dumping
    <2> QED BY <1>a, <1>3, <2>1, <2>2, OthersQueued
  <1>4. CASE Dumping' /\ (Receive \/ ScanStale \/ ScanData)
    <2>1. Dumping
      BY <1>4 DEF Receive, ScanStale, ScanData, Scan, Dumping, Busy, Reading
    <2> QED BY <1>4, <2>1, TableReceived, StaleSkipped, PartFiltered
  <1>5. CASE Dumping' /\ Busy /\ UNCHANGED daemonVars /\ calls' = calls /\ Kernel
    <2>1. Dumping
      BY <1>5 DEF Dumping, daemonVars
    <2> QED BY <1>5, <2>1, TableServed
  <1>6. ~Busy' => ~Dumping'
    BY DEF Dumping
  <1> QED BY <1>1, <1>2, <1>3, <1>4, <1>5, <1>6, DumpSteps

(* Every step keeps what a dump that ended well has delivered; one ends well
   only when the end of its table has its turn. *)
LEMMA DumpIsCompleteNext ==
  ASSUME Inv, Table, NotAcknowledged, DumpIsComplete, [Next]_vars
  PROVE  DumpIsComplete'
  <1> USE ConstantsAssumption
  <1>a. TypeOK /\ delivered \in Seq(Message)
    BY DEF Inv, TypeOK
  <1>1. CASE ScanAnswer
    <2> SUFFICES ASSUME kind = "dump", result' = "ok"
                 PROVE  /\ Len(delivered) = DumpLen
                        /\ \A k \in 1 .. DumpLen : /\ delivered[k].id = calls
                                                   /\ delivered[k].item = k
      BY <1>1 DEF ScanAnswer, Leave, DumpIsComplete
    <2>1. Dumping
      BY <1>1 DEF ScanAnswer, Scan, Dumping, Busy, Reading
    <2>2. /\ buf[1] \in Arrived /\ buf[1].id = calls /\ 1 \in DOMAIN buf
          /\ buf[1].type \in {"DONE", "ACK"}
      BY <1>1, ScannedIsOwn DEF ScanAnswer, Leave
    <2>3. buf[1].type = "DONE"
      BY <2>1, <2>2 DEF NotAcknowledged
    <2>4. Part(buf[1]) /\ Rank(buf[1]) = DumpLen + 1
      BY <2>2, <2>3 DEF Part, Rank
    <2>5. Consecutive(buf, Len(delivered) + 1)
      BY <2>1, <2>2, <2>4 DEF Table, Buffered, NoParts
    <2>6. DumpLen + 1 = Len(delivered) + 1 + 1 - 1
      BY <2>2, <2>4, <2>5 DEF Consecutive
    <2>7. Len(delivered) = DumpLen /\ DOMAIN delivered = 1 .. DumpLen
      BY <1>a, <2>6
    <2> QED BY <2>1, <2>7 DEF Table, Filtered
  <1>2. CASE Busy' \/ result' \in {"none", "failed"}
    BY <1>2 DEF DumpIsComplete
  <1>3. CASE ~Busy /\ UNCHANGED <<kind, result, delivered, calls>>
    BY <1>3 DEF DumpIsComplete
  <1>4. CASE \/ Calls \/ OpenCommandSocketFails \/ ReceiveForeign \/ ReceiveOverrun
             \/ ReceiveClosed \/ ReceiveBroken \/ WaitTimeout \/ WaitInterrupted
    BY <1>2, <1>4
    DEF Calls, Call, OpenCommandSocketFails, ReceiveForeign, ReceiveOverrun,
        ReceiveClosed, ReceiveBroken, WaitTimeout, WaitInterrupted, Leave
  <1>5. CASE OpenCommandSocket
    BY <1>3, <1>5 DEF OpenCommandSocket, Busy, Reading
  <1>6. CASE SendFails \/ SendWaitFails
    <2>1. Leave("failed") \/ pc' = "recv"
      BY <1>6 DEF SendFails, SendWaitFails, NotSent
    <2> QED BY <1>2, <2>1 DEF Leave, Busy, Reading
  <1>7. CASE \/ Compose \/ Send \/ SendAfterWait \/ SendAgain \/ StartWait
             \/ ScanEnd \/ Receive \/ ScanStale \/ ScanData
    <2>1. Busy'
      BY <1>7 DEF Compose, Send, SendAfterWait, HandToKernel, SendAgain, StartWait,
                  ScanEnd, Receive, ScanStale, ScanData, Scan, Busy, Reading
    <2> QED BY <1>2, <2>1
  <1>8. CASE Kernel \/ UNCHANGED vars
    <2>1. UNCHANGED daemonVars /\ calls' = calls
      BY <1>8 DEF Kernel, KernelCarriesOut, KernelRefuses, KernelStartsDump,
                  KernelDumpsChunk, ForeignDatagram, vars
    <2>2. Busy' <=> Busy
      BY <2>1 DEF daemonVars, Busy, Reading
    <2> QED BY <1>2, <1>3, <2>1, <2>2 DEF daemonVars
  <1> QED BY <1>1, <1>4, <1>5, <1>6, <1>7, <1>8 DEF Next, Daemon

(* A dump read that returns 0 gave the filter the whole table of its own
   request, in order and each entry once, whatever answers to abandoned
   requests are still in the queue, however the kernel cuts the table into
   datagrams and wherever the waits of netlink_read end: for every size of the
   counter and the table, provided a datagram of the kernel fits the buffer of
   netlink_read.  Where it does not, the run CommandTruncation has the code
   lose entries. *)
THEOREM DumpsAreComplete ==
  ASSUME MaxChunk <= BufMsgs
  PROVE  Spec => []DumpIsComplete
  <1>1. Init => DumpInv
    <2> SUFFICES ASSUME Init PROVE DumpInv
      OBVIOUS
    <2>1. ~Busy /\ rcvq = <<>> /\ result = "none"
      BY DEF Init, Busy, Reading
    <2>2. DOMAIN rcvq = {}
      BY <2>1
    <2> QED BY <2>1, <2>2
            DEF DumpInv, Table, OwnRequest, NotYetAnswered, NotAcknowledged, Datagrams,
                OwnDatagrams, Filtered, Buffered, Linked, Rising, Served,
                DumpIsComplete, Dumping
  <1>2. Inv /\ DumpInv /\ [Next]_vars => DumpInv'
    <2> SUFFICES ASSUME Inv, DumpInv, [Next]_vars PROVE DumpInv'
      OBVIOUS
    <2>1. /\ OwnRequest /\ NotYetAnswered /\ NotAcknowledged /\ Datagrams
          /\ Table /\ DumpIsComplete
      BY DEF DumpInv
    <2>2. OwnRequest' /\ NotYetAnswered' /\ NotAcknowledged' /\ Datagrams'
      BY <2>1, OwnRequestNext, NotYetAnsweredNext, NotAcknowledgedNext, DatagramsNext
    <2>3. Table' /\ DumpIsComplete'
      BY <2>1, TableNext, DumpIsCompleteNext
    <2> QED BY <2>2, <2>3 DEF DumpInv
  <1>3. DumpInv => DumpIsComplete
    BY DEF DumpInv
  <1> QED BY <1>1, <1>2, <1>3, Invariance, PTL DEF Spec
===============================================================================
