---------------------------- MODULE NetlinkCommand ----------------------------
(***************************************************************************)
(* The command channel of kernel_netlink.c: the socket nl_command, the     *)
(* functions that send one request on it (netlink_talk for changes,        *)
(* netlink_send_dump for table dumps), netlink_read waiting for the answer *)
(* (answer = 1), kernel_dump, which runs several dumps one after the       *)
(* other, and the reopening of the socket by kernel_route and kernel_dump. *)
(*                                                                         *)
(* The daemon is one thread: pc says where it is in the code.  The kernel  *)
(* is external: it takes requests from inbox in order, and puts datagrams  *)
(* into the receive queue rcvq, at its own pace.  The 100 ms waits of the  *)
(* code (wait_for_fd) may end before the kernel has answered, so answers   *)
(* to abandoned requests may be found in rcvq by a later call; the code    *)
(* tells them apart by nlmsg_seq alone, an unsigned short that wraps.      *)
(*                                                                         *)
(* Every message also carries the unwrapped number of its request (id), a  *)
(* history field that no guard of the daemon reads.  The port check of     *)
(* netlink_read (nlmsg_pid) is implied here: what the kernel puts into     *)
(* this queue is addressed to this socket.                                 *)
(***************************************************************************)
EXTENDS Integers, Sequences, FiniteSets

CONSTANTS
  SeqMod,        \* nl_command.seqno wraps at SeqMod (2^16 in the code)
  UIntMod,       \* an unsigned int wraps at UIntMod (2^32 in the code)
  MsgLen,        \* nlmsg_len of a request, and what sendmsg returns for it
  MaxRounds,     \* dumps in one kernel_dump: at most 5
  DumpLen,       \* data messages in the answer to one dump
  MaxChunk,      \* messages the kernel packs into one datagram
  BufMsgs,       \* messages that fit into netlink_read's buf[8192]
  FilterResults, \* what filter_netlink may return: {0}, or {-1, 0}
  MaxLag,        \* bound: how far behind the calls the kernel may be
  MaxCalls,      \* bound: requests composed in a behaviour
  MaxFaults      \* bound: failures of the environment in a behaviour

(* A sequence number distinguishes the requests that can be outstanding
   together; the C types are wide enough for a message length and -1. *)
ASSUME ConstantsAssumption ==
  /\ SeqMod \in Nat /\ MaxRounds \in Nat \ {0} /\ MaxRounds <= SeqMod
  /\ MaxLag \in Nat /\ MaxLag < SeqMod
  /\ MsgLen \in Nat \ {0} /\ UIntMod \in Nat /\ MsgLen < UIntMod
  /\ DumpLen \in Nat /\ MaxChunk \in Nat \ {0} /\ BufMsgs \in Nat \ {0}
  /\ FilterResults \in SUBSET Int
  /\ MaxCalls \in Nat /\ MaxFaults \in Nat

VARIABLES
  sock,       \* is nl_command.sock open?
  seqno,      \* nl_command.seqno
  pc,         \* where the daemon is
  kind,       \* the call in progress: "talk" or "dump"
  checks,     \* does the caller reopen a closed socket?
  todo,       \* requests this call has still to compose
  skip,       \* netlink_read's skip flag
  buf,        \* messages of the datagram being scanned
  delivered,  \* what this netlink_read passed to the filter
  result,     \* how the last netlink_read, or the attempt to send, ended
  calls,      \* requests composed so far: the id of the last one
  fate,       \* history: what became of each request
  inbox,      \* kernel: requests not yet processed
  rcvq,       \* receive queue of nl_command: datagrams
  overrun,    \* kernel: an answer did not fit, ENOBUFS is pending
  dump,       \* kernel: the dump being served on this socket
  faults      \* failures so far

daemonVars == <<pc, kind, checks, todo, skip, buf, delivered, result>>
socketVars == <<sock, seqno>>
kernelVars == <<inbox, rcvq, overrun, dump>>
vars == <<daemonVars, socketVars, kernelVars, calls, fate, faults>>

Ids == 1 .. MaxCalls
Seqnos == 0 .. SeqMod - 1
Kinds == {"talk", "dump"}

Message == [id : Ids, seq : Seqnos, type : {"ACK", "ERROR", "DONE", "DATA"},
            item : 0 .. DumpLen]
Datagram == [from : {"kernel", "user"}, msgs : Seq(Message)]
(* live: the socket the request came from is still open. *)
Request == [id : Ids, seq : Seqnos, kind : Kinds, live : BOOLEAN]
NoDump == [id |-> 0, seq |-> 0, next |-> 0]
ActiveDump == [id : Ids, seq : Seqnos, next : 1 .. DumpLen + 1]

(* A call is between composing its request and getting its answer. *)
Reading == pc \in {"recv", "wait", "scan"}
Busy == Reading \/ pc \in {"send", "sendwait"}

TypeOK ==
  /\ sock \in BOOLEAN /\ seqno \in Seqnos
  /\ pc \in {"idle", "open", "compose", "send", "sendwait",
             "recv", "wait", "scan"}
  /\ kind \in Kinds /\ checks \in BOOLEAN /\ todo \in 0 .. MaxRounds
  /\ skip \in BOOLEAN /\ buf \in Seq(Message) /\ delivered \in Seq(Message)
  /\ result \in {"none", "ok", "refused", "failed"}
  /\ calls \in 0 .. MaxCalls
  /\ fate \in [Ids -> {"unsent", "queued", "done", "refused"}]
  /\ inbox \in Seq(Request) /\ rcvq \in Seq(Datagram) /\ overrun \in BOOLEAN
  /\ dump \in ActiveDump \cup {NoDump}
  /\ faults \in 0 .. MaxFaults

(* The state kernel_setup(1) leaves behind. *)
Init ==
  /\ sock = TRUE /\ seqno \in Seqnos
  /\ pc = "idle" /\ kind = "talk" /\ checks = TRUE /\ todo = 0
  /\ skip = FALSE /\ buf = <<>> /\ delivered = <<>> /\ result = "none"
  /\ calls = 0 /\ fate = [i \in Ids |-> "unsent"]
  /\ inbox = <<>> /\ rcvq = <<>> /\ overrun = FALSE /\ dump = NoDump
  /\ faults = 0

Fault == faults < MaxFaults /\ faults' = faults + 1

-------------------------------------------------------------------------------
(* Calls. *)

(* The messages the daemon may still read, the requests the kernel has still
   to process, and the requests of this socket to which an answer is still to
   come or to be read. *)
Arrived ==
  {buf[i] : i \in DOMAIN buf}
  \cup UNION {{rcvq[i].msgs[j] : j \in DOMAIN rcvq[i].msgs} : i \in DOMAIN rcvq}
Pending == {inbox[i] : i \in DOMAIN inbox}
Outstanding ==
  {m.id : m \in Arrived} \cup {r.id : r \in {q \in Pending : q.live}}
  \cup (IF dump = NoDump THEN {} ELSE {dump.id})

(* Mutant of Call: the socket is opened anew although it is open. *)
CallReopens(k, c, rounds) ==
  /\ pc = "idle"
  /\ k = "talk" => rounds = 1
  /\ k = "dump" => c
  /\ calls + rounds <= MaxCalls
  /\ \A i \in Outstanding : calls + rounds - i <= MaxLag
  /\ pc' = IF c THEN "open" ELSE "compose"
  /\ kind' = k /\ checks' = c /\ todo' = rounds
  /\ result' = "none"
  /\ UNCHANGED <<skip, buf, delivered, socketVars, kernelVars, calls, fate,
                 faults>>

(* kernel_route (k = "talk", c = TRUE), add_rule and flush_rule ("talk",
   FALSE: they never reopen the socket) and kernel_dump ("dump", TRUE, one
   round for each family and kind of table asked for).  MaxLag bounds how
   late the kernel may be: with the code's 2^16 numbers and waits of 100 ms
   it stands for a kernel silent for more than an hour. *)
Call(k, c, rounds) ==
  /\ pc = "idle"
  /\ k = "talk" => rounds = 1
  /\ k = "dump" => c
  /\ calls + rounds <= MaxCalls
  /\ \A i \in Outstanding : calls + rounds - i <= MaxLag
  /\ pc' = IF c /\ ~sock THEN "open" ELSE "compose"
  /\ kind' = k /\ checks' = c /\ todo' = rounds
  /\ result' = "none"
  /\ UNCHANGED <<skip, buf, delivered, socketVars, kernelVars, calls, fate,
                 faults>>

(* Leave netlink_read, or a send that failed, with r; kernel_dump goes on
   with its next round only after "ok". *)
Leave(r) ==
  /\ result' = r
  /\ IF r = "ok" /\ todo > 0 THEN pc' = "compose" /\ UNCHANGED todo
                             ELSE pc' = "idle" /\ todo' = 0
  /\ buf' = <<>>
  /\ UNCHANGED <<kind, checks, skip>>

(* netlink_socket(&nl_command, 0): a fresh socket with an empty queue and a
   sequence number taken from the clock.  On failure the socket is closed
   again, perhaps after the clock was read. *)
OpenCommandSocket ==
  /\ pc = "open"
  /\ sock' = TRUE
  /\ seqno' \in Seqnos
  /\ pc' = "compose"
  /\ UNCHANGED <<kind, checks, todo, skip, buf, delivered, result, kernelVars,
                 calls, fate, faults>>

OpenCommandSocketFails ==
  /\ pc = "open"
  /\ Fault
  /\ seqno' \in Seqnos
  /\ Leave("failed")
  /\ UNCHANGED <<delivered, sock, kernelVars, calls, fate>>

(* Mutant of NextSeq: the counter is wider than it is compared. *)
NextSeqWide(s) == s + 1

(* ++nl_command.seqno *)
NextSeq(s) == IF s = SeqMod - 1 THEN 0 ELSE s + 1

(* The head of netlink_talk and netlink_send_dump: number the request. *)
Compose ==
  /\ pc = "compose"
  /\ calls' = calls + 1
  /\ seqno' = NextSeq(seqno)
  /\ todo' = todo - 1
  /\ pc' = "send"
  /\ skip' = FALSE
  /\ delivered' = <<>>
  /\ UNCHANGED <<kind, checks, buf, result, sock, kernelVars, fate, faults>>

-------------------------------------------------------------------------------
(* Sending. *)

(* sendmsg succeeds: the request is queued for the kernel. *)
HandToKernel ==
  /\ sock
  /\ inbox' = Append(inbox, [id |-> calls, seq |-> seqno, kind |-> kind,
                             live |-> TRUE])
  /\ fate' = [fate EXCEPT ![calls] = "queued"]
  /\ pc' = "recv"
  /\ UNCHANGED <<kind, checks, todo, skip, buf, delivered, result, socketVars,
                 rcvq, overrun, dump, calls, faults>>

(* The test "if(rc < nh->nlmsg_len)" compares the int rc with a __u32, so
   that rc is converted to unsigned first: a sendmsg (or wait_for_fd) that
   returned -1 does not count as short. *)
AsUnsigned(rc) == rc % UIntMod
ShortSend(rc) == AsUnsigned(rc) < MsgLen

(* The request was not sent and the last call returned rc. *)
NotSent(rc) ==
  /\ IF ShortSend(rc)
     THEN Leave("failed")
     ELSE pc' = "recv" /\ UNCHANGED <<kind, checks, todo, skip, buf, result>>
  /\ UNCHANGED <<delivered, socketVars, kernelVars, calls, fate>>

Send == pc = "send" /\ HandToKernel

(* sendmsg returns -1: EBADF on a closed socket, or any other error; in
   netlink_send_dump, EAGAIN and EINTR too. *)
SendFails ==
  /\ pc = "send"
  /\ IF sock THEN Fault ELSE UNCHANGED faults
  /\ NotSent(-1)

(* netlink_talk only: EAGAIN or EINTR, wait 100 ms for room. *)
SendAgain ==
  /\ pc = "send" /\ kind = "talk" /\ sock
  /\ Fault
  /\ pc' = "sendwait"
  /\ UNCHANGED <<kind, checks, todo, skip, buf, delivered, result, socketVars,
                 kernelVars, calls, fate>>

SendAfterWait == pc = "sendwait" /\ HandToKernel

(* The wait timed out (0), was interrupted (-1), or the second sendmsg
   failed (-1). *)
SendWaitFails ==
  /\ pc = "sendwait"
  /\ \E rc \in {0, -1} : NotSent(rc)
  /\ UNCHANGED faults

-------------------------------------------------------------------------------
(* netlink_read(&nl_command, NULL, 1, filter). *)

(* What recvmsg can place into the buffer; the rest of a longer datagram is
   lost (MSG_TRUNC is only logged). *)
FitBuffer(msgs) ==
  IF Len(msgs) > BufMsgs THEN SubSeq(msgs, 1, BufMsgs) ELSE msgs

(* recvmsg, the first one or the one after a wait, returns a datagram from
   the kernel. *)
Receive ==
  /\ pc \in {"recv", "wait"} /\ sock /\ ~overrun
  /\ rcvq # <<>> /\ Head(rcvq).from = "kernel"
  /\ buf' = FitBuffer(Head(rcvq).msgs)
  /\ rcvq' = Tail(rcvq)
  /\ pc' = "scan"
  /\ UNCHANGED <<kind, checks, todo, skip, delivered, result, socketVars,
                 inbox, overrun, dump, calls, fate, faults>>

(* "message not sent by kernel": the datagram is consumed and the call
   fails, whatever the kernel has to say later. *)
ReceiveForeign ==
  /\ pc \in {"recv", "wait"} /\ sock /\ ~overrun
  /\ rcvq # <<>> /\ Head(rcvq).from = "user"
  /\ rcvq' = Tail(rcvq)
  /\ Leave("failed")
  /\ UNCHANGED <<delivered, socketVars, inbox, overrun, dump, calls, fate, faults>>

(* recvmsg reports the pending ENOBUFS. *)
ReceiveOverrun ==
  /\ pc \in {"recv", "wait"} /\ sock /\ overrun
  /\ overrun' = FALSE
  /\ Leave("failed")
  /\ UNCHANGED <<delivered, socketVars, inbox, rcvq, dump, calls, fate, faults>>

(* recvmsg on sock = -1: EBADF. *)
ReceiveClosed ==
  /\ pc = "recv" /\ ~sock
  /\ Leave("failed")
  /\ UNCHANGED <<delivered, socketVars, kernelVars, calls, fate, faults>>

(* End of file, or an unexpected address length: socket_error closes the
   socket.  The kernel still processes what it was sent, but its answers
   have nowhere to go. *)
ReceiveBroken ==
  /\ pc \in {"recv", "wait"} /\ sock
  /\ Fault
  /\ sock' = FALSE
  /\ rcvq' = <<>> /\ overrun' = FALSE /\ dump' = NoDump
  /\ inbox' = [i \in DOMAIN inbox |-> [inbox[i] EXCEPT !.live = FALSE]]
  /\ Leave("failed")
  /\ UNCHANGED <<delivered, seqno, calls, fate>>

(* EAGAIN: wait 100 ms for a datagram. *)
StartWait ==
  /\ pc = "recv" /\ sock /\ rcvq = <<>> /\ ~overrun
  /\ pc' = "wait"
  /\ UNCHANGED <<kind, checks, todo, skip, buf, delivered, result, socketVars,
                 kernelVars, calls, fate, faults>>

(* Mutants of WaitTimeout: the request is sent again; the wait starts again. *)
WaitTimeoutResends ==
  /\ pc = "wait" /\ rcvq = <<>> /\ ~overrun
  /\ pc' = "send"
  /\ UNCHANGED <<kind, checks, todo, skip, buf, delivered, result, socketVars,
                 kernelVars, calls, fate, faults>>
WaitTimeoutRepeats ==
  /\ pc = "wait" /\ rcvq = <<>> /\ ~overrun
  /\ pc' = "recv"
  /\ UNCHANGED <<kind, checks, todo, skip, buf, delivered, result, socketVars,
                 kernelVars, calls, fate, faults>>

(* Nothing came in time. *)
WaitTimeout ==
  /\ pc = "wait" /\ rcvq = <<>> /\ ~overrun
  /\ Leave("failed")
  /\ UNCHANGED <<delivered, socketVars, kernelVars, calls, fate, faults>>

(* The wait was interrupted by a signal, or the recvmsg after it failed. *)
WaitInterrupted ==
  /\ pc = "wait"
  /\ Fault
  /\ Leave("failed")
  /\ UNCHANGED <<delivered, socketVars, kernelVars, calls, fate>>

(* The loop over the messages of a datagram: one action per branch. *)
Scan == pc = "scan" /\ buf # <<>>
(* Mutant of Matches: the number is not compared. *)
MatchesAny(m) == m.id \in Ids
Matches(m) == m.seq = seqno

ScanStale ==
  /\ Scan /\ ~Matches(Head(buf))
  /\ buf' = Tail(buf)
  /\ UNCHANGED <<pc, kind, checks, todo, skip, delivered, result, socketVars,
                 kernelVars, calls, fate, faults>>

(* Mutant of ScanAnswer: an error is taken for an acknowledgement. *)
ScanAnswerDeaf ==
  /\ Scan /\ Matches(Head(buf))
  /\ Head(buf).type \in {"DONE", "ACK", "ERROR"} /\ Leave("ok")
  /\ UNCHANGED <<delivered, socketVars, kernelVars, calls, fate, faults>>

(* NLMSG_DONE and an acknowledgement end the read with 0, an error with -1
   and the kernel's errno. *)
ScanAnswer ==
  /\ Scan /\ Matches(Head(buf))
  /\ \/ Head(buf).type \in {"DONE", "ACK"} /\ Leave("ok")
     \/ Head(buf).type = "ERROR" /\ Leave("refused")
  /\ UNCHANGED <<delivered, socketVars, kernelVars, calls, fate, faults>>

(* A data message goes to the filter, if there is one: skip is set by a
   filter that fails, and tested only to log "(skip)". *)
ScanData ==
  /\ Scan /\ Matches(Head(buf)) /\ Head(buf).type = "DATA"
  /\ buf' = Tail(buf)
  /\ IF kind = "dump"
     THEN \E err \in FilterResults :
            /\ delivered' = Append(delivered, Head(buf))
            /\ skip' = (skip \/ err < 0)
     ELSE UNCHANGED <<delivered, skip>>
  /\ UNCHANGED <<pc, kind, checks, todo, result, socketVars, kernelVars,
                 calls, fate, faults>>

(* The datagram is exhausted and nothing ended the read. *)
ScanEnd ==
  /\ pc = "scan" /\ buf = <<>>
  /\ pc' = "recv"
  /\ UNCHANGED <<kind, checks, todo, skip, buf, delivered, result, socketVars,
                 kernelVars, calls, fate, faults>>

-------------------------------------------------------------------------------
(* The kernel (external). *)

Reply(r, type) == [id |-> r.id, seq |-> r.seq, type |-> type, item |-> 0]
Packet(msgs) == [from |-> "kernel", msgs |-> msgs]

(* The answer to r reaches the queue, or finds it full, or finds the socket
   gone. *)
Answer(r, type) ==
  \/ /\ r.live
     /\ rcvq' = Append(rcvq, Packet(<<Reply(r, type)>>))
     /\ UNCHANGED <<overrun, faults>>
  \/ /\ r.live /\ Fault
     /\ overrun' = TRUE
     /\ UNCHANGED rcvq
  \/ ~r.live /\ UNCHANGED <<rcvq, overrun, faults>>

KernelCarriesOut ==
  /\ inbox # <<>> /\ Head(inbox).kind = "talk"
  /\ inbox' = Tail(inbox)
  /\ fate' = [fate EXCEPT ![Head(inbox).id] = "done"]
  /\ Answer(Head(inbox), "ACK")
  /\ UNCHANGED <<daemonVars, socketVars, dump, calls>>

(* An invalid change, or a dump while another one is running (EBUSY). *)
KernelRefuses ==
  /\ inbox # <<>>
  /\ inbox' = Tail(inbox)
  /\ fate' = [fate EXCEPT ![Head(inbox).id] = "refused"]
  /\ Answer(Head(inbox), "ERROR")
  /\ UNCHANGED <<daemonVars, socketVars, dump, calls>>

(* A dump starts, unless one is running.  With the socket gone it has no
   effect at all. *)
KernelStartsDump ==
  /\ inbox # <<>> /\ Head(inbox).kind = "dump"
  /\ Head(inbox).live => dump = NoDump
  /\ inbox' = Tail(inbox)
  /\ dump' = IF Head(inbox).live
             THEN [id |-> Head(inbox).id, seq |-> Head(inbox).seq, next |-> 1]
             ELSE dump
  /\ UNCHANGED <<daemonVars, socketVars, rcvq, overrun, calls, fate, faults>>

(* The dump continues with a datagram of n data messages, the last one
   possibly followed by NLMSG_DONE. *)
DataItem(k) == [Reply(dump, "DATA") EXCEPT !.item = dump.next + k - 1]
KernelDumpsChunk(n, last) ==
  /\ dump # NoDump
  /\ dump.next + n <= DumpLen + 1
  /\ last => dump.next + n = DumpLen + 1
  /\ n + (IF last THEN 1 ELSE 0) \in 1 .. MaxChunk
  /\ LET data == [k \in 1 .. n |-> DataItem(k)]
     IN  rcvq' = Append(rcvq, Packet(
                   IF last THEN Append(data, Reply(dump, "DONE")) ELSE data))
  /\ dump' = IF last THEN NoDump ELSE [dump EXCEPT !.next = @ + n]
  /\ fate' = IF last THEN [fate EXCEPT ![dump.id] = "done"] ELSE fate
  /\ UNCHANGED <<daemonVars, socketVars, inbox, overrun, calls, faults>>

(* Some process sends a datagram to the daemon's port. *)
ForeignDatagram ==
  /\ sock
  /\ Fault
  /\ rcvq' = Append(rcvq, [from |-> "user", msgs |-> <<>>])
  /\ UNCHANGED <<daemonVars, socketVars, inbox, overrun, dump, calls, fate>>

-------------------------------------------------------------------------------
Calls ==
  \E k \in Kinds, c \in BOOLEAN, rounds \in 1 .. MaxRounds : Call(k, c, rounds)

Daemon ==
  \/ OpenCommandSocket \/ OpenCommandSocketFails \/ Compose
  \/ Send \/ SendFails \/ SendAgain \/ SendAfterWait \/ SendWaitFails
  \/ Receive \/ ReceiveForeign \/ ReceiveOverrun \/ ReceiveClosed
  \/ ReceiveBroken \/ StartWait \/ WaitTimeout \/ WaitInterrupted
  \/ ScanStale \/ ScanAnswer \/ ScanData \/ ScanEnd

Kernel ==
  \/ KernelCarriesOut \/ KernelRefuses \/ KernelStartsDump
  \/ \E n \in 0 .. DumpLen, last \in BOOLEAN : KernelDumpsChunk(n, last)
  \/ ForeignDatagram

Next == Calls \/ Daemon \/ Kernel

Spec == Init /\ [][Next]_vars

(* The daemon's thread keeps running once a call is made: every wait of the
   code is bounded by 100 ms.  Nothing is assumed of the kernel. *)
FairSpec == Spec /\ WF_vars(Daemon)

-------------------------------------------------------------------------------
(* Properties. *)

(* A caller is told the fate of its own request: netlink_read returns 0 for
   a change only if the kernel carried out THIS change, and an errno of the
   kernel only if it refused THIS one, although answers to abandoned
   requests may still be in the queue and numbers are reused. *)
AnswerIsOwn ==
  ~Busy => /\ result = "ok" => fate[calls] = "done"
           /\ result = "refused" => fate[calls] = "refused"

(* A dump read that returns 0 gave the filter the whole table of its own
   request, in order, each entry once, and nothing of an earlier dump that
   was given up (netlink_read, kernel_dump). *)
DumpIsComplete ==
  ~Busy /\ kind = "dump" /\ result = "ok" =>
    /\ Len(delivered) = DumpLen
    /\ \A k \in 1 .. DumpLen : /\ delivered[k].id = calls
                               /\ delivered[k].item = k

(* Neither the retry of sendmsg after a wait nor any later call puts a
   request before the kernel twice: the changes are not idempotent. *)
SentOnce ==
  /\ \A i, j \in DOMAIN inbox : inbox[i].id = inbox[j].id => i = j
  /\ \A i \in DOMAIN inbox : fate[inbox[i].id] = "queued"

(* Every call returns: no lost answer, foreign datagram, late answer or
   closed socket keeps the daemon in netlink_read for ever. *)
CallsReturn == pc # "idle" ~> pc = "idle"

(* The comment on netlink_read: 'answer' must be true when a request has
   just been sent.  So in answer mode a request has been sent. *)
AnswerModeAfterSend == Reading => fate[calls] # "unsent"

(* After the filter failed, the remaining messages are logged as skipped:
   they are not passed to it any more. *)
SkippedNotFiltered == [][skip /\ skip' => delivered' = delivered]_vars

(* The channel implements the abstract remote call. *)
KC == INSTANCE KernelCall WITH
        busy <- Busy,
        fate <- [i \in Ids |-> IF fate[i] \in {"done", "refused"}
                               THEN fate[i] ELSE "open"]
ImplementsKernelCall == KC!Spec

-------------------------------------------------------------------------------
(* The inductive invariant behind AnswerIsOwn and SentOnce. *)

(* Where the daemon is fits what it still has to do: requests left to compose
   are accounted for, and a call that waits for an answer has a request. *)
Shape ==
  /\ pc = "idle" => todo = 0
  /\ pc \in {"open", "compose"} => todo >= 1
  /\ calls + todo <= MaxCalls
  /\ Busy => calls >= 1 /\ todo < MaxRounds
  /\ result \in {"ok", "refused"} => calls >= 1

(* A closed socket has no answers coming, and netlink_read leaves no message
   behind. *)
Socket ==
  /\ ~sock => /\ rcvq = <<>> /\ dump = NoDump
              /\ \A r \in Pending : ~r.live
  /\ pc = "open" => ~sock
  /\ pc \in {"sendwait", "wait", "scan"} => sock
  /\ pc # "scan" => buf = <<>>

(* The number request id had, if seqno is the number of request calls. *)
Back(d) == IF seqno >= d THEN seqno - d ELSE seqno - d + SeqMod
Numbered(id, seq) ==
  /\ id <= calls
  /\ calls + todo - id < SeqMod
  /\ seq = Back(calls - id)

(* What is outstanding on this socket is numbered backwards from seqno, and
   by less than a full turn of the counter. *)
Numbering ==
  /\ \A m \in Arrived : Numbered(m.id, m.seq)
  /\ \A r \in Pending : r.live => Numbered(r.id, r.seq)
  /\ dump # NoDump => Numbered(dump.id, dump.seq)

(* The messages that end a read tell what became of their request. *)
Truthful(m) ==
  /\ m.type \in {"ACK", "DONE"} => fate[m.id] = "done"
  /\ m.type = "ERROR" => fate[m.id] = "refused"
Truth == \A m \in Arrived : Truthful(m)

(* A request is undecided while the kernel has it, and was not sent before it
   was composed. *)
Fates ==
  /\ \A r \in Pending : r.id <= calls
  /\ dump # NoDump => /\ dump.id <= calls /\ fate[dump.id] = "queued"
                      /\ \A r \in Pending : r.id # dump.id
  /\ \A i \in Ids : i > calls => fate[i] = "unsent"
  /\ pc \in {"send", "sendwait"} => fate[calls] = "unsent"

Inv ==
  /\ TypeOK /\ Shape /\ Socket /\ Numbering /\ Truth /\ Fates
  /\ SentOnce /\ AnswerIsOwn
===============================================================================
