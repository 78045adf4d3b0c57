----------------------------- MODULE NetlinkListen -----------------------------
(***************************************************************************)
(* The listening socket of kernel_netlink.c: kernel_setup_socket opens     *)
(* nl_listen, the caller's poll loop watches kernel_socket and calls       *)
(* kernel_callback, which reads one datagram (netlink_read with answer =   *)
(* 0), passes over what nl_command itself has caused (nl_ignore) and gives *)
(* the rest to the filter.  A filter learns that something has changed,    *)
(* not what; to know the routes, the caller dumps them (kernel_dump).      *)
(*                                                                         *)
(* The command socket appears here with its descriptor and its port only:  *)
(* NetlinkCommand has the rest, and its DumpIsComplete is why a dump that  *)
(* succeeds visits every route.  The kernel, other processes, the caller   *)
(* and its check_interfaces are external.                                  *)
(***************************************************************************)
EXTENDS Integers, Sequences

CONSTANTS
  Routes6, Routes4, \* routes of others that the filter is to report
  Pid,              \* the port of the first netlink socket of a process
  OtherPorts,       \* the ports of its further ones
  Elsewhere,        \* the port of some other process
  QueueSize,        \* the notifications the receive buffer of nl_listen holds
  MaxChanges,       \* bound: notifications in a behaviour
  MaxCalls,         \* bound: requests and dumps in a behaviour
  MaxFaults         \* bound: failures in a behaviour

ASSUME ConstantsAssumption ==
  /\ QueueSize \in Nat \ {0}
  /\ {MaxChanges, MaxCalls, MaxFaults} \subseteq Nat
  /\ {Pid, Elsewhere} \cup OtherPorts \subseteq Nat \ {0}
  /\ Pid \notin OtherPorts /\ Elsewhere \notin OtherPorts \cup {Pid}

VARIABLES
  pc,        \* "idle"; in netlink_read: "read", "wait", "scan", "check";
             \* in kernel_dump: "dump"
  up,        \* nl_setup
  listen,    \* nl_listen: [sock, port]
  command,   \* nl_command
  kernel_socket, \* what the caller polls
  queue,     \* the kernel's queue for nl_listen
  overrun,   \* ENOBUFS is pending on it
  buf,       \* the message being scanned
  table,     \* the kernel's routes of others
  todo,      \* the routes the running dump has still to visit
  view,      \* the routes the last dump has given to the filter
  synced,    \* history: the last dump succeeded,
  heard,     \*   a route was reported since it began,
  lost,      \*   a change of table was lost since it began
  changes, calls, faults

sockets == <<up, listen, command, kernel_socket>>
dumping == <<todo, view, synced>>
vars == <<pc, sockets, queue, overrun, buf, table, dumping, heard, lost,
          changes, calls, faults>>

Routes == Routes6 \cup Routes4
KernelPort == 0
None == [kind |-> "none", proto |-> "other", port |-> KernelPort]
Closed(s) == s.sock < 0

Init ==
  /\ pc = "idle" /\ up = TRUE
  /\ command = [sock |-> 3, port |-> Pid]
  /\ listen = [sock |-> -1, port |-> 0] /\ kernel_socket = -1
  /\ queue = <<>> /\ overrun = FALSE /\ buf = None
  /\ table \in SUBSET Routes
  /\ todo = {} /\ view = {} /\ synced = FALSE /\ heard = FALSE /\ lost = FALSE
  /\ changes = 0 /\ calls = 0 /\ faults = 0

Fault == faults < MaxFaults /\ faults' = faults + 1
Called == calls < MaxCalls /\ calls' = calls + 1

-------------------------------------------------------------------------------
(* netlink_socket, with the other socket's descriptor and port in use if it is
   open.  One that fails at socket() leaves the old port in place, one that
   fails later has cleared it. *)
Opened(other) ==
  [sock : {IF other.sock = 3 THEN 4 ELSE 3},
   port : IF ~Closed(other) /\ other.port = Pid THEN OtherPorts ELSE {Pid}]
Unopened(s) == [sock : {-1}, port : {s.port, 0}]

(* kernel_setup_socket(1). *)
SetupSocket(ok) ==
  /\ listen' \in IF ok THEN Opened(command) ELSE Unopened(listen)
  /\ kernel_socket' = IF ok THEN listen'.sock ELSE -1

(* What queue held is gone with nl_listen. *)
News(n) == n.kind = "route" /\ n.proto = "other"
Drained ==
  /\ queue' = <<>> /\ overrun' = FALSE
  /\ lost' = (lost \/ \E i \in DOMAIN queue : News(queue[i]))

(* The caller opens and closes the sockets. *)
ListenSetUp ==
  /\ pc = "idle" /\ kernel_socket < 0
  /\ \E ok \in BOOLEAN : SetupSocket(ok) /\ IF ok THEN UNCHANGED faults ELSE Fault
  /\ UNCHANGED <<pc, up, command, queue, overrun, buf, table, dumping,
                 heard, lost, changes, calls>>

ListenTornDown ==
  /\ pc = "idle" /\ ~Closed(listen) /\ Called
  /\ listen' = [listen EXCEPT !.sock = -1] /\ kernel_socket' = -1
  /\ Drained
  /\ UNCHANGED <<pc, up, command, buf, table, dumping, heard, changes, faults>>

CommandSetUp ==
  /\ pc = "idle" /\ ~up
  /\ \/ command' \in Opened(listen) /\ up' = TRUE /\ UNCHANGED faults
     \/ Fault /\ command' \in Unopened(command) /\ UNCHANGED up
  /\ UNCHANGED <<pc, listen, kernel_socket, queue, overrun, buf, table,
                 dumping, heard, lost, changes, calls>>

CommandTornDown ==
  /\ pc = "idle" /\ up /\ Called
  /\ command' = [command EXCEPT !.sock = -1] /\ up' = FALSE
  /\ UNCHANGED <<pc, listen, kernel_socket, queue, overrun, buf, table,
                 dumping, heard, lost, changes, faults>>

-------------------------------------------------------------------------------
(* Notifications (external): the kernel queues one datagram for each change
   while nl_listen is open; a queue that is full drops it and says so once. *)
Notify(n) ==
  /\ changes < MaxChanges /\ changes' = changes + 1
  /\ \/ /\ ~Closed(listen) /\ ~overrun /\ Len(queue) < QueueSize
        /\ queue' = Append(queue, n) /\ UNCHANGED <<overrun, lost>>
     \/ /\ ~Closed(listen) /\ (overrun \/ Len(queue) = QueueSize)
        /\ overrun' = TRUE /\ lost' = (lost \/ News(n)) /\ UNCHANGED queue
     \/ /\ Closed(listen)
        /\ lost' = (lost \/ News(n)) /\ UNCHANGED <<queue, overrun>>

Message(kind, proto, port) ==
  [kind |-> kind, proto |-> proto, port |-> port]

(* Another process, or the kernel when a link goes down, adds or removes a
   route that is not ours. *)
RouteChanges ==
  \E r \in Routes, port \in {KernelPort, Elsewhere} :
    /\ table' = IF r \in table THEN table \ {r} ELSE table \cup {r}
    /\ Notify(Message("route", "other", port))
    /\ UNCHANGED <<pc, sockets, buf, dumping, heard, calls, faults>>

(* A link changes; the kernel removes a route of ours; another process
   changes a rule. *)
OtherChange ==
  /\ \/ Notify(Message("link", "other", KernelPort))
     \/ Notify(Message("route", "babel", KernelPort))
     \/ Notify(Message("rule", "other", Elsewhere))
  /\ UNCHANGED <<pc, sockets, buf, table, dumping, heard, calls, faults>>

-------------------------------------------------------------------------------
(* The daemon's own requests, from the poll loop or from check_interfaces. *)

(* The request goes out on s, is carried out, and its notification has the
   port of s.  socket_error in the read of the answer closes s. *)
Carried(s, kind) ==
  /\ Notify(Message(kind, "babel", s.port))
  /\ \/ command' = s /\ UNCHANGED faults
     \/ command' = [s EXCEPT !.sock = -1] /\ Fault

(* kernel_route opens nl_command again if it is closed. *)
OwnRoute ==
  /\ pc \in {"idle", "check"} /\ up /\ Called
  /\ \E s \in IF Closed(command) THEN Opened(listen) ELSE {command} : Carried(s, "route")
  /\ UNCHANGED <<pc, up, listen, kernel_socket, buf, table, dumping, heard>>

(* add_rule and flush_rule do not. *)
OwnRule ==
  /\ pc \in {"idle", "check"} /\ ~Closed(command) /\ Called
  /\ Carried(command, "rule")
  /\ UNCHANGED <<pc, up, listen, kernel_socket, buf, table, dumping, heard>>

(* kernel_route or kernel_dump cannot open it. *)
ReopenFails ==
  /\ pc \in {"idle", "check"} /\ up /\ Closed(command) /\ Called
  /\ Fault
  /\ command' \in Unopened(command)
  /\ UNCHANGED <<pc, up, listen, kernel_socket, queue, overrun, buf, table,
                 dumping, heard, lost, changes>>

-------------------------------------------------------------------------------
(* kernel_dump(CHANGE_ROUTE, filter): all IPv6 routes, then all IPv4 ones,
   while the kernel's tables go on changing.  What the caller has heard and
   seen before no longer counts. *)
DumpStarts ==
  /\ pc = "idle" /\ up /\ Called
  /\ command' \in IF Closed(command) THEN Opened(listen) ELSE {command}
  /\ pc' = "dump" /\ todo' = Routes /\ view' = {}
  /\ synced' = FALSE /\ heard' = FALSE /\ lost' = FALSE
  /\ UNCHANGED <<up, listen, kernel_socket, queue, overrun, buf, table,
                 changes, faults>>

Round == IF todo \cap Routes6 # {} THEN todo \cap Routes6 ELSE todo
DumpVisits ==
  /\ pc = "dump"
  /\ \E r \in Round : /\ todo' = todo \ {r}
                      /\ view' = view \cup ({r} \cap table)
  /\ UNCHANGED <<pc, sockets, queue, overrun, buf, table, synced, heard,
                 lost, changes, calls, faults>>

(* Mutant of DumpSucceeds: the first datagram ends the dump. *)
DumpSucceedsEarly ==
  /\ pc = "dump"
  /\ pc' = "idle" /\ synced' = TRUE
  /\ UNCHANGED <<sockets, queue, overrun, buf, table, todo, view, heard,
                 lost, changes, calls, faults>>
DumpSucceeds ==
  /\ pc = "dump" /\ todo = {}
  /\ pc' = "idle" /\ synced' = TRUE
  /\ UNCHANGED <<sockets, queue, overrun, buf, table, todo, view, heard,
                 lost, changes, calls, faults>>

(* It returns -1, with nl_command possibly closed; what it gave is no view of
   the routes. *)
DumpFails ==
  /\ pc = "dump" /\ Fault
  /\ pc' = "idle" /\ todo' = {} /\ view' = {}
  /\ command' \in {command, [command EXCEPT !.sock = -1]}
  /\ UNCHANGED <<up, listen, kernel_socket, queue, overrun, buf, table,
                 synced, heard, lost, changes, calls>>

-------------------------------------------------------------------------------
(* kernel_callback, called by the poll loop. *)

Readable == queue # <<>> \/ overrun

Callback ==
  /\ pc = "idle" /\ ~Closed(listen) /\ Readable
  /\ pc' = "read"
  /\ UNCHANGED <<sockets, queue, overrun, buf, table, dumping, heard, lost,
                 changes, calls, faults>>

(* nl_listen is closed: it is opened first. *)
CallbackOpens ==
  /\ pc = "idle" /\ Closed(listen) /\ Called
  /\ \E ok \in BOOLEAN :
       /\ SetupSocket(ok)
       /\ IF ok THEN pc' = "read" /\ UNCHANGED faults
                ELSE pc' = "idle" /\ Fault
  /\ UNCHANGED <<up, command, queue, overrun, buf, table, dumping, heard, lost,
                 changes>>

Receiving == pc \in {"read", "wait"}

Receive ==
  /\ Receiving /\ ~overrun /\ queue # <<>>
  /\ buf' = Head(queue) /\ queue' = Tail(queue) /\ pc' = "scan"
  /\ UNCHANGED <<sockets, overrun, table, dumping, heard, lost,
                 changes, calls, faults>>

(* A message longer than the buffer is not NLMSG_OK: the datagram has none,
   done is not set, and the next one is read. *)
ReceiveTooLong ==
  /\ Receiving /\ ~overrun /\ queue # <<>> /\ Fault
  /\ queue' = Tail(queue) /\ pc' = "read"
  /\ lost' = (lost \/ News(Head(queue)))
  /\ UNCHANGED <<sockets, overrun, buf, table, dumping, heard, changes, calls>>

(* ENOBUFS: netlink_read returns -1, kernel_callback 0. *)
(* Mutant of ReceiveOverrun: the error stays. *)
ReceiveOverrunStays ==
  /\ Receiving /\ overrun
  /\ pc' = "idle"
  /\ UNCHANGED <<sockets, queue, overrun, buf, table, dumping, heard, lost,
                 changes, calls, faults>>
ReceiveOverrun ==
  /\ Receiving /\ overrun
  /\ overrun' = FALSE /\ pc' = "idle"
  /\ UNCHANGED <<sockets, queue, buf, table, dumping, heard, lost, changes,
                 calls, faults>>

(* A datagram of another process, or any other error of recvmsg. *)
ReceiveFails ==
  /\ Receiving /\ Fault
  /\ pc' = "idle"
  /\ UNCHANGED <<sockets, queue, overrun, buf, table, dumping, heard, lost,
                 changes, calls>>

(* End of file or an unexpected address: socket_error closes nl_listen, and
   kernel_callback opens it again. *)
(* Mutant of ReceiveBroken: kernel_callback does not. *)
ReceiveBrokenLeaves ==
  /\ Receiving /\ Fault
  /\ listen' = [listen EXCEPT !.sock = -1]
  /\ pc' = "idle"
  /\ Drained
  /\ UNCHANGED <<up, command, kernel_socket, buf, table, dumping, heard,
                 changes, calls>>
ReceiveBroken ==
  /\ Receiving /\ Fault
  /\ \E ok \in BOOLEAN : SetupSocket(ok)
  /\ pc' = "idle"
  /\ Drained
  /\ UNCHANGED <<up, command, buf, table, dumping, heard, changes, calls>>

(* EAGAIN: wait 100 ms, once. *)
StartWait ==
  /\ pc = "read" /\ ~Readable
  /\ pc' = "wait"
  /\ UNCHANGED <<sockets, queue, overrun, buf, table, dumping, heard, lost,
                 changes, calls, faults>>

(* Mutant of WaitEnds: the read is repeated for as long as it takes. *)
WaitEndsNever ==
  /\ pc = "wait" /\ ~Readable
  /\ pc' = "read"
  /\ UNCHANGED <<sockets, queue, overrun, buf, table, dumping, heard, lost,
                 changes, calls, faults>>
WaitEnds ==
  /\ pc = "wait" /\ ~Readable
  /\ pc' = "idle"
  /\ UNCHANGED <<sockets, queue, overrun, buf, table, dumping, heard, lost,
                 changes, calls, faults>>

(* The loop over the one message of a notification. *)
(* Mutant of Ignored: the kernel's own changes are ignored too. *)
IgnoredKernel(n) == n.port \in {command.port, KernelPort}
Ignored(n) == n.port = command.port

(* nl_ignore.  While nl_command has no port it stands for the kernel's own
   messages. *)
ScanIgnored ==
  /\ pc = "scan" /\ Ignored(buf)
  /\ pc' = "idle"
  /\ lost' = (lost \/ (News(buf) /\ command.port = KernelPort))
  /\ buf' = None
  /\ UNCHANGED <<sockets, queue, overrun, table, dumping, heard,
                 changes, calls, faults>>

(* RTM_NEWLINK, RTM_DELLINK: check_interfaces is called, then the filter. *)
ScanLink ==
  /\ pc = "scan" /\ ~Ignored(buf) /\ buf.kind = "link"
  /\ pc' = "check"
  /\ UNCHANGED <<sockets, queue, overrun, buf, table, dumping, heard, lost,
                 changes, calls, faults>>

(* filter_netlink: filter_kernel_routes drops the routes of RTPROT_BABEL,
   filter_kernel_rules and filter_link drop nothing. *)
Accepted(n) == n.kind = "route" => n.proto # "babel"
Filter ==
  /\ \/ pc = "scan" /\ ~Ignored(buf) /\ buf.kind # "link"
     \/ pc = "check"
  /\ heard' = (heard \/ (Accepted(buf) /\ buf.kind = "route"))
  /\ pc' = "idle" /\ buf' = None
  /\ UNCHANGED <<sockets, queue, overrun, table, dumping, lost, changes, calls,
                 faults>>

-------------------------------------------------------------------------------
Caller ==
  \/ ListenSetUp \/ ListenTornDown \/ CommandSetUp \/ CommandTornDown
  \/ OwnRoute \/ OwnRule \/ ReopenFails \/ DumpStarts \/ Callback \/ CallbackOpens

(* The steps inside kernel_callback and kernel_dump. *)
Running ==
  \/ DumpVisits \/ DumpSucceeds \/ DumpFails
  \/ Receive \/ ReceiveTooLong \/ ReceiveOverrun \/ ReceiveFails
  \/ ReceiveBroken \/ StartWait \/ WaitEnds
  \/ ScanIgnored \/ ScanLink \/ Filter

Kernel == RouteChanges \/ OtherChange

Next == Caller \/ Running \/ Kernel

Spec == Init /\ [][Next]_vars

(* The thread runs on inside a call, every wait of which ends after 100 ms,
   and the poll loop calls kernel_callback when kernel_socket is readable. *)
FairSpec == Spec /\ WF_vars(Running) /\ WF_vars(Callback)

-------------------------------------------------------------------------------
(* Properties. *)

(* The types, and a dump that is over has visited every route. *)
TypeOK ==
  /\ pc \in {"idle", "read", "wait", "scan", "check", "dump"} /\ up \in BOOLEAN
  /\ {listen, command} \subseteq
       [sock : {-1, 3, 4}, port : {0, Pid} \cup OtherPorts]
  /\ kernel_socket \in {-1, 3, 4}
  /\ Len(queue) <= QueueSize /\ overrun \in BOOLEAN
  /\ table \subseteq Routes /\ todo \subseteq Routes /\ view \subseteq Routes
  /\ pc # "dump" => todo = {}

(* Between two calls the poll loop watches the listening socket, or nothing
   if that is closed, and never a descriptor that has been closed and may
   have become the command socket's (kernel_socket is a copy). *)
PollsListener ==
  /\ pc = "idle" => kernel_socket = listen.sock
  /\ ~Closed(listen) => listen.sock # command.sock

(* What makes dumping on a report enough: after a dump that succeeded, and
   with no report since it began, the routes it gave are those of the kernel,
   unless the news of a change is still in the queue, or was lost (overrun,
   too long, socket closed, or taken for nl_command's while that has no
   port).  The dump is not atomic: changes may meet it in the middle. *)
NoMissedChange ==
  pc = "idle" /\ synced /\ ~heard /\ ~lost
    /\ (\A i \in DOMAIN queue : ~News(queue[i]))
  => view = table

(* "'nl_ignore' is used in kernel_callback to ignore message originating from
   'nl_command'": once that has been set up, no change by others is taken for
   such a message.  The kernel's own changes are, after nl_command has been
   closed by an error and could not be opened again: it has no port then. *)
NoNewsIgnored == up /\ pc = "scan" /\ Ignored(buf) => ~News(buf)

(* The news of a change that is queued is heard, or lost with the socket or
   by a read that failed: it does not stay behind others or after an error. *)
NewsAhead == \E i \in DOMAIN queue : News(queue[i])
NewsHeard == NewsAhead ~> (heard \/ lost)

(* kernel_callback and kernel_dump return. *)
CallsReturn == pc # "idle" ~> pc = "idle"
===============================================================================
