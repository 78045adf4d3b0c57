-------------------------- MODULE NetlinkListenProofs --------------------------
(***************************************************************************)
(* Theorems about NetlinkListen, for any routes and ports, any size of the *)
(* receive buffer and any number of changes, calls and failures.           *)
(***************************************************************************)
EXTENDS NetlinkListen, SequenceTheorems, TLAPS

-------------------------------------------------------------------------------
(* The inductive invariant. *)

Socket == [sock : {-1, 3, 4}, port : {0, Pid} \cup OtherPorts]

(* A datagram with the news of a change is not one of nl_command. *)
Datagram ==
  {n \in [kind : {"none", "route", "rule", "link"}, proto : {"other", "babel"}, port : Nat] :
     News(n) => n.port \in {KernelPort, Elsewhere}}

Shape ==
  /\ TypeOK /\ queue \in Seq(Datagram) /\ buf \in Datagram
  /\ pc = "dump" => ~synced

(* kernel_socket is a true copy, inside calls too. *)
Sockets ==
  /\ kernel_socket = listen.sock
  /\ ~Closed(listen) => listen.sock # command.sock

(* While a dump runs and no news is queued or lost, what it has visited is
   right; when it is over, until the news is heard. *)
Clean(q) == \A i \in DOMAIN q : ~News(q[i])
Reading == pc \in {"scan", "check"}
Dumping == pc = "dump" /\ ~lost /\ Clean(queue) => view = table \ todo
Viewed ==
  synced /\ ~heard /\ ~lost /\ Clean(queue) /\ (Reading => ~News(buf)) => view = table

IInv == Shape /\ Sockets /\ Dumping /\ Viewed

-------------------------------------------------------------------------------
(* Queues. *)

(* Appending to a queue and reading from it. *)
LEMMA CleanAppend ==
  ASSUME NEW q \in Seq(Datagram), NEW n \in Datagram
  PROVE  /\ Append(q, n) \in Seq(Datagram) /\ Len(Append(q, n)) = Len(q) + 1
         /\ Clean(Append(q, n)) => Clean(q) /\ ~News(n)
<1> DEFINE r == Append(q, n)
<1>1. /\ r \in Seq(Datagram) /\ Len(r) = Len(q) + 1
      /\ \A i \in 1 .. Len(q) : r[i] = q[i]
      /\ r[Len(q) + 1] = n
  BY AppendProperties
<1>2. DOMAIN r = 1 .. Len(q) + 1 /\ DOMAIN q = 1 .. Len(q) /\ Len(q) \in Nat
  BY <1>1, LenProperties
<1> HIDE DEF r
<1>3. Clean(r) => \A i \in 1 .. Len(q) : ~News(q[i])
  BY <1>1, <1>2 DEF Clean
<1>4. Clean(r) => ~News(r[Len(q) + 1])
  BY <1>2 DEF Clean
<1> QED
  BY <1>1, <1>2, <1>3, <1>4 DEF Clean, r

(* A queue that loses a datagram without news has none if the rest has none. *)
LEMMA CleanTail ==
  ASSUME NEW q \in Seq(Datagram), q # <<>>
  PROVE  /\ Head(q) \in Datagram /\ Tail(q) \in Seq(Datagram)
         /\ Len(Tail(q)) = Len(q) - 1
         /\ Clean(Tail(q)) /\ ~News(Head(q)) => Clean(q)
<1>1. /\ Head(q) \in Datagram /\ Tail(q) \in Seq(Datagram)
      /\ Len(Tail(q)) = Len(q) - 1 /\ Head(q) = q[1]
      /\ \A i \in 1 .. Len(Tail(q)) : Tail(q)[i] = q[i + 1]
  BY HeadTailProperties
<1>2. /\ DOMAIN Tail(q) = 1 .. Len(q) - 1 /\ DOMAIN q = 1 .. Len(q) /\ Len(q) \in Nat
  BY <1>1, LenProperties
<1>3. ASSUME Clean(Tail(q)), ~News(q[1]), NEW i \in 1 .. Len(q) PROVE ~News(q[i])
  <2>1. CASE i = 1
    BY <1>3, <2>1
  <2>2. CASE i # 1
    <3>1. i - 1 \in 1 .. Len(q) - 1 /\ (i - 1) + 1 = i
      BY <1>2, <2>2
    <3> QED BY <1>1, <1>2, <1>3, <3>1 DEF Clean
  <2> QED BY <2>1, <2>2
<1> QED
  BY <1>1, <1>2, <1>3 DEF Clean

(* What another process, or the kernel, is told about. *)
LEMMA Datagrams ==
  /\ None \in Datagram /\ <<>> \in Seq(Datagram) /\ Clean(<<>>)
  /\ \A port \in {KernelPort, Elsewhere} : Message("route", "other", port) \in Datagram
  /\ Message("link", "other", KernelPort) \in Datagram
  /\ Message("rule", "other", Elsewhere) \in Datagram
  /\ \A port \in Nat : /\ Message("route", "babel", port) \in Datagram
                        /\ Message("rule", "babel", port) \in Datagram
<1>1. KernelPort \in Nat /\ Elsewhere \in Nat
  BY ConstantsAssumption DEF KernelPort
<1> QED
  BY <1>1 DEF None, Datagram, News, Message, Clean

(* A notification is queued, or it is lost. *)
LEMMA NotifyStep ==
  ASSUME Shape, NEW n \in Datagram, Notify(n)
  PROVE  /\ queue' \in Seq(Datagram) /\ Len(queue') <= QueueSize /\ overrun' \in BOOLEAN
         /\ ~lost' /\ Clean(queue') => ~lost /\ Clean(queue) /\ ~News(n)
<1>1. QueueSize \in Nat /\ Len(queue) \in Nat /\ queue \in Seq(Datagram)
      /\ Len(queue) <= QueueSize /\ overrun \in BOOLEAN
  BY ConstantsAssumption, LenProperties DEF Shape, TypeOK
<1>2. CASE Len(queue) < QueueSize /\ queue' = Append(queue, n) /\ UNCHANGED <<overrun, lost>>
  BY <1>1, <1>2, CleanAppend
<1>3. CASE /\ overrun' = TRUE \/ overrun' = overrun
           /\ lost' = (lost \/ News(n)) /\ UNCHANGED queue
  BY <1>1, <1>3
<1> QED
  BY <1>2, <1>3 DEF Notify

(* Closing nl_listen loses what was queued on it. *)
LEMMA DrainedStep ==
  ASSUME Drained
  PROVE  /\ queue' = <<>> /\ overrun' = FALSE
         /\ ~lost' => ~lost /\ Clean(queue)
BY DEF Drained, Clean

(* Reading from it does not, unless the message is too long. *)
LEMMA ReadStep ==
  ASSUME Shape, queue # <<>>, queue' = Tail(queue)
  PROVE  /\ Head(queue) \in Datagram /\ queue' \in Seq(Datagram)
         /\ Len(queue') <= QueueSize
         /\ Clean(queue') /\ ~News(Head(queue)) => Clean(queue)
<1>1. QueueSize \in Nat /\ Len(queue) \in Nat /\ Len(queue) <= QueueSize
  BY ConstantsAssumption, LenProperties DEF Shape, TypeOK
<1> QED
  BY <1>1, CleanTail DEF Shape

-------------------------------------------------------------------------------
(* Sockets. *)

(* Opening, failing to open and closing give well-formed sockets, and two
   open sockets never have one descriptor. *)
LEMMA SocketTypes ==
  ASSUME Shape
  PROVE  /\ listen \in Socket /\ command \in Socket
         /\ \A s \in {listen, command} :
              /\ Opened(s) \subseteq Socket /\ Unopened(s) \subseteq Socket
              /\ [s EXCEPT !.sock = -1] \in Socket /\ Closed([s EXCEPT !.sock = -1])
              /\ [s EXCEPT !.sock = -1].sock = -1
              /\ \A t \in Opened(s) : t.sock \in {3, 4} /\ t.sock # s.sock
              /\ \A t \in Unopened(s) : t.sock = -1
<1>1. listen \in Socket /\ command \in Socket
  BY DEF Shape, TypeOK, Socket
<1> QED
  BY <1>1 DEF Opened, Unopened, Closed, Socket

(* netlink_socket leaves the listening socket, and kernel_socket with it,
   open and distinct from the command socket, or closed. *)
LEMMA SetupStep ==
  ASSUME Shape, NEW ok \in BOOLEAN, SetupSocket(ok)
  PROVE  /\ listen' \in Socket /\ kernel_socket' = listen'.sock
         /\ listen'.sock # -1 => listen'.sock # command.sock
<1>1. CASE ok
  BY <1>1, SocketTypes DEF SetupSocket
<1>2. CASE ~ok
  BY <1>2, SocketTypes DEF SetupSocket
<1> QED BY <1>1, <1>2

-------------------------------------------------------------------------------
(* Steps. *)

(* No news is passed over: what is ahead after the step was before it. *)
NewsKept ==
  ~lost' /\ Clean(queue') /\ (Reading' => ~News(buf')) =>
    ~lost /\ Clean(queue) /\ (Reading => ~News(buf))

(* Then the views stay as good as they were. *)
LEMMA ViewStep ==
  ASSUME IInv, NewsKept, UNCHANGED <<table, dumping, heard>>,
         pc' = "dump" => pc = "dump"
  PROVE  Dumping' /\ Viewed'
<1>1. pc' = "dump" => ~Reading'
  BY DEF Reading
<1>2. Dumping'
  BY <1>1 DEF IInv, Dumping, NewsKept, dumping
<1>3. Viewed'
  BY DEF IInv, Viewed, NewsKept, dumping
<1> QED BY <1>2, <1>3

(* The caller opens and closes the sockets. *)
LEMMA SocketsStep ==
  ASSUME IInv, \/ ListenSetUp \/ ListenTornDown \/ CommandSetUp \/ CommandTornDown
               \/ ReopenFails \/ CallbackOpens
  PROVE  IInv'
<1>1. /\ UNCHANGED <<buf, table, dumping, heard>>
      /\ pc \in {"idle", "check"}
      /\ pc' = pc \/ (pc = "idle" /\ pc' = "read" /\ UNCHANGED <<queue, lost>>)
      /\ up' \in BOOLEAN
  BY DEF ListenSetUp, ListenTornDown, CommandSetUp, CommandTornDown,
         ReopenFails, CallbackOpens, IInv, Shape, TypeOK
<1>2. \/ UNCHANGED <<queue, overrun, lost>>
      \/ pc' = pc /\ Drained
  BY DEF ListenSetUp, ListenTornDown, CommandSetUp, CommandTornDown,
         ReopenFails, CallbackOpens
<1>3. listen' \in Socket /\ command' \in Socket /\ Sockets'
  <2>1. CASE ListenSetUp \/ CallbackOpens
    BY <2>1, SetupStep, SocketTypes DEF ListenSetUp, CallbackOpens, IInv, Sockets, Closed
  <2>2. CASE ListenTornDown
    BY <2>2, SocketTypes DEF ListenTornDown, IInv, Sockets, Closed
  <2>3. CASE CommandSetUp
    BY <2>3, SocketTypes DEF CommandSetUp, IInv, Sockets, Closed
  <2>4. CASE CommandTornDown
    BY <2>4, SocketTypes DEF CommandTornDown, IInv, Sockets, Closed
  <2>5. CASE ReopenFails
    BY <2>5, SocketTypes DEF ReopenFails, IInv, Sockets, Closed
  <2> QED BY <2>1, <2>2, <2>3, <2>4, <2>5
<1>4. Shape'
  <2>1. /\ queue' \in Seq(Datagram) /\ Len(queue') <= QueueSize /\ overrun' \in BOOLEAN
    <3>1. CASE UNCHANGED <<queue, overrun, lost>>
      BY <3>1 DEF IInv, Shape, TypeOK
    <3>2. CASE Drained
      BY <3>2, DrainedStep, Datagrams, ConstantsAssumption
    <3> QED BY <1>2, <3>1, <3>2
  <2>2. kernel_socket' \in {-1, 3, 4}
    BY <1>3 DEF Sockets, Socket
  <2>3. TypeOK'
    BY <1>1, <1>3, <2>1, <2>2 DEF IInv, Shape, TypeOK, Socket, dumping
  <2> QED BY <1>1, <2>1, <2>3 DEF IInv, Shape, dumping
<1>5. NewsKept
  BY <1>1, <1>2, DrainedStep DEF NewsKept, Reading
<1> QED
  BY <1>1, <1>3, <1>4, <1>5, ViewStep DEF IInv

(* The daemon's own requests are no news. *)
LEMMA RequestStep ==
  ASSUME IInv, OwnRoute \/ OwnRule
  PROVE  IInv'
<1>1. PICK s \in Socket, kind \in {"route", "rule"} :
        Carried(s, kind) /\ (s.sock = command.sock \/ s \in Opened(listen))
  BY SocketTypes DEF OwnRoute, OwnRule, IInv
<1>2. /\ UNCHANGED <<pc, up, listen, kernel_socket, buf, table, dumping, heard>>
      /\ pc # "dump"
  BY DEF OwnRoute, OwnRule
<1>3. s.port \in Nat
  BY <1>1, ConstantsAssumption DEF Socket
<1> DEFINE n == Message(kind, "babel", s.port)
<1>4. n \in Datagram /\ ~News(n) /\ Notify(n)
  BY <1>1, <1>3, Datagrams DEF Carried, Message, News
<1> HIDE DEF n
<1>5. /\ queue' \in Seq(Datagram) /\ Len(queue') <= QueueSize /\ overrun' \in BOOLEAN
      /\ ~lost' /\ Clean(queue') => ~lost /\ Clean(queue)
  BY <1>4, NotifyStep DEF IInv
<1>6. command' \in Socket /\ command'.sock \in {s.sock, -1}
  BY <1>1 DEF Carried, Socket
<1>7. Sockets'
  <2>1. listen \in Socket /\ \A t \in Opened(listen) : t.sock # listen.sock
    BY SocketTypes DEF IInv
  <2> QED BY <1>1, <1>2, <1>6, <2>1 DEF IInv, Sockets, Closed, Socket
<1>8. Shape'
  <2>1. TypeOK'
    BY <1>2, <1>5, <1>6 DEF IInv, Shape, TypeOK, Socket, dumping
  <2> QED BY <1>2, <1>5, <2>1 DEF IInv, Shape, dumping
<1>9. NewsKept
  BY <1>2, <1>5 DEF NewsKept, Reading
<1> QED
  BY <1>2, <1>7, <1>8, <1>9, ViewStep DEF IInv

(* A change of a route is news, other changes are not. *)
LEMMA KernelStep ==
  ASSUME IInv, Kernel
  PROVE  IInv'
<1>1. CASE RouteChanges
  <2>1. PICK r \in Routes, port \in {KernelPort, Elsewhere} :
          /\ table' = IF r \in table THEN table \ {r} ELSE table \cup {r}
          /\ Notify(Message("route", "other", port))
    BY <1>1 DEF RouteChanges
  <2>2. UNCHANGED <<pc, sockets, buf, dumping, heard>>
    BY <1>1 DEF RouteChanges
  <2> DEFINE n == Message("route", "other", port)
  <2>3. n \in Datagram /\ News(n)
    BY Datagrams DEF News, Message
  <2>4. Notify(n)
    BY <2>1
  <2> HIDE DEF n
  <2>5. /\ queue' \in Seq(Datagram) /\ Len(queue') <= QueueSize /\ overrun' \in BOOLEAN
        /\ ~(~lost' /\ Clean(queue'))
    BY <2>3, <2>4, NotifyStep DEF IInv
  <2>6. Shape'
    <3>1. TypeOK'
      BY <2>1, <2>2, <2>5 DEF IInv, Shape, TypeOK, dumping, sockets
    <3> QED BY <2>2, <2>5, <3>1 DEF IInv, Shape, dumping
  <2>7. Sockets'
    BY <2>2 DEF IInv, Sockets, Closed, sockets
  <2> QED
    BY <2>5, <2>6, <2>7 DEF IInv, Dumping, Viewed
<1>2. CASE OtherChange
  <2>1. PICK n \in Datagram : ~News(n) /\ Notify(n)
    <3>1. ~News(Message("link", "other", KernelPort)) /\ ~News(Message("route", "babel", KernelPort))
          /\ ~News(Message("rule", "other", Elsewhere)) /\ KernelPort \in Nat
      BY DEF News, Message, KernelPort
    <3> QED BY <1>2, <3>1, Datagrams DEF OtherChange
  <2>2. UNCHANGED <<pc, sockets, buf, table, dumping, heard>>
    BY <1>2 DEF OtherChange
  <2>3. /\ queue' \in Seq(Datagram) /\ Len(queue') <= QueueSize /\ overrun' \in BOOLEAN
        /\ ~lost' /\ Clean(queue') => ~lost /\ Clean(queue)
    BY <2>1, NotifyStep DEF IInv
  <2>4. Shape'
    <3>1. TypeOK'
      BY <2>2, <2>3 DEF IInv, Shape, TypeOK, dumping, sockets
    <3> QED BY <2>2, <2>3, <3>1 DEF IInv, Shape, dumping
  <2>5. Sockets'
    BY <2>2 DEF IInv, Sockets, Closed, sockets
  <2>6. NewsKept
    BY <2>2, <2>3 DEF NewsKept, Reading
  <2> QED
    BY <2>2, <2>4, <2>5, <2>6, ViewStep DEF IInv
<1> QED
  BY <1>1, <1>2 DEF Kernel

(* A dump: it starts with nothing to be wrong about, visits what is there, and
   when it is over has visited everything. *)
LEMMA DumpStep ==
  ASSUME IInv, DumpStarts \/ DumpVisits \/ DumpSucceeds \/ DumpFails
  PROVE  IInv'
<1>1. /\ UNCHANGED <<up, listen, kernel_socket, queue, overrun, buf, table>>
      /\ command' = command \/ command' \in Opened(listen) \/ command' = [command EXCEPT !.sock = -1]
  BY DEF DumpStarts, DumpVisits, DumpSucceeds, DumpFails, sockets
<1>2. command' \in Socket
  BY <1>1, SocketTypes DEF IInv
<1>3. Sockets'
  <2>1. /\ \A t \in Opened(listen) : t.sock # listen.sock
        /\ [command EXCEPT !.sock = -1].sock = -1
    BY SocketTypes DEF IInv
  <2>2. listen.sock \in {-1, 3, 4} /\ listen'.sock = listen.sock
    BY <1>1, SocketTypes DEF IInv, Socket
  <2>3. listen.sock # -1 => listen.sock # command'.sock
    <3>1. listen.sock # -1 => listen.sock # command.sock
      BY <2>2 DEF IInv, Sockets, Closed
    <3>2. CASE command' = command
      BY <3>1, <3>2
    <3>3. CASE command' \in Opened(listen)
      BY <2>1, <3>3
    <3>4. CASE command' = [command EXCEPT !.sock = -1]
      BY <2>1, <3>4
    <3> QED BY <1>1, <3>2, <3>3, <3>4
  <2> QED BY <1>1, <2>2, <2>3 DEF IInv, Sockets, Closed
<1>4. /\ todo' \subseteq Routes /\ view' \subseteq Routes
      /\ pc' \in {"idle", "dump"} /\ (pc' # "dump" => todo' = {})
      /\ (pc' = "dump" => ~synced')
  BY DEF DumpStarts, DumpVisits, DumpSucceeds, DumpFails, IInv, Shape, TypeOK
<1>5. Shape'
  <2>1. TypeOK'
    BY <1>1, <1>2, <1>4 DEF IInv, Shape, TypeOK, Socket
  <2> QED BY <1>1, <1>4, <2>1 DEF IInv, Shape
<1>6. CASE DumpStarts
  <2>1. Dumping'
    BY <1>1, <1>6 DEF DumpStarts, Dumping, IInv, Shape, TypeOK
  <2>2. Viewed'
    BY <1>6 DEF DumpStarts, Viewed
  <2> QED BY <1>3, <1>5, <2>1, <2>2 DEF IInv
<1>7. CASE DumpVisits
  <2>1. PICK r \in todo : todo' = todo \ {r} /\ view' = view \cup ({r} \cap table)
    BY <1>7 DEF DumpVisits, Round
  <2>2. Dumping'
    BY <1>7, <2>1 DEF DumpVisits, IInv, Dumping, Shape, TypeOK
  <2>3. Viewed'
    BY <1>7 DEF DumpVisits, IInv, Shape, Viewed
  <2> QED BY <1>3, <1>5, <2>2, <2>3 DEF IInv
<1>8. CASE DumpSucceeds
  <2>1. Dumping'
    BY <1>8 DEF DumpSucceeds, Dumping
  <2>2. Viewed'
    BY <1>8 DEF DumpSucceeds, IInv, Dumping, Viewed
  <2> QED BY <1>3, <1>5, <2>1, <2>2 DEF IInv
<1>9. CASE DumpFails
  <2>1. Dumping'
    BY <1>9 DEF DumpFails, Dumping
  <2>2. Viewed'
    BY <1>9 DEF DumpFails, IInv, Shape, Viewed
  <2> QED BY <1>3, <1>5, <2>1, <2>2 DEF IInv
<1> QED
  BY <1>6, <1>7, <1>8, <1>9

(* kernel_callback reads. *)
LEMMA CallbackStep ==
  ASSUME IInv, \/ Callback \/ Receive \/ ReceiveTooLong \/ ReceiveOverrun
               \/ ReceiveFails \/ ReceiveBroken \/ StartWait \/ WaitEnds
  PROVE  IInv'
<1>1. /\ UNCHANGED <<up, command, table, dumping, heard>>
      /\ pc \in {"idle", "read", "wait"} /\ pc' \in {"idle", "read", "wait", "scan"}
  BY DEF Callback, Receive, ReceiveTooLong, ReceiveOverrun, ReceiveFails,
         ReceiveBroken, StartWait, WaitEnds, Receiving, sockets
<1>2. /\ listen' \in Socket /\ Sockets' /\ kernel_socket' \in {-1, 3, 4}
  <2>1. CASE ReceiveBroken
    <3>1. PICK ok \in BOOLEAN : SetupSocket(ok)
      BY <2>1 DEF ReceiveBroken
    <3>2. /\ listen' \in Socket /\ kernel_socket' = listen'.sock
          /\ listen'.sock # -1 => listen'.sock # command.sock
      BY <3>1, SetupStep DEF IInv
    <3> QED BY <1>1, <3>2 DEF Sockets, Closed, Socket
  <2>2. CASE UNCHANGED sockets
    BY <2>2, SocketTypes DEF sockets, IInv, Sockets, Closed, Shape, TypeOK
  <2> QED
    BY <2>1, <2>2 DEF Callback, Receive, ReceiveTooLong, ReceiveOverrun, ReceiveFails,
       StartWait, WaitEnds
<1>3. /\ queue' \in Seq(Datagram) /\ Len(queue') <= QueueSize /\ overrun' \in BOOLEAN
      /\ buf' \in Datagram /\ NewsKept
  <2>1. CASE Receive
    <3>1. /\ queue # <<>> /\ queue' = Tail(queue) /\ buf' = Head(queue) /\ pc' = "scan"
          /\ UNCHANGED <<overrun, lost>>
      BY <2>1 DEF Receive
    <3>2. ~Reading /\ Reading'
      BY <1>1, <3>1 DEF Reading
    <3> QED
      BY <3>1, <3>2, ReadStep DEF IInv, Shape, TypeOK, NewsKept
  <2>2. CASE ReceiveTooLong
    <3>1. /\ queue # <<>> /\ queue' = Tail(queue) /\ lost' = (lost \/ News(Head(queue)))
          /\ UNCHANGED <<overrun, buf>>
      BY <2>2 DEF ReceiveTooLong
    <3>2. ~Reading
      BY <1>1 DEF Reading
    <3> QED
      BY <3>1, <3>2, ReadStep DEF IInv, Shape, TypeOK, NewsKept
  <2>3. CASE ReceiveBroken
    <3>1. Drained /\ buf' = buf /\ ~Reading
      BY <1>1, <2>3 DEF ReceiveBroken, Reading
    <3> QED
      BY <3>1, DrainedStep, Datagrams, ConstantsAssumption DEF IInv, Shape, NewsKept
  <2>4. CASE Callback \/ ReceiveOverrun \/ ReceiveFails \/ StartWait \/ WaitEnds
    <3>1. UNCHANGED <<queue, buf, lost>> /\ (overrun' = overrun \/ overrun' = FALSE)
      BY <2>4 DEF Callback, ReceiveOverrun, ReceiveFails, StartWait, WaitEnds
    <3>2. ~Reading
      BY <1>1 DEF Reading
    <3> QED
      BY <3>1, <3>2 DEF IInv, Shape, TypeOK, NewsKept
  <2> QED BY <2>1, <2>2, <2>3, <2>4
<1>4. Shape'
  <2>1. TypeOK'
    BY <1>1, <1>2, <1>3 DEF IInv, Shape, TypeOK, Socket, dumping
  <2> QED BY <1>1, <1>3, <2>1 DEF IInv, Shape, dumping
<1> QED
  BY <1>1, <1>2, <1>3, <1>4, ViewStep DEF IInv

(* What it has read is ignored, passed on to check_interfaces or given to the
   filter: news is not ignored, unless nl_command has no port. *)
LEMMA ScanStep ==
  ASSUME IInv, ScanIgnored \/ ScanLink \/ Filter
  PROVE  IInv'
<1>1. /\ UNCHANGED <<sockets, queue, overrun, table, dumping>>
      /\ pc \in {"scan", "check"} /\ pc' \in {"idle", "check"}
      /\ buf' = buf \/ buf' = None
  BY DEF ScanIgnored, ScanLink, Filter
<1>2. Shape'
  <2>1. TypeOK'
    BY <1>1 DEF IInv, Shape, TypeOK, dumping, sockets
  <2> QED BY <1>1, <2>1, Datagrams DEF IInv, Shape, dumping
<1>3. Sockets'
  BY <1>1 DEF IInv, Sockets, Closed, sockets
<1>4. CASE ScanIgnored
  <2>1. News(buf) => command.port = KernelPort
    <3>1. News(buf) => buf.port \in {KernelPort, Elsewhere}
      BY DEF IInv, Shape, Datagram
    <3>2. command.port # Elsewhere
      BY ConstantsAssumption DEF IInv, Shape, TypeOK
    <3> QED BY <1>4, <3>1, <3>2 DEF ScanIgnored, Ignored
  <2>2. NewsKept /\ heard' = heard
    BY <1>1, <1>4, <2>1 DEF ScanIgnored, NewsKept
  <2> QED
    BY <1>1, <1>2, <1>3, <2>2, ViewStep DEF IInv
<1>5. CASE ScanLink
  <2>1. NewsKept /\ heard' = heard
    BY <1>5 DEF ScanLink, NewsKept, Reading
  <2> QED
    BY <1>1, <1>2, <1>3, <2>1, ViewStep DEF IInv
<1>6. CASE Filter
  <2>1. ~heard' => ~heard /\ ~News(buf)
    BY <1>6 DEF Filter, Accepted, News
  <2>2. Dumping'
    BY <1>1 DEF Dumping
  <2>3. Viewed'
    BY <1>1, <1>6, <2>1 DEF Filter, IInv, Viewed, dumping
  <2> QED
    BY <1>2, <1>3, <2>2, <2>3 DEF IInv
<1> QED
  BY <1>4, <1>5, <1>6

-------------------------------------------------------------------------------
(* The invariant holds in every state. *)
THEOREM Invariance == Spec => []IInv
<1>1. Init => IInv
  <2> SUFFICES ASSUME Init PROVE IInv
    OBVIOUS
  <2>1. Shape
    <3>1. Len(queue) <= QueueSize
      BY ConstantsAssumption DEF Init
    <3>2. listen \in Socket /\ command \in Socket
      BY DEF Init, Socket
    <3>3. TypeOK
      BY <3>1, <3>2 DEF Init, TypeOK, Socket
    <3> QED BY <3>3, Datagrams DEF Init, Shape
  <2>2. Sockets /\ Dumping /\ Viewed
    BY DEF Init, Sockets, Closed, Dumping, Viewed
  <2> QED BY <2>1, <2>2 DEF IInv
<1>2. IInv /\ [Next]_vars => IInv'
  <2> SUFFICES ASSUME IInv, [Next]_vars PROVE IInv'
    OBVIOUS
  <2>1. CASE Caller
    BY <2>1, SocketsStep, RequestStep, DumpStep, CallbackStep DEF Caller
  <2>2. CASE Running
    BY <2>2, DumpStep, CallbackStep, ScanStep DEF Running
  <2>3. CASE UNCHANGED vars
    <3>1. Shape'
      BY <2>3 DEF vars, sockets, dumping, IInv, Shape, TypeOK
    <3>2. Sockets' /\ NewsKept
      BY <2>3 DEF vars, sockets, dumping, IInv, Sockets, Closed, NewsKept, Reading
    <3> QED BY <2>3, <3>1, <3>2, ViewStep DEF IInv, vars
  <2> QED
    BY <2>1, <2>2, <2>3, KernelStep DEF Next
<1> QED
  BY <1>1, <1>2, PTL DEF Spec

(* The variables of the listening socket keep their types: in particular the
   queue stays within the receive buffer. *)
THEOREM TypeCorrect == Spec => []TypeOK
<1>1. IInv => TypeOK
  BY DEF IInv, Shape
<1> QED
  BY <1>1, Invariance, PTL

(* Between two calls the poll loop watches the listening socket or nothing:
   no failed opening or closing leaves kernel_socket stale. *)
THEOREM ListenerIsPolled == Spec => []PollsListener
<1>1. IInv => PollsListener
  BY DEF IInv, Sockets, PollsListener
<1> QED
  BY <1>1, Invariance, PTL

(* To dump the routes when kernel_callback reports a change is enough to know
   them, as far as no news is lost: a change that meets the dump in the middle
   leaves its news behind in the queue. *)
THEOREM NoChangeIsMissed == Spec => []NoMissedChange
<1>1. IInv => NoMissedChange
  BY DEF IInv, Viewed, Reading, Clean, NoMissedChange
<1> QED
  BY <1>1, Invariance, PTL
===============================================================================
