------------------------------ MODULE KernelRoute ------------------------------
(***************************************************************************)
(* kernel_route of kernel_netlink.c: adding, flushing and modifying one    *)
(* route of the kernel's tables, a modification being a flush whose result *)
(* is ignored, then an addition.                                           *)
(*                                                                         *)
(* Each request goes through netlink_talk, of which only what KernelCall   *)
(* promises is used here (NetlinkCommand implements it): an answer is the  *)
(* answer to this request, or "failed", in which case the kernel may have  *)
(* carried it out, may carry it out later, or may never see it.  The       *)
(* kernel and its tables are external, and so is the caller, which may ask *)
(* for anything in Arguments.  The daemon has called kernel_setup(1).      *)
(***************************************************************************)
EXTENDS Integers, FiniteSets

CONSTANTS
  V4,            \* the IPv4 (mapped) destinations, sources and gateways
  Defaults,      \* the destinations and sources that are default prefixes
  HasSubtrees,   \* has_ipv6_subtrees: does the kernel route by source?
  Infinity,      \* KERNEL_INFINITY, the metric of an unreachable route
  TableMod,      \* rtm_table is an unsigned char: 2^8
  AnySrc,        \* the source of a route that is not source-specific
  ForeignRoutes, \* the routes of other protocols
  Arguments,     \* what callers ask for
  MaxCalls,      \* bound: requests composed in a behaviour
  MaxFaults      \* bound: failures in a behaviour

(* A next hop is [gate, ifindex, metric]; an argument names a destination, a
   source, the table and hop of a route and those of its replacement. *)
ASSUME ConstantsAssumption ==
  /\ Infinity \in Nat /\ TableMod \in Nat \ {0}
  /\ MaxCalls \in Nat /\ MaxFaults \in Nat
  /\ HasSubtrees \in BOOLEAN /\ Arguments # {}
  /\ \A r \in ForeignRoutes : r.proto = "other"

VARIABLES
  pc,       \* "idle", "modify", or the inner call: "one", "flush", "add"
  op,       \* the caller's operation
  arg,      \* the caller's argument
  start,    \* history: requests composed before this call
  rc,       \* what kernel_route returned
  errno,    \* errno, when kernel_route returned -1
  request,  \* the request with each number
  handed,   \* the requests that reached the kernel
  reason,   \* the kernel's errno for the last request it refused
  fib,      \* the kernel's routes
  faults,   \* failures so far
  calls, busy, fate, result   \* the requests, as KernelCall sees them

KC == INSTANCE KernelCall

callVars == <<calls, busy, fate, result>>
vars == <<pc, op, arg, start, rc, errno, request, handed, reason, fib, faults,
          callVars>>

Operations == {"ADD", "FLUSH", "MODIFY"}
Inner == {"one", "flush", "add"}
Ids == 1 .. MaxCalls
Errors == {"none", "EINVAL", "EEXIST", "ESRCH", "EAGAIN", "EIO"}

Init ==
  /\ pc = "idle" /\ op = "ADD" /\ arg = CHOOSE a \in Arguments : TRUE
  /\ start = 0 /\ rc = 0 /\ errno = "none"
  /\ request = [i \in Ids |-> [type |-> "none"]] /\ handed = {}
  /\ reason = "none" /\ fib = ForeignRoutes /\ faults = 0
  /\ KC!Init

Fault == faults < MaxFaults /\ faults' = faults + 1

-------------------------------------------------------------------------------
(* The request a call composes. *)

(* The family check: an IPv4 destination takes an IPv4 gateway and source,
   any other destination takes neither. *)
Consistent(a, hop) ==
  IF a.dest \in V4 THEN hop.gate \in V4 /\ a.src \in V4
                   ELSE hop.gate \notin V4 /\ a.src \notin V4

(* kernel_disambiguate: otherwise the source is left out of the request. *)
Source(a, hop) ==
  IF a.src \notin Defaults /\ hop.gate \notin V4 /\ HasSubtrees
  THEN a.src ELSE AnySrc

(* The route as it is put into the request and kept by the kernel. *)
(* Mutant of Encode: rtm_protocol is not set. *)
EncodeAnyone(a, table, hop) ==
  [table |-> table % TableMod, dest |-> a.dest, src |-> Source(a, hop),
   type |-> "unicast", metric |-> hop.metric, gate |-> hop.gate,
   ifindex |-> hop.ifindex, proto |-> "any"]
Encode(a, table, hop) ==
  LET unreachable == hop.metric >= Infinity
  IN  [table |-> table % TableMod, dest |-> a.dest, src |-> Source(a, hop),
       type |-> IF unreachable THEN "unreachable" ELSE "unicast",
       metric |-> IF unreachable THEN -1 ELSE hop.metric,
       gate |-> IF unreachable THEN "none" ELSE hop.gate,
       ifindex |-> IF unreachable THEN 0 ELSE hop.ifindex,
       proto |-> "babel"]
Old(a) == Encode(a, a.table, a.hop)
New(a) == Encode(a, a.newtable, a.newhop)

(* Unreachable default routes are never sent. *)
(* Mutant of Ignored: only the IPv6 default route is recognised. *)
IgnoredV6(a, hop) ==
  hop.metric >= Infinity /\ a.dest \in Defaults /\ hop.gate \notin V4
Ignored(a, hop) == hop.metric >= Infinity /\ a.dest \in Defaults

(* Does MODIFY change anything?  The table is not looked at. *)
(* Mutant of Changed: nor is the gateway. *)
ChangedMetric(a) == a.newhop.metric # a.hop.metric
Changed(a) == a.newhop # a.hop

(* The operation, table and hop of the inner call. *)
InnerType == IF pc = "flush" \/ (pc = "one" /\ op = "FLUSH") THEN "DEL" ELSE "NEW"
InnerTable == IF pc = "add" THEN arg.newtable ELSE arg.table
(* Mutant of InnerHop: the flush names the new hop. *)
InnerHopNew == IF pc = "one" THEN arg.hop ELSE arg.newhop
InnerHop == IF pc = "add" THEN arg.newhop ELSE arg.hop

-------------------------------------------------------------------------------
(* kernel_route. *)

Call(o, a) ==
  /\ pc = "idle"
  /\ calls + (IF o = "MODIFY" THEN 2 ELSE 1) <= MaxCalls
  /\ pc' = IF o = "MODIFY" THEN "modify" ELSE "one"
  /\ op' = o /\ arg' = a /\ start' = calls
  /\ KC!Begin
  /\ UNCHANGED <<rc, errno, request, handed, reason, fib, faults>>

(* A call of kernel_route returns c with errno = e: to MODIFY, which ignores
   the result of its flush and turns EEXIST of its addition into 1, or to
   the caller. *)
(* Mutant of Return: any failure of the addition is taken for EEXIST. *)
ReturnAnyIsOne(c, e) ==
  /\ errno' = e
  /\ IF pc = "flush" THEN pc' = "add" /\ UNCHANGED rc
     ELSE pc' = "idle" /\ rc' = IF pc = "add" /\ c < 0 THEN 1 ELSE c
  /\ UNCHANGED <<op, arg, start>>
Return(c, e) ==
  /\ errno' = e
  /\ IF pc = "flush" THEN pc' = "add" /\ UNCHANGED rc
     ELSE /\ pc' = "idle"
          /\ rc' = IF pc = "add" /\ c < 0 /\ e = "EEXIST" THEN 1 ELSE c
  /\ UNCHANGED <<op, arg, start>>

Checking == pc # "idle" /\ ~busy

(* The command socket is closed and cannot be opened again. *)
ReopenFails ==
  /\ Checking
  /\ Fault
  /\ Return(-1, "EIO")
  /\ KC!GiveUp
  /\ UNCHANGED <<request, handed, reason, fib>>

BadFamily ==
  /\ Checking /\ ~Consistent(arg, InnerHop)
  /\ Return(-1, "EINVAL")
  /\ KC!GiveUp
  /\ UNCHANGED <<request, handed, reason, fib, faults>>

ModifyNothing ==
  /\ Checking /\ pc = "modify" /\ Consistent(arg, arg.hop) /\ ~Changed(arg)
  /\ Return(0, errno)
  /\ UNCHANGED <<request, handed, reason, fib, faults, callVars>>

ModifyStarts ==
  /\ Checking /\ pc = "modify" /\ Consistent(arg, arg.hop) /\ Changed(arg)
  /\ pc' = "flush"
  /\ UNCHANGED <<op, arg, start, rc, errno, request, handed, reason, fib,
                 faults, callVars>>

IgnoreUnreachableDefault ==
  /\ Checking /\ pc \in Inner /\ Consistent(arg, InnerHop)
  /\ Ignored(arg, InnerHop)
  /\ Return(0, errno)
  /\ UNCHANGED <<request, handed, reason, fib, faults, callVars>>

(* netlink_talk: the request may fail to reach the kernel. *)
Talk ==
  /\ Checking /\ pc \in Inner /\ Consistent(arg, InnerHop)
  /\ ~Ignored(arg, InnerHop)
  /\ KC!Issue
  /\ request' = [request EXCEPT ![calls + 1] =
                   [type |-> InnerType,
                    route |-> Encode(arg, InnerTable, InnerHop)]]
  /\ \/ handed' = handed \cup {calls + 1} /\ UNCHANGED faults
     \/ UNCHANGED handed /\ Fault
  /\ UNCHANGED <<pc, op, arg, start, rc, errno, reason, fib>>

TalkSucceeds ==
  /\ KC!Answer("ok")
  /\ Return(0, errno)
  /\ UNCHANGED <<request, handed, reason, fib, faults>>

TalkRefused ==
  /\ KC!Answer("refused")
  /\ Return(-1, reason)
  /\ UNCHANGED <<request, handed, reason, fib, faults>>

(* No answer in time, or another failure of netlink_read: errno is EAGAIN or
   EIO, or, after a datagram that was not sent by the kernel, what it was
   before. *)
TalkFails ==
  /\ calls \in handed => Fault
  /\ calls \notin handed => UNCHANGED faults
  /\ KC!Answer("failed")
  /\ \E e \in {errno, "EAGAIN", "EIO"} : Return(-1, e)
  /\ UNCHANGED <<request, handed, reason, fib>>

-------------------------------------------------------------------------------
(* The kernel (external): it decides requests in the order they came. *)

NextUndecided(i) ==
  /\ i \in handed /\ fate[i] = "open"
  /\ \A j \in handed : j < i => fate[j] # "open"

(* Two routes with the same key exclude each other (NLM_F_EXCL). *)
Key(r) == <<r.table, r.dest, r.src, r.metric>>
Taken(r) == \E s \in fib : Key(s) = Key(r)
(* RTM_DELROUTE names a route by all its fields, and by its protocol unless
   that is RTPROT_UNSPEC. *)
Names(d, r) ==
  d.proto \in {r.proto, "any"} /\ [d EXCEPT !.proto = r.proto] = r

KernelCarriesOut(i) ==
  /\ NextUndecided(i)
  /\ KC!Decide(i, "done")
  /\ \/ /\ request[i].type = "NEW" /\ ~Taken(request[i].route)
        /\ fib' = fib \cup {request[i].route}
     \/ /\ request[i].type = "DEL"
        /\ \E r \in fib : Names(request[i].route, r) /\ fib' = fib \ {r}
  /\ UNCHANGED <<pc, op, arg, start, rc, errno, request, handed, reason, faults>>

KernelRefuses(i) ==
  /\ NextUndecided(i)
  /\ KC!Decide(i, "refused")
  /\ \/ /\ request[i].type = "NEW" /\ Taken(request[i].route)
        /\ reason' = "EEXIST"
     \/ /\ request[i].type = "DEL"
        /\ \A r \in fib : ~Names(request[i].route, r)
        /\ reason' = "ESRCH"
     \/ /\ request[i].type = "NEW" /\ ~Taken(request[i].route)
        /\ reason' = "EINVAL"
  /\ UNCHANGED <<pc, op, arg, start, rc, errno, request, handed, fib, faults>>

-------------------------------------------------------------------------------
Calls == \E o \in Operations, a \in Arguments : Call(o, a)

Daemon ==
  \/ ReopenFails \/ BadFamily \/ ModifyNothing \/ ModifyStarts
  \/ IgnoreUnreachableDefault \/ Talk
  \/ TalkSucceeds \/ TalkRefused \/ TalkFails

Kernel == \E i \in Ids : KernelCarriesOut(i) \/ KernelRefuses(i)

Next == Calls \/ Daemon \/ Kernel

Spec == Init /\ [][Next]_vars

-------------------------------------------------------------------------------
(* Properties. *)

TypeOK ==
  /\ pc \in {"idle", "modify"} \cup Inner
  /\ op \in Operations /\ arg \in Arguments /\ start \in 0 .. calls
  /\ rc \in {-1, 0, 1} /\ errno \in Errors /\ reason \in Errors
  /\ \A i \in Ids : request[i].type \in {"none", "NEW", "DEL"}
  /\ handed \subseteq 1 .. calls /\ faults \in 0 .. MaxFaults
  /\ KC!TypeOK

(* kernel_route never adds or removes a route of another protocol, although
   it names routes by destination, gateway and metric that others may use
   too. *)
ForeignRoutesUntouched == {r \in fib : r.proto # "babel"} = ForeignRoutes

(* "Unreachable default routes cause all sort of weird interactions": none
   is ever installed, on any path through ADD and MODIFY, of either family. *)
NoUnreachableDefault ==
  \A r \in fib : r.proto = "babel" /\ r.type = "unreachable"
                   => r.dest \notin Defaults

(* A MODIFY that reports success has put the new route into the kernel,
   whatever became of its flush and of requests given up before. *)
Modified(c) ==
  pc = "idle" /\ op = "MODIFY" /\ rc = c /\ arg.newhop # arg.hop
ModifyInstalls ==
  Modified(0) /\ ~Ignored(arg, arg.newhop) => New(arg) \in fib

(* It has removed the old one too if its flush, whose result is ignored,
   reached the kernel at all, however late. *)
FlushHandedOver == calls = start + 2 /\ {calls - 1, calls} \subseteq handed
ModifyReplaces ==
  Modified(0) /\ FlushHandedOver /\ New(arg) # Old(arg) => Old(arg) \notin fib

(* A MODIFY that reports 1 after an answer of the kernel means that a route
   with the new one's key is there. *)
ExistsIsTrue == Modified(1) /\ result = "refused" => Taken(New(arg))
===============================================================================
