---------------------------- MODULE InterfaceQueries ----------------------------
(***************************************************************************)
(* kernel_interface_wireless of kernel_netlink.c: is the interface a       *)
(* wireless one?  Bridges and batman-adv interfaces come first, for they   *)
(* may have wireless ports.  The answer is put together from probes of     *)
(* sysfs and two ioctls, some by the interface's name and one by its       *)
(* index; between any two of them the interface may go, come back or be    *)
(* replaced by another of its name.                                        *)
(*                                                                         *)
(* The kernel's interfaces are external; the caller's index may be stale.  *)
(***************************************************************************)
EXTENDS Integers, FiniteSets

CONSTANTS
  Indices,     \* interface indices
  Others,      \* the indices of bridges of other names
  MaxBridges,  \* what the array of isbridge holds: 256
  MaxChanges,  \* bound: changes of the interface
  MaxFaults    \* bound: probes that fail for reasons of their own

VARIABLES
  dev,     \* what has the name now: [kind, index], or NoDev
  sysfs,   \* is /sys mounted?
  bridges, \* is the kernel built with bridges?  Else SIOCGIFBR says ENOPKG.
  pc,      \* the next probe, "idle" before and "done" after a call
  ifindex, \* the caller's index
  result,  \* what the call returned
  seen,    \* history: what has had the name since the call began,
  failed,  \*   and whether a probe has failed
  changes, faults

vars == <<dev, sysfs, bridges, pc, ifindex, result, seen, failed, changes, faults>>
kernel == <<dev, sysfs, bridges, changes>>

Kinds == {"wired", "wireless", "bridge", "batman"}
NoDev == [kind |-> "none", index |-> -1]
Devices == [kind : Kinds, index : Indices]
Possible == {d \in Devices : bridges \/ d.kind # "bridge"}

Init ==
  /\ sysfs \in BOOLEAN /\ bridges \in BOOLEAN
  /\ dev \in Possible \cup {NoDev}
  /\ pc = "idle" /\ ifindex = -1 /\ result = -1
  /\ seen = {} /\ failed = FALSE /\ changes = 0 /\ faults = 0

(* The interface goes, or an interface takes the name. *)
Change ==
  /\ changes < MaxChanges /\ changes' = changes + 1
  /\ dev' \in (IF dev = NoDev THEN Possible ELSE {NoDev})
  /\ seen' = IF pc \in {"idle", "done"} THEN seen ELSE seen \cup {dev'}
  /\ UNCHANGED <<sysfs, bridges, pc, ifindex, result, failed, faults>>

Call ==
  /\ pc = "idle"
  /\ ifindex' \in Indices
  /\ pc' = "name" /\ seen' = {dev} /\ failed' = FALSE
  /\ UNCHANGED <<kernel, result, faults>>

Goto(label) == pc' = label /\ UNCHANGED <<kernel, ifindex, result, seen>>
Return(r) == pc' = "done" /\ result' = r /\ UNCHANGED <<kernel, ifindex, seen>>
NoFault == UNCHANGED <<failed, faults>>
Fault == faults < MaxFaults /\ faults' = faults + 1 /\ failed' = TRUE

-------------------------------------------------------------------------------
(* isbridge *)

Exists == sysfs /\ dev # NoDev
IsA(kind) == sysfs /\ dev.kind = kind

(* access("/sys/class/net/NAME", R_OK) *)
AccessName ==
  /\ pc = "name"
  /\ \/ Exists /\ Goto("bridge") /\ NoFault
     \/ ~Exists /\ Goto("fallback") /\ NoFault
     \/ Fault /\ Goto("fallback")

(* access(".../bridge", F_OK): ENOENT is an answer, other errors are none. *)
(* Mutant of AccessBridge: an interface that is no bridge is not asked for a
   mesh. *)
AccessBridgeAlways ==
  /\ pc = "bridge"
  /\ \/ IsA("bridge") /\ Return(-1) /\ NoFault
     \/ ~IsA("bridge") /\ Goto("wireless") /\ NoFault
     \/ Fault /\ Goto("fallback")
AccessBridge ==
  /\ pc = "bridge"
  /\ \/ IsA("bridge") /\ Return(-1) /\ NoFault
     \/ ~IsA("bridge") /\ Goto("batman") /\ NoFault
     \/ Fault /\ Goto("fallback")

(* ioctl(SIOCGIFBR): the bridges' indices, as many as the array holds. *)
Bridges == Others \cup (IF dev.kind = "bridge" THEN {dev.index} ELSE {})
Fallback ==
  /\ pc = "fallback"
  /\ \/ /\ NoFault
        /\ \E indices \in SUBSET Bridges :
             /\ indices = Bridges \/ Cardinality(indices) = MaxBridges
             /\ Cardinality(indices) <= MaxBridges
             /\ IF bridges /\ ifindex \in indices THEN Return(-1) ELSE Goto("batman")
     \/ Fault /\ Return(-1)

(* isbatman: access("/sys/devices/virtual/net/NAME/mesh", F_OK) *)
AccessMesh ==
  /\ pc = "batman"
  /\ \/ IsA("batman") /\ Return(-1) /\ NoFault
     \/ ~IsA("batman") /\ Goto("wireless") /\ NoFault
     \/ Fault /\ Return(-1)

(* ioctl(SIOCGIWNAME): EOPNOTSUPP or EINVAL for the interfaces that have no
   wireless extensions; ENODEV. *)
IoctlWireless ==
  /\ pc = "wireless"
  /\ \/ dev.kind = "wireless" /\ Return(1) /\ NoFault
     \/ dev.kind \in Kinds \ {"wireless"} /\ Return(0) /\ NoFault
     \/ dev = NoDev /\ Return(-1) /\ NoFault
     \/ Fault /\ Return(-1)

(* The caller asks again. *)
Again ==
  /\ pc = "done"
  /\ pc' = "idle" /\ ifindex' = -1 /\ result' = -1 /\ seen' = {}
  /\ failed' = FALSE
  /\ UNCHANGED <<kernel, faults>>

Next ==
  \/ Change \/ Call \/ AccessName \/ AccessBridge \/ Fallback \/ AccessMesh
  \/ IoctlWireless \/ Again

Spec == Init /\ [][Next]_vars

-------------------------------------------------------------------------------
(* Properties. *)

(* Whatever has the name when, the answer is one that something deserved that
   had the name since the call began, or a failed probe's -1: no probe about
   one interface completes an answer about another that neither deserves.
   The answer for an interface that stays the same during the call is that of
   its kind, with sysfs, and without it as long as there are not too many
   bridges, the caller's index is the interface's and it is not batman-adv's
   (which only sysfs tells).  A probe that fails may make it -1, and only
   that. *)
Answer == [wired |-> 0, wireless |-> 1, bridge |-> -1, batman |-> -1, none |-> -1]
Decidable(d) ==
  \/ sysfs /\ ~failed
  \/ d.kind # "batman" /\ d.index = ifindex /\ Cardinality(Others) < MaxBridges
Deserves(d) ==
  \/ result = 1 /\ d.kind = "wireless"
  \/ result = 0 /\ d.kind \in Kinds \ {"wireless"}
  \/ result = -1 /\ d.kind \in {"bridge", "batman", "none"}
SteadyAnswer ==
  pc = "done" =>
    /\ (failed /\ result = -1) \/ \E d \in seen : Deserves(d)
    /\ \A d \in seen : seen = {d} /\ Decidable(d)
         => result = Answer[d.kind] \/ (failed /\ result = -1)
===============================================================================
