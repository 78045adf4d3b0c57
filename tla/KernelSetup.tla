------------------------------ MODULE KernelSetup ------------------------------
(***************************************************************************)
(* kernel_setup and kernel_setup_interface of kernel_netlink.c: opening    *)
(* the daemon's sockets, saving and setting the kernel's sysctls, and      *)
(* giving all of it back.                                                  *)
(*                                                                         *)
(* A sysctl is read and written by system calls of their own, each of      *)
(* which may fail, and between any two of them an administrator may change *)
(* it or the daemon may be killed: what it has saved is in memory only.    *)
(* The caller is external: it tears down what it has set up, also when the *)
(* set-up failed half-way, before it sets it up again.                     *)
(***************************************************************************)
EXTENDS Integers, Sequences, SequencesExt

CONSTANTS
  Settings,     \* sysctl_settings: a sequence of [name, want]
  Ifs,          \* names of interfaces; each has an rp_filter of its own
  SysctlValues, \* the values a sysctl can have
  MaxIfs,       \* MAX_INTERFACES (strdup failing is as if it were smaller)
  MaxSetups,    \* bound: set-ups, of the daemon or of an interface
  MaxFailures   \* bound: failures, kills and changes by an administrator

Knobs == {Settings[i].name : i \in DOMAIN Settings} \cup Ifs

ASSUME SetupAssumption ==
  /\ SysctlValues \in SUBSET Nat /\ 0 \in SysctlValues
  /\ Len(Settings) \in Nat \ {0} /\ DOMAIN Settings = 1 .. Len(Settings)
  /\ \A i \in DOMAIN Settings : Settings[i].want \in SysctlValues
  /\ \A i, j \in DOMAIN Settings : Settings[i].name = Settings[j].name => i = j
  /\ \A i \in DOMAIN Settings : Settings[i].name \notin Ifs
  /\ MaxIfs \in Nat /\ MaxSetups \in Nat /\ MaxFailures \in Nat

VARIABLES
  knob,      \* kernel: the value of each sysctl
  skip,      \* skip_kernel_setup, from the configuration
  syscall,   \* "idle", or the system call that comes next
  at,        \* the index of the sysctl being set or restored
  ifname,    \* the interface of the last kernel_setup_interface
  phase,     \* what the last kernel_setup left: "down", "up" or "failed"
  ifup,      \* the interfaces whose kernel_setup_interface(1) returned 1
  was,       \* sysctl_settings[].was
  old_if,    \* the table of saved rp_filters
  dgram,     \* is dgram_socket open?
  command,   \* is nl_command.sock open?
  open,      \* sockets the process has open
  origin,    \* history: each sysctl before the daemon started ...
  lost,      \* ... except those that could not be saved or restored
  touched,   \* history: the sysctls an administrator changed
  setups,    \* set-ups so far
  failures   \* failures so far

callerVars == <<phase, ifup, ifname>>
savedVars == <<was, old_if>>
socketVars == <<dgram, command, open>>
historyVars == <<origin, lost, touched>>
setupVars == <<knob, skip, syscall, at, callerVars, savedVars, socketVars,
               historyVars, setups, failures>>

Final == Len(Settings)
Name == Settings[at].name
Want == Settings[at].want
Slots == {i \in DOMAIN old_if : old_if[i].ifname = ifname}

SetupTypeOK ==
  /\ knob \in [Knobs -> SysctlValues] /\ skip \in BOOLEAN
  /\ syscall \in {"idle", "read", "write", "restore", "ifread", "ifwrite", "ifrestore"}
  /\ at \in DOMAIN Settings /\ ifname \in Ifs
  /\ phase \in {"down", "up", "failed"} /\ ifup \subseteq Ifs
  /\ was \in [DOMAIN Settings -> SysctlValues \cup {-1}]
  /\ old_if \in BoundedSeq([ifname : Ifs, rp_filter : SysctlValues \cup {-1}], MaxIfs)
  /\ dgram \in BOOLEAN /\ command \in BOOLEAN /\ open \in Nat
  /\ lost \subseteq Knobs /\ touched \subseteq Knobs
  /\ setups \in 0 .. MaxSetups /\ failures \in 0 .. MaxFailures

(* The process, before it has called anything. *)
Fresh ==
  /\ syscall = "idle" /\ at = 1 /\ phase = "down" /\ ifup = {}
  /\ ifname \in Ifs
  /\ was = [i \in DOMAIN Settings |-> -1] /\ old_if = <<>>
  /\ dgram = FALSE /\ command = FALSE /\ open = 0
InitSetup ==
  /\ knob \in [Knobs -> SysctlValues] /\ skip \in BOOLEAN
  /\ Fresh
  /\ origin = knob /\ lost = {} /\ touched = {}
  /\ setups = 0 /\ failures = 0

Fault == failures < MaxFailures /\ failures' = failures + 1

-------------------------------------------------------------------------------
(* kernel_setup(1). *)

Return(p) == syscall' = "idle" /\ at' = 1 /\ phase' = p /\ UNCHANGED <<ifup, ifname>>
Continue(p) == syscall' = p /\ at' = 1 /\ UNCHANGED callerVars

SetupBegins ==
  /\ syscall = "idle" /\ phase = "down"
  /\ setups < MaxSetups /\ setups' = setups + 1
  /\ UNCHANGED <<knob, skip, savedVars, historyVars>>

DgramFails ==
  /\ SetupBegins
  /\ Fault
  /\ Return("failed")
  /\ UNCHANGED socketVars

(* netlink_socket fails, before it has a socket or after, when it closes it
   again; dgram_socket stays open. *)
(* Mutant of NetlinkSocketFails: the socket is not closed. *)
NetlinkSocketFailsOpen ==
  /\ SetupBegins
  /\ Fault
  /\ Return("failed")
  /\ dgram' = TRUE /\ open' = open + 2 /\ UNCHANGED command
NetlinkSocketFails ==
  /\ SetupBegins
  /\ Fault
  /\ Return("failed")
  /\ dgram' = TRUE /\ open' = open + 1 /\ UNCHANGED command

SocketsOpen ==
  /\ SetupBegins
  /\ IF skip THEN Return("up") ELSE Continue("read")
  /\ dgram' = TRUE /\ command' = TRUE /\ open' = open + 2
  /\ UNCHANGED failures

(* The loop over sysctl_settings; after the last one kernel_setup returns. *)
NextSetting ==
  IF at = Final THEN Return("up")
  ELSE syscall' = "read" /\ at' = at + 1 /\ UNCHANGED callerVars

Read ==
  /\ syscall = "read"
  /\ was' = [was EXCEPT ![at] = knob[Name]]
  /\ IF knob[Name] = Want THEN NextSetting
                          ELSE syscall' = "write" /\ UNCHANGED <<at, callerVars>>
  /\ UNCHANGED <<knob, skip, old_if, socketVars, historyVars, setups, failures>>

ReadFails ==
  /\ syscall = "read"
  /\ Fault
  /\ was' = [was EXCEPT ![at] = -1]
  /\ Return("failed")
  /\ UNCHANGED <<knob, skip, old_if, socketVars, historyVars, setups>>

Write ==
  /\ syscall = "write"
  /\ knob' = [knob EXCEPT ![Name] = Want]
  /\ NextSetting
  /\ UNCHANGED <<skip, savedVars, socketVars, historyVars, setups, failures>>

WriteFails ==
  /\ syscall = "write"
  /\ Fault
  /\ Return("failed")
  /\ UNCHANGED <<knob, skip, savedVars, socketVars, historyVars, setups>>

-------------------------------------------------------------------------------
(* kernel_setup(0). *)

Closed(b) == IF b THEN 1 ELSE 0
Teardown ==
  /\ syscall = "idle" /\ phase # "down"
  /\ dgram' = FALSE /\ command' = FALSE
  /\ open' = open - Closed(dgram) - Closed(command)
  /\ IF skip THEN Return("down") ELSE Continue("restore")
  /\ UNCHANGED <<knob, skip, savedVars, historyVars, setups, failures>>

NextRestore ==
  IF at = Final THEN Return("down")
  ELSE syscall' = "restore" /\ at' = at + 1 /\ UNCHANGED callerVars

(* Mutant of Restore: the test for "has been changed" is inverted. *)
RestoreUnchanged ==
  /\ syscall = "restore"
  /\ knob' = IF was[at] >= 0 /\ was[at] = Want
             THEN [knob EXCEPT ![Name] = was[at]] ELSE knob
  /\ NextRestore
  /\ UNCHANGED <<skip, savedVars, socketVars, historyVars, setups, failures>>
Restore ==
  /\ syscall = "restore"
  /\ knob' = IF was[at] >= 0 /\ was[at] # Want
             THEN [knob EXCEPT ![Name] = was[at]] ELSE knob
  /\ NextRestore
  /\ UNCHANGED <<skip, savedVars, socketVars, historyVars, setups, failures>>

(* The rest is not restored; the caller may try again. *)
RestoreFails ==
  /\ syscall = "restore" /\ was[at] >= 0 /\ was[at] # Want
  /\ Fault
  /\ Return("failed")
  /\ UNCHANGED <<knob, skip, savedVars, socketVars, historyVars, setups>>

-------------------------------------------------------------------------------
(* kernel_setup_interface. *)

IfReturn(up) ==
  syscall' = "idle" /\ ifup' = up /\ UNCHANGED <<at, phase, ifname>>

HasSlot(name) == \E i \in DOMAIN old_if : old_if[i].ifname = name
NewSlot(name) == Append(old_if, [ifname |-> name, rp_filter |-> -1])
(* Mutant of GetOldIf: the table's size is not checked. *)
GetOldIfUnbounded(name) ==
  old_if' = IF HasSlot(name) THEN old_if ELSE NewSlot(name)
(* The interface has a slot, gets a new one, or, the table being full, none. *)
GetOldIf(name) ==
  old_if' = IF HasSlot(name) \/ Len(old_if) = MaxIfs THEN old_if
                                                     ELSE NewSlot(name)

InterfaceBegins(name, setup) ==
  /\ syscall = "idle"
  /\ syscall' = IF setup THEN "ifread" ELSE "ifrestore"
  /\ ifname' = name
  /\ GetOldIf(name)
  /\ UNCHANGED <<knob, skip, at, phase, ifup, was, socketVars, historyVars,
                 failures>>

InterfaceSetup(name) ==
  /\ name \notin ifup
  /\ setups < MaxSetups /\ setups' = setups + 1
  /\ InterfaceBegins(name, TRUE)

InterfaceTeardown(name) ==
  /\ name \in ifup
  /\ InterfaceBegins(name, FALSE)
  /\ UNCHANGED setups

(* rp_filter is saved, and set to 0 unless what was saved is 0: a failure to
   read it, saved as -1, is "not 0".  What is not positive is not restored. *)
(* Mutant of MustClear: the test for restoring it is used. *)
MustClearPositive(value) == value > 0
MustClear(value) == value # 0
Save(value) ==
  /\ old_if' = [i \in DOMAIN old_if |->
                  IF i \in Slots THEN [old_if[i] EXCEPT !.rp_filter = value]
                                 ELSE old_if[i]]
  /\ IF MustClear(value) THEN syscall' = "ifwrite" /\ UNCHANGED <<at, callerVars>>
                         ELSE IfReturn(ifup \cup {ifname})
  /\ UNCHANGED <<knob, skip, was, socketVars, origin, touched, setups>>

InterfaceRead ==
  /\ syscall = "ifread" /\ Slots # {}
  /\ Save(knob[ifname])
  /\ UNCHANGED <<lost, failures>>

InterfaceReadFails ==
  /\ syscall = "ifread" /\ Slots # {}
  /\ Fault
  /\ Save(-1)
  /\ lost' = lost \cup {ifname}

(* Without a slot, "if(old_if[i].rp_filter)" reads old_if[-1]: memory that is
   not part of the table. *)
InterfaceNoSlot ==
  /\ syscall = "ifread" /\ Slots = {}
  /\ \/ syscall' = "ifwrite" /\ UNCHANGED <<at, callerVars>>
     \/ IfReturn(ifup \cup {ifname})
  /\ lost' = lost \cup {ifname}
  /\ UNCHANGED <<knob, skip, savedVars, socketVars, origin, touched, setups,
                 failures>>

InterfaceWrite ==
  /\ syscall = "ifwrite"
  /\ knob' = [knob EXCEPT ![ifname] = 0]
  /\ IfReturn(ifup \cup {ifname})
  /\ UNCHANGED <<skip, savedVars, socketVars, historyVars, setups, failures>>

InterfaceWriteFails ==
  /\ syscall = "ifwrite"
  /\ Fault
  /\ IfReturn(ifup)
  /\ UNCHANGED <<knob, skip, savedVars, socketVars, historyVars, setups>>

InterfaceRestore ==
  /\ syscall = "ifrestore"
  /\ knob' = IF \E i \in Slots : old_if[i].rp_filter > 0
             THEN [knob EXCEPT ![ifname] = old_if[CHOOSE i \in Slots : TRUE].rp_filter]
             ELSE knob
  /\ IfReturn(ifup \ {ifname})
  /\ UNCHANGED <<skip, savedVars, socketVars, historyVars, setups, failures>>

(* A failure is only a warning: kernel_setup_interface(0) returns 1. *)
InterfaceRestoreFails ==
  /\ syscall = "ifrestore" /\ \E i \in Slots : old_if[i].rp_filter > 0
  /\ Fault
  /\ IfReturn(ifup \ {ifname})
  /\ lost' = lost \cup {ifname}
  /\ UNCHANGED <<knob, skip, savedVars, socketVars, origin, touched, setups>>

-------------------------------------------------------------------------------
(* The environment (external). *)

AdministratorWrites(k, v) ==
  /\ v # knob[k]
  /\ Fault
  /\ knob' = [knob EXCEPT ![k] = v]
  /\ lost' = lost \cup {k} /\ touched' = touched \cup {k}
  /\ UNCHANGED <<skip, syscall, at, callerVars, savedVars, socketVars, origin, setups>>

(* The process dies and is started again. *)
Killed ==
  /\ phase # "down" \/ syscall # "idle"
  /\ Fault
  /\ lost' = lost \cup {k \in Knobs : knob[k] # origin[k]}
  /\ syscall' = "idle" /\ at' = 1 /\ phase' = "down" /\ ifup' = {}
  /\ UNCHANGED ifname
  /\ was' = [i \in DOMAIN Settings |-> -1] /\ old_if' = <<>>
  /\ dgram' = FALSE /\ command' = FALSE /\ open' = 0
  /\ UNCHANGED <<knob, skip, origin, touched, setups>>

Interfaces ==
  \/ \E i \in Ifs : InterfaceSetup(i) \/ InterfaceTeardown(i)
  \/ InterfaceRead \/ InterfaceReadFails \/ InterfaceNoSlot
  \/ InterfaceWrite \/ InterfaceWriteFails
  \/ InterfaceRestore \/ InterfaceRestoreFails

NextSetup ==
  \/ DgramFails \/ NetlinkSocketFails \/ SocketsOpen
  \/ Read \/ ReadFails \/ Write \/ WriteFails
  \/ Teardown \/ Restore \/ RestoreFails
  \/ Interfaces
  \/ \E k \in Knobs, v \in SysctlValues : AdministratorWrites(k, v)
  \/ Killed

SpecSetup == InitSetup /\ [][NextSetup]_setupVars

-------------------------------------------------------------------------------
(* Properties. *)

(* "both all/rp_filter and ifname/rp_filter must be set to 0 for the
   rp_filter to be disabled": once kernel_setup(1) and
   kernel_setup_interface(1) have returned 1, both are 0, and the other
   sysctls are as wanted, unless an administrator changed them since;
   whatever could not be read, and whichever earlier attempts failed. *)
Enforced ==
  /\ phase = "up" /\ ~skip /\ syscall # "restore" =>
       \A i \in DOMAIN Settings : \/ knob[Settings[i].name] = Settings[i].want
                                 \/ Settings[i].name \in touched
  /\ \A i \in ifup \ touched :
       HasSlot(i) => knob[i] = 0 \/ (syscall = "ifrestore" /\ ifname = i)

(* The comment of kernel_setup_interface, for every interface it was called
   for: while nothing fails and nobody interferes, its rp_filter is 0. *)
RpFilterDisabled == failures = 0 /\ syscall = "idle" => \A i \in ifup : knob[i] = 0

(* A tear-down that returns 1 has given back every sysctl as it was before
   the daemon started, also after a set-up or an earlier tear-down that
   failed half-way; those of the interfaces that are down too. *)
GivenBack ==
  syscall = "idle" =>
    /\ phase = "down" => \A k \in Knobs \ (lost \cup Ifs) : knob[k] = origin[k]
    /\ \A k \in Ifs \ (lost \cup ifup) : knob[k] = origin[k]

(* No path through set-up and tear-down leaks a socket. *)
NoLeak == open = Closed(dgram) + Closed(command)
===============================================================================
