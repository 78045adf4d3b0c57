--------------------------- MODULE KernelSetupProofs ---------------------------
(***************************************************************************)
(* Theorems about KernelSetup, for any sysctls and interfaces, a table of  *)
(* any size, and any number of set-ups, failures, kills and changes by an  *)
(* administrator.                                                          *)
(***************************************************************************)
EXTENDS KernelSetup, SequenceTheorems, TLAPS

-------------------------------------------------------------------------------
(* The inductive invariant. *)

Setting == DOMAIN Settings
NameOf(i) == Settings[i].name
WantOf(i) == Settings[i].want
SettingUp == syscall \in {"read", "write"}

(* Which steps are taken in which phase. *)
Phases ==
  /\ SettingUp => phase = "down"
  /\ syscall = "restore" => phase # "down"
  /\ skip => ~SettingUp /\ syscall # "restore"
  /\ syscall \in {"ifread", "ifwrite"} => ifname \notin ifup

(* The values to give back are values. *)
Originals == origin \in [Knobs -> SysctlValues]

(* Nothing is open before a set-up, and from a tear-down's first step on. *)
Sockets ==
  /\ syscall = "restore" \/ (phase = "down" /\ ~SettingUp) => ~dgram /\ ~command
  /\ NoLeak

(* No interface has two slots. *)
OneSlot == \A i, j \in DOMAIN old_if : old_if[i].ifname = old_if[j].ifname => i = j

(* The settings a set-up has come to have the wanted value. *)
Wanted(i) == knob[NameOf(i)] = WantOf(i) \/ NameOf(i) \in touched
EnforcedSoFar ==
  /\ SettingUp => \A i \in Setting : i < at => Wanted(i)
  /\ phase = "up" /\ ~skip /\ syscall # "restore" => \A i \in Setting : Wanted(i)
EnforcedOnInterfaces ==
  \A i \in ifup \ touched :
    HasSlot(i) => knob[i] = 0 \/ (syscall = "ifrestore" /\ ifname = i)

(* A setting that this life of the process has not yet set, or has given
   back; what is saved of it, and what the kernel has if it was set. *)
Pristine(i) ==
  \/ skip
  \/ phase = "down" /\ ~SettingUp
  \/ SettingUp /\ i >= at
  \/ syscall = "restore" /\ i < at
SettingKept(i) ==
  /\ was[i] \in {-1, origin[NameOf(i)]}
  /\ \/ knob[NameOf(i)] = origin[NameOf(i)]
     \/ was[i] = origin[NameOf(i)] /\ knob[NameOf(i)] = WantOf(i)
  /\ Pristine(i) => knob[NameOf(i)] = origin[NameOf(i)]
  /\ syscall = "write" /\ i = at => was[i] = origin[NameOf(i)]
SettingsKept == \A i \in Setting : NameOf(i) \notin lost => SettingKept(i)

(* The same of an interface's rp_filter and its slot. *)
SavedOf(k) ==
  \E j \in DOMAIN old_if : old_if[j].ifname = k /\ old_if[j].rp_filter = origin[k]
InterfaceKept(k) ==
  /\ \A j \in DOMAIN old_if :
       old_if[j].ifname = k => old_if[j].rp_filter \in {-1, origin[k]}
  /\ knob[k] = origin[k] \/ (k \in ifup /\ knob[k] = 0 /\ SavedOf(k))
  /\ syscall = "ifwrite" /\ k = ifname => SavedOf(k)
InterfacesKept == \A k \in Ifs \ lost : InterfaceKept(k)

IInv == /\ SetupTypeOK /\ Originals /\ Phases /\ Sockets /\ OneSlot
        /\ EnforcedSoFar /\ EnforcedOnInterfaces
        /\ SettingsKept /\ InterfacesKept

-------------------------------------------------------------------------------
(* Constants, and the table of saved rp_filters. *)

Slot == [ifname : Ifs, rp_filter : SysctlValues \cup {-1}]

(* The names and wanted values of the settings. *)
LEMMA SettingFacts ==
  /\ Setting = 1 .. Final /\ Final \in Nat /\ Final > 0
  /\ \A i \in Setting : NameOf(i) \in Knobs \ Ifs /\ WantOf(i) \in SysctlValues
  /\ \A i, j \in Setting : NameOf(i) = NameOf(j) => i = j
  /\ Ifs \subseteq Knobs /\ SysctlValues \subseteq Nat /\ 0 \in SysctlValues
  BY SetupAssumption DEF Setting, Final, NameOf, WantOf, Knobs

(* A bounded sequence, without the community module's name for it. *)
LEMMA BoundedTable ==
  ASSUME NEW t
  PROVE  t \in BoundedSeq(Slot, MaxIfs) <=> t \in Seq(Slot) /\ Len(t) <= MaxIfs
<1>1. MaxIfs \in Nat
  BY SetupAssumption
<1>2. ASSUME t \in BoundedSeq(Slot, MaxIfs)
      PROVE  t \in Seq(Slot) /\ Len(t) <= MaxIfs
  BY <1>1, <1>2 DEF BoundedSeq, SeqOf
<1>3. ASSUME t \in Seq(Slot), Len(t) <= MaxIfs
      PROVE  t \in BoundedSeq(Slot, MaxIfs)
  <2>1. t \in [1 .. Len(t) -> Slot] /\ Len(t) \in 0 .. MaxIfs
    BY <1>1, <1>3, LenProperties
  <2> QED BY <2>1 DEF BoundedSeq, SeqOf
<1> QED BY <1>2, <1>3

(* The slots of old_if are well formed, and no more than MAX_INTERFACES. *)
LEMMA TableType ==
  ASSUME SetupTypeOK
  PROVE  /\ old_if \in Seq(Slot) /\ Len(old_if) <= MaxIfs /\ Len(old_if) \in Nat
         /\ DOMAIN old_if = 1 .. Len(old_if)
         /\ \A j \in DOMAIN old_if : old_if[j] \in Slot
<1>1. old_if \in Seq(Slot) /\ Len(old_if) <= MaxIfs
  BY BoundedTable DEF SetupTypeOK, Slot
<1> QED BY <1>1, LenProperties, ElementOfSeq

(* Looking up an interface's slot leaves the others alone, and makes at most
   one, with nothing saved in it. *)
LEMMA GotSlot ==
  ASSUME SetupTypeOK, OneSlot, NEW name \in Ifs, GetOldIf(name)
  PROVE  /\ old_if' \in BoundedSeq(Slot, MaxIfs)
         /\ OneSlot'
         /\ DOMAIN old_if \subseteq DOMAIN old_if'
         /\ \A j \in DOMAIN old_if : old_if'[j] = old_if[j]
         /\ \A j \in DOMAIN old_if' \ DOMAIN old_if :
              old_if'[j] = [ifname |-> name, rp_filter |-> -1]
<1>1. CASE old_if' = old_if
  BY <1>1 DEF SetupTypeOK, OneSlot, Slot
<1>2. CASE ~HasSlot(name) /\ Len(old_if) # MaxIfs /\ old_if' = NewSlot(name)
  <2> DEFINE e == [ifname |-> name, rp_filter |-> -1]
             n == Len(old_if)
  <2>1. e \in Slot
    BY DEF Slot
  <2>2. /\ old_if \in Seq(Slot) /\ n <= MaxIfs /\ n \in Nat /\ DOMAIN old_if = 1 .. n
    BY TableType
  <2>3. /\ old_if' \in Seq(Slot) /\ Len(old_if') = n + 1
        /\ \A j \in 1 .. n : old_if'[j] = old_if[j]
        /\ old_if'[n + 1] = e
        /\ DOMAIN old_if' = 1 .. n + 1
    BY <1>2, <2>1, <2>2, AppendProperties, LenProperties DEF NewSlot
  <2>4. old_if' \in BoundedSeq(Slot, MaxIfs)
    <3>1. MaxIfs \in Nat
      BY SetupAssumption
    <3>2. n + 1 <= MaxIfs
      <4>1. n # MaxIfs
        BY <1>2
      <4>2. \A a, b \in Nat : a <= b /\ a # b => a + 1 <= b
        OBVIOUS
      <4> QED BY <2>2, <3>1, <4>1, <4>2
    <3> QED BY <2>3, <3>2, BoundedTable
  <2>5. \A j \in 1 .. n : old_if[j].ifname # name
    BY <1>2, <2>2 DEF HasSlot
  <2>6. OneSlot'
    BY <2>2, <2>3, <2>5 DEF OneSlot
  <2> QED BY <2>2, <2>3, <2>4, <2>6
<1> QED BY <1>1, <1>2 DEF GetOldIf

(* Saving a value in the interface's slot changes that slot only. *)
LEMMA SavedInSlot ==
  ASSUME SetupTypeOK, OneSlot, NEW v \in SysctlValues \cup {-1}, Save(v)
  PROVE  /\ old_if' \in BoundedSeq(Slot, MaxIfs)
         /\ OneSlot'
         /\ DOMAIN old_if' = DOMAIN old_if
         /\ \A j \in DOMAIN old_if :
              /\ old_if'[j].ifname = old_if[j].ifname
              /\ old_if'[j].rp_filter =
                   IF old_if[j].ifname = ifname THEN v ELSE old_if[j].rp_filter
<1>1. /\ old_if \in Seq(Slot) /\ Len(old_if) <= MaxIfs /\ Len(old_if) \in Nat
      /\ DOMAIN old_if = 1 .. Len(old_if)
      /\ \A j \in DOMAIN old_if : old_if[j] \in Slot
  BY TableType
<1>2. old_if' = [i \in DOMAIN old_if |->
                  IF i \in Slots THEN [old_if[i] EXCEPT !.rp_filter = v]
                                 ELSE old_if[i]]
  BY DEF Save
<1>3. \A j \in DOMAIN old_if : 
        /\ old_if'[j] \in Slot
        /\ old_if'[j].ifname = old_if[j].ifname
        /\ old_if'[j].rp_filter =
             IF old_if[j].ifname = ifname THEN v ELSE old_if[j].rp_filter
  BY <1>1, <1>2 DEF Slot, Slots
<1>4. old_if' \in [1 .. Len(old_if) -> Slot]
  BY <1>1, <1>2, <1>3
<1>5. old_if' \in Seq(Slot) /\ Len(old_if') = Len(old_if)
  <2>1. old_if' \in Seq(Slot)
    BY <1>1, <1>4
  <2> QED BY <1>1, <1>2, <2>1, LenProperties
<1>6. old_if' \in BoundedSeq(Slot, MaxIfs)
  BY <1>1, <1>5, BoundedTable
<1>7. DOMAIN old_if' = DOMAIN old_if
  BY <1>2
<1>8. OneSlot'
  BY <1>3, <1>7 DEF OneSlot
<1> QED BY <1>3, <1>6, <1>7, <1>8

(* The value that a tear-down of the interface puts back is the one its only
   slot has. *)
LEMMA RestoredValue ==
  ASSUME SetupTypeOK, OneSlot, NEW i \in Slots, old_if[i].rp_filter > 0
  PROVE  LET v == old_if[CHOOSE j \in Slots : TRUE].rp_filter
         IN  v = old_if[i].rp_filter /\ v \in SysctlValues
<1>1. (CHOOSE j \in Slots : TRUE) \in Slots
  OBVIOUS
<1>2. (CHOOSE j \in Slots : TRUE) = i
  BY <1>1 DEF Slots, OneSlot
<1>3. old_if[i] \in Slot
  BY TableType DEF Slots
<1>4. old_if[i].rp_filter \in SysctlValues
  BY <1>3 DEF Slot
<1> QED BY <1>2, <1>4

-------------------------------------------------------------------------------
(* The types. *)

(* Every step keeps the types, and the one slot of an interface. *)
LEMMA TypeStep ==
  ASSUME SetupTypeOK, NoLeak, OneSlot, [NextSetup]_setupVars
  PROVE  SetupTypeOK' /\ OneSlot'
<1> USE SettingFacts, SetupAssumption DEF Setting
<1>a. Settings[at].name \in Knobs /\ Settings[at].want \in SysctlValues
  BY DEF SetupTypeOK, NameOf, WantOf
<1>b. at + 1 \in DOMAIN Settings \/ at = Final
  BY DEF SetupTypeOK
<1>1. CASE DgramFails
  BY <1>1 DEF DgramFails, SetupBegins, Fault, Return, SetupTypeOK, OneSlot, savedVars,
       socketVars, historyVars
<1>2. CASE NetlinkSocketFails
  BY <1>2 DEF NetlinkSocketFails, SetupBegins, Fault, Return, SetupTypeOK, OneSlot,
       savedVars, socketVars, historyVars
<1>3. CASE SocketsOpen
  BY <1>3 DEF SocketsOpen, SetupBegins, Return, Continue, SetupTypeOK, OneSlot,
       savedVars, callerVars, historyVars
<1>4. CASE Read
  <2>1. was' \in [DOMAIN Settings -> SysctlValues \cup {-1}]
    BY <1>4, <1>a DEF Read, Name, SetupTypeOK
  <2> QED
    BY <1>4, <1>b, <2>1 DEF Read, Return, NextSetting, SetupTypeOK, OneSlot,
         callerVars, socketVars, historyVars
<1>8. CASE ReadFails
  BY <1>8 DEF ReadFails, Fault, Return, SetupTypeOK, OneSlot, socketVars, historyVars
<1>5. CASE Write \/ WriteFails
  BY <1>5, <1>a, <1>b DEF Write, WriteFails, Fault, Return, NextSetting, SetupTypeOK,
       OneSlot, Name, Want, callerVars, savedVars, socketVars, historyVars
<1>6. CASE Teardown
  <2>1. Closed(dgram) \in Nat /\ Closed(command) \in Nat
    BY DEF Closed
  <2>2. open' = 0
    BY <1>6, <2>1 DEF Teardown, NoLeak
  <2>3. /\ syscall' \in {"idle", "restore"} /\ at' \in DOMAIN Settings /\ ifname' = ifname
        /\ phase' \in {"down", phase} /\ ifup' = ifup
    BY <1>6 DEF Teardown, Return, Continue, callerVars
  <2>4. dgram' \in BOOLEAN /\ command' \in BOOLEAN
    BY <1>6, Zenon DEF Teardown
  <2> QED
    BY <1>6, <2>2, <2>3, <2>4 DEF Teardown, SetupTypeOK, OneSlot, savedVars, historyVars
<1>7. CASE Restore \/ RestoreFails
  BY <1>7, <1>a, <1>b DEF Restore, RestoreFails, Fault, Return, NextRestore,
       SetupTypeOK, OneSlot, Name, Want, callerVars, savedVars, socketVars, historyVars
<1>9. ASSUME NEW name \in Ifs, InterfaceSetup(name) \/ InterfaceTeardown(name)
      PROVE  SetupTypeOK' /\ OneSlot'
  <2>1. old_if' \in BoundedSeq(Slot, MaxIfs) /\ OneSlot'
    BY <1>9, GotSlot DEF InterfaceSetup, InterfaceTeardown, InterfaceBegins
  <2> QED
    BY <1>9, <2>1 DEF InterfaceSetup, InterfaceTeardown, InterfaceBegins, SetupTypeOK,
         Slot, socketVars, historyVars
<1>10. ASSUME NEW v \in SysctlValues \cup {-1}, Save(v), lost' \subseteq Knobs,
              failures' \in 0 .. MaxFailures
       PROVE  SetupTypeOK' /\ OneSlot'
  <2>1. old_if' \in BoundedSeq(Slot, MaxIfs) /\ OneSlot'
    BY <1>10, SavedInSlot
  <2> QED
    BY <1>10, <2>1 DEF Save, IfReturn, SetupTypeOK, Slot, socketVars, callerVars
<1>11. CASE InterfaceRead
  BY <1>10, <1>11 DEF InterfaceRead, SetupTypeOK
<1>12. CASE InterfaceReadFails
  <2>1. Save(-1) /\ lost' \subseteq Knobs /\ failures' \in 0 .. MaxFailures
    BY <1>12 DEF InterfaceReadFails, Fault, SetupTypeOK
  <2> QED BY <1>10, <2>1
<1>13. CASE InterfaceNoSlot
  BY <1>13 DEF InterfaceNoSlot, IfReturn, SetupTypeOK, OneSlot, savedVars, socketVars,
       callerVars
<1>14. CASE InterfaceWrite \/ InterfaceWriteFails
  BY <1>14 DEF InterfaceWrite, InterfaceWriteFails, IfReturn, Fault, SetupTypeOK,
       OneSlot, savedVars, socketVars, historyVars
<1>15. CASE InterfaceRestore \/ InterfaceRestoreFails
  <2>1. knob' \in [Knobs -> SysctlValues]
    <3>1. CASE knob' = knob
      BY <3>1 DEF SetupTypeOK
    <3>2. CASE /\ \E i \in Slots : old_if[i].rp_filter > 0
               /\ knob' = [knob EXCEPT ![ifname] =
                             old_if[CHOOSE i \in Slots : TRUE].rp_filter]
      BY <3>2, RestoredValue DEF SetupTypeOK
    <3> QED BY <1>15, <3>1, <3>2 DEF InterfaceRestore, InterfaceRestoreFails
  <2> QED
    BY <1>15, <2>1 DEF InterfaceRestore, InterfaceRestoreFails, IfReturn, Fault,
         SetupTypeOK, OneSlot, savedVars, socketVars, historyVars
<1>16. ASSUME NEW k \in Knobs, NEW v \in SysctlValues, AdministratorWrites(k, v)
       PROVE  SetupTypeOK' /\ OneSlot'
  BY <1>16 DEF AdministratorWrites, Fault, SetupTypeOK, OneSlot, callerVars, savedVars,
       socketVars
<1>17. CASE Killed
  <2>1. old_if' \in BoundedSeq(Slot, MaxIfs)
    <3>1. <<>> \in Seq(Slot) /\ Len(<<>>) = 0 /\ MaxIfs \in Nat
      BY SetupAssumption
    <3>2. Len(<<>>) <= MaxIfs
      BY <3>1
    <3>3. <<>> \in BoundedSeq(Slot, MaxIfs)
      BY <3>1, <3>2, BoundedTable
    <3> QED BY <1>17, <3>3 DEF Killed
  <2>2. OneSlot'
    BY <1>17 DEF Killed, OneSlot
  <2>3. dgram' \in BOOLEAN /\ command' \in BOOLEAN
    BY <1>17, Zenon DEF Killed
  <2>4. was' \in [DOMAIN Settings -> SysctlValues \cup {-1}]
    BY <1>17 DEF Killed
  <2> QED
    BY <1>17, <2>1, <2>2, <2>3, <2>4 DEF Killed, Fault, SetupTypeOK, Slot
<1>18. CASE UNCHANGED setupVars
  BY <1>18 DEF setupVars, SetupTypeOK, OneSlot, callerVars, savedVars, socketVars, historyVars
<1> QED
  BY <1>1, <1>2, <1>3, <1>4, <1>5, <1>6, <1>7, <1>8, <1>9, <1>11, <1>12, <1>13,
     <1>14, <1>15, <1>16, <1>17, <1>18 DEF NextSetup, Interfaces

-------------------------------------------------------------------------------
(* What each half of the component leaves to the other. *)

KernelSetupStep ==
  \/ DgramFails \/ NetlinkSocketFails \/ SocketsOpen
  \/ Read \/ ReadFails \/ Write \/ WriteFails
  \/ Teardown \/ Restore \/ RestoreFails

(* kernel_setup does not touch the interfaces' rp_filters. *)
LEMMA SetupKeepsInterfaces ==
  ASSUME SetupTypeOK, KernelSetupStep
  PROVE  /\ \A k \in Ifs : knob'[k] = knob[k]
         /\ UNCHANGED <<ifname, ifup, old_if, origin, lost, touched, skip>>
         /\ syscall \in {"idle", "read", "write", "restore"}
         /\ syscall' \in {"idle", "read", "write", "restore"}
<1>1. /\ at \in Setting /\ Settings[at].name \notin Ifs
      /\ \A k \in Ifs : k \in Knobs /\ k # Settings[at].name
  BY SettingFacts DEF SetupTypeOK, Setting, NameOf
<1>2. CASE DgramFails \/ NetlinkSocketFails \/ SocketsOpen \/ Teardown
  BY <1>2 DEF DgramFails, NetlinkSocketFails, SocketsOpen, Teardown, SetupBegins,
       Return, Continue, callerVars, savedVars, historyVars
<1>3. CASE Read \/ ReadFails
  BY <1>3 DEF Read, ReadFails, NextSetting, Return, callerVars, historyVars
<1>4. CASE Write \/ WriteFails
  BY <1>1, <1>4 DEF Write, WriteFails, NextSetting, Return, callerVars, savedVars,
       historyVars, Name, SetupTypeOK
<1>5. CASE Restore \/ RestoreFails
  BY <1>1, <1>5 DEF Restore, RestoreFails, NextRestore, Return, callerVars,
       savedVars, historyVars, Name, SetupTypeOK
<1> QED BY <1>2, <1>3, <1>4, <1>5 DEF KernelSetupStep

(* kernel_setup_interface does not touch the settings and the sockets. *)
LEMMA InterfacesKeepSettings ==
  ASSUME SetupTypeOK, Interfaces
  PROVE  /\ \A i \in Setting : knob'[NameOf(i)] = knob[NameOf(i)]
         /\ UNCHANGED <<skip, at, phase, was, dgram, command, open, origin, touched>>
         /\ lost \subseteq lost'
         /\ ~SettingUp /\ syscall # "restore" /\ ~SettingUp' /\ syscall' # "restore"
<1>1. \A i \in Setting : NameOf(i) # ifname /\ NameOf(i) \in Knobs
  BY SettingFacts DEF SetupTypeOK
<1>2. CASE \E i \in Ifs : InterfaceSetup(i) \/ InterfaceTeardown(i)
  BY <1>2 DEF InterfaceSetup, InterfaceTeardown, InterfaceBegins, socketVars,
       historyVars, SettingUp
<1>3. CASE InterfaceRead \/ InterfaceReadFails
  BY <1>3 DEF InterfaceRead, InterfaceReadFails, Save, IfReturn, socketVars,
       historyVars, SettingUp, callerVars
<1>4. CASE InterfaceNoSlot
  BY <1>4 DEF InterfaceNoSlot, IfReturn, socketVars, savedVars, SettingUp,
       callerVars
<1>5. CASE InterfaceWrite \/ InterfaceWriteFails
  BY <1>1, <1>5 DEF InterfaceWrite, InterfaceWriteFails, IfReturn, socketVars,
       savedVars, historyVars, SettingUp, SetupTypeOK
<1>6. CASE InterfaceRestore \/ InterfaceRestoreFails
  BY <1>1, <1>6 DEF InterfaceRestore, InterfaceRestoreFails, IfReturn, socketVars,
       savedVars, historyVars, SettingUp, SetupTypeOK
<1> QED BY <1>2, <1>3, <1>4, <1>5, <1>6 DEF Interfaces

-------------------------------------------------------------------------------
(* The steps, one part of the invariant at a time. *)

(* kernel_setup takes its steps in the phase they belong to. *)
LEMMA PhasesStep ==
  ASSUME SetupTypeOK, Phases, [NextSetup]_setupVars
  PROVE  Phases'
<1>1. CASE DgramFails \/ NetlinkSocketFails \/ SocketsOpen
  BY <1>1 DEF DgramFails, NetlinkSocketFails, SocketsOpen, SetupBegins, Return,
       Continue, Phases, SettingUp, callerVars
<1>2. CASE Read \/ ReadFails
  BY <1>2 DEF Read, ReadFails, NextSetting, Return, Phases, SettingUp, callerVars
<1>3. CASE Write \/ WriteFails
  BY <1>3 DEF Write, WriteFails, NextSetting, Return, Phases, SettingUp, callerVars
<1>4. CASE Teardown
  BY <1>4 DEF Teardown, Return, Continue, Phases, SettingUp, callerVars
<1>5. CASE Restore \/ RestoreFails
  BY <1>5 DEF Restore, RestoreFails, NextRestore, Return, Phases, SettingUp,
       callerVars
<1>6. CASE Interfaces
  <2>1. syscall' \in {"ifread", "ifwrite"} => ifname' \notin ifup'
    <3>1. CASE \E i \in Ifs : InterfaceSetup(i) \/ InterfaceTeardown(i)
      BY <3>1 DEF InterfaceSetup, InterfaceTeardown, InterfaceBegins
    <3>2. CASE InterfaceRead \/ InterfaceReadFails \/ InterfaceNoSlot
      BY <3>2 DEF InterfaceRead, InterfaceReadFails, InterfaceNoSlot, Save,
           IfReturn, callerVars, Phases
    <3>3. CASE \/ InterfaceWrite \/ InterfaceWriteFails
               \/ InterfaceRestore \/ InterfaceRestoreFails
      BY <3>3 DEF InterfaceWrite, InterfaceWriteFails, InterfaceRestore,
           InterfaceRestoreFails, IfReturn
    <3> QED BY <1>6, <3>1, <3>2, <3>3 DEF Interfaces
  <2> QED BY <1>6, <2>1, InterfacesKeepSettings DEF Phases
<1>7. CASE \E k \in Knobs, v \in SysctlValues : AdministratorWrites(k, v)
  BY <1>7 DEF AdministratorWrites, Phases, SettingUp, callerVars
<1>8. CASE Killed
  BY <1>8 DEF Killed, Phases, SettingUp
<1>9. CASE UNCHANGED setupVars
  BY <1>9 DEF setupVars, callerVars, Phases, SettingUp
<1> QED
  BY <1>1, <1>2, <1>3, <1>4, <1>5, <1>6, <1>7, <1>8, <1>9 DEF NextSetup

(* History does not change. *)
LEMMA OriginalsStep ==
  ASSUME SetupTypeOK, Originals, [NextSetup]_setupVars
  PROVE  Originals'
<1>1. KernelSetupStep \/ Interfaces => origin' = origin
  BY SetupKeepsInterfaces, InterfacesKeepSettings
<1>2. (\E k \in Knobs, v \in SysctlValues : AdministratorWrites(k, v)) => origin' = origin
  BY DEF AdministratorWrites
<1>3. Killed \/ UNCHANGED setupVars => origin' = origin
  BY DEF Killed, setupVars, historyVars
<1> QED
  BY <1>1, <1>2, <1>3 DEF Originals, NextSetup, KernelSetupStep

(* What the process has open, it has a name for. *)
LEMMA SocketsStep ==
  ASSUME SetupTypeOK, Phases, Sockets, [NextSetup]_setupVars
  PROVE  Sockets'
<1> USE DEF Sockets, NoLeak, Closed
<1>1. CASE DgramFails \/ NetlinkSocketFails \/ SocketsOpen
  BY <1>1 DEF DgramFails, NetlinkSocketFails, SocketsOpen, SetupBegins, Return,
       Continue, SettingUp, callerVars, socketVars, SetupTypeOK
<1>2. CASE Read \/ ReadFails
  BY <1>2 DEF Read, ReadFails, NextSetting, Return, SettingUp, callerVars,
       socketVars
<1>3. CASE Write \/ WriteFails
  BY <1>3 DEF Write, WriteFails, NextSetting, Return, SettingUp, callerVars,
       socketVars
<1>4. CASE Teardown
  BY <1>4 DEF Teardown, Return, Continue, SettingUp, callerVars, SetupTypeOK
<1>5. CASE Restore \/ RestoreFails
  BY <1>5 DEF Restore, RestoreFails, NextRestore, Return, SettingUp, Phases,
       callerVars, socketVars
<1>6. CASE Interfaces
  BY <1>6, InterfacesKeepSettings
<1>7. CASE \E k \in Knobs, v \in SysctlValues : AdministratorWrites(k, v)
  BY <1>7 DEF AdministratorWrites, SettingUp, callerVars, socketVars
<1>8. CASE Killed
  BY <1>8 DEF Killed, SettingUp
<1>9. CASE UNCHANGED setupVars
  BY <1>9 DEF setupVars, callerVars, socketVars, SettingUp
<1> QED
  BY <1>1, <1>2, <1>3, <1>4, <1>5, <1>6, <1>7, <1>8, <1>9 DEF NextSetup

(* A set-up goes on to the next setting only when this one is as wanted. *)
LEMMA EnforcedSoFarStep ==
  ASSUME SetupTypeOK, Phases, EnforcedSoFar, [NextSetup]_setupVars
  PROVE  EnforcedSoFar'
<1> USE SettingFacts DEF EnforcedSoFar
<1>0. /\ at \in Setting /\ at \in Nat /\ Name = NameOf(at) /\ Want = WantOf(at)
      /\ \A i \in Setting : i \in Nat /\ NameOf(i) \in Knobs /\ i <= Final
      /\ \A i \in Setting : i # at => NameOf(i) # Name
  BY DEF SetupTypeOK, Setting, Name, Want, NameOf, WantOf
<1>1. CASE DgramFails \/ NetlinkSocketFails \/ SocketsOpen
  BY <1>1 DEF DgramFails, NetlinkSocketFails, SocketsOpen, SetupBegins, Return,
       Continue, SettingUp, callerVars
<1>2. CASE Read \/ Write
  <2>1. /\ SettingUp /\ phase = "down"
        /\ \A i \in Setting : i < at => Wanted(i)
    BY <1>2 DEF Read, Write, Phases, SettingUp
  <2>2. \A i \in Setting : i < at => Wanted(i)'
    BY <1>0, <1>2, <2>1 DEF Read, Write, Wanted, historyVars, SetupTypeOK
  <2>3. CASE syscall' = "write"
    <3>1. at' = at /\ phase' = phase
      BY <1>2, <2>3 DEF Read, Write, NextSetting, Return, callerVars
    <3> QED BY <2>1, <2>2, <2>3, <3>1
  <2>4. CASE syscall' # "write"
    <3>1. /\ \A i \in Setting : i = at => Wanted(i)'
          /\ NextSetting
      BY <1>0, <1>2, <2>4 DEF Read, Write, Wanted, historyVars, SetupTypeOK
    <3>2. \A i \in Setting : i <= at => Wanted(i)'
      BY <1>0, <2>2, <3>1
    <3>3. CASE at = Final
      BY <1>0, <3>1, <3>2, <3>3 DEF NextSetting, Return, SettingUp
    <3>4. CASE at # Final
      BY <1>0, <2>1, <3>1, <3>2, <3>4 DEF NextSetting, callerVars
    <3> QED BY <3>3, <3>4
  <2> QED BY <2>3, <2>4
<1>3. CASE ReadFails \/ WriteFails
  BY <1>3 DEF ReadFails, WriteFails, Return, SettingUp
<1>4. CASE Teardown
  BY <1>4 DEF Teardown, Return, Continue, SettingUp, callerVars
<1>5. CASE Restore \/ RestoreFails
  BY <1>5 DEF Restore, RestoreFails, NextRestore, Return, SettingUp, callerVars
<1>6. CASE Interfaces
  BY <1>6, InterfacesKeepSettings DEF Wanted
<1>7. CASE \E k \in Knobs, v \in SysctlValues : AdministratorWrites(k, v)
  BY <1>0, <1>7 DEF AdministratorWrites, Wanted, SettingUp, callerVars, SetupTypeOK
<1>8. CASE Killed
  BY <1>8 DEF Killed, SettingUp
<1>9. CASE UNCHANGED setupVars
  BY <1>9 DEF setupVars, callerVars, historyVars, Wanted, SettingUp
<1> QED
  BY <1>1, <1>2, <1>3, <1>4, <1>5, <1>6, <1>7, <1>8, <1>9 DEF NextSetup

(* An interface that is up has its rp_filter cleared, or never got a slot. *)
LEMMA EnforcedOnInterfacesStep ==
  ASSUME SetupTypeOK, OneSlot, Phases, EnforcedOnInterfaces, [NextSetup]_setupVars
  PROVE  EnforcedOnInterfaces'
<1> USE DEF EnforcedOnInterfaces
<1>0. ifup \subseteq Ifs /\ Ifs \subseteq Knobs /\ ifname \in Ifs
  BY SettingFacts DEF SetupTypeOK
<1>1. CASE KernelSetupStep
  BY <1>0, <1>1, SetupKeepsInterfaces DEF HasSlot
<1>2. ASSUME NEW name \in Ifs, InterfaceSetup(name) \/ InterfaceTeardown(name)
      PROVE  EnforcedOnInterfaces'
  <2>1. /\ syscall = "idle" /\ syscall' \in {"ifread", "ifrestore"} /\ ifname' = name
        /\ syscall' = "ifread" => name \notin ifup
        /\ GetOldIf(name)
        /\ UNCHANGED <<knob, ifup, touched>>
    BY <1>2 DEF InterfaceSetup, InterfaceTeardown, InterfaceBegins, historyVars
  <2>2. ASSUME NEW i \in ifup \ touched, HasSlot(i)', i # name
        PROVE  HasSlot(i)
    BY <2>1, <2>2, GotSlot DEF HasSlot
  <2> QED BY <2>1, <2>2
<1>3. CASE InterfaceRead \/ InterfaceReadFails
  <2>1. PICK v \in SysctlValues \cup {-1} : Save(v) /\ (v = knob[ifname] \/ v = -1)
    BY <1>0, <1>3 DEF InterfaceRead, InterfaceReadFails, SetupTypeOK
  <2>2. \A i : HasSlot(i)' <=> HasSlot(i)
    BY <2>1, SavedInSlot DEF HasSlot
  <2>3. /\ syscall = "ifread" /\ knob' = knob /\ touched' = touched /\ ifname' = ifname
        /\ ifup' = ifup \/ (ifup' = ifup \cup {ifname} /\ v = 0)
    BY <1>3, <2>1 DEF InterfaceRead, InterfaceReadFails, Save, MustClear, IfReturn,
         callerVars
  <2> QED BY <2>1, <2>2, <2>3
<1>4. CASE InterfaceNoSlot
  <2>1. /\ syscall = "ifread" /\ knob' = knob /\ touched' = touched /\ old_if' = old_if
        /\ ifup' = ifup \/ ifup' = ifup \cup {ifname}
        /\ ~HasSlot(ifname)
    BY <1>4 DEF InterfaceNoSlot, IfReturn, callerVars, savedVars, Slots, HasSlot
  <2> QED BY <2>1 DEF HasSlot
<1>5. CASE InterfaceWrite \/ InterfaceWriteFails
  BY <1>0, <1>5 DEF InterfaceWrite, InterfaceWriteFails, IfReturn, savedVars,
       historyVars, HasSlot, SetupTypeOK
<1>6. CASE InterfaceRestore \/ InterfaceRestoreFails
  <2>1. /\ syscall = "ifrestore" /\ ifup' = ifup \ {ifname} /\ touched' = touched
        /\ old_if' = old_if /\ syscall' = "idle"
        /\ \A i \in Ifs : i # ifname => knob'[i] = knob[i]
    BY <1>0, <1>6 DEF InterfaceRestore, InterfaceRestoreFails, IfReturn, savedVars,
       historyVars, SetupTypeOK
  <2> QED BY <1>0, <2>1 DEF HasSlot
<1>7. CASE \E k \in Knobs, v \in SysctlValues : AdministratorWrites(k, v)
  BY <1>0, <1>7 DEF AdministratorWrites, callerVars, savedVars, HasSlot, SetupTypeOK
<1>8. CASE Killed
  BY <1>8 DEF Killed
<1>9. CASE UNCHANGED setupVars
  BY <1>9 DEF setupVars, callerVars, savedVars, historyVars, HasSlot
<1> QED
  BY <1>1, <1>2, <1>3, <1>4, <1>5, <1>6, <1>7, <1>8, <1>9
  DEF NextSetup, Interfaces, KernelSetupStep

(* What is saved of a setting is what it was, and only a setting that differs
   from it may have the wanted value: every step of a set-up and of a
   tear-down, and every failure half-way, keeps this. *)
LEMMA SettingsKeptStep ==
  ASSUME SetupTypeOK, Originals, Phases, SettingsKept, [NextSetup]_setupVars
  PROVE  SettingsKept'
<1> USE SettingFacts
<1>0. /\ at \in Setting /\ at \in Nat /\ Name = NameOf(at) /\ Want = WantOf(at)
      /\ \A i \in Setting : i \in Nat /\ NameOf(i) \in Knobs /\ 1 <= i /\ i <= Final
      /\ \A i \in Setting : i # at => NameOf(i) # Name
      /\ \A k \in Knobs : knob[k] \in Nat /\ origin[k] \in Nat
  <2>1. at \in Setting
    BY DEF SetupTypeOK, Setting
  <2>2. \A k \in Knobs : knob[k] \in Nat /\ origin[k] \in Nat
    BY DEF SetupTypeOK, Originals
  <2> QED BY <2>1, <2>2 DEF Name, Want, NameOf, WantOf
<1> SUFFICES ASSUME NEW i \in Setting, NameOf(i) \notin lost' PROVE SettingKept(i)'
  BY DEF SettingsKept
<1>k. NameOf(i) \notin lost => SettingKept(i)
  BY DEF SettingsKept
<1>1. CASE DgramFails \/ NetlinkSocketFails \/ SocketsOpen
  <2>1. /\ syscall = "idle" /\ phase = "down" /\ syscall' \in {"idle", "read"} /\ at' = 1
        /\ UNCHANGED <<knob, skip, was, origin, lost>>
    BY <1>1 DEF DgramFails, NetlinkSocketFails, SocketsOpen, SetupBegins, Return,
       Continue, savedVars, historyVars
  <2> QED BY <1>k, <2>1 DEF SettingKept, Pristine, SettingUp
<1>2. CASE Read
  <2>1. /\ syscall = "read" /\ was' = [was EXCEPT ![at] = knob[Name]]
        /\ UNCHANGED <<knob, skip, origin, lost>>
        /\ \/ syscall' = "write" /\ at' = at /\ phase' = phase
           \/ syscall' = "read" /\ at' = at + 1 /\ phase' = phase /\ knob[Name] = Want
           \/ syscall' = "idle" /\ phase' = "up" /\ knob[Name] = Want /\ at = Final
    BY <1>2 DEF Read, NextSetting, Return, callerVars, historyVars
  <2>2. /\ ~skip /\ phase = "down" /\ SettingKept(i)
    BY <1>k, <2>1 DEF Phases, SettingUp
  <2>3. i >= at => knob[NameOf(i)] = origin[NameOf(i)]
    BY <2>1, <2>2 DEF SettingKept, Pristine, SettingUp
  <2>4. was'[i] = IF i = at THEN origin[NameOf(i)] ELSE was[i]
    BY <1>0, <2>1, <2>3 DEF SetupTypeOK, Setting
  <2> QED
    BY <1>0, <2>1, <2>2, <2>3, <2>4 DEF SettingKept, Pristine, SettingUp
<1>3. CASE Write
  <2>1. /\ syscall = "write" /\ knob' = [knob EXCEPT ![Name] = Want]
        /\ UNCHANGED <<was, skip, origin, lost>>
        /\ \/ syscall' = "read" /\ at' = at + 1 /\ phase' = phase
           \/ syscall' = "idle" /\ phase' = "up" /\ at = Final
    BY <1>3 DEF Write, NextSetting, Return, callerVars, savedVars, historyVars
  <2>2. ~skip /\ phase = "down" /\ SettingKept(i)
    BY <1>k, <2>1 DEF Phases, SettingUp
  <2>3. knob'[NameOf(i)] = IF i = at THEN WantOf(i) ELSE knob[NameOf(i)]
    BY <1>0, <2>1 DEF SetupTypeOK
  <2> QED
    BY <1>0, <2>1, <2>2, <2>3 DEF SettingKept, Pristine, SettingUp
<1>4. CASE ReadFails
  <2>1. /\ syscall = "read" /\ was' = [was EXCEPT ![at] = -1]
        /\ UNCHANGED <<knob, skip, origin, lost>>
        /\ syscall' = "idle" /\ phase' = "failed"
    BY <1>4 DEF ReadFails, Return, historyVars
  <2>2. ~skip /\ SettingKept(i)
    BY <1>k, <2>1 DEF Phases, SettingUp
  <2>3. was'[i] = IF i = at THEN -1 ELSE was[i]
    BY <1>0, <2>1 DEF SetupTypeOK, Setting
  <2> QED
    BY <1>0, <2>1, <2>2, <2>3 DEF SettingKept, Pristine, SettingUp
<1>5. CASE WriteFails
  <2>1. /\ syscall = "write" /\ UNCHANGED <<knob, was, skip, origin, lost>>
        /\ syscall' = "idle" /\ phase' = "failed"
    BY <1>5 DEF WriteFails, Return, savedVars, historyVars
  <2>2. ~skip /\ SettingKept(i)
    BY <1>k, <2>1 DEF Phases, SettingUp
  <2> QED BY <2>1, <2>2 DEF SettingKept, Pristine, SettingUp
<1>6. CASE Teardown
  <2>1. /\ syscall = "idle" /\ phase # "down" /\ UNCHANGED <<knob, was, skip, origin, lost>>
        /\ \/ skip /\ syscall' = "idle"
           \/ ~skip /\ syscall' = "restore" /\ at' = 1 /\ phase' = phase
    BY <1>6 DEF Teardown, Return, Continue, callerVars, savedVars, historyVars
  <2> QED BY <1>0, <1>k, <2>1 DEF SettingKept, Pristine, SettingUp
<1>7. CASE Restore
  <2>1. /\ syscall = "restore" /\ UNCHANGED <<was, skip, origin, lost>>
        /\ knob' = IF was[at] >= 0 /\ was[at] # Want
                   THEN [knob EXCEPT ![Name] = was[at]] ELSE knob
        /\ \/ syscall' = "restore" /\ at' = at + 1 /\ phase' = phase
           \/ syscall' = "idle" /\ phase' = "down" /\ at = Final
    BY <1>7 DEF Restore, NextRestore, Return, callerVars, savedVars, historyVars
  <2>2. ~skip /\ SettingKept(i)
    BY <1>k, <2>1 DEF Phases
  <2>3. i # at => knob'[NameOf(i)] = knob[NameOf(i)]
    BY <1>0, <2>1 DEF SetupTypeOK
  <2>4. i = at => knob'[NameOf(i)] = origin[NameOf(i)]
    <3>1. /\ knob[NameOf(i)] \in Nat /\ origin[NameOf(i)] \in Nat
          /\ was[i] \in SysctlValues \cup {-1}
      BY <1>0 DEF SetupTypeOK, Setting
    <3>2. i = at => knob'[NameOf(i)] =
            IF was[i] >= 0 /\ was[i] # WantOf(i) THEN was[i] ELSE knob[NameOf(i)]
      BY <1>0, <2>1 DEF SetupTypeOK
    <3> QED BY <2>2, <3>1, <3>2 DEF SettingKept
  <2> QED
    BY <1>0, <2>1, <2>2, <2>3, <2>4 DEF SettingKept, Pristine, SettingUp
<1>8. CASE RestoreFails
  <2>1. /\ syscall = "restore" /\ UNCHANGED <<knob, was, skip, origin, lost>>
        /\ syscall' = "idle" /\ phase' = "failed"
    BY <1>8 DEF RestoreFails, Return, savedVars, historyVars
  <2>2. ~skip /\ SettingKept(i)
    BY <1>k, <2>1 DEF Phases
  <2> QED BY <2>1, <2>2 DEF SettingKept, Pristine, SettingUp
<1>9. CASE Interfaces
  BY <1>k, <1>9, InterfacesKeepSettings DEF SettingKept, Pristine, SettingUp
<1>10. ASSUME NEW k \in Knobs, NEW v \in SysctlValues, AdministratorWrites(k, v)
       PROVE  SettingKept(i)'
  <2>1. /\ UNCHANGED <<was, skip, origin, syscall, at, phase>> /\ lost' = lost \cup {k}
        /\ knob' = [knob EXCEPT ![k] = v]
    BY <1>10 DEF AdministratorWrites, callerVars, savedVars
  <2>2. knob'[NameOf(i)] = knob[NameOf(i)]
    BY <1>0, <2>1 DEF SetupTypeOK
  <2> QED BY <1>k, <2>1, <2>2 DEF SettingKept, Pristine, SettingUp
<1>11. CASE Killed
  <2>1. /\ knob' = knob /\ origin' = origin /\ was' = [j \in Setting |-> -1]
        /\ syscall' = "idle" /\ knob[NameOf(i)] = origin[NameOf(i)]
    BY <1>0, <1>11 DEF Killed, Setting
  <2>2. was'[i] = -1
    BY <2>1
  <2> QED BY <2>1, <2>2 DEF SettingKept
<1>12. CASE UNCHANGED setupVars
  BY <1>k, <1>12 DEF setupVars, callerVars, savedVars, historyVars, SettingKept,
     Pristine, SettingUp
<1> QED
  BY <1>1, <1>2, <1>3, <1>4, <1>5, <1>6, <1>7, <1>8, <1>9, <1>10, <1>11, <1>12
  DEF NextSetup

(* The same of the interfaces' slots, which no set-up of the daemon clears. *)
LEMMA InterfacesKeptStep ==
  ASSUME SetupTypeOK, Originals, OneSlot, Phases, InterfacesKept, [NextSetup]_setupVars
  PROVE  InterfacesKept'
<1>0. ifup \subseteq Ifs /\ Ifs \subseteq Knobs /\ ifname \in Ifs
  BY SettingFacts DEF SetupTypeOK
<1> SUFFICES ASSUME NEW k \in Ifs, k \notin lost' PROVE InterfaceKept(k)'
  BY DEF InterfacesKept
<1>k. k \in Knobs /\ (k \notin lost => InterfaceKept(k))
  BY <1>0 DEF InterfacesKept
<1>1. CASE KernelSetupStep
  BY <1>k, <1>1, SetupKeepsInterfaces DEF InterfaceKept, SavedOf
<1>2. ASSUME NEW name \in Ifs, InterfaceSetup(name) \/ InterfaceTeardown(name)
      PROVE  InterfaceKept(k)'
  <2>1. /\ syscall' \in {"ifread", "ifrestore"} /\ GetOldIf(name)
        /\ UNCHANGED <<knob, ifup, origin, lost>>
    BY <1>2 DEF InterfaceSetup, InterfaceTeardown, InterfaceBegins, historyVars
  <2>2. /\ DOMAIN old_if \subseteq DOMAIN old_if'
        /\ \A j \in DOMAIN old_if : old_if'[j] = old_if[j]
        /\ \A j \in DOMAIN old_if' \ DOMAIN old_if : old_if'[j].rp_filter = -1
    BY <2>1, GotSlot
  <2> QED BY <1>k, <2>1, <2>2 DEF InterfaceKept, SavedOf
<1>3. CASE InterfaceRead \/ InterfaceReadFails
  <2>1. PICK v \in SysctlValues \cup {-1} :
          Save(v) /\ (v = knob[ifname] \/ ifname \in lost')
    BY <1>0, <1>3 DEF InterfaceRead, InterfaceReadFails, SetupTypeOK
  <2>2. /\ DOMAIN old_if' = DOMAIN old_if
        /\ \A j \in DOMAIN old_if :
             /\ old_if'[j].ifname = old_if[j].ifname
             /\ old_if'[j].rp_filter =
                  IF old_if[j].ifname = ifname THEN v ELSE old_if[j].rp_filter
    BY <2>1, SavedInSlot
  <2>3. /\ syscall = "ifread" /\ UNCHANGED <<knob, origin, ifname>> /\ lost \subseteq lost'
        /\ ifup \subseteq ifup' /\ ifup' \subseteq ifup \cup {ifname}
        /\ ifname \notin ifup
        /\ \E j \in DOMAIN old_if : old_if[j].ifname = ifname
    BY <1>3, <2>1 DEF InterfaceRead, InterfaceReadFails, Save, IfReturn, callerVars,
       Slots, Phases
  <2>4. CASE k = ifname
    <3>1. v = origin[k] /\ knob[k] = origin[k]
      BY <1>k, <2>1, <2>3, <2>4 DEF InterfaceKept
    <3> QED BY <2>2, <2>3, <2>4, <3>1 DEF InterfaceKept, SavedOf
  <2>5. CASE k # ifname
    BY <1>k, <2>2, <2>3, <2>5 DEF InterfaceKept, SavedOf
  <2> QED BY <2>4, <2>5
<1>4. CASE InterfaceNoSlot
  BY <1>k, <1>4 DEF InterfaceNoSlot, IfReturn, callerVars, savedVars,
     InterfaceKept, SavedOf
<1>5. CASE InterfaceWrite
  BY <1>0, <1>k, <1>5 DEF InterfaceWrite, IfReturn, savedVars, historyVars,
     InterfaceKept, SavedOf, SetupTypeOK
<1>6. CASE InterfaceWriteFails
  BY <1>k, <1>6 DEF InterfaceWriteFails, IfReturn, savedVars, historyVars,
     InterfaceKept, SavedOf
<1>7. CASE InterfaceRestore
  <2>1. /\ syscall' = "idle" /\ ifup' = ifup \ {ifname}
        /\ UNCHANGED <<old_if, origin, lost>>
        /\ k # ifname => knob'[k] = knob[k]
    BY <1>0, <1>k, <1>7 DEF InterfaceRestore, IfReturn, savedVars, historyVars,
       SetupTypeOK
  <2>2. CASE k # ifname
    BY <1>k, <2>1, <2>2 DEF InterfaceKept, SavedOf
  <2>3. CASE k = ifname
    <3>1. knob'[k] = origin[k]
      <4>1. CASE \E i \in Slots : old_if[i].rp_filter > 0
        <5>1. PICK i \in Slots : old_if[i].rp_filter > 0
          BY <4>1
        <5>2. knob'[k] = old_if[i].rp_filter
          BY <1>k, <1>7, <2>3, <4>1, <5>1, RestoredValue
          DEF InterfaceRestore, SetupTypeOK
        <5> QED BY <1>k, <2>1, <2>3, <5>1, <5>2 DEF InterfaceKept, Slots
      <4>2. CASE ~ \E i \in Slots : old_if[i].rp_filter > 0
        <5>1. knob' = knob
          BY <1>7, <4>2 DEF InterfaceRestore
        <5>2. ASSUME NEW j \in DOMAIN old_if, old_if[j].ifname = k,
                     old_if[j].rp_filter = origin[k], knob[k] = 0
              PROVE  origin[k] = 0
          <6>1. old_if[j].rp_filter \in Nat \cup {-1} /\ ~(old_if[j].rp_filter > 0)
            BY <2>3, <4>2, <5>2, TableType, SettingFacts DEF Slots, Slot
          <6>2. origin[k] \in Nat
            BY <1>k, SettingFacts DEF Originals
          <6> QED BY <5>2, <6>1, <6>2
        <5> QED BY <1>k, <2>1, <5>1, <5>2 DEF InterfaceKept, SavedOf
      <4> QED BY <4>1, <4>2
    <3> QED BY <1>k, <2>1, <2>3, <3>1 DEF InterfaceKept, SavedOf
  <2> QED BY <2>2, <2>3
<1>8. CASE InterfaceRestoreFails
  BY <1>k, <1>8 DEF InterfaceRestoreFails, IfReturn, savedVars, socketVars,
     InterfaceKept, SavedOf
<1>9. ASSUME NEW n \in Knobs, NEW v \in SysctlValues, AdministratorWrites(n, v)
      PROVE  InterfaceKept(k)'
  BY <1>k, <1>9 DEF AdministratorWrites, callerVars, savedVars, InterfaceKept,
     SavedOf, SetupTypeOK
<1>10. CASE Killed
  BY <1>k, <1>10 DEF Killed, InterfaceKept
<1>11. CASE UNCHANGED setupVars
  BY <1>k, <1>11 DEF setupVars, callerVars, savedVars, historyVars, InterfaceKept,
     SavedOf
<1> QED
  BY <1>1, <1>2, <1>3, <1>4, <1>5, <1>6, <1>7, <1>8, <1>9, <1>10, <1>11
  DEF NextSetup, Interfaces, KernelSetupStep

-------------------------------------------------------------------------------
(* The theorems. *)

(* The invariant is inductive: it holds before the first set-up and after
   every step of the daemon, failing or not, of an administrator, and of a
   kill and restart. *)
THEOREM Invariance == SpecSetup => []IInv
<1> USE SettingFacts
<1>1. InitSetup => IInv
  <2> SUFFICES ASSUME InitSetup PROVE IInv
    OBVIOUS
  <2>1. /\ was = [i \in Setting |-> -1] /\ old_if = <<>> /\ knob \in [Knobs -> SysctlValues]
        /\ origin = knob /\ syscall = "idle" /\ phase = "down" /\ ifup = {}
        /\ ~dgram /\ ~command /\ open = 0
    BY DEF InitSetup, Fresh, Setting
  <2>2. DOMAIN old_if = {}
    BY <2>1
  <2>3. old_if \in BoundedSeq(Slot, MaxIfs)
    <3>1. <<>> \in Seq(Slot) /\ Len(<<>>) = 0 /\ MaxIfs \in Nat
      BY SetupAssumption
    <3>2. Len(<<>>) <= MaxIfs
      BY <3>1
    <3> QED BY <2>1, <3>1, <3>2, BoundedTable
  <2>4. SetupTypeOK
    <3>1. was \in [Setting -> SysctlValues \cup {-1}] /\ 1 \in Setting
      BY <2>1
    <3>2. dgram \in BOOLEAN /\ command \in BOOLEAN
      BY Zenon DEF InitSetup, Fresh
    <3> QED
      BY <2>3, <3>1, <3>2, SetupAssumption DEF InitSetup, Fresh, SetupTypeOK, Slot, Setting
  <2>5. Originals /\ Phases /\ Sockets
    BY <2>1 DEF Originals, Phases, Sockets, SettingUp, NoLeak, Closed
  <2>6. OneSlot /\ EnforcedSoFar /\ EnforcedOnInterfaces
    BY <2>1, <2>2 DEF OneSlot, EnforcedSoFar, EnforcedOnInterfaces, SettingUp
  <2>7. SettingsKept
    BY <2>1 DEF SettingsKept, SettingKept, Pristine
  <2>8. InterfacesKept
    BY <2>1, <2>2 DEF InterfacesKept, InterfaceKept
  <2> QED BY <2>4, <2>5, <2>6, <2>7, <2>8 DEF IInv
<1>2. IInv /\ [NextSetup]_setupVars => IInv'
  BY TypeStep, OriginalsStep, PhasesStep, SocketsStep, EnforcedSoFarStep,
     EnforcedOnInterfacesStep, SettingsKeptStep, InterfacesKeptStep
  DEF IInv, Sockets
<1> QED BY <1>1, <1>2, PTL DEF SpecSetup

(* The types: every index into the settings, and the table of interfaces
   within its bound. *)
THEOREM TypeCorrect == SpecSetup => []SetupTypeOK
<1>1. IInv => SetupTypeOK
  BY DEF IInv
<1> QED BY <1>1, Invariance, PTL

(* No path through kernel_setup, failing or not, leaks a socket. *)
THEOREM NoSocketLeaks == SpecSetup => []NoLeak
<1>1. IInv => NoLeak
  BY DEF IInv, Sockets
<1> QED BY <1>1, Invariance, PTL

(* Once kernel_setup and kernel_setup_interface have returned 1, the sysctls
   are as the daemon needs them, but for what an administrator changed. *)
THEOREM SysctlsEnforced == SpecSetup => []Enforced
<1>1. IInv => Enforced
  BY DEF IInv, EnforcedSoFar, EnforcedOnInterfaces, Enforced, Wanted, NameOf,
     WantOf, Setting
<1> QED BY <1>1, Invariance, PTL

(* A tear-down that returns 1 has given back every sysctl that could be saved
   and that nobody else changed, whatever failed before. *)
THEOREM SysctlsGivenBack == SpecSetup => []GivenBack
<1>1. IInv => GivenBack
  <2> SUFFICES ASSUME IInv, syscall = "idle"
               PROVE  /\ phase = "down" =>
                           \A k \in Knobs \ (lost \cup Ifs) : knob[k] = origin[k]
                      /\ \A k \in Ifs \ (lost \cup ifup) : knob[k] = origin[k]
    BY DEF GivenBack
  <2>1. ASSUME phase = "down", NEW k \in Knobs \ (lost \cup Ifs)
        PROVE  knob[k] = origin[k]
    <3>1. PICK i \in Setting : k = NameOf(i)
      BY DEF Knobs, Setting, NameOf
    <3> QED
      BY <2>1, <3>1 DEF IInv, SettingsKept, SettingKept, Pristine, SettingUp
  <2>2. ASSUME NEW k \in Ifs \ (lost \cup ifup)
        PROVE  knob[k] = origin[k]
    BY DEF IInv, InterfacesKept, InterfaceKept
  <2> QED BY <2>1, <2>2
<1> QED BY <1>1, Invariance, PTL
===============================================================================
