------------------------------- MODULE Stateless -------------------------------
(***************************************************************************)
(* The parts of the program that keep no state of the system, side by      *)
(* side.  They have nothing to do with one another, so that a behaviour    *)
(* belongs to one of them and the others stand still: the states are the   *)
(* sum of theirs, not the product.                                         *)
(***************************************************************************)
EXTENDS SeqnoArith, Sequences, FiniteSets

CONSTANTS
  Infinity, IntMod, ByteMod, CompatTable, ImportTables, Routes, Addresses,
  Links, Rules, RuleArguments, Junk,
  Indices, Others, MaxBridges, MaxChanges, MaxFaults,
  Frequencies, HwAddrs, IntMax,
  Args, TooBig, None, NsecPerSec, Sub, Initial, MaxWords

VARIABLES
  part, \* the part of the program that this behaviour belongs to
  object, args, filter, told,
  dev, sysfs, bridges, pc, ifindex, result, seen, failed, changes, faults,
  query, answer, known,
  words, o, interval, status

messagesVars == <<object, args, filter, told>>
queriesVars == <<dev, sysfs, bridges, pc, ifindex, result, seen, failed, changes, faults>>
valuesVars == <<query, answer, known>>
rtodVars == <<words, o, interval, status>>

Messages == INSTANCE KernelMessages
Queries == INSTANCE InterfaceQueries
Values == INSTANCE InterfaceValues
Rtod == INSTANCE RtodOptions

-------------------------------------------------------------------------------
(* What the parts' constants are. *)

(* A default prefix is the zero address. *)
IsPrefixOf(p, family) == p.len \in Nat /\ (p.len = 0 => p.addr = Messages!ZeroAddress(family))
IsRoute(r) ==
  /\ "kind" \in DOMAIN r /\ r.kind = "route" /\ r.family \in {"INET", "INET6"}
  /\ IsPrefixOf(r.dst, r.family) /\ IsPrefixOf(r.src, r.family)
  /\ r.metric \in 0 .. IntMod - 1 /\ r.table \in 0 .. IntMod - 1
IsAddress(a) == "kind" \in DOMAIN a /\ a.kind = "addr"
IsLink(l) == "kind" \in DOMAIN l /\ l.kind = "link"
IsRule(r) == "kind" \in DOMAIN r /\ r.kind = "rule"
IsRuleArgument(a) ==
  /\ "prio" \in DOMAIN a /\ a.src.family \in {"INET", "INET6"}
  /\ {a.prio, a.plen, a.table} \subseteq Nat
  /\ a = [prio |-> a.prio, src |-> a.src, plen |-> a.plen, table |-> a.table]

(* The numbers of the tables to import, and infinity, fit into an int. *)
ASSUME MessagesAssumption ==
  /\ IntMod \in Nat /\ ByteMod \in Nat \ {0}
  /\ Infinity \in Nat /\ 2 * Infinity < IntMod
  /\ \A t \in ImportTables : t \in Nat /\ 2 * t < IntMod
  /\ \A r \in Routes : IsRoute(r)
  /\ \A a \in Addresses : IsAddress(a)
  /\ \A l \in Links : IsLink(l)
  /\ \A r \in Rules : IsRule(r)
  /\ \A a \in RuleArguments : IsRuleArgument(a)

ASSUME QueriesAssumption ==
  /\ Indices \subseteq Nat /\ Others \subseteq Nat /\ Indices \cap Others = {}
  /\ IsFiniteSet(Others) /\ MaxBridges \in Nat

(* Drivers report ints; hardware addresses have 6 or 8 bytes. *)
Bytes == 0 .. 255
ASSUME ValuesAssumption ==
  /\ IntMax \in Nat /\ IntMax >= 2147483647
  /\ \A f \in Frequencies : f.m \in Int /\ f.e \in Int
  /\ \A hw \in HwAddrs :
       /\ hw \in [type : STRING, bytes : Seq(Bytes)]
       /\ hw.type = "ether" => Len(hw.bytes) = 6
       /\ hw.type = "eui64" => Len(hw.bytes) = 8

ASSUME RtodAssumption ==
  /\ NsecPerSec \in Nat \ {0} /\ Sub \in Nat /\ Sub > 1
  /\ Args \subseteq Int /\ {TooBig, None} \cap Int = {} /\ TooBig # None
  /\ DOMAIN Initial = {Rtod!Field[l] : l \in DOMAIN Rtod!Field}
  /\ Initial.finterval \in Int

-------------------------------------------------------------------------------
(* Where a part stands still. *)
Aside ==
  /\ part # "seqno" => s1 = 0 /\ s2 = 0
  /\ part # "queries" => sysfs /\ bridges /\ dev = Queries!NoDev

InitParts ==
  /\ part \in {"seqno", "messages", "queries", "values", "rtod"}
  /\ Init /\ Messages!Init /\ Queries!Init /\ Values!Init /\ Rtod!Init
  /\ Aside

NextParts ==
  /\ UNCHANGED part
  /\ \/ /\ part = "seqno" /\ Next
        /\ UNCHANGED <<messagesVars, queriesVars, valuesVars, rtodVars>>
     \/ /\ part = "messages" /\ Messages!Next
        /\ UNCHANGED <<vars, queriesVars, valuesVars, rtodVars>>
     \/ /\ part = "queries" /\ Queries!Next
        /\ UNCHANGED <<vars, messagesVars, valuesVars, rtodVars>>
     \/ /\ part = "values" /\ Values!Next
        /\ UNCHANGED <<vars, messagesVars, queriesVars, rtodVars>>
     \/ /\ part = "rtod" /\ Rtod!Next
        /\ UNCHANGED <<vars, messagesVars, queriesVars, valuesVars>>

partsVars == <<part, vars, messagesVars, queriesVars, valuesVars, rtodVars>>
SpecParts == InitParts /\ [][NextParts]_partsVars

-------------------------------------------------------------------------------
(* The properties of the parts, each stated in its module. *)

RightRoutes == Messages!RightRoutes
DefaultsIgnored == Messages!DefaultsIgnored
RouteAsIs == Messages!RouteAsIs
LocalAddress == Messages!LocalAddress
RuleRoundTrip == Messages!RuleRoundTrip
SteadyAnswer == Queries!SteadyAnswer
ChannelOfFrequency == Values!ChannelOfFrequency
EuiIsIdentity == Values!EuiIsIdentity
OptionsTakeEffect == Rtod!OptionsTakeEffect
IntervalIsAsked == Rtod!IntervalIsAsked
===============================================================================
