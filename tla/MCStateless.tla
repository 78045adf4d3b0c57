------------------------------ MODULE MCStateless ------------------------------
(* Values of the constants of Stateless for TLC. *)
EXTENDS Stateless

-------------------------------------------------------------------------------
(* Sequence numbers about the wrap-around and about half a turn, and steps of
   a quarter of a turn, so that the counts go round and come to lie just less
   than, exactly and just more than half a turn apart. *)
MCStarts == {0, 1, 2, 16383, 32767, 32768, 65534, 65535}
MCSteps == {16384, -16384}

(* Objects of the kernel, of both families and at the edges of the numbers:
   infinity and its neighbours, the sign bit and all ones as metrics, a table
   that does not fit into a byte. *)
Families == {"INET", "INET6"}
Addr(family, name) == [family |-> family, name |-> name]
ZeroAddr(family) == Addr(family, "zero")
DefaultPrefix(family) == [addr |-> ZeroAddr(family), len |-> 0]
Prefix(family, name, len) == [addr |-> Addr(family, name), len |-> len]

RoutesOf(family) ==
  [kind : {"route"}, family : {family},
   protocol : {"babel", "static"}, cloned : BOOLEAN,
   dst : {DefaultPrefix(family), Prefix(family, "net", 24), Prefix(family, "host", 32)},
   src : {DefaultPrefix(family)}
           \cup (IF family = "INET6" THEN {Prefix(family, "home", 16)} ELSE {}),
   gw : {ZeroAddr(family), Addr(family, "gate")}, oif : {2},
   metric : {0, 1, Infinity - 1, Infinity, Infinity + 1, IntMod \div 2, IntMod - 1},
   table : {2, 3, ByteMod + 2, ByteMod + 3}]
MCRoutes == UNION {RoutesOf(f) : f \in Families}

MCAddresses ==
  UNION {[kind : {"addr"}, family : {f}, index : {2},
          local : {Addr(f, "here")}, address : {Addr(f, "here"), Addr(f, "peer")}]
           : f \in Families \cup {"PHONET"}}

MCLinks == [kind : {"link"}, ifname : {"none", "eth0"}]

MCRules ==
  UNION {[kind : {"rule"}, family : {f}, priority : {0, 1, 5},
          src : {DefaultPrefix(f), Prefix(f, "home", 16)}, table : {2, ByteMod + 2}]
           : f \in Families}

MCRuleArguments ==
  UNION {[prio : {0, 5, 6}, src : {ZeroAddr(f), Addr(f, "home")},
          plen : {0, 64, 96, 112}, table : {2, 3, ByteMod + 2}] : f \in Families}

(* Interfaces: with one other bridge the array of isbridge can be just full. *)
MCIndices == {1, 2}
MCOthers == {8}

(* Every channel's frequency and its neighbours, in all exponents; channel
   numbers; hardware addresses that differ in one byte of each half, a null, a
   group and a local one. *)
Mhz == <<100000, 10000, 1000, 100, 10, 1>>
MCFrequencies ==
  {[m |-> (mhz + off) * Mhz[e], e |-> e] :
     mhz \in {2412 + 5 * n : n \in 0 .. 12} \cup {2484} \cup {5170 + 5 * n : n \in 0 .. 131},
     off \in -1 .. 1, e \in 1 .. 6}
  \cup {[m |-> m, e |-> 0] : m \in {0, 1, 14, 36, 253, 254, 2412}}
  \cup {[m |-> m, e |-> 7] : m \in {1, 2412}}
  \cup {[m |-> 2400, e |-> 6], [m |-> 2500, e |-> 6], [m |-> 60480, e |-> 6]}

MCHwAddrs ==
  {[type |-> "ether", bytes |-> b] :
     b \in {<<0, 0, 0, 0, 0, 0>>, <<4, 0, 0, 0, 0, 1>>, <<4, 0, 0, 0, 0, 2>>,
           <<4, 0, 7, 0, 0, 1>>, <<1, 0, 0, 0, 0, 1>>, <<2, 0, 0, 0, 0, 1>>}}
  \cup {[type |-> "eui64", bytes |-> b] :
     b \in {<<4, 0, 0, 0, 0, 0, 0, 1>>, <<4, 0, 0, 0, 0, 0, 0, 2>>}}
  \cup {[type |-> "tunnel", bytes |-> <<>>]}

(* With ten nanoseconds to the second and four units to the nanosecond:
   intervals just and well below zero, below a second (the default) and above,
   one of whole nanoseconds and one that is a unit short of that. *)
MCArgs == {-1, -52, 92, 103}
MCInitial == [f \in {"count", "finterval", "command", "host", "interface",
                     "buffer", "routes", "route_table", "expires", "proto",
                     "seed"} |-> 2]
===============================================================================
