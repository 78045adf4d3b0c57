---------------------------- MODULE KernelMessages ----------------------------
(***************************************************************************)
(* The filters of kernel_netlink.c: what the callbacks of a kernel_filter  *)
(* are told of a message about a route, an address, a link or a rule       *)
(* (filter_netlink and what it calls), and the message by which add_rule   *)
(* creates a rule.                                                         *)
(*                                                                         *)
(* The kernel's objects and the messages it makes of them are external.    *)
(* An address has a family; an IPv4 one in IPv6 notation (v4tov6) is       *)
(* written [family |-> "INET"].  A message has the attributes in DOMAIN    *)
(* attrs; only the attributes of an address need an order.  Addresses are  *)
(* of the message's family: the kernel sends no short ones (COPY_ADDR).    *)
(***************************************************************************)
EXTENDS Integers, Sequences

CONSTANTS
  Infinity,     \* KERNEL_INFINITY
  IntMod,       \* an int and a __u32 are one modulo this: 2^32
  ByteMod,      \* rtm_table is an unsigned char: 2^8
  CompatTable,  \* RT_TABLE_COMPAT, put there for a table that does not fit
  ImportTables, \* import_tables
  Routes, Addresses, Links, Rules, \* the kernel's objects
  RuleArguments, \* what add_rule is called with
  Junk          \* what a field holds that has not been assigned

VARIABLES
  object,  \* history: the object of the last message
  args,    \* history: what add_rule was called with, if it made this object
  filter,  \* the callbacks that are set
  told     \* the callback that was called and its argument

vars == <<object, args, filter, told>>

Callbacks == {"route", "addr", "link", "rule"}
Nothing == [callback |-> "none"]
ZeroAddress(family) == [family |-> family, name |-> "zero"]
Default(family) == [addr |-> ZeroAddress(family), len |-> 0]

Init == object = Nothing /\ args = Nothing /\ filter = {} /\ told = Nothing

-------------------------------------------------------------------------------
(* The kernel's messages (external). *)

(* The attributes a, of those the kernel has a value for. *)
Attributes(a, present) == [t \in present |-> a[t]]

RtMessage(r) ==
  [family |-> r.family, protocol |-> r.protocol, cloned |-> r.cloned,
   table |-> IF r.table < ByteMod THEN r.table ELSE CompatTable,
   dst_len |-> r.dst.len, src_len |-> r.src.len,
   attrs |-> Attributes(
     [DST |-> r.dst.addr, SRC |-> r.src.addr, GATEWAY |-> r.gw,
      OIF |-> r.oif, PRIORITY |-> r.metric, TABLE |-> r.table],
     {"OIF", "TABLE"} \cup (IF r.dst.len > 0 THEN {"DST"} ELSE {})
       \cup (IF r.src.len > 0 THEN {"SRC"} ELSE {})
       \cup (IF r.gw # ZeroAddress(r.family) THEN {"GATEWAY"} ELSE {})
       \cup (IF r.family = "INET" /\ r.metric = 0 THEN {} ELSE {"PRIORITY"}))]

(* IFA_LOCAL is there if the address has a peer, first in IPv6; in IPv4 it is
   always there, last. *)
AddrMessage(a) ==
  LET local == [type |-> "LOCAL", value |-> a.local]
      address == [type |-> "ADDRESS", value |-> a.address]
  IN  [family |-> a.family, index |-> a.index,
       attrs |-> CASE a.family = "INET" -> <<address, local>>
                   [] a.family # "INET" /\ a.local # a.address -> <<local, address>>
                   [] OTHER -> <<address>>]

RuleMessage(r) ==
  [family |-> r.family, src_len |-> r.src.len,
   table |-> IF r.table < ByteMod THEN r.table ELSE CompatTable,
   attrs |-> Attributes(
     [SRC |-> r.src.addr, PRIORITY |-> r.priority, TABLE |-> r.table],
     {"TABLE"} \cup (IF r.src.len > 0 THEN {"SRC"} ELSE {})
       \cup (IF r.priority > 0 THEN {"PRIORITY"} ELSE {}))]

-------------------------------------------------------------------------------
(* Routes. *)

AsInt(n) == IF 2 * n >= IntMod THEN n - IntMod ELSE n
(* GET_PLEN *)
Plen(len, family) == IF family = "INET" THEN len + 96 ELSE len

(* The attribute t of m if there is one, else d. *)
Get(m, t, d) == IF t \in DOMAIN m.attrs THEN m.attrs[t] ELSE d

(* Mutant of Metric: compared as the unsigned number it was. *)
MetricSigned(n) == IF AsInt(n) > Infinity THEN Infinity ELSE AsInt(n)
Metric(n) == IF AsInt(n) < 0 \/ AsInt(n) > Infinity THEN Infinity ELSE AsInt(n)

(* parse_kernel_route_rta: what it assigns, *)
ParsedRoute(m) ==
  LET v4 == m.family = "INET"
  IN  [prefix     |-> Get(m, "DST", ZeroAddress(m.family)),
       plen       |-> IF "DST" \in DOMAIN m.attrs THEN Plen(m.dst_len, m.family)
                      ELSE IF v4 THEN 96 ELSE 0,
       src_prefix |-> Get(m, "SRC", ZeroAddress(m.family)),
       src_plen   |-> IF "SRC" \in DOMAIN m.attrs THEN Plen(m.src_len, m.family)
                      ELSE 0,
       gw         |-> Get(m, "GATEWAY", ZeroAddress("INET6")),
       ifindex    |-> Get(m, "OIF", 0),
       metric     |-> Metric(Get(m, "PRIORITY", 0)),
       proto      |-> m.protocol]
(* and whether the table is to be imported. *)
(* Mutant of Imported: RTA_TABLE is not looked at. *)
ImportedByte(m) == m.table \in ImportTables
Imported(m) == AsInt(Get(m, "TABLE", m.table)) \in ImportTables

(* filter_kernel_routes *)
RouteReports(m) ==
  {route \in {ParsedRoute(m)} :
     /\ m.protocol # "babel" /\ ~m.cloned
     /\ Imported(m)
     /\ ~(route.plen = 0 /\ route.metric >= Infinity)}

-------------------------------------------------------------------------------
(* Addresses: parse_addr_rta takes the value of one attribute after the other
   and stops at the first IFA_LOCAL.  A family other than these two is an
   error. *)
Locals(attrs) == {n \in DOMAIN attrs : attrs[n].type = "LOCAL"}
(* Mutant of StopsAt: it does not stop. *)
StopsAtEnd(attrs) == Len(attrs)
StopsAt(attrs) ==
  IF Locals(attrs) = {} THEN Len(attrs)
  ELSE CHOOSE n \in Locals(attrs) : \A k \in Locals(attrs) : n <= k

(* filter_addresses; there is always an attribute. *)
AddrReports(m) ==
  IF m.family \notin {"INET", "INET6"} THEN {}
  ELSE {[addr |-> m.attrs[StopsAt(m.attrs)].value, ifindex |-> m.index]}

-------------------------------------------------------------------------------
(* Rules: filter_kernel_rules.  The priority has no default. *)
ParsedRule(m) ==
  [src      |-> Get(m, "SRC", ZeroAddress("INET6")),
   src_plen |-> IF "SRC" \in DOMAIN m.attrs THEN Plen(m.src_len, m.family)
                ELSE m.src_len,
   priority |-> Get(m, "PRIORITY", Junk),
   table    |-> Get(m, "TABLE", m.table)]

(* Mutant of RuleReports: a rule without a priority is reported. *)
RuleReportsAny(m) ==
  IF m.family \notin {"INET", "INET6"} THEN {} ELSE {ParsedRule(m)}
RuleReports(m) ==
  IF m.family \notin {"INET", "INET6"} \/ ~({"PRIORITY", "TABLE"} \subseteq DOMAIN m.attrs)
  THEN {} ELSE {ParsedRule(m)}

(* add_rule: the rule the kernel makes of its message.  An IPv4 source is
   given in IPv6 notation; its length must be 96 at least. *)
AddedRule(a) ==
  [kind |-> "rule", family |-> a.src.family, priority |-> a.prio,
   src |-> [addr |-> a.src,
            len  |-> IF a.src.family = "INET" THEN a.plen - 96 ELSE a.plen],
   table |-> a.table % ByteMod]
Refused(a) == a.src.family = "INET" /\ a.plen < 96

-------------------------------------------------------------------------------
(* filter_netlink: the callback for this kind of object, if it is set and the
   object is to be reported, is called once. *)
Reports(o) ==
  CASE o.kind = "route" -> RouteReports(RtMessage(o))
    [] o.kind = "addr"  -> AddrReports(AddrMessage(o))
    [] o.kind = "rule"  -> RuleReports(RuleMessage(o))
    [] o.kind = "link"  -> IF o.ifname = "none" THEN {} ELSE {o.ifname}

filter_netlink(o) ==
  told' = IF o.kind \in filter' /\ Reports(o) # {}
          THEN [callback |-> o.kind,
                report   |-> CHOOSE r \in Reports(o) : TRUE]
          ELSE Nothing

(* The kernel tells of an object, in a dump or a notification. *)
Tell(o, f) ==
  /\ object' = o /\ args' = Nothing /\ filter' = f
  /\ filter_netlink(o)

(* The same of a rule that add_rule has added. *)
AddRule(a, f) ==
  /\ ~Refused(a)
  /\ object' = AddedRule(a) /\ args' = a /\ filter' = f
  /\ filter_netlink(AddedRule(a))

(* The filter returns. *)
Return ==
  /\ object' = Nothing /\ args' = Nothing /\ filter' = {} /\ told' = Nothing

Next ==
  \/ /\ object = Nothing
     /\ \E f \in {Callbacks} \cup {{c} : c \in Callbacks} :
          \/ \E o \in Routes \cup Addresses \cup Links \cup Rules : Tell(o, f)
          \/ \E a \in RuleArguments : AddRule(a, f)
  \/ object # Nothing /\ Return

Spec == Init /\ [][Next]_vars

-------------------------------------------------------------------------------
(* Properties. *)

Told(kind) == object # Nothing /\ object.kind = kind /\ kind \in filter
LeastOf(a, b) == IF a < b THEN a ELSE b
Widened(family) == IF family = "INET" THEN 96 ELSE 0

(* The route callback, if it is set, is told only of the routes of others in the
   tables to be imported (of all 32 bits), not of IPv6's unreachable default
   routes, and of all of them that are no unreachable default routes. *)
Wanted(r) == r.table \in ImportTables /\ r.protocol # "babel" /\ ~r.cloned
UnreachableDefault(r) == r.dst.len = 0 /\ r.metric >= Infinity
RightRoutes ==
  object # Nothing /\ object.kind = "route" =>
    /\ told # Nothing =>
         /\ "route" \in filter /\ Wanted(object)
         /\ ~(object.family = "INET6" /\ UnreachableDefault(object))
    /\ "route" \in filter /\ Wanted(object) /\ ~UnreachableDefault(object) =>
         told # Nothing

(* "Ignore default unreachable routes; no idea where they come from": no
   callback is told of one.  It is of an IPv4 one, whose plen is not 0 but 96;
   kernel_route looks for both. *)
DefaultsIgnored ==
  Told("route") /\ told # Nothing => ~UnreachableDefault(object)

(* The route it is told of is the kernel's: prefix and length in IPv6
   notation, also for a destination that has no attribute, and a metric no
   larger than infinity, also for one above 2^31, which is negative as an
   int. *)
RouteAsIs ==
  Told("route") /\ told # Nothing =>
    LET r == told.report IN
    /\ r.prefix = object.dst.addr
    /\ r.plen = object.dst.len + Widened(object.family)
    /\ r.src_prefix = object.src.addr
    /\ r.src_plen = IF object.src.len = 0 THEN 0
                    ELSE object.src.len + Widened(object.family)
    /\ r.gw = object.gw \/ {r.gw, object.gw} \subseteq {ZeroAddress(f) : f \in {"INET", "INET6"}}
    /\ r.metric = LeastOf(object.metric, Infinity)
    /\ r.ifindex = object.oif

(* "A _LOCAL TLV may be bound with a _ADDRESS' which represents the peer's
   address": the address told is the local one, whichever comes first. *)
LocalAddress ==
  Told("addr") =>
    IF object.family \in {"INET", "INET6"}
    THEN told # Nothing /\ told.report.addr = object.local
    ELSE told = Nothing

(* No field of a rule that is told is left over from another message (the
   union in filter_netlink is not initialised, and the kernel sends no
   priority of 0), and the rule that add_rule has added is told as it was
   asked for (the caller checks its rules by a dump), if the table fits into a
   byte, neither it nor the priority is 0 and the source is not a default
   prefix. *)
RuleRoundTrip ==
  /\ Told("rule") /\ told # Nothing =>
       /\ told.report.priority = object.priority
       /\ told.report.table = object.table
  /\ Told("rule") /\ args # Nothing /\ args.table \in 1 .. ByteMod - 1 /\ args.prio > 0
       /\ args.plen > Widened(args.src.family)
     => /\ told # Nothing
        /\ told.report = [src |-> args.src, src_plen |-> args.plen,
                          priority |-> args.prio, table |-> args.table]
===============================================================================
