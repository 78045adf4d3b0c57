----------------------------- MODULE RoutePrinting -----------------------------
(***************************************************************************)
(* The printing of kdump.c, on top of its route store: a line is a printf  *)
(* whose arguments are calls of the format functions.  Each of these has a *)
(* static ring of buffers and returns a pointer into it, which printf      *)
(* reads when all its arguments have been evaluated; C leaves their order  *)
(* open.                                                                   *)
(*                                                                         *)
(* A text is what inet_ntop and snprintf make of an address and a length:  *)
(* it tells the family, the bytes and the number.  The callers of the      *)
(* printing functions are external.                                        *)
(***************************************************************************)
EXTENDS RouteStore, Sequences

CONSTANTS
  MaxGiven,   \* bound: routes in the store
  MaxLines,   \* bound: lines in a behaviour
  MaxPrinted  \* bound: routes in the store when lines are printed

VARIABLES
  cur,       \* the static counter i of each format function
  buf,       \* its ring of buffers
  arguments, \* the arguments of the line: [fn, addr, plen]
  ptr,       \* the buffers of those that are evaluated
  of,        \* history: the prefixes that the line is about,
  by,        \*   the function that prints it
  printed,   \* the texts of the last line
  lines

ring == <<cur, buf>>
line == <<arguments, ptr, of, by>>
printingVars == <<storeVars, ring, line, printed, lines>>

Functions == {"format_prefix4", "format_prefix6", "format_prefix", "format_prefix_str"}
Unwritten == [family |-> "none"]

InitPrinting ==
  /\ InitStore
  /\ cur = [f \in Functions |-> 0]
  /\ buf = [f \in Functions |-> [n \in 0 .. 3 |-> Unwritten]]
  /\ arguments = <<>> /\ ptr = <<>> /\ of = <<>> /\ by = "none"
  /\ printed = <<>> /\ lines = 0

-------------------------------------------------------------------------------
(* The format functions. *)

Text4(w, plen) == [family |-> "INET", bytes |-> w, plen |-> plen]
Text6(addr, plen) == [family |-> "INET6", bytes |-> addr, plen |-> plen]

v4mapped(addr) == addr.d0 = Zero /\ addr.z = Mapped

format_prefix_str(addr, plen) ==
  IF plen >= 96 /\ v4mapped(addr) THEN Text4(addr.w, plen - 96)
  ELSE Text6(addr, plen)
format_prefix(addr, plen) ==
  IF plen >= 96 /\ v4mapped(addr) THEN Text4(addr.z, plen - 96)
  ELSE Text6(addr, plen)

Format(a) ==
  CASE a.fn = "format_prefix4"    -> Text4(a.addr, a.plen)
    [] a.fn = "format_prefix6"    -> Text6(a.addr, a.plen)
    [] a.fn = "format_prefix"     -> format_prefix(a.addr, a.plen)
    [] a.fn = "format_prefix_str" -> format_prefix_str(a.addr, a.plen)

(* Mutant of NextBuffer: the counter is not kept between calls. *)
NextBufferSame(n) == 1
NextBuffer(n) == (n + 1) % 4

-------------------------------------------------------------------------------
(* The lines. *)

Arg(fn, addr, plen) == [fn |-> fn, addr |-> addr, plen |-> plen]

StartLine(a, prefixes, name) ==
  /\ arguments = <<>> /\ Cardinality(DOMAIN given) <= MaxPrinted
  /\ lines < MaxLines /\ lines' = lines + 1
  /\ arguments' = a /\ of' = prefixes /\ by' = name
  /\ printed' = <<>>
  /\ UNCHANGED <<storeVars, ring, ptr>>

(* What a route's line is about. *)
About(idx) ==
  IF Tag(idx) \in {IS_SS, IS_V4SS} THEN <<given[idx].src, given[idx].dst>>
  ELSE <<given[idx].dst>>

route_type(idx) ==
  LET r == pool[Tag(idx)][Position(idx)]
      Six(p) == Arg("format_prefix6", p.addr, p.plen)
      Four(p) == Arg("format_prefix4", p.v, p.plen)
  IN  StartLine(CASE Tag(idx) = IS_V6   -> <<Six(r.dst)>>
                  [] Tag(idx) = IS_SS   -> <<Six(r.src), Six(r.dst)>>
                  [] Tag(idx) = IS_V4   -> <<Four(r.dst)>>
                  [] Tag(idx) = IS_V4SS -> <<Four(r.src), Four(r.dst)>>,
                About(idx), "route_type")

route_typeless(idx) ==
  LET r == getroute(idx)
      General(p) == Arg("format_prefix", p.addr, p.plen)
  IN  StartLine(<<General(r.src), General(r.dst)>>,
                <<given[idx].src, given[idx].dst>>, "route_typeless")

(* The lines of main, of one prefix or of two different ones. *)
PrintPrefixes(ps) ==
  StartLine([n \in DOMAIN ps |-> Arg("format_prefix_str", ps[n].addr, ps[n].plen)],
            ps, "main")

(* One more argument is evaluated. *)
Evaluate ==
  \E n \in DOMAIN arguments \ DOMAIN ptr :
    LET f == arguments[n].fn
        next == NextBuffer(cur[f])
    IN  /\ cur' = [cur EXCEPT ![f] = next]
        /\ buf' = [buf EXCEPT ![f][next] = Format(arguments[n])]
        /\ ptr' = [m \in DOMAIN ptr \cup {n} |-> IF m = n THEN next ELSE ptr[m]]
        /\ UNCHANGED <<storeVars, arguments, of, by, printed, lines>>

(* printf reads the buffers.  What it leaves in them no later line may read:
   they are taken to be unwritten again, and such a line would show it. *)
Printf ==
  /\ arguments # <<>> /\ DOMAIN ptr = DOMAIN arguments
  /\ printed' = [n \in DOMAIN arguments |-> buf[arguments[n].fn][ptr[n]]]
  /\ arguments' = <<>> /\ ptr' = <<>>
  /\ buf' = [f \in Functions |-> [n \in 0 .. 3 |-> Unwritten]]
  /\ UNCHANGED <<storeVars, cur, of, by, lines>>

Insert ==
  /\ arguments = <<>>
  /\ Cardinality(DOMAIN given) < IF lines > 0 THEN MaxPrinted ELSE MaxGiven
  /\ \E r \in rte : insaddr(r)
  /\ printed' = <<>> /\ of' = <<>> /\ by' = "none"
  /\ UNCHANGED <<ring, arguments, ptr, lines>>

NextPrinting ==
  \/ Insert \/ Evaluate \/ Printf
  \/ \E idx \in DOMAIN given : route_type(idx) \/ route_typeless(idx)
  \/ \E p \in Networks : PrintPrefixes(<<p>>)
  \/ \E p \in Networks : \E q \in Networks \ {p} : PrintPrefixes(<<p, q>>)

SpecPrinting == InitPrinting /\ [][NextPrinting]_printingVars

-------------------------------------------------------------------------------
(* Properties. *)

(* The text of a prefix that names it: in IPv4's form if it is one. *)
Names(text, p) ==
  text = IF V4(p) /\ p.plen >= 96 THEN Text4(p.addr.w, p.plen - 96)
         ELSE Text6(p.addr, p.plen)

(* A line about IPv4 prefixes no shorter than all IPv4 addresses, and, if it
   is of a route with a source, of one family, the source not being :: with a
   length, which is none: its class represents it. *)
Proper ==
  /\ \A n \in DOMAIN of : V4(of[n]) => of[n].plen >= 96
  /\ by = "main" \/ \A m, n \in DOMAIN of :
                      of[m] = Default \/ V4(of[m]) = V4(of[n])
  /\ by = "route_typeless" /\ of[1].addr = NoAddr => of[1] = Default

(* What is printed of a route that was inserted, or by main of a prefix, are
   the prefixes of that route, in order: no text is that of another argument,
   whatever the order of evaluation and the lines before, and none lost its
   family or its length on the way through the pools.  Excepted are the IPv4
   prefixes that route_typeless prints, which all become 0.0.255.255. *)
PrintsWhatWasInserted ==
  printed # <<>> /\ Proper
    => /\ DOMAIN printed = DOMAIN of
       /\ \A n \in DOMAIN of :
            Names(printed[n], of[n]) \/ (by = "route_typeless" /\ V4(of[n]))
===============================================================================
