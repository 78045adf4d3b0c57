-------------------------- MODULE RoutePrintingProofs --------------------------
(***************************************************************************)
(* Theorems about RouteStore and RoutePrinting, for any prefixes, pools of *)
(* any size and any number of lines.                                       *)
(***************************************************************************)
EXTENDS RoutePrinting, FiniteSetTheorems, TLAPS

-------------------------------------------------------------------------------
(* The inductive invariant. *)

(* The pools are filled up to their counters, and the indices handed out are
   those of what is in them. *)
Counters ==
  /\ ctr \in [Classes -> 0 .. PoolSize]
  /\ DOMAIN pool = Classes
  /\ \A c \in Classes : DOMAIN pool[c] = 0 .. ctr[c] - 1
Used(c) == {Index(i, c) : i \in 0 .. ctr[c] - 1}
Indices ==
  /\ DOMAIN given = UNION {Used(c) : c \in Classes}
  /\ IsFiniteSet(DOMAIN given)
  /\ Cardinality(DOMAIN given) = ctr[IS_V6] + ctr[IS_V4] + ctr[IS_SS] + ctr[IS_V4SS]

(* Each entry is in the pool of its class, in that class's form. *)
Stored(c, i) ==
  /\ given[Index(i, c)] \in rte
  /\ rte_classify(given[Index(i, c)]) = c
  /\ pool[c][i] = Compress(given[Index(i, c)], c)
Entries == \A c \in Classes : \A i \in 0 .. ctr[c] - 1 : Stored(c, i)

(* A line that is being printed: its arguments say what it is about, ... *)
Says(n) ==
  Names(Format(arguments[n]), of[n]) \/ (by = "route_typeless" /\ V4(of[n]))
Arguments ==
  /\ arguments # <<>> => DOMAIN arguments \subseteq {1, 2} /\ DOMAIN of = DOMAIN arguments
  /\ \A n \in DOMAIN arguments : arguments[n].fn \in Functions /\ (Proper => Says(n))

(* ... and those that are evaluated are in buffers that the other one does
   not get: a function's last buffer is the one its counter says. *)
Evaluated ==
  /\ cur \in [Functions -> 0 .. 3]
  /\ DOMAIN buf = Functions /\ \A f \in Functions : DOMAIN buf[f] = 0 .. 3
  /\ DOMAIN ptr \subseteq DOMAIN arguments
  /\ \A n \in DOMAIN ptr :
       /\ ptr[n] \in 0 .. 3 /\ buf[arguments[n].fn][ptr[n]] = Format(arguments[n])
       /\ DOMAIN ptr = {n} => ptr[n] = cur[arguments[n].fn]

IInv == Counters /\ Indices /\ Entries /\ Arguments /\ Evaluated
          /\ PrintsWhatWasInserted

-------------------------------------------------------------------------------
(* Numbers. *)

(* A position and a class are two digits of an index, and it gives them back. *)
LEMMA IndexDigits ==
  ASSUME NEW i \in Nat, NEW c \in Classes
  PROVE  /\ Index(i, c) \in Nat
         /\ Position(Index(i, c)) = i /\ Tag(Index(i, c)) = c
<1>1. TagMod \in Nat /\ TagMod > 3 /\ c \in 0 .. 3
  BY StoreAssumption DEF Classes, IS_V6, IS_V4, IS_SS, IS_V4SS
<1>2. i * TagMod \in Nat
  BY <1>1
<1>3. (i * TagMod + c) \div TagMod = i /\ (i * TagMod + c) % TagMod = c
  BY <1>1, <1>2, Z3
<1>4. c % 4 = c
  BY <1>1
<1> QED BY <1>1, <1>2, <1>3, <1>4 DEF Index, Position, Tag

(* A length that has been shrunk to IPv4's and back is the length, also one
   below 96. *)
LEMMA LengthRoundTrip ==
  ASSUME NEW plen \in 0 .. PlenMod - 1
  PROVE  /\ (((plen + PlenMod - 96) % PlenMod) + 96) % PlenMod = plen
         /\ plen >= 96 => (plen + PlenMod - 96) % PlenMod = plen - 96
<1>1. PlenMod \in Nat /\ PlenMod > 128
  BY StoreAssumption
<1>2. \A x \in 0 .. PlenMod - 1 : x % PlenMod = x /\ (x + PlenMod) % PlenMod = x
  BY <1>1, Z3
<1>3. CASE plen >= 96
  <2>1. (plen - 96) \in 0 .. PlenMod - 1 /\ plen + PlenMod - 96 = (plen - 96) + PlenMod
    BY <1>1, <1>3
  <2>2. (plen + PlenMod - 96) % PlenMod = plen - 96
    BY <1>2, <2>1
  <2> QED BY <1>1, <1>2, <2>2
<1>4. CASE plen < 96
  <2>1. /\ (plen + PlenMod - 96) \in 0 .. PlenMod - 1
        /\ (plen + PlenMod - 96) + 96 = plen + PlenMod
    BY <1>1, <1>4
  <2>2. (plen + PlenMod - 96) % PlenMod = plen + PlenMod - 96
    BY <1>2, <2>1
  <2> QED BY <1>2, <1>4, <2>1, <2>2
<1> QED BY <1>1, <1>3, <1>4

-------------------------------------------------------------------------------
(* Networks and their forms. *)

(* A prefix has these fields and no other. *)
LEMMA PrefixFields ==
  ASSUME NEW p \in Networks \cup {Default}
  PROVE  /\ p.plen \in 0 .. PlenMod - 1
         /\ p = [addr |-> [d0 |-> p.addr.d0, z |-> p.addr.z, w |-> p.addr.w],
                 plen |-> p.plen]
<1>1. CASE p \in Networks
  BY <1>1, StoreAssumption
<1>2. CASE p = Default
  BY <1>2, StoreAssumption DEF Default, NoAddr
<1> QED BY <1>1, <1>2

(* :: is not an IPv4 address. *)
LEMMA NoAddrIsIPv6 == Mapped # Zero /\ NoAddr.z = Zero /\ ~V4(Default)
  BY StoreAssumption DEF NoAddr, Default, V4

(* An IPv4 prefix survives its form, whatever its length. *)
LEMMA WidenShrink ==
  ASSUME NEW p \in Networks \cup {Default}, V4(p)
  PROVE  Widen(Shrink(p)) = p
<1>1. p = [addr |-> [d0 |-> Zero, z |-> Mapped, w |-> p.addr.w], plen |-> p.plen]
  BY PrefixFields DEF V4
<1>2. (((p.plen + PlenMod - 96) % PlenMod) + 96) % PlenMod = p.plen
  BY PrefixFields, LengthRoundTrip
<1>3. [NoAddr EXCEPT !.z = Mapped, !.w = p.addr.w]
        = [d0 |-> Zero, z |-> Mapped, w |-> p.addr.w]
  <2> DEFINE a == [NoAddr EXCEPT !.z = Mapped]
             b == [a EXCEPT !.w = p.addr.w]
  <2>1. a = [d0 |-> Zero, z |-> Mapped, w |-> Zero]
    BY DEF NoAddr
  <2>2. b = [d0 |-> Zero, z |-> Mapped, w |-> p.addr.w]
    <3> HIDE DEF a
    <3> QED BY <2>1
  <2>3. [NoAddr EXCEPT !.z = Mapped, !.w = p.addr.w] = b
    OBVIOUS
  <2> QED BY <2>2, <2>3
<1> QED BY <1>1, <1>2, <1>3 DEF Widen, Shrink

(* The class of a route, in terms of its prefixes. *)
LEMMA ClassOf ==
  ASSUME NEW r \in rte
  PROVE  /\ rte_classify(r) \in Classes
         /\ rte_classify(r) \in {IS_V6, IS_SS} <=> ~V4(r.dst)
         /\ rte_classify(r) \in {IS_SS, IS_V4SS} <=> r.src.addr # NoAddr
  BY DEF rte_classify, check_rte_v6, check_rte_ss, V4, Classes, IS_V6, IS_V4, IS_SS,
     IS_V4SS

(* The forms of the classes. *)
LEMMA Forms ==
  /\ IS_V6 # IS_V4 /\ IS_V6 # IS_SS /\ IS_V6 # IS_V4SS
  /\ IS_V4 # IS_SS /\ IS_V4 # IS_V4SS /\ IS_SS # IS_V4SS
  /\ \A r : /\ Compress(r, IS_V6) = [dst |-> r.dst]
            /\ Compress(r, IS_V4) = [dst |-> Shrink(r.dst)]
            /\ Compress(r, IS_SS) = [src |-> r.src, dst |-> r.dst]
            /\ Compress(r, IS_V4SS) = [src |-> Shrink(r.src), dst |-> Shrink(r.dst)]
  /\ \A e : /\ Expand(e, IS_V6) = [src |-> Default, dst |-> e.dst]
            /\ Expand(e, IS_V4) = [src |-> Default, dst |-> Widen(e.dst)]
            /\ Expand(e, IS_SS) = [src |-> e.src, dst |-> e.dst]
            /\ Expand(e, IS_V4SS) = [src |-> Widen(e.src), dst |-> Widen(e.dst)]
<1>1. /\ IS_V6 # IS_V4 /\ IS_V6 # IS_SS /\ IS_V6 # IS_V4SS
      /\ IS_V4 # IS_SS /\ IS_V4 # IS_V4SS /\ IS_SS # IS_V4SS
  BY DEF IS_V6, IS_V4, IS_SS, IS_V4SS
<1> QED BY <1>1 DEF Compress, Expand

(* What is expanded from a form is the route, if the form represents it. *)
LEMMA ExpandCompress ==
  ASSUME NEW r \in rte, Representable(r)
  PROVE  Expand(Compress(r, rte_classify(r)), rte_classify(r)) = r
<1> SUFFICES ASSUME NEW c, c = rte_classify(r) PROVE Expand(Compress(r, c), c) = r
  OBVIOUS
<1>1. r \in [src : Networks \cup {Default}, dst : Networks \cup {Default}]
  BY DEF rte
<1>2. /\ c \in Classes
      /\ c \in {IS_V6, IS_SS} <=> ~V4(r.dst)
      /\ c \in {IS_SS, IS_V4SS} <=> r.src.addr # NoAddr
  BY ClassOf
<1>3. c \notin {IS_SS, IS_V4SS} => r.src = Default
  <2>1. V4(r.src) => r.src.addr # NoAddr
    BY NoAddrIsIPv6 DEF V4
  <2> QED BY <1>2, <2>1 DEF Representable
<1>4. c = IS_V4SS => V4(r.src)
  <2>1. Default.addr = NoAddr
    BY DEF Default
  <2> QED BY <1>2, <2>1, Forms DEF Representable
<1>5. CASE c = IS_V6
  BY <1>1, <1>3, <1>5, Forms
<1>6. CASE c = IS_V4
  <2>1. Widen(Shrink(r.dst)) = r.dst
    BY <1>1, <1>2, <1>6, WidenShrink, Forms
  <2> QED BY <1>1, <1>3, <1>6, <2>1, Forms
<1>7. CASE c = IS_SS
  BY <1>1, <1>7, Forms
<1>8. CASE c = IS_V4SS
  <2>1. Widen(Shrink(r.dst)) = r.dst /\ Widen(Shrink(r.src)) = r.src
    BY <1>1, <1>2, <1>4, <1>8, WidenShrink, Forms
  <2>2. Expand(Compress(r, c), c)
          = [src |-> Widen(Shrink(r.src)), dst |-> Widen(Shrink(r.dst))]
    BY <1>8, Forms
  <2> QED BY <1>1, <2>1, <2>2
<1> QED BY <1>2, <1>5, <1>6, <1>7, <1>8 DEF Classes

-------------------------------------------------------------------------------
(* The store. *)

(* An index in use has a position and a class, and names an entry. *)
LEMMA IndexInUse ==
  ASSUME Counters, Indices, Entries, NEW idx \in DOMAIN given
  PROVE  /\ Tag(idx) \in Classes /\ Position(idx) \in 0 .. ctr[Tag(idx)] - 1
         /\ given[idx] \in rte
         /\ rte_classify(given[idx]) = Tag(idx)
         /\ pool[Tag(idx)][Position(idx)] = Compress(given[idx], Tag(idx))
<1>a. PICK c \in Classes : idx \in Used(c)
  BY DEF Indices
<1>1. PICK i \in 0 .. ctr[c] - 1 : idx = Index(i, c)
  BY <1>a DEF Used
<1>2. i \in Nat
  BY DEF Counters
<1>3. Tag(idx) = c /\ Position(idx) = i
  BY <1>1, <1>2, IndexDigits
<1> QED BY <1>1, <1>3 DEF Entries, Stored

(* insaddr_generic hands out an index that was not in use, and moves nothing. *)
LEMMA InsertStep ==
  ASSUME Counters, Indices, Entries, NEW r \in rte, insaddr(r)
  PROVE  Counters' /\ Indices' /\ Entries'
<1> DEFINE c == rte_classify(r)
           i == ctr[c]
           idx == Index(i, c)
<1>1. c \in Classes
  BY ClassOf
<1>2. /\ i < PoolSize
      /\ pool' = [pool EXCEPT ![c] =
                    [j \in DOMAIN pool[c] \cup {i} |->
                       IF j = i THEN Compress(r, c) ELSE pool[c][j]]]
      /\ ctr' = [ctr EXCEPT ![c] = i + 1]
      /\ given' = [j \in DOMAIN given \cup {idx} |-> IF j = idx THEN r ELSE given[j]]
  BY DEF insaddr
<1>3. ctr \in [Classes -> 0 .. PoolSize] /\ PoolSize \in Nat /\ i \in Nat
  BY <1>1, StoreAssumption DEF Counters
<1>a. ctr[c] = i
  OBVIOUS
<1> HIDE DEF c, i
<1>4. /\ ctr'[c] = i + 1 /\ ctr[c] = i
      /\ \A d \in Classes : d # c => ctr'[d] = ctr[d]
      /\ ctr' \in [Classes -> 0 .. PoolSize]
  <2>1. i + 1 \in 0 .. PoolSize
    BY <1>2, <1>3
  <2> QED BY <1>1, <1>2, <1>3, <1>a, <2>1
<1>5. /\ DOMAIN pool' = Classes
      /\ DOMAIN pool'[c] = 0 .. ctr'[c] - 1 /\ pool'[c][i] = Compress(r, c)
      /\ \A j \in 0 .. i - 1 : pool'[c][j] = pool[c][j]
      /\ \A d \in Classes : d # c => pool'[d] = pool[d]
  <2>1. DOMAIN pool = Classes /\ DOMAIN pool[c] = 0 .. i - 1
    BY <1>1, <1>4 DEF Counters
  <2>2. (0 .. i - 1) \cup {i} = 0 .. (i + 1) - 1
    BY <1>3
  <2>3. pool'[c] = [j \in 0 .. (i + 1) - 1 |->
                      IF j = i THEN Compress(r, c) ELSE pool[c][j]]
    BY <1>1, <1>2, <2>1, <2>2
  <2> QED BY <1>1, <1>2, <1>3, <1>4, <2>1, <2>3
<1>6. Counters'
  BY <1>4, <1>5 DEF Counters
<1>7. \A d \in Classes : \A j \in Nat : Index(j, d) = idx => j = i /\ d = c
  BY <1>1, <1>3, IndexDigits
<1>8. \A d \in Classes : \A j \in 0 .. ctr[d] - 1 : j \in Nat
  BY <1>3
<1>9. idx \notin DOMAIN given
  <2> SUFFICES ASSUME idx \in DOMAIN given PROVE FALSE
    OBVIOUS
  <2>a. PICK d \in Classes : idx \in Used(d)
    BY DEF Indices
  <2>1. PICK j \in 0 .. ctr[d] - 1 : idx = Index(j, d)
    BY <2>a DEF Used
  <2>2. j = i /\ d = c
    BY <1>7, <1>8, <2>1
  <2> QED BY <1>3, <1>4, <2>1, <2>2
<1>10. Indices'
  <2>1. DOMAIN given' = DOMAIN given \cup {idx}
    BY <1>2
  <2>2. \A d \in Classes : Used(d)' = IF d = c THEN Used(d) \cup {idx} ELSE Used(d)
    <3>1. 0 .. (i + 1) - 1 = (0 .. i - 1) \cup {i}
      BY <1>3
    <3>2. Used(c)' = Used(c) \cup {idx}
      BY <1>4, <3>1 DEF Used
    <3>3. \A d \in Classes : d # c => Used(d)' = Used(d)
      BY <1>4 DEF Used
    <3> QED BY <3>2, <3>3
  <2>3. DOMAIN given' = UNION {Used(d)' : d \in Classes}
    BY <1>1, <2>1, <2>2 DEF Indices
  <2>4. /\ IsFiniteSet(DOMAIN given')
        /\ Cardinality(DOMAIN given') = Cardinality(DOMAIN given) + 1
    BY <1>9, <2>1, FS_AddElement DEF Indices
  <2>5. /\ c \in {IS_V6, IS_V4, IS_SS, IS_V4SS} /\ Classes = {IS_V6, IS_V4, IS_SS, IS_V4SS}
        /\ \A d \in Classes : ctr[d] \in Nat
    BY <1>1, <1>3 DEF Classes
  <2>7. /\ IS_V6 # IS_V4 /\ IS_V6 # IS_SS /\ IS_V6 # IS_V4SS
        /\ IS_V4 # IS_SS /\ IS_V4 # IS_V4SS /\ IS_SS # IS_V4SS
    BY Forms
  <2>6. ctr'[IS_V6] + ctr'[IS_V4] + ctr'[IS_SS] + ctr'[IS_V4SS]
          = ctr[IS_V6] + ctr[IS_V4] + ctr[IS_SS] + ctr[IS_V4SS] + 1
    <3>1. CASE c = IS_V6
      BY <1>4, <2>5, <2>7, <3>1
    <3>2. CASE c = IS_V4
      BY <1>4, <2>5, <2>7, <3>2
    <3>3. CASE c = IS_SS
      BY <1>4, <2>5, <2>7, <3>3
    <3>4. CASE c = IS_V4SS
      BY <1>4, <2>5, <2>7, <3>4
    <3> QED BY <2>5, <3>1, <3>2, <3>3, <3>4
  <2> QED BY <2>3, <2>4, <2>6 DEF Indices
<1>11. Entries'
  <2> SUFFICES ASSUME NEW d \in Classes, NEW j \in 0 .. ctr'[d] - 1
               PROVE  Stored(d, j)'
    BY DEF Entries
  <2>1. CASE d = c /\ j = i
    <3>1. given'[Index(j, d)] = r
      BY <1>2, <2>1
    <3>2. rte_classify(r) = c
      BY DEF c
    <3> QED BY <1>5, <2>1, <3>1, <3>2 DEF Stored
  <2>2. CASE ~(d = c /\ j = i)
    <3>1. j \in 0 .. ctr[d] - 1 /\ j \in Nat
      BY <1>1, <1>3, <1>4, <2>2
    <3>2. Stored(d, j)
      BY <3>1 DEF Entries
    <3>3. pool'[d][j] = pool[d][j]
      BY <1>1, <1>4, <1>5, <3>1
    <3>4. given'[Index(j, d)] = given[Index(j, d)]
      <4>1. Index(j, d) # idx
        BY <1>7, <2>2, <3>1
      <4>2. Index(j, d) \in DOMAIN given
        BY <3>1 DEF Indices, Used
      <4> QED BY <1>2, <4>1, <4>2
    <3> QED BY <3>2, <3>3, <3>4 DEF Stored
  <2> QED BY <2>1, <2>2
<1> QED BY <1>6, <1>10, <1>11

-------------------------------------------------------------------------------
(* The lines. *)

(* A line that starts says what it is about, if each of its arguments does. *)
LEMMA StartStep ==
  ASSUME NEW a, NEW ps, NEW name, StartLine(a, ps, name), Evaluated,
         DOMAIN a = DOMAIN ps, DOMAIN a \subseteq {1, 2},
         \A n \in DOMAIN a :
           /\ a[n].fn \in Functions
           /\ Proper' => Names(Format(a[n]), ps[n])
                           \/ (name = "route_typeless" /\ V4(ps[n]))
  PROVE  Arguments' /\ Evaluated' /\ PrintsWhatWasInserted'
<1>1. /\ arguments = <<>> /\ arguments' = a /\ of' = ps /\ by' = name /\ printed' = <<>>
      /\ UNCHANGED <<cur, buf, ptr>>
  BY DEF StartLine, ring
<1>2. DOMAIN ptr = {}
  <2>1. DOMAIN arguments = {}
    BY <1>1
  <2> QED BY <2>1 DEF Evaluated
<1>3. Arguments'
  BY <1>1 DEF Arguments, Says
<1>4. Evaluated'
  <2>1. DOMAIN ptr' = {}
    BY <1>1, <1>2
  <2>2. /\ cur' \in [Functions -> 0 .. 3]
        /\ DOMAIN buf' = Functions /\ \A f \in Functions : DOMAIN buf'[f] = 0 .. 3
    BY <1>1 DEF Evaluated
  <2> QED BY <2>1, <2>2 DEF Evaluated
<1>5. PrintsWhatWasInserted'
  BY <1>1 DEF PrintsWhatWasInserted
<1> QED BY <1>3, <1>4, <1>5

(* What the forms of a pool print, if the prefix is of the pool's family. *)
LEMMA SixNames ==
  ASSUME NEW p \in Networks \cup {Default}, ~V4(p)
  PROVE  /\ Names(Format(Arg("format_prefix6", p.addr, p.plen)), p)
         /\ Names(Format(Arg("format_prefix", p.addr, p.plen)), p)
  BY DEF Names, Format, Arg, V4, v4mapped, format_prefix

(* An IPv4 prefix that was shrunk to four bytes is still named by its text. *)
LEMMA FourNames ==
  ASSUME NEW p \in Networks \cup {Default}, V4(p), p.plen >= 96
  PROVE  Names(Format(Arg("format_prefix4", Shrink(p).v, Shrink(p).plen)), p)
<1>1. Shrink(p).v = p.addr.w /\ Shrink(p).plen = p.plen - 96
  BY PrefixFields, LengthRoundTrip DEF Shrink
<1>2. Format(Arg("format_prefix4", p.addr.w, p.plen - 96)) = Text4(p.addr.w, p.plen - 96)
  BY DEF Format, Arg
<1> QED BY <1>1, <1>2 DEF Names

(* format_prefix_str names every prefix of the table. *)
LEMMA StringNames ==
  ASSUME NEW p \in Networks
  PROVE  Names(Format(Arg("format_prefix_str", p.addr, p.plen)), p)
  BY DEF Names, Format, Arg, V4, v4mapped, format_prefix_str

(* Lines with one argument and with two. *)
LEMMA OneArgument ==
  ASSUME NEW a, NEW p, NEW name, StartLine(<<a>>, <<p>>, name), Evaluated,
         a.fn \in Functions,
         Proper' => Names(Format(a), p) \/ (name = "route_typeless" /\ V4(p))
  PROVE  Arguments' /\ Evaluated' /\ PrintsWhatWasInserted'
<1> DEFINE s == <<a>>
           ps == <<p>>
<1>1. DOMAIN s = {1} /\ DOMAIN ps = {1} /\ s[1] = a /\ ps[1] = p
  OBVIOUS
<1>2. StartLine(s, ps, name)
  OBVIOUS
<1> HIDE DEF s, ps
<1>3. \A n \in DOMAIN s :
        /\ s[n].fn \in Functions
        /\ Proper' => Names(Format(s[n]), ps[n])
                        \/ (name = "route_typeless" /\ V4(ps[n]))
  BY <1>1
<1> QED BY <1>1, <1>2, <1>3, StartStep

(* A line with two arguments, for a route with a source. *)
LEMMA TwoArguments ==
  ASSUME NEW a, NEW b, NEW p, NEW q, NEW name,
         StartLine(<<a, b>>, <<p, q>>, name), Evaluated,
         a.fn \in Functions, b.fn \in Functions,
         Proper' => Names(Format(a), p) \/ (name = "route_typeless" /\ V4(p)),
         Proper' => Names(Format(b), q) \/ (name = "route_typeless" /\ V4(q))
  PROVE  Arguments' /\ Evaluated' /\ PrintsWhatWasInserted'
<1> DEFINE s == <<a, b>>
           ps == <<p, q>>
<1>1. /\ DOMAIN s = {1, 2} /\ DOMAIN ps = {1, 2}
      /\ s[1] = a /\ s[2] = b /\ ps[1] = p /\ ps[2] = q
  OBVIOUS
<1>2. StartLine(s, ps, name)
  OBVIOUS
<1> HIDE DEF s, ps
<1>3. \A n \in DOMAIN s :
        /\ s[n].fn \in Functions
        /\ Proper' => Names(Format(s[n]), ps[n])
                        \/ (name = "route_typeless" /\ V4(ps[n]))
  BY <1>1
<1> QED BY <1>1, <1>2, <1>3, StartStep

(* The arguments of route_type. *)
Six(p) == Arg("format_prefix6", p.addr, p.plen)
Four(p) == Arg("format_prefix4", p.v, p.plen)
LineOf(c, r) == CASE c = IS_V6   -> <<Six(r.dst)>>
                  [] c = IS_SS   -> <<Six(r.src), Six(r.dst)>>
                  [] c = IS_V4   -> <<Four(r.dst)>>
                  [] c = IS_V4SS -> <<Four(r.src), Four(r.dst)>>

(* What is printed of each of the four structures. *)
LEMMA LineForms ==
  \A r : /\ LineOf(IS_V6, Compress(r, IS_V6)) = <<Six(r.dst)>>
         /\ LineOf(IS_SS, Compress(r, IS_SS)) = <<Six(r.src), Six(r.dst)>>
         /\ LineOf(IS_V4, Compress(r, IS_V4)) = <<Four(Shrink(r.dst))>>
         /\ LineOf(IS_V4SS, Compress(r, IS_V4SS))
              = <<Four(Shrink(r.src)), Four(Shrink(r.dst))>>
<1> TAKE r
<1>1. /\ IS_V6 # IS_V4 /\ IS_V6 # IS_SS /\ IS_V6 # IS_V4SS
      /\ IS_V4 # IS_SS /\ IS_V4 # IS_V4SS /\ IS_SS # IS_V4SS
  BY Forms
<1>2. \A e : /\ LineOf(IS_V6, e) = <<Six(e.dst)>>
             /\ LineOf(IS_SS, e) = <<Six(e.src), Six(e.dst)>>
             /\ LineOf(IS_V4, e) = <<Four(e.dst)>>
             /\ LineOf(IS_V4SS, e) = <<Four(e.src), Four(e.dst)>>
  BY <1>1 DEF LineOf
<1>3. /\ Compress(r, IS_V6).dst = r.dst
      /\ Compress(r, IS_SS).src = r.src /\ Compress(r, IS_SS).dst = r.dst
      /\ Compress(r, IS_V4).dst = Shrink(r.dst)
      /\ Compress(r, IS_V4SS).src = Shrink(r.src)
      /\ Compress(r, IS_V4SS).dst = Shrink(r.dst)
  <2>1. /\ Compress(r, IS_V6) = [dst |-> r.dst]
        /\ Compress(r, IS_SS) = [src |-> r.src, dst |-> r.dst]
        /\ Compress(r, IS_V4) = [dst |-> Shrink(r.dst)]
        /\ Compress(r, IS_V4SS) = [src |-> Shrink(r.src), dst |-> Shrink(r.dst)]
    BY Forms
  <2> QED BY <2>1
<1> QED BY <1>2, <1>3

(* A route's line. *)
LEMMA TypeLine ==
  ASSUME Counters, Indices, Entries, Evaluated, NEW idx \in DOMAIN given,
         route_type(idx)
  PROVE  Arguments' /\ Evaluated' /\ PrintsWhatWasInserted'
<1> DEFINE c == Tag(idx)
           r == given[idx]
<1>1. /\ r \in rte /\ c \in Classes /\ rte_classify(r) = c
      /\ pool[c][Position(idx)] = Compress(r, c)
  BY IndexInUse
<1>2. /\ r.src \in Networks \cup {Default} /\ r.dst \in Networks \cup {Default}
      /\ c \in {IS_V6, IS_SS} <=> ~V4(r.dst)
      /\ c \in {IS_SS, IS_V4SS} <=> r.src.addr # NoAddr
      /\ r.src.addr # NoAddr => r.src # Default
  BY <1>1, ClassOf DEF rte, Default
<1>3. \A p : Six(p).fn \in Functions /\ Four(p).fn \in Functions
  BY DEF Six, Four, Arg, Functions
<1>7. StartLine(LineOf(c, Compress(r, c)),
                IF c \in {IS_SS, IS_V4SS} THEN <<r.src, r.dst>> ELSE <<r.dst>>,
                "route_type")
  <2>1. StartLine(LineOf(c, pool[c][Position(idx)]), About(idx), "route_type")
    BY DEF route_type, LineOf, Six, Four
  <2> QED BY <1>1, <2>1 DEF About
<1> HIDE DEF r, c
<1>4. CASE c = IS_V6
  <2>1. StartLine(<<Six(r.dst)>>, <<r.dst>>, "route_type")
    <3>1. c \notin {IS_SS, IS_V4SS}
      BY <1>4, Forms
    <3>2. LineOf(c, Compress(r, c)) = <<Six(r.dst)>>
      BY <1>4, LineForms
    <3> QED BY <1>7, <3>1, <3>2
  <2>2. Names(Format(Six(r.dst)), r.dst)
    BY <1>2, <1>4, SixNames DEF Six
  <2> QED BY <1>3, <2>1, <2>2, OneArgument
<1>5. CASE c = IS_V4
  <2>1. StartLine(<<Four(Shrink(r.dst))>>, <<r.dst>>, "route_type")
    <3>1. c \notin {IS_SS, IS_V4SS}
      BY <1>5, Forms
    <3>2. LineOf(c, Compress(r, c)) = <<Four(Shrink(r.dst))>>
      BY <1>5, LineForms
    <3> QED BY <1>7, <3>1, <3>2
  <2>2. Proper' => Names(Format(Four(Shrink(r.dst))), r.dst)
    <3>1. of' = <<r.dst>>
      BY <2>1 DEF StartLine
    <3>3. DOMAIN of' = {1} /\ of'[1] = r.dst
      BY <3>1
    <3>4. V4(r.dst)
      BY <1>2, <1>5, Forms
    <3>2. Proper' => r.dst.plen >= 96
      BY <3>3, <3>4 DEF Proper
    <3> QED BY <1>2, <1>5, <3>2, Forms, FourNames DEF Four
  <2> QED BY <1>3, <2>1, <2>2, OneArgument
<1>6. ASSUME c \in {IS_SS, IS_V4SS}
      PROVE  Arguments' /\ Evaluated' /\ PrintsWhatWasInserted'
  <2>1. StartLine(IF c = IS_SS THEN <<Six(r.src), Six(r.dst)>>
                  ELSE <<Four(Shrink(r.src)), Four(Shrink(r.dst))>>,
                  <<r.src, r.dst>>, "route_type")
    <3>1. LineOf(c, Compress(r, c)) =
            IF c = IS_SS THEN <<Six(r.src), Six(r.dst)>>
            ELSE <<Four(Shrink(r.src)), Four(Shrink(r.dst))>>
      BY <1>1, <1>6, LineForms, Forms
    <3> QED BY <1>6, <1>7, <3>1
  <2>2. of' = <<r.src, r.dst>> /\ by' = "route_type"
    BY <2>1 DEF StartLine
  <2>3. Proper' => /\ V4(r.src) = V4(r.dst)
                   /\ V4(r.src) => r.src.plen >= 96 /\ r.dst.plen >= 96
    <3> SUFFICES ASSUME Proper' PROVE V4(r.src) = V4(r.dst) /\
                   (V4(r.src) => r.src.plen >= 96 /\ r.dst.plen >= 96)
      OBVIOUS
    <3>1. /\ DOMAIN of' = {1, 2} /\ of'[1] = r.src /\ of'[2] = r.dst
          /\ by' # "main" /\ r.src # Default
      BY <1>2, <1>6, <2>2
    <3> QED BY <3>1 DEF Proper
  <2>4. CASE c = IS_SS
    <3>1. Proper' => /\ Names(Format(Six(r.src)), r.src)
                     /\ Names(Format(Six(r.dst)), r.dst)
      BY <1>2, <2>3, <2>4, SixNames DEF Six
    <3> QED BY <1>3, <2>1, <2>4, <3>1, TwoArguments
  <2>5. CASE c = IS_V4SS
    <3>1. Proper' => /\ Names(Format(Four(Shrink(r.src))), r.src)
                     /\ Names(Format(Four(Shrink(r.dst))), r.dst)
      BY <1>2, <2>3, <2>5, Forms, FourNames DEF Four
    <3> QED BY <1>3, <2>1, <2>5, <3>1, TwoArguments, Forms
  <2> QED BY <1>6, <2>4, <2>5
<1> QED BY <1>1, <1>4, <1>5, <1>6 DEF Classes

(* The line of its general form. *)
LEMMA TypelessLine ==
  ASSUME Counters, Indices, Entries, Evaluated, NEW idx \in DOMAIN given,
         route_typeless(idx)
  PROVE  Arguments' /\ Evaluated' /\ PrintsWhatWasInserted'
<1> DEFINE r == given[idx]
           e == getroute(idx)
           General(p) == Arg("format_prefix", p.addr, p.plen)
<1>1. /\ r \in rte
      /\ e = Expand(Compress(r, rte_classify(r)), rte_classify(r))
  BY IndexInUse DEF getroute
<1>2. r.src \in Networks \cup {Default} /\ r.dst \in Networks \cup {Default}
  BY <1>1 DEF rte
<1>3. Representable(r) => e = r
  BY <1>1, ExpandCompress
<1>4. \A p : General(p).fn \in Functions
  BY DEF Arg, Functions
<1>5. /\ StartLine(<<General(e.src), General(e.dst)>>, <<r.src, r.dst>>,
                   "route_typeless")
      /\ of' = <<r.src, r.dst>> /\ by' = "route_typeless"
  BY DEF route_typeless, StartLine
<1> HIDE DEF r, e, General
<1>6. Proper' => Representable(r)
  <2> SUFFICES ASSUME Proper' PROVE Representable(r)
    OBVIOUS
  <2>1. /\ DOMAIN of' = {1, 2} /\ of'[1] = r.src /\ of'[2] = r.dst
        /\ by' = "route_typeless"
    BY <1>5
  <2>2. /\ r.src = Default \/ V4(r.src) = V4(r.dst)
        /\ r.src.addr = NoAddr => r.src = Default
    BY <2>1 DEF Proper
  <2> QED BY <2>2 DEF Representable
<1>7. \A p \in Networks \cup {Default} : V4(p) \/ Names(Format(General(p)), p)
  BY SixNames DEF General
<1> QED BY <1>2, <1>3, <1>4, <1>5, <1>6, <1>7, TwoArguments

(* The line of one prefix, or of two. *)
LEMMA PrefixLine ==
  ASSUME Evaluated, NEW p \in Networks, NEW q \in Networks,
         PrintPrefixes(<<p>>) \/ PrintPrefixes(<<p, q>>)
  PROVE  Arguments' /\ Evaluated' /\ PrintsWhatWasInserted'
<1> DEFINE String(x) == Arg("format_prefix_str", x.addr, x.plen)
<1>1. \A x \in Networks : String(x).fn \in Functions /\ Names(Format(String(x)), x)
  <2>1. \A x : String(x).fn \in Functions
    BY DEF Arg, Functions
  <2> QED BY <2>1, StringNames
<1>2. CASE PrintPrefixes(<<p>>)
  <2> DEFINE ps == <<p>>
  <2>1. DOMAIN ps = {1} /\ ps[1] = p
    OBVIOUS
  <2>2. [n \in DOMAIN ps |-> Arg("format_prefix_str", ps[n].addr, ps[n].plen)]
          = <<String(p)>>
    <3> HIDE DEF ps
    <3> QED BY <2>1
  <2>3. StartLine(<<String(p)>>, <<p>>, "main")
    BY <1>2, <2>2 DEF PrintPrefixes
  <2> HIDE DEF String
  <2> QED BY <1>1, <2>3, OneArgument
<1>3. CASE PrintPrefixes(<<p, q>>)
  <2> DEFINE ps == <<p, q>>
  <2>1. DOMAIN ps = {1, 2} /\ ps[1] = p /\ ps[2] = q
    OBVIOUS
  <2>2. [n \in DOMAIN ps |-> Arg("format_prefix_str", ps[n].addr, ps[n].plen)]
          = <<String(p), String(q)>>
    <3> HIDE DEF ps
    <3> QED BY <2>1
  <2>3. StartLine(<<String(p), String(q)>>, <<p, q>>, "main")
    BY <1>3, <2>2 DEF PrintPrefixes
  <2> HIDE DEF String
  <2> QED BY <1>1, <2>3, TwoArguments
<1> QED BY <1>2, <1>3

(* An argument gets a buffer that the line's other argument does not have. *)
LEMMA EvaluateStep ==
  ASSUME Arguments, Evaluated, PrintsWhatWasInserted, Evaluate
  PROVE  Arguments' /\ Evaluated' /\ PrintsWhatWasInserted'
<1>1. PICK n \in DOMAIN arguments \ DOMAIN ptr :
        LET f == arguments[n].fn
            next == NextBuffer(cur[f])
        IN  /\ cur' = [cur EXCEPT ![f] = next]
            /\ buf' = [buf EXCEPT ![f][next] = Format(arguments[n])]
            /\ ptr' = [m \in DOMAIN ptr \cup {n} |-> IF m = n THEN next ELSE ptr[m]]
            /\ UNCHANGED <<storeVars, arguments, of, by, printed, lines>>
  BY DEF Evaluate
<1> DEFINE f == arguments[n].fn
           next == NextBuffer(cur[f])
<1>2. /\ f \in Functions /\ cur[f] \in 0 .. 3 /\ next \in 0 .. 3 /\ next # cur[f]
      /\ cur' = [cur EXCEPT ![f] = next]
      /\ buf' = [buf EXCEPT ![f][next] = Format(arguments[n])]
      /\ ptr' = [m \in DOMAIN ptr \cup {n} |-> IF m = n THEN next ELSE ptr[m]]
      /\ UNCHANGED <<arguments, of, by, printed>>
  BY <1>1 DEF Arguments, Evaluated, NextBuffer
<1> HIDE DEF next
<1>3. Arguments'
  BY <1>2 DEF Arguments, Says, Proper
<1>4. PrintsWhatWasInserted'
  BY <1>2 DEF PrintsWhatWasInserted, Proper
<1>5. /\ cur' \in [Functions -> 0 .. 3] /\ cur'[f] = next
      /\ DOMAIN buf' = Functions /\ \A g \in Functions : DOMAIN buf'[g] = 0 .. 3
      /\ buf'[f][next] = Format(arguments[n])
      /\ \A g \in Functions : \A b \in 0 .. 3 :
           g # f \/ b # next => buf'[g][b] = buf[g][b]
  BY <1>2 DEF Evaluated
<1>6. /\ DOMAIN ptr' = DOMAIN ptr \cup {n} /\ ptr'[n] = next
      /\ \A m \in DOMAIN ptr : ptr'[m] = ptr[m] /\ m # n
  BY <1>1, <1>2
<1>7. \A m \in DOMAIN ptr : DOMAIN ptr = {m}
  <2>1. DOMAIN arguments \subseteq {1, 2}
    <3>1. arguments # <<>>
      BY <1>1
    <3> QED BY <3>1 DEF Arguments
  <2>2. DOMAIN ptr \subseteq {1, 2} \ {n} /\ n \in {1, 2}
    BY <1>1, <2>1 DEF Evaluated
  <2>3. \A k, m \in DOMAIN ptr : k = m
    BY <2>2
  <2> QED BY <2>3
<1>8. ASSUME NEW m \in DOMAIN ptr
      PROVE  /\ ptr'[m] \in 0 .. 3 /\ buf'[arguments[m].fn][ptr'[m]] = Format(arguments[m])
             /\ DOMAIN ptr' # {m}
  <2>1. /\ ptr[m] \in 0 .. 3 /\ buf[arguments[m].fn][ptr[m]] = Format(arguments[m])
        /\ ptr[m] = cur[arguments[m].fn] /\ arguments[m].fn \in Functions
    BY <1>7, <1>8 DEF Evaluated, Arguments
  <2>2. arguments[m].fn # f \/ ptr[m] # next
    BY <1>2, <2>1
  <2> QED BY <1>5, <1>6, <2>1, <2>2
<1>9. Evaluated'
  BY <1>1, <1>2, <1>5, <1>6, <1>8 DEF Evaluated
<1> QED BY <1>3, <1>4, <1>9

(* printf reads, in each buffer, the text of the argument that was put there. *)
LEMMA PrintfStep ==
  ASSUME Arguments, Evaluated, Printf
  PROVE  Arguments' /\ Evaluated' /\ PrintsWhatWasInserted'
<1>1. /\ arguments # <<>> /\ DOMAIN ptr = DOMAIN arguments
      /\ printed' = [n \in DOMAIN arguments |-> buf[arguments[n].fn][ptr[n]]]
      /\ arguments' = <<>> /\ ptr' = <<>>
      /\ buf' = [g \in Functions |-> [n \in 0 .. 3 |-> Unwritten]]
      /\ UNCHANGED <<cur, of, by>>
  BY DEF Printf
<1>2. DOMAIN arguments' = {} /\ DOMAIN ptr' = {}
  BY <1>1
<1>3. Arguments'
  BY <1>1, <1>2 DEF Arguments
<1>4. Evaluated'
  <2>1. DOMAIN buf' = Functions /\ \A g \in Functions : DOMAIN buf'[g] = 0 .. 3
    BY <1>1
  <2>2. cur' \in [Functions -> 0 .. 3]
    BY <1>1 DEF Evaluated
  <2> QED BY <1>2, <2>1, <2>2 DEF Evaluated
<1>5. PrintsWhatWasInserted'
  <2>1. DOMAIN printed' = DOMAIN of /\ DOMAIN arguments = DOMAIN of
    BY <1>1 DEF Arguments
  <2>2. \A n \in DOMAIN of : printed'[n] = Format(arguments[n])
    BY <1>1, <2>1 DEF Evaluated
  <2>3. Proper' = Proper
    BY <1>1 DEF Proper
  <2>4. Proper => \A n \in DOMAIN of :
          Names(printed'[n], of[n]) \/ (by = "route_typeless" /\ V4(of[n]))
    BY <2>1, <2>2 DEF Arguments, Says
  <2> QED BY <1>1, <2>1, <2>3, <2>4 DEF PrintsWhatWasInserted
<1> QED BY <1>3, <1>4, <1>5

(* Insertions happen between two lines. *)
LEMMA InsertBetweenLines ==
  ASSUME Counters, Indices, Entries, Arguments, Evaluated, Insert
  PROVE  IInv'
<1>1. PICK r \in rte : insaddr(r)
  BY DEF Insert
<1>2. /\ printed' = <<>> /\ arguments = <<>> /\ UNCHANGED <<cur, buf, arguments, ptr>>
  BY DEF Insert, ring
<1>3. DOMAIN arguments = {}
  BY <1>2
<1>4. Arguments' /\ Evaluated'
  <2>1. DOMAIN arguments' = {} /\ DOMAIN ptr' = {}
    BY <1>2, <1>3 DEF Evaluated
  <2>2. Arguments'
    BY <1>2, <2>1 DEF Arguments
  <2> QED BY <1>2, <2>1, <2>2 DEF Evaluated
<1>5. PrintsWhatWasInserted'
  BY <1>2 DEF PrintsWhatWasInserted
<1> QED BY <1>1, <1>4, <1>5, InsertStep DEF IInv

(* Printing leaves the store alone. *)
LEMMA SameStore ==
  ASSUME Counters, Indices, Entries, UNCHANGED storeVars
  PROVE  Counters' /\ Indices' /\ Entries'
<1>1. ctr' = ctr /\ pool' = pool /\ given' = given
  BY DEF storeVars
<1>2. \A c : Used(c)' = Used(c)
  BY <1>1 DEF Used
<1> QED BY <1>1, <1>2 DEF Counters, Indices, Entries, Stored

-------------------------------------------------------------------------------
(* The theorems. *)

(* The invariant is inductive: it holds of the empty store, and after every
   insertion, start of a line, evaluated argument and printf. *)
THEOREM Invariance == SpecPrinting => []IInv
<1>1. InitPrinting => IInv
  <2> SUFFICES ASSUME InitPrinting PROVE IInv
    OBVIOUS
  <2>1. /\ ctr = [c \in Classes |-> 0] /\ pool = [c \in Classes |-> [i \in {} |-> Default]]
        /\ DOMAIN given = {}
        /\ cur = [g \in Functions |-> 0]
        /\ buf = [g \in Functions |-> [n \in 0 .. 3 |-> Unwritten]]
        /\ arguments = <<>> /\ ptr = <<>> /\ printed = <<>>
    BY DEF InitPrinting, InitStore
  <2>2. Classes = {IS_V6, IS_V4, IS_SS, IS_V4SS} /\ 0 .. 0 - 1 = {}
    BY DEF Classes
  <2>3. Counters
    BY <2>1, <2>2, StoreAssumption DEF Counters
  <2>4. Indices
    <3>1. \A c \in Classes : Used(c) = {}
      BY <2>1, <2>2 DEF Used
    <3>2. IsFiniteSet({}) /\ Cardinality({}) = 0
      BY FS_EmptySet
    <3>3. \A c \in Classes : ctr[c] = 0
      BY <2>1
    <3> QED BY <2>1, <2>2, <3>1, <3>2, <3>3 DEF Indices
  <2>5. Entries
    BY <2>1, <2>2 DEF Entries
  <2>6. DOMAIN arguments = {} /\ DOMAIN ptr = {}
    BY <2>1
  <2>7. Arguments /\ PrintsWhatWasInserted
    BY <2>1, <2>6 DEF Arguments, PrintsWhatWasInserted
  <2>8. Evaluated
    BY <2>1, <2>6 DEF Evaluated
  <2> QED BY <2>3, <2>4, <2>5, <2>7, <2>8 DEF IInv
<1>2. IInv /\ [NextPrinting]_printingVars => IInv'
  <2> SUFFICES ASSUME IInv, [NextPrinting]_printingVars PROVE IInv'
    OBVIOUS
  <2> USE DEF IInv
  <2>1. CASE Insert
    BY <2>1, InsertBetweenLines
  <2>2. ASSUME UNCHANGED storeVars, Arguments', Evaluated', PrintsWhatWasInserted'
        PROVE  IInv'
    BY <2>2, SameStore
  <2>3. CASE Evaluate
    BY <2>2, <2>3, EvaluateStep DEF Evaluate
  <2>4. CASE Printf
    BY <2>2, <2>4, PrintfStep DEF Printf
  <2>5. ASSUME NEW idx \in DOMAIN given, route_type(idx)
        PROVE  IInv'
    <3>1. UNCHANGED storeVars
      BY <2>5 DEF route_type, StartLine
    <3> QED BY <2>2, <2>5, <3>1, TypeLine
  <2>6. ASSUME NEW idx \in DOMAIN given, route_typeless(idx)
        PROVE  IInv'
    <3>1. UNCHANGED storeVars
      BY <2>6 DEF route_typeless, StartLine
    <3> QED BY <2>2, <2>6, <3>1, TypelessLine
  <2>7. ASSUME NEW p \in Networks, NEW q \in Networks,
               PrintPrefixes(<<p>>) \/ PrintPrefixes(<<p, q>>)
        PROVE  IInv'
    <3>1. UNCHANGED storeVars
      BY <2>7 DEF PrintPrefixes, StartLine
    <3> QED BY <2>2, <2>7, <3>1, PrefixLine
  <2>8. CASE UNCHANGED printingVars
    <3>1. UNCHANGED <<storeVars, cur, buf, arguments, ptr, of, by, printed>>
      BY <2>8 DEF printingVars, ring, line
    <3>2. Proper' = Proper
      BY <3>1 DEF Proper
    <3>3. Arguments'
      BY <3>1, <3>2 DEF Arguments, Says
    <3>4. Evaluated'
      BY <3>1 DEF Evaluated
    <3>5. PrintsWhatWasInserted'
      BY <3>1, <3>2 DEF PrintsWhatWasInserted
    <3> QED BY <2>2, <3>1, <3>3, <3>4, <3>5
  <2> QED
    BY <2>1, <2>3, <2>4, <2>5, <2>6, <2>7, <2>8 DEF NextPrinting
<1> QED BY <1>1, <1>2, PTL DEF SpecPrinting

(* The types, and that every insertion has an index of its own. *)
THEOREM IndicesAreDistinct == SpecPrinting => []StoreTypeOK
<1>1. IInv => StoreTypeOK
  <2> SUFFICES ASSUME IInv PROVE StoreTypeOK
    OBVIOUS
  <2>1. \A i \in DOMAIN given : given[i] \in rte
    BY IndexInUse DEF IInv
  <2> QED BY <2>1 DEF IInv, Counters, Indices, StoreTypeOK
<1> QED BY <1>1, Invariance, PTL

(* An index names what was inserted when it was handed out, field by field. *)
THEOREM IndicesAreStable == SpecPrinting => []IndexIsStable
<1>1. IInv => IndexIsStable
  <2> SUFFICES ASSUME IInv, NEW idx \in DOMAIN given, Representable(given[idx])
               PROVE  getroute(idx) = given[idx]
    BY DEF IndexIsStable
  <2> QED BY IndexInUse, ExpandCompress DEF IInv, getroute
<1> QED BY <1>1, Invariance, PTL

(* A line prints the prefixes it is about, whatever the order in which its
   arguments are evaluated and whatever was printed before. *)
THEOREM LinesSayWhatWasInserted == SpecPrinting => []PrintsWhatWasInserted
<1>1. IInv => PrintsWhatWasInserted
  BY DEF IInv
<1> QED BY <1>1, Invariance, PTL
===============================================================================
