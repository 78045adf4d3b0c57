------------------------------ MODULE RouteStore ------------------------------
(***************************************************************************)
(* The route store of kdump.c: routes are classified as IPv4 or IPv6, with *)
(* or without a source prefix, stored in one of four pools in the form of  *)
(* their class, and named from then on by an index that carries the class  *)
(* in its low bits (insaddr_generic, getroute).                            *)
(*                                                                         *)
(* An address is [d0, z, w]: its first eight bytes, and the two words after *)
(* them; IPv4 addresses are mapped into IPv6 ones, and their prefix        *)
(* lengths are 96 more.  The callers are external.                         *)
(***************************************************************************)
EXTENDS Naturals, FiniteSets

CONSTANTS
  Networks,    \* the routes' destinations and sources: [addr, plen]
  Zero,        \* 0, as a part of an address
  Mapped,      \* the word 0xFFFF in front of an IPv4 address
  TagMod,      \* 2^RTE_TAG_SIZE
  PlenMod,     \* prefix lengths are unsigned chars: 2^8
  PoolSize     \* bound: TEST_ROUTES, which the callers do not exceed

IS_V6 == 0
IS_V4 == 1
IS_SS == 2
IS_V4SS == IS_V4 + IS_SS
Classes == {IS_V6, IS_V4, IS_SS, IS_V4SS}

ASSUME StoreAssumption ==
  /\ TagMod \in Nat /\ TagMod > IS_V4SS
  /\ PlenMod \in Nat /\ PlenMod > 128
  /\ PoolSize \in Nat
  /\ Mapped # Zero
  /\ \A p \in Networks :
       \E d0, z, w \in {p.addr.d0, p.addr.z, p.addr.w}, plen \in 0 .. PlenMod - 1 :
         p = [addr |-> [d0 |-> d0, z |-> z, w |-> w], plen |-> plen]

VARIABLES
  ctr,      \* the static counter of each insaddr function
  pool,     \* the four pools
  given     \* history: the routes inserted, by the index they were given

storeVars == <<ctr, pool, given>>

NoAddr == [d0 |-> Zero, z |-> Zero, w |-> Zero]
Default == [addr |-> NoAddr, plen |-> 0]
rte == [src : Networks \cup {Default}, dst : Networks]

InitStore ==
  /\ ctr = [c \in Classes |-> 0]
  /\ pool = [c \in Classes |-> [i \in {} |-> Default]]
  /\ given = [i \in {} |-> Default]

-------------------------------------------------------------------------------
(* Classification. *)

check_rte_ss(r) == r.src.addr # NoAddr
check_rte_v6(r) == ~(r.dst.addr.d0 = Zero /\ r.dst.addr.z = Mapped)

(* Mutant of rte_classify: the family of the source decides. *)
rte_classifySource(r) ==
  (IF r.src.addr.z = Mapped THEN IS_V4 ELSE IS_V6)
    + (IF check_rte_ss(r) THEN IS_SS ELSE 0)
rte_classify(r) ==
  (IF check_rte_v6(r) THEN IS_V6 ELSE IS_V4)
    + (IF check_rte_ss(r) THEN IS_SS ELSE 0)

(* The forms of a prefix in rte4/rte4s and in rte6/rte6s: the former have
   only the last word, and the length as in IPv4. *)
Shrink(p) == [v |-> p.addr.w, plen |-> (p.plen + PlenMod - 96) % PlenMod]
Widen(p) == [addr |-> [NoAddr EXCEPT !.z = Mapped, !.w = p.v],
             plen |-> (p.plen + 96) % PlenMod]

(* rte2_rte6, rte2_rte4, rte2_rte6s, rte2_rte4s *)
Compress(r, class) ==
  CASE class = IS_V6   -> [dst |-> r.dst]
    [] class = IS_V4   -> [dst |-> Shrink(r.dst)]
    [] class = IS_SS   -> [src |-> r.src, dst |-> r.dst]
    [] class = IS_V4SS -> [src |-> Shrink(r.src), dst |-> Shrink(r.dst)]

(* from_rte6, from_rte4, from_rte6s, from_rte4s *)
Expand(e, class) ==
  CASE class = IS_V6   -> [src |-> Default, dst |-> e.dst]
    [] class = IS_V4   -> [src |-> Default, dst |-> Widen(e.dst)]
    [] class = IS_SS   -> [src |-> e.src, dst |-> e.dst]
    [] class = IS_V4SS -> [src |-> Widen(e.src), dst |-> Widen(e.dst)]

(* An index is a position in a pool and the class of the pool. *)
Index(i, class) == i * TagMod + class
Position(idx) == idx \div TagMod
Tag(idx) == (idx % TagMod) % 4

getroute(idx) == Expand(pool[Tag(idx)][Position(idx)], Tag(idx))

-------------------------------------------------------------------------------
(* Mutant of insaddr: the counter is advanced first. *)
insaddrNext(r) ==
  LET class == rte_classify(r)
      i == ctr[class]
  IN  /\ i < PoolSize
      /\ pool' = [pool EXCEPT ![class] =
                    [j \in DOMAIN @ \cup {i} |->
                       IF j = i THEN Compress(r, class) ELSE @[j]]]
      /\ UNCHANGED ctr
      /\ given' = [j \in DOMAIN given \cup {Index(i, class)} |->
                     IF j = Index(i, class) THEN r ELSE given[j]]

(* insaddr_generic and insaddr4, insaddr4s, insaddr6, insaddr6s *)
insaddr(r) ==
  LET class == rte_classify(r)
      i == ctr[class]
  IN  /\ i < PoolSize
      /\ pool' = [pool EXCEPT ![class] =
                    [j \in DOMAIN @ \cup {i} |->
                       IF j = i THEN Compress(r, class) ELSE @[j]]]
      /\ ctr' = [ctr EXCEPT ![class] = i + 1]
      /\ given' = [j \in DOMAIN given \cup {Index(i, class)} |->
                     IF j = Index(i, class) THEN r ELSE given[j]]

NextStore == \E r \in rte : insaddr(r)

SpecStore == InitStore /\ [][NextStore]_storeVars

-------------------------------------------------------------------------------
(* Properties. *)

(* The types, and every insertion has got an index of its own, of all pools
   together: there are as many as the counters say. *)
StoreTypeOK ==
  /\ ctr \in [Classes -> 0 .. PoolSize]
  /\ \A c \in Classes : DOMAIN pool[c] = 0 .. ctr[c] - 1
  /\ \A i \in DOMAIN given : given[i] \in rte
  /\ Cardinality(DOMAIN given) = ctr[IS_V6] + ctr[IS_V4] + ctr[IS_SS] + ctr[IS_V4SS]

(* The routes that one of the four forms can represent: no source, or one of
   the destination's family with an address other than ::, whose length is
   not looked at. *)
V4(p) == p.addr.d0 = Zero /\ p.addr.z = Mapped
Representable(r) ==
  \/ r.src = Default
  \/ V4(r.dst) /\ V4(r.src)
  \/ ~V4(r.dst) /\ r.src.addr # NoAddr

(* An index names the route that was inserted when it was handed out, field
   by field, whatever was inserted since and whatever its prefix lengths are
   (also an IPv4 one below 96, which wraps around in its pool). *)
IndexIsStable ==
  \A idx \in DOMAIN given :
    Representable(given[idx]) => getroute(idx) = given[idx]
===============================================================================
